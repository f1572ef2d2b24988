------------------------------ MODULE Collector ------------------------------
(* The incremental mark and sweep collector: gcstep and everything it calls   *)
(* (VM/src/lgc.cpp).  A step marks one object or sweeps one page and then the *)
(* program may run; atomic() and luaC_fullgc run to their end without it, as  *)
(* atomicpc and fullgc record.                                                *)
EXTENDS Heap

-----------------------------------------------------------------------------
(* propagatemark: one gray object is traversed and turned black.             *)

\* traversetable: the keys and the values that are not weak.
TableChildren(t) ==
  LET m == TableMode(t)
  IN {metatable[t]}
       \cup {node[t][n].key : n \in IF "k" \in m THEN {} ELSE Used(t)}
       \cup {node[t][n].val : n \in IF "v" \in m THEN {} ELSE Used(t)}

\* traversestack: the slots in use and the upvalues open on them.
StackChildren(th) == {stack[th][i] : i \in 1..top[th]} \cup openupval[th]

Children(o) == IF o \in Table THEN TableChildren(o)
               ELSE IF o \in Thread THEN StackChildren(o)
               ELSE {uprefs[o]}

StaysGrayOnlyWeak(o) == o \in Table /\ TableMode(o) # {}
StaysGray(o) == \/ o \in Table /\ TableMode(o) # {}
                \/ o \in Thread /\ Active(o)

\* The objects marked by the traversal of o, and the colours it leaves.
NewlyMarked(o) == Reached([colour EXCEPT ![o] = "black"], Children(o))
ColourAfter(o) ==
  [Marked(colour, NewlyMarked(o)) EXCEPT ![o] =
     IF StaysGray(o) THEN "gray" ELSE "black"]

GrayAfter(o) == (gray \ {o}) \cup (NewlyMarked(o) \cap Gclist)
GrayagainAfter(o) ==
  IF o \in Thread /\ Active(o) THEN grayagain \cup {o} ELSE grayagain
WeakAfter(o) ==
  IF o \in Table /\ TableMode(o) # {} THEN weak \cup {o} ELSE weak

\* removeentry: the key of an entry without a value must not be found again.
RemoveEntryKeepsKey(e) == e
RemoveEntry(e) == [e EXCEPT !.key = IF @ \in Obj THEN DeadKey ELSE @]

\* traversetable leaves the entries of a table alone when it is weak in both
\* ways, and drops the keys of the empty ones otherwise.
NodeAfter(o) ==
  IF o \notin Table \/ TableMode(o) = {"k", "v"} THEN node
  ELSE [node EXCEPT ![o] = [n \in Node |-> IF n \in Used(o) THEN @[n]
                                           ELSE RemoveEntry(@[n])]]

\* clearstack: the slots above top are not marked, so they must be emptied
\* after the last traversal of the thread before the sweep.
StackAfterNotCleared(o) == stack
StackAfter(o) ==
  IF o \in Thread /\ (~Active(o) \/ gcstate = "atomic")
  THEN [stack EXCEPT ![o] = [i \in Slot |-> IF i <= top[o] THEN @[i] ELSE Nil]]
  ELSE stack

MarkedopenAfter(o) ==
  IF o \in Thread THEN markedopen \cup openupval[o] ELSE markedopen

propagatemark(o) ==
  /\ colour' = ColourAfter(o)
  /\ weak' = WeakAfter(o)
  /\ node' = NodeAfter(o)
  /\ stack' = StackAfter(o)
  /\ markedopen' = MarkedopenAfter(o)
  /\ UNCHANGED <<metatable, mode, top, openupval, uvhead, upthread,
                 uplevel, upvalue, uprefs, ref_array, mt, sched>>

-----------------------------------------------------------------------------
(* gcstep in the states GCSpause, GCSpropagate and GCSpropagateagain.        *)

Pool == {ref_array[r] : r \in RefId}
BasicMt == {mt[b] : b \in BasicType}

\* markroot: the lists are reset and the roots marked.
markroot ==
  LET M == Reached(colour, {MainThread} \cup Pool \cup BasicMt)
  IN /\ colour' = Marked(colour, M)
     /\ gray' = M \cap Gclist
     /\ grayagain' = {}
     /\ weak' = {}
     /\ gc_ref_gray' = FALSE
     /\ gcstate' = "propagate"
     /\ UNCHANGED <<currentwhite, sweepgcopage, atomicpc, tables, stacks,
                    openupval, uvhead, upthread, uplevel, upvalue, uprefs,
                    ref_array, mt, sched>>

GcPause ==
  /\ gcstate = "pause"
  /\ fullgc = "none"
  /\ markroot
  /\ UNCHANGED <<markedopen, fullgc>>

\* The gray list is exhausted once; the objects caught since are next.
GcPropagate ==
  /\ gcstate = "propagate"
  /\ \E o \in gray :
       /\ propagatemark(o)
       /\ IF GrayAfter(o) = {}
          THEN /\ gray' = GrayagainAfter(o)
               /\ grayagain' = {}
               /\ gcstate' = "propagateagain"
          ELSE /\ gray' = GrayAfter(o)
               /\ grayagain' = GrayagainAfter(o)
               /\ UNCHANGED gcstate
  /\ UNCHANGED <<currentwhite, sweepgcopage, atomicpc, fullgc, gc_ref_gray>>

GcPropagateagainUntilQuiet ==
  /\ gcstate = "propagateagain"
  /\ \E o \in gray :
       /\ propagatemark(o)
       /\ IF GrayAfter(o) = {}
          THEN gray' = GrayagainAfter(o) /\ grayagain' = {}
          ELSE gray' = GrayAfter(o) /\ grayagain' = GrayagainAfter(o)
       /\ gcstate' = IF gray' = {} THEN "atomic" ELSE gcstate
  /\ UNCHANGED <<currentwhite, sweepgcopage, atomicpc, fullgc, gc_ref_gray>>
GcPropagateagain ==
  /\ gcstate = "propagateagain"
  /\ \E o \in gray :
       /\ propagatemark(o)
       /\ gray' = GrayAfter(o)
       /\ grayagain' = GrayagainAfter(o)
       /\ gcstate' = IF GrayAfter(o) = {} THEN "atomic" ELSE gcstate
  /\ UNCHANGED <<currentwhite, sweepgcopage, atomicpc, fullgc, gc_ref_gray>>

-----------------------------------------------------------------------------
(* atomic: each part marks more objects and propagates them to the end.      *)

AtomicMark(M) ==
  /\ colour' = Marked(colour, M)
  /\ UNCHANGED <<currentwhite, gcstate, sweepgcopage, fullgc, tables,
                 stacks, upvals, uprefs, ref_array, mt, sched>>

\* remarkupvals: the value behind an open upvalue may have been assigned
\* without a barrier, on the stack of a thread that was already traversed.
AtomicUpvals ==
  /\ gcstate = "atomic" /\ atomicpc = "none"
  /\ atomicpc' = "upvals"
  /\ LET M == Reached(colour,
                      {UpValue(uv) : uv \in {u \in uvhead : colour[u] = "gray"}})
     IN /\ AtomicMark(M)
        /\ gray' = gray \cup (M \cap Gclist)
  /\ UNCHANGED <<grayagain, weak, gc_ref_gray>>

\* propagateall: one turn of its loop.
AtomicPropagate ==
  /\ atomicpc # "none"
  /\ \E o \in gray :
       /\ propagatemark(o)
       /\ gray' = GrayAfter(o)
       /\ grayagain' = GrayagainAfter(o)
  /\ UNCHANGED <<phase, gc_ref_gray>>

\* Weak tables are traversed again, with the running thread and the basic
\* metatables, which are assigned without a barrier.
AtomicWeakForgotten ==
  /\ atomicpc = "upvals" /\ gray = {}
  /\ atomicpc' = "weak"
  /\ LET M == Reached(colour, {run} \cup BasicMt)
     IN /\ AtomicMark(M)
        /\ gray' = M \cap Gclist
  /\ UNCHANGED <<grayagain, weak, gc_ref_gray>>
AtomicWeak ==
  /\ atomicpc = "upvals" /\ gray = {}
  /\ atomicpc' = "weak"
  /\ LET M == Reached(colour, {run} \cup BasicMt)
     IN /\ AtomicMark(M)
        /\ gray' = weak \cup (M \cap Gclist)
  /\ weak' = {}
  /\ UNCHANGED <<grayagain, gc_ref_gray>>

AtomicGrayagainForgotten ==
  /\ atomicpc = "weak" /\ gray = {}
  /\ atomicpc' = "again"
  /\ AtomicMark({})
  /\ UNCHANGED <<lists, gc_ref_gray>>
AtomicGrayagain ==
  /\ atomicpc = "weak" /\ gray = {}
  /\ atomicpc' = "again"
  /\ AtomicMark({})
  /\ gray' = grayagain
  /\ grayagain' = {}
  /\ UNCHANGED <<weak, gc_ref_gray>>

\* The pool is marked again when it was written during the cycle.
AtomicRefs ==
  /\ atomicpc = "again" /\ gray = {}
  /\ atomicpc' = "refs"
  /\ LET M == IF gc_ref_gray THEN Reached(colour, Pool) ELSE {}
     IN /\ AtomicMark(M)
        /\ gray' = M \cap Gclist
  /\ gc_ref_gray' = FALSE
  /\ UNCHANGED <<grayagain, weak>>

-----------------------------------------------------------------------------
(* The end of atomic: cleartable, clearupvals and the flip of the whites.    *)

\* isobjcleared: strings behave as values and are never removed.
IsClearedNever(o) == FALSE
IsCleared(o) == o \in Obj \ Str /\ IsWhite(colour, o)

\* The strings isobjcleared marks: the key of every entry in use, and its
\* value when the key did not decide.
WeakStrings ==
  LET e == {node[t][n] : t \in weak, n \in Node}
      used == {x \in e : x.val # Nil}
  IN heap \cap Str \cap ({x.key : x \in used}
                         \cup {x.val : x \in {y \in used : ~IsCleared(y.key)}})

cleartable ==
  [t \in Table |->
     IF t \notin weak THEN node[t]
     ELSE [n \in Node |->
             IF node[t][n].val # Nil
                  /\ (IsCleared(node[t][n].key) \/ IsCleared(node[t][n].val))
             THEN RemoveEntry([node[t][n] EXCEPT !.val = Nil])
             ELSE node[t][n]]]

\* clearupvals: an upvalue no live thread has open is unlinked, and closed
\* unless it is dead itself.
Orphans == uvhead \ markedopen
ToClose == {uv \in Orphans : colour[uv] = "gray"}

AtomicFinish ==
  /\ atomicpc = "refs" /\ gray = {}
  /\ LET closed == [o \in Obj |->
                      IF o \in ToClose \cup WeakStrings THEN "black"
                      ELSE colour[o]]
         M == Reached(closed, {UpValue(uv) : uv \in ToClose})
     IN /\ colour' = Marked(closed, M)
        /\ gray' = M \cap Gclist
  /\ node' = cleartable
  /\ weak' = {}
  /\ uvhead' = uvhead \ Orphans
  /\ upthread' = [uv \in UpVal |-> IF uv \in ToClose THEN Nil ELSE upthread[uv]]
  /\ uplevel' = [uv \in UpVal |-> IF uv \in ToClose THEN 0 ELSE uplevel[uv]]
  /\ upvalue' = [uv \in UpVal |-> IF uv \in ToClose THEN UpValue(uv)
                                  ELSE upvalue[uv]]
  /\ markedopen' = markedopen \ uvhead
  /\ currentwhite' = otherwhite
  /\ sweepgcopage' = {PageOf[o] : o \in heap \ {MainThread}}
  /\ gcstate' = "sweep"
  /\ atomicpc' = "none"
  /\ UNCHANGED <<grayagain, fullgc, metatable, mode, stacks, openupval,
                 uprefs, roots, sched>>

-----------------------------------------------------------------------------
(* gcstep in the state GCSsweep, and luaC_fullgc.                            *)

\* freeobj, seen from the heap: the block is gone, and the model gives the
\* fields the values the next constructor will store.
Keep(f, gone, fresh) ==
  [o \in DOMAIN f |-> IF o \in gone THEN fresh ELSE f[o]]

freeobj(gone) ==
  /\ node' = Keep(node, gone, EmptyNodes)
  /\ metatable' = Keep(metatable, gone, Nil)
  /\ mode' = Keep(mode, gone, {})
  /\ stack' = Keep(stack, gone, EmptyStack)
  /\ top' = Keep(top, gone, 0)
  /\ openupval' = Keep(openupval, gone, {})
  /\ upthread' = Keep(upthread, gone, Nil)
  /\ uplevel' = Keep(uplevel, gone, 0)
  /\ upvalue' = Keep(upvalue, gone, Nil)
  /\ uprefs' = Keep(uprefs, gone, Nil)
  /\ markedopen' = markedopen \ gone

\* sweepgcopage: the dead objects of a page are freed, the others turned white
\* for the next cycle.  The main thread is in no page and comes last.
GcSweep ==
  /\ gcstate = "sweep"
  /\ \E p \in sweepgcopage :
       LET swept == {o \in heap \ {MainThread} : PageOf[o] = p}
           dead == {o \in swept : isdead(o)}
           last == sweepgcopage = {p}
       IN /\ freeobj(dead)
          /\ colour' = [o \in Obj |->
                          IF o \in dead THEN "free"
                          ELSE IF o \in swept \/ (last /\ o = MainThread)
                               THEN currentwhite ELSE colour[o]]
          /\ sweepgcopage' = sweepgcopage \ {p}
          /\ gcstate' = IF last THEN "pause" ELSE "sweep"
          /\ fullgc' = IF last /\ fullgc = "cycle" THEN "none" ELSE fullgc
  /\ UNCHANGED <<lists, currentwhite, atomicpc, uvhead, roots, sched>>

\* The sweep of a heap that holds nothing but the main thread.
GcSweepNothing ==
  /\ gcstate = "sweep" /\ sweepgcopage = {}
  /\ colour' = [colour EXCEPT ![MainThread] = currentwhite]
  /\ gcstate' = "pause"
  /\ fullgc' = IF fullgc = "cycle" THEN "none" ELSE fullgc
  /\ UNCHANGED <<lists, currentwhite, sweepgcopage, atomicpc, tables,
                 stacks, upvals, uprefs, roots, sched>>

\* luaC_fullgc gives up a mark phase it finds half done: every object is swept
\* back to white, without a flip, so that none of them dies.
FullGcSkipsSweep ==
  /\ fullgc = "none" /\ atomicpc = "none"
  /\ run \in Collects
  /\ fullgc' = "sweep"
  /\ IF keepinvariant
     THEN /\ sweepgcopage' = {PageOf[o] : o \in heap \ {MainThread}}
          /\ gray' = {} /\ grayagain' = {} /\ weak' = {}
          /\ gcstate' = "pause"
     ELSE UNCHANGED <<sweepgcopage, gray, grayagain, weak, gcstate>>
  /\ UNCHANGED <<colour, currentwhite, atomicpc, tables, stacks, upvals, uprefs,
                 roots, sched>>
FullGc ==
  /\ fullgc = "none" /\ atomicpc = "none"
  /\ run \in Collects
  /\ fullgc' = "sweep"
  /\ IF keepinvariant
     THEN /\ sweepgcopage' = {PageOf[o] : o \in heap \ {MainThread}}
          /\ gray' = {} /\ grayagain' = {} /\ weak' = {}
          /\ gcstate' = "sweep"
     ELSE UNCHANGED <<sweepgcopage, gray, grayagain, weak, gcstate>>
  /\ UNCHANGED <<colour, currentwhite, atomicpc, tables, stacks, upvals,
                 uprefs, roots, sched>>

\* With the sweep finished, the bits a half-finished mark left are cleared and
\* a whole cycle is run.
FullGcMarkBitsKept ==
  /\ fullgc = "sweep" /\ gcstate = "pause"
  /\ fullgc' = "cycle"
  /\ UNCHANGED markedopen
  /\ markroot
FullGcMark ==
  /\ fullgc = "sweep" /\ gcstate = "pause"
  /\ fullgc' = "cycle"
  /\ markedopen' = markedopen \ uvhead
  /\ markroot

GcStep ==
  \/ GcPause \/ GcPropagate \/ GcPropagateagain
  \/ AtomicUpvals \/ AtomicPropagate \/ AtomicWeak \/ AtomicGrayagain
  \/ AtomicRefs \/ AtomicFinish
  \/ GcSweep \/ GcSweepNothing
  \/ FullGcMark
=============================================================================
