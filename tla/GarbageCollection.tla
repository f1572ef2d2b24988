-------------------------- MODULE GarbageCollection --------------------------
(* The program and the collector together, and what must hold of them.        *)
EXTENDS Collector, Mutator

Next == GcStep \/ FullGc \/ Mutate

Spec == Init /\ [][Next]_vars

\* luaC_checkGC runs a step whenever the heap has grown past the threshold, so
\* a program that keeps allocating keeps the collector going.
FairSpec == Spec /\ WF_vars(GcStep)

-----------------------------------------------------------------------------
(* Safety.                                                                   *)

Live(o) == o \in heap /\ ~isdead(o)

\* Everything an object refers to, weakly or not; the slots of a stack above
\* its top count, since the next call puts them in use again unwritten.
Refs(o) ==
  IF o \in Table THEN {metatable[o]} \cup Fields(o)
  ELSE IF o \in Thread THEN {stack[o][i] : i \in Slot} \cup openupval[o]
  ELSE IF o \in Closure THEN {uprefs[o]}
  ELSE IF o \in Udata THEN {metatable[o]}
  ELSE IF o \in UpVal THEN {UpValue(o)}
  ELSE {}

Roots == {MainThread, run} \cup isactive \cup Pool \cup BasicMt

\* No live object and no root refers to an object that was freed or is about to
\* be (the liveness checks of luaC_validate, validateobjref and validatestack).
NoDangling ==
  /\ \A o \in Roots \ {Nil} : Live(o)
  /\ \A o \in heap : Live(o) => \A r \in Refs(o) \ {Nil} : Live(r)

\* A slot of a stack that an open upvalue reaches: SETUPVAL writes it without a
\* barrier on the thread, remarkupvals makes up for it.
Shared(th, i) == \E uv \in openupval[th] : uplevel[uv] = i /\ colour[uv] = "gray"

\* The main invariant of lgc.h: while marking, a black object never refers to a
\* white one (validateobjref); the slots of open upvalues are the exception.
BlackNeverToWhite ==
  keepinvariant =>
    \A o \in heap : colour[o] = "black" =>
      IF o \in Thread
      THEN /\ \A i \in 1..top[o] : \/ stack[o][i] = Nil
                                   \/ ~IsWhite(colour, stack[o][i])
                                   \/ Shared(o, i)
           /\ \A uv \in openupval[o] : ~IsWhite(colour, uv)
      ELSE \A r \in Refs(o) \ {Nil} : ~IsWhite(colour, r)

\* While marking, a gray object that can be traversed waits in exactly one list,
\* through its one gclist field, and a list holds nothing else (validategraylist,
\* the assertions of propagatemark).
GrayLists ==
  keepinvariant =>
    /\ gray \cap grayagain = {} /\ gray \cap weak = {} /\ grayagain \cap weak = {}
    /\ gray \cup grayagain \cup weak = {o \in heap \cap Gclist : colour[o] = "gray"}

\* Leaf objects are never gray, open upvalues never black, a thread that runs
\* never black (luaF_findupval, clearupvals and luau_execute assert it).
ColourDiscipline ==
  /\ \A o \in heap \cap (Str \cup Leaf \cup Udata) : colour[o] # "gray"
  /\ \A uv \in heap \cap UpVal : 
       colour[uv] # (IF upisopen(uv) THEN "black" ELSE "gray")
  /\ \A th \in heap \cap Thread : Active(th) => colour[th] # "black"

\* Dead objects exist only while sweeping (validateobj), and between two cycles
\* everything is white, so that no barrier fires (the assertions of luaC_barrierf
\* and luaC_barrierback).
DeadOnlyInSweep ==
  /\ gcstate # "sweep" => \A o \in heap : ~isdead(o)
  /\ gcstate = "pause" => \A o \in heap : colour[o] = currentwhite

\* The list of open upvalues is the union of the lists of the live threads: an
\* open upvalue never outlives the stack it points into.
OpenUpvals ==
  atomicpc = "none" =>
    /\ uvhead = UNION {openupval[th] : th \in {t \in heap \cap Thread : ~isdead(t)}}
    /\ \A uv \in uvhead : uv \in openupval[upthread[uv]]

-----------------------------------------------------------------------------
(* Reachability, for the properties of what the collector may and must free. *)

\* A weak table holds on to its metatable, to its keys or values if only the
\* others are weak, and to strings, which behave as values.
StrongRefs(o) ==
  IF o \in Table
  THEN LET used == {node[o][n] : n \in Used(o)}
           m == TableMode(o)
       IN {metatable[o]} \cup {e.key : e \in {x \in used : "k" \notin m}}
            \cup {e.val : e \in {x \in used : "v" \notin m}}
            \cup (Str \cap UNION {{e.key, e.val} : e \in used})
  ELSE IF o \in Thread THEN {stack[o][i] : i \in 1..top[o]} \cup openupval[o]
  ELSE Refs(o)

Reachable ==
  LET R[n \in 0..Cardinality(Obj)] ==
        IF n = 0 THEN ({MainThread, run} \cup Pool \cup BasicMt) \ {Nil}
        ELSE LET S == R[n - 1]
             IN S \cup ((UNION {StrongRefs(o) : o \in S}) \ {Nil})
  IN R[Cardinality(Obj)]

\* The collector takes an entry out of a table only when its key or its value
\* cannot be reached but through weak references (cleartable).
WeakEntriesKept ==
  [][atomicpc = "refs" =>
       \A t \in Table : \A n \in Used(t) :
         \/ node'[t][n].val # Nil
         \/ ~({node[t][n].key, node[t][n].val} \ {Nil} \subseteq Reachable)]_vars

\* An object that cannot be reached is freed in the end, unless the program gets
\* hold of it again, through a weak table or as an interned string (gcstep).
GarbageIsFreed ==
  \A o \in Obj \ {MainThread} :
    (o \in heap /\ o \notin Reachable) ~> (o \notin heap \/ o \in Reachable)

-----------------------------------------------------------------------------
(* Two calls of the host for which the code misses a barrier.                *)

\* lua_resume on a thread that cannot be resumed: resume_error pushes a message
\* on that thread, without luaC_threadbarrier.
resume_error(co, s) ==
  /\ Running
  /\ co \in Suspended
  /\ top[co] < StackSize
  /\ luaS_newlstr(s)
  /\ stack' = [stack EXCEPT ![co][top[co] + 1] = s]
  /\ top' = [top EXCEPT ![co] = @ + 1]
  /\ UNCHANGED <<lists, phase, tables, upvals, uprefs, roots, sched>>

\* lua_setupvalue on a closure that has captured an upvalue: aux_upvalue leads to
\* the value of the upvalue, but the barrier is on the closure.
SetSharedUpvalue(cl, v) ==
  /\ Running
  /\ cl \in Held \cap Closure /\ v \in Held \cup {Nil}
  /\ uprefs[cl] \in UpVal
  /\ WriteUpval(uprefs[cl], v)
  /\ luaC_barrier(cl, {v})
  /\ UNCHANGED <<weak, phase, tables, top, openupval, uvhead, upthread,
                 uplevel, markedopen, uprefs, roots, sched>>

HostSpec ==
  Init /\ [][\/ Next
           \/ \E co \in Thread, s \in Str : resume_error(co, s)
           \/ \E cl \in Closure, v \in Value \cup {Nil} : SetSharedUpvalue(cl, v)]_vars
=============================================================================
