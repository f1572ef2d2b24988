------------------------------- MODULE Mutator -------------------------------
(* What the running program does to the heap, with the write barrier each     *)
(* operation calls (VM/src/lvmexecute.cpp, lapi.cpp, ltable.cpp, lfunc.cpp,   *)
(* ldo.cpp, lstring.cpp).  The collector only steps between two operations    *)
(* (luaC_checkGC), so an operation is one action.                             *)
EXTENDS Heap

-----------------------------------------------------------------------------
(* Write barriers (lgc.h, lgc.cpp).                                          *)

NoBarrier == UNCHANGED <<colour, gray, grayagain>>

\* reallymarkobject on the objects of S.
MarkNow(c, S) ==
  LET M == Reached(c, S)
  IN /\ colour' = Marked(c, M)
     /\ gray' = gray \cup (M \cap Gclist)
     /\ UNCHANGED grayagain

WhiteIn(S) == {v \in S \cap Obj : IsWhite(colour, v)}

\* luaC_barrierf: mark what was stored, or give the owner up while sweeping.
luaC_barrierf(o, S) ==
  IF keepinvariant THEN MarkNow(colour, S)
  ELSE /\ colour' = [colour EXCEPT ![o] = currentwhite]
       /\ UNCHANGED <<gray, grayagain>>

\* luaC_barrierback: the owner will be traversed again.
luaC_barrierbackUnlinked(o) ==
  colour' = [colour EXCEPT ![o] = "gray"] /\ UNCHANGED <<gray, grayagain>>
luaC_barrierback(o) ==
  /\ colour' = [colour EXCEPT ![o] = "gray"]
  /\ grayagain' = grayagain \cup {o}
  /\ UNCHANGED gray

\* luaC_barrier and luaC_objbarrier.
luaC_barrierMissing(o, S) == NoBarrier
luaC_barrier(o, S) ==
  IF colour[o] = "black" /\ WhiteIn(S) # {} THEN luaC_barrierf(o, S)
  ELSE NoBarrier

\* luaC_barriert: forward in the second propagation stage, backward otherwise.
luaC_barriertMissing(t, S) == NoBarrier
luaC_barriert(t, S) ==
  IF colour[t] = "black" /\ WhiteIn(S) # {}
  THEN IF gcstate = "propagateagain" THEN MarkNow(colour, S)
       ELSE luaC_barrierback(t)
  ELSE NoBarrier

\* luaC_barrierfast and luaC_threadbarrier.
luaC_barrierfast(o) ==
  IF colour[o] = "black" THEN luaC_barrierback(o) ELSE NoBarrier

-----------------------------------------------------------------------------
(* The registers of the running thread.                                      *)

\* The program runs: neither atomic() nor luaC_fullgc is on its way.
Running == atomicpc = "none" /\ fullgc = "none"

Register == 1..top[run]
Held == {stack[run][i] : i \in Register}

\* What an instruction can load into a register: other registers, fields and
\* metatables of tables and userdata, captured values, references.
Fields(t) == UNION {{node[t][n].key, node[t][n].val} : n \in Used(t)}
Captured(cl) == IF uprefs[cl] \in UpVal THEN UpValue(uprefs[cl]) ELSE uprefs[cl]
Loadable ==
  {Nil} \cup Held \cup {mt[b] : b \in BasicType}
    \cup (UNION {Fields(t) : t \in Held \cap Table})
    \cup {metatable[o] : o \in Held \cap (Table \cup Udata)}
    \cup {Captured(cl) : cl \in Held \cap Closure}
    \cup {ref_array[r] : r \in RefId}

SetRegister(i, v) == stack' = [stack EXCEPT ![run][i] = v]

\* LOP_MOVE, LOP_LOADNIL, LOP_GETTABLE, LOP_GETUPVAL, lua_getrefpool: a stack
\* slot is written without a barrier, an active thread is traversed again.
Load(i) ==
  /\ Running /\ i \in Register
  /\ \E v \in Loadable \ {stack[run][i]} : SetRegister(i, v)
  /\ UNCHANGED <<colour, lists, phase, tables, top, upvals, uprefs,
                 roots, sched>>

\* luau_precall: the new frame reaches up to ci->top and its registers above
\* the arguments still hold what was there before.
Call(n) ==
  /\ Running /\ n \in Frame /\ n > top[run]
  /\ top' = [top EXCEPT ![run] = n]
  /\ UNCHANGED <<colour, lists, phase, tables, stack, upvals, uprefs,
                 roots, sched>>

\* LOP_RETURN: the frame is popped, its registers keep their values.  The
\* compiler closes the upvalues of a frame before it returns.
Return(n) ==
  /\ Running /\ n \in Frame /\ n < top[run]
  /\ \A uv \in openupval[run] : uplevel[uv] <= n
  /\ top' = [top EXCEPT ![run] = n]
  /\ UNCHANGED <<colour, lists, phase, tables, stack, upvals, uprefs,
                 roots, sched>>

-----------------------------------------------------------------------------
(* New objects: luaC_init gives them the current white.                      *)

luaC_init(new) ==
  colour' = [o \in Obj |-> IF o \in new THEN currentwhite ELSE colour[o]]

\* lua_createtable, lua_newuserdatatagged, lua_newbuffer and lua_newthread.
NewObject(o, i) ==
  /\ Running /\ i \in Register
  /\ o \in (Table \cup Udata \cup Leaf \cup Thread) \ heap
  /\ luaC_init({o})
  /\ SetRegister(i, o)
  /\ UNCHANGED <<lists, phase, tables, top, upvals, uprefs, roots, sched>>

\* luaS_newlstr: an equal string is reused, even one the sweep has not yet
\* reached though it is dead, which changewhite brings back.
luaS_newlstr(s) ==
  IF s \notin heap \/ isdead(s) THEN luaC_init({s}) ELSE UNCHANGED colour

NewString(s, i) ==
  /\ Running /\ i \in Register
  /\ luaS_newlstr(s)
  /\ SetRegister(i, s)
  /\ UNCHANGED <<lists, phase, tables, top, upvals, uprefs, roots, sched>>

\* LOP_NEWCLOSURE with a value, or the upvalue of another closure, captured; the
\* closure is in its register by then, so it may capture itself.
NewClosure(cl, v, i) ==
  /\ Running /\ i \in Register
  /\ cl \in Closure \ heap
  /\ SetRegister(i, cl)
  /\ \/ v \in {stack'[run][j] : j \in Register}
     \/ v \in {uprefs[c] : c \in Held \cap Closure}
  /\ luaC_init({cl})
  /\ uprefs' = [uprefs EXCEPT ![cl] = v]
  /\ UNCHANGED <<lists, phase, tables, top, upvals, roots, sched>>

\* LOP_NEWCLOSURE with a register captured by reference: luaF_findupval reuses
\* the upvalue open on that register or links a new one, without a barrier.
CaptureRef(cl, uv, level, i) ==
  /\ Running /\ i \in Register /\ level \in Register
  /\ cl \in Closure \ heap
  /\ LET found == {u \in openupval[run] : uplevel[u] = level}
     IN IF found # {} THEN /\ uv \in found
                           /\ luaC_init({cl})
                           /\ UNCHANGED upvals
        ELSE /\ uv \in UpVal \ heap
             /\ luaC_init({cl, uv})
             /\ openupval' = [openupval EXCEPT ![run] = @ \cup {uv}]
             /\ uvhead' = uvhead \cup {uv}
             /\ upthread' = [upthread EXCEPT ![uv] = run]
             /\ uplevel' = [uplevel EXCEPT ![uv] = level]
             /\ UNCHANGED <<upvalue, markedopen>>
  /\ uprefs' = [uprefs EXCEPT ![cl] = uv]
  /\ SetRegister(i, cl)
  /\ UNCHANGED <<lists, phase, tables, top, roots, sched>>

-----------------------------------------------------------------------------
(* Writes to objects.                                                        *)

\* luaH_set: the entry of the key, or a free one, into which newkey writes it.
Entry(t, k) ==
  LET found == {n \in Node : node[t][n].key = k}
  IN IF k \in Obj /\ found # {} THEN found
     ELSE {n \in Node : node[t][n].val = Nil \/ node[t][n].key = k}

\* LOP_SETTABLE and lua_rawset; a key that is not collectable is Nil here.
SetTable(t, n, k, v) ==
  /\ Running
  /\ t \in Held \cap Holder
  /\ k \in (Held \cap Key) \cup {Nil} /\ v \in Held \cup {Nil}
  /\ n \in Entry(t, k)
  /\ node' = [node EXCEPT ![t][n] = [key |-> k, val |-> v]]
  /\ luaC_barriert(t, IF node[t][n].key = k THEN {v} ELSE {k, v})
  /\ UNCHANGED <<weak, phase, metatable, mode, stacks, upvals, uprefs,
                 roots, sched>>

\* LOP_SETLIST and table.move: one backward barrier for all the writes.
SetList(t, n, v) ==
  /\ Running
  /\ t \in Held \cap Holder /\ v \in Held \cup {Nil}
  /\ n \in Entry(t, Nil)
  /\ node' = [node EXCEPT ![t][n] = [key |-> Nil, val |-> v]]
  /\ luaC_barrierfast(t)
  /\ UNCHANGED <<weak, phase, metatable, mode, stacks, upvals, uprefs,
                 roots, sched>>

\* lua_setmetatable on a table or a userdata.
SetMetatable(o, m) ==
  /\ Running
  /\ o \in Held \cap (Holder \cup Udata)
  /\ m \in (Held \cap Meta) \cup {Nil}
  /\ metatable' = [metatable EXCEPT ![o] = m]
  /\ luaC_barrier(o, {m})
  /\ UNCHANGED <<weak, phase, node, mode, stacks, upvals, uprefs, roots,
                 sched>>

\* A script assigns the __mode field of a metatable.
SetMode(m, md) ==
  /\ Running
  /\ m \in Held \cap Meta
  /\ mode' = [mode EXCEPT ![m] = md]
  /\ UNCHANGED <<colour, lists, phase, node, metatable, stacks, upvals,
                 uprefs, roots, sched>>

\* lua_setmetatable on a value of a basic type: no barrier, atomic() marks it.
SetBasicMt(b, m) ==
  /\ Running
  /\ m \in (Held \cap Meta) \cup {Nil}
  /\ mt' = [mt EXCEPT ![b] = m]
  /\ UNCHANGED <<colour, lists, phase, tables, stacks, upvals, uprefs,
                 ref_array, gc_ref_gray, sched>>

\* setobj to the value behind an upvalue: a slot of some stack while it is open.
WriteUpval(uv, v) ==
  IF upisopen(uv)
  THEN /\ stack' = [stack EXCEPT ![upthread[uv]][uplevel[uv]] = v]
       /\ UNCHANGED upvalue
  ELSE /\ upvalue' = [upvalue EXCEPT ![uv] = v]
       /\ UNCHANGED stack

\* LOP_SETUPVAL.
SetUpval(cl, v) ==
  /\ Running
  /\ cl \in Held \cap Closure /\ v \in Held \cup {Nil}
  /\ uprefs[cl] \in UpVal
  /\ WriteUpval(uprefs[cl], v)
  /\ luaC_barrier(uprefs[cl], {v})
  /\ UNCHANGED <<weak, phase, tables, top, openupval, uvhead, upthread,
                 uplevel, markedopen, uprefs, roots, sched>>

\* lua_setupvalue, for a value the closure holds itself (GarbageCollection has
\* the other case); the members of a class and of an object are written with the
\* same forward barrier.
lua_setupvalue(cl, v) ==
  /\ Running
  /\ cl \in Held \cap Closure /\ v \in Held \cup {Nil}
  /\ uprefs[cl] \notin UpVal
  /\ uprefs' = [uprefs EXCEPT ![cl] = v]
  /\ luaC_barrier(cl, {v})
  /\ UNCHANGED <<weak, phase, tables, stacks, upvals, roots, sched>>

\* luaF_close: the upvalues open on th at the level or above take their value
\* with them; luaC_upvalclosed repairs the colour of those already marked.
luaF_close(th, level) ==
  LET C == {uv \in openupval[th] : uplevel[uv] >= level}
      marked == {uv \in C : colour[uv] = "gray"}
      recolour(x) == [o \in Obj |-> IF o \in marked THEN x ELSE colour[o]]
  IN /\ openupval' = [openupval EXCEPT ![th] = @ \ C]
     /\ uvhead' = uvhead \ C
     /\ upthread' = [uv \in UpVal |-> IF uv \in C THEN Nil ELSE upthread[uv]]
     /\ uplevel' = [uv \in UpVal |-> IF uv \in C THEN 0 ELSE uplevel[uv]]
     /\ upvalue' = [uv \in UpVal |-> IF uv \in C THEN UpValue(uv)
                                     ELSE upvalue[uv]]
     /\ markedopen' = markedopen \ C
     /\ IF keepinvariant
        THEN MarkNow(recolour("black"), {UpValue(uv) : uv \in marked})
        ELSE colour' = recolour(currentwhite) /\ UNCHANGED <<gray, grayagain>>

\* LOP_CLOSEUPVALS.
CloseUpvals(level) ==
  /\ Running
  /\ \E uv \in openupval[run] : uplevel[uv] >= level
  /\ luaF_close(run, level)
  /\ UNCHANGED <<weak, phase, tables, stacks, uprefs, roots, sched>>

-----------------------------------------------------------------------------
(* Coroutines, as far as the collector sees them.                            *)

Suspended == (Held \cap Thread) \ (isactive \cup {MainThread})

\* lua_resume: resume_start marks the thread active, with a backward barrier.
\* The caller's stack keeps the coroutine, as an argument no closure captures.
Resume(co) ==
  /\ Running
  /\ co \in Suspended
  /\ \E i \in Register : /\ stack[run][i] = co
                         /\ \A uv \in openupval[run] : uplevel[uv] # i
  /\ isactive' = isactive \cup {co}
  /\ run' = co
  /\ caller' = [caller EXCEPT ![co] = run]
  /\ luaC_barrierfast(co)
  /\ UNCHANGED <<weak, phase, tables, stacks, upvals, uprefs, roots>>

\* resume_finish, after a yield, a return or an error.
Yield ==
  /\ Running
  /\ run # MainThread
  /\ isactive' = isactive \ {run}
  /\ run' = caller[run]
  /\ caller' = [caller EXCEPT ![run] = Nil]
  /\ UNCHANGED <<colour, lists, phase, tables, stacks, upvals, uprefs,
                 roots>>

\* lua_xmove and lua_xpush to a thread that does not run.
XPushUnchecked(co, v) ==
  /\ Running
  /\ co \in Suspended /\ v \in Held
  /\ stack' = [stack EXCEPT ![co] = [i \in Slot |-> IF i = top[co] + 1 THEN v ELSE @[i]]]
  /\ top' = [top EXCEPT ![co] = @ + 1]
  /\ luaC_barrierfast(co)
  /\ UNCHANGED <<weak, phase, tables, upvals, uprefs, roots, sched>>
XPush(co, v) ==
  /\ Running
  /\ co \in Suspended /\ v \in Held
  /\ top[co] < StackSize
  /\ stack' = [stack EXCEPT ![co][top[co] + 1] = v]
  /\ top' = [top EXCEPT ![co] = @ + 1]
  /\ luaC_barrierfast(co)
  /\ UNCHANGED <<weak, phase, tables, upvals, uprefs, roots, sched>>

\* lua_xmove of a result out of a suspended thread, whose stack keeps the
\* value above its new top.
XPop(co, i) ==
  /\ Running
  /\ co \in Suspended /\ i \in Register
  /\ top[co] > 0
  /\ \A uv \in openupval[co] : uplevel[uv] < top[co]
  /\ SetRegister(i, stack[co][top[co]])
  /\ top' = [top EXCEPT ![co] = @ - 1]
  /\ UNCHANGED <<colour, lists, phase, tables, upvals, uprefs, roots,
                 sched>>

\* lua_resetthread, for coroutine.close.
ResetThread(co) ==
  /\ Running
  /\ co \in Suspended
  /\ luaF_close(co, 1)
  /\ stack' = [stack EXCEPT ![co] = EmptyStack]
  /\ top' = [top EXCEPT ![co] = 0]
  /\ UNCHANGED <<weak, phase, tables, uprefs, roots, sched>>

-----------------------------------------------------------------------------
(* The reference pool; its free list is the subject of module References.    *)

\* lua_refpool: the pool is a root without a barrier.
RefUnflagged(r, v) ==
  /\ Running
  /\ ref_array[r] = Nil /\ v \in Held \ {Nil}
  /\ ref_array' = [ref_array EXCEPT ![r] = v]
  /\ UNCHANGED <<colour, lists, phase, tables, stacks, upvals, uprefs,
                 gc_ref_gray, mt, sched>>
Ref(r, v) ==
  /\ Running
  /\ ref_array[r] = Nil /\ v \in Held \ {Nil}
  /\ ref_array' = [ref_array EXCEPT ![r] = v]
  /\ gc_ref_gray' = TRUE
  /\ UNCHANGED <<colour, lists, phase, tables, stacks, upvals, uprefs,
                 mt, sched>>

\* lua_unrefpool.
Unref(r) ==
  /\ Running
  /\ ref_array[r] # Nil
  /\ ref_array' = [ref_array EXCEPT ![r] = Nil]
  /\ UNCHANGED <<colour, lists, phase, tables, stacks, upvals, uprefs,
                 gc_ref_gray, mt, sched>>

Mutate ==
  \/ \E i \in Slot : Load(i) \/ Call(i) \/ CloseUpvals(i)
  \/ \E n \in 0..StackSize - 1 : Return(n)
  \/ \E i \in Slot :
       \/ \E o \in Table \cup Udata \cup Leaf \cup Thread : NewObject(o, i)
       \/ \E s \in Str : NewString(s, i)
       \/ \E cl \in Closure, v \in Obj \cup {Nil} : NewClosure(cl, v, i)
       \/ \E cl \in Closure, uv \in UpVal, l \in Slot : CaptureRef(cl, uv, l, i)
       \/ \E co \in Thread : XPop(co, i)
  \/ \E t \in Holder, n \in Node, v \in Value \cup {Nil} :
       SetList(t, n, v) \/ \E k \in Key \cup {Nil} : SetTable(t, n, k, v)
  \/ \E o \in Holder \cup Udata, m \in Meta \cup {Nil} : SetMetatable(o, m)
  \/ \E m \in Meta, md \in Mode : SetMode(m, md)
  \/ \E b \in BasicType, m \in Meta \cup {Nil} : SetBasicMt(b, m)
  \/ \E cl \in Closure, v \in Value \cup {Nil} :
       SetUpval(cl, v) \/ lua_setupvalue(cl, v)
  \/ \E co \in Thread :
       \/ Resume(co) \/ ResetThread(co)
       \/ \E v \in Value \cup {Nil} : XPush(co, v)
  \/ Yield
  \/ \E r \in RefId : Unref(r) \/ \E v \in Value : Ref(r, v)
=============================================================================
