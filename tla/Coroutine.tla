----------------------------- MODULE Coroutine -----------------------------
(* Coroutines and protected calls (ldo.cpp, lcorolib.cpp, lbaselib.cpp): the  *)
(* frames of every thread, the one native stack they share, the two counters  *)
(* of C calls that decide when a thread may yield, and what a yield, a break  *)
(* or an error does to all of them.                                           *)
EXTENDS Integers, Sequences, FiniteSets, SequencesExt

CONSTANTS
  Thread, MainThread,
  Flags,          \* settings of the fast flags that ldo.cpp, laux.cpp and lvmexecute.cpp read
  MaxCcalls,      \* LUAI_MAXCCALLS
  HardLimit,      \* the limit for calls made while an overflow is handled
  MaxFrames       \* bound: the frames of all threads when the program calls on

ASSUME CoroutineAssumption ==
  /\ MainThread \in Thread
  /\ Flags \subseteq [LuauCustomYieldablePcalls : BOOLEAN,
                     LuauXpcallFixMessageYieldPath : BOOLEAN, LuauYieldIter2 : BOOLEAN]
  /\ MaxCcalls \in Nat /\ HardLimit \in Nat /\ MaxFrames \in Nat
  /\ 1 < MaxCcalls /\ MaxCcalls < HardLimit

VARIABLES
  L,       \* the lua_State of every thread
  cs,      \* the native stack: the C++ activations that wait for a callee or run
  flags    \* the fast flags, fixed at the start
vars == <<L, cs, flags>>

\* coroutine.yield and other functions without a continuation, the two protected
\* calls, a function that uses luaL_callyieldable, coroutine.resume or wrap.
CFunction == {"c", "pcall", "xpcall", "k", "resume"}
Yielded == {"YIELD", "BREAK", "REENTRY"}

\* A CallInfo: the function, the coroutine a resume is for, LUA_CALLINFO_HANDLE
\* and LUA_CALLINFO_RETURN.
CallInfo == [fn : CFunction \cup {"lua"}, tgt : Thread, handle : BOOLEAN, ret : BOOLEAN]
Frame(fn, co, ret) == [fn |-> fn, tgt |-> co, handle |-> FALSE, ret |-> ret]

Fresh == [status |-> "OK", ci |-> <<>>, nCcalls |-> 0, baseCcalls |-> 0,
          isactive |-> FALSE, hasfn |-> TRUE]

Init ==
  /\ L = [th \in Thread |-> [Fresh EXCEPT !.hasfn = th # MainThread]]
  /\ cs = <<>>
  /\ flags \in Flags

\* A step on one thread.
Become(th, l, stack) ==
  /\ L' = [L EXCEPT ![th] = l]
  /\ cs' = stack
  /\ UNCHANGED flags

Execute(th) == [k |-> "execute", th |-> th]
CBody(th, i, pc) == [k |-> "c", th |-> th, ci |-> i, pc |-> pc]
PopC == Front(cs)
SetPc(pc) == Append(Front(cs), [Last(cs) EXCEPT !.pc = pc])

\* Who runs: the thread and the function of the newest activation, when it is
\* code and not the machinery that waits for it.
Top == Last(cs)
RunsLua == cs # <<>> /\ Top.k = "execute" /\ L[Top.th].status = "OK"
RunsC == cs # <<>> /\ Top.k = "c" /\ Top.pc \in {"run", "cont"} /\ L[Top.th].status = "OK"
TopFn == L[Top.th].ci[Top.ci].fn

lua_isyieldable(l) == l.nCcalls <= l.baseCcalls

\* luaD_checkCstack, on the count that includes the new call.
Overflow(n) == n = MaxCcalls \/ n >= HardLimit

-----------------------------------------------------------------------------
(* Calls.                                                                    *)

\* luau_precall and performcall: the callee gets a frame; a Lua function is run
\* at once, or, when a protected call may yield, by the loop in lua_resume.
Entered(l, fn, co) ==
  [l EXCEPT !.ci = Append(@, Frame(fn, co, fn = "lua")),
            !.isactive = @ \/ fn = "lua"]
Activation(th, l, fn) ==
  IF fn = "lua" THEN Execute(th) ELSE CBody(th, Len(l.ci) + 1, "run")

\* The record luaD_callint, luaD_callny and luaD_performcally keep on the native
\* stack: y if the caller has a continuation, act the value isactive goes back to,
\* ci the caller's frame (cioffset).
CallRecord(th, l, kind, y) ==
  [k |-> "call", th |-> th, kind |-> kind, y |-> y, act |-> l.isactive, ci |-> Len(l.ci)]

\* The counters while a call is in progress.
Counted(l, y) == [l EXCEPT !.nCcalls = @ + 1,
                           !.baseCcalls = IF y THEN @ + 1 ELSE @]

\* What luaD_pcall saves.
PcallRecord(th, l, ef) ==
  [k |-> "pcall", th |-> th, n |-> l.nCcalls, base |-> l.baseCcalls,
   ci |-> Len(l.ci), act |-> l.isactive, ef |-> ef, pc |-> "run"]

-----------------------------------------------------------------------------
(* Errors.                                                                   *)

\* resume_finish, once no handler is left: back to the counts of the resumer.
Finished(l, rec, status) ==
  [l EXCEPT !.nCcalls = rec.old - 1, !.baseCcalls = rec.old - 1,
            !.isactive = FALSE, !.status = status]

\* resume_findhandler: the newest frame that handles errors, 0 if there is none.
resume_findhandlerBelow(l) ==
  LET H == {i \in DOMAIN l.ci : l.ci[i].handle /\ i > 1}
  IN IF H = {} THEN 0 ELSE CHOOSE i \in H : \A j \in H : j <= i
resume_findhandler(l) ==
  LET H == {i \in DOMAIN l.ci : l.ci[i].handle}
  IN IF H = {} THEN 0 ELSE CHOOSE i \in H : \A j \in H : j <= i

\* The end of luaD_pcall after an error: the frames, the counters and the
\* active flag of the call are put back.
PcallFailsActive(th, l, below, rec) ==
  Become(th, [l EXCEPT !.nCcalls = rec.n, !.baseCcalls = rec.base,
                       !.ci = SubSeq(@, 1, rec.ci)], below)
PcallFails(th, l, below, rec) ==
  Become(th, [l EXCEPT !.nCcalls = rec.n, !.baseCcalls = rec.base,
                       !.isactive = @ /\ rec.act, !.ci = SubSeq(@, 1, rec.ci)],
         below)

\* The end of resume_handle: the continuation of the frame that handles the
\* error, on its own frames or, without LuauCustomYieldablePcalls, on top of the
\* frames of the error.
HandleContCounting(th, l, below, rec) ==
  Become(th, IF flags.LuauCustomYieldablePcalls
             THEN [l EXCEPT !.ci = SubSeq(@, 1, rec.ch)] ELSE l,
         below \o <<[rec EXCEPT !.pc = "loop"], CBody(th, rec.ch, "error")>>)
HandleCont(th, l, below, rec) ==
  Become(th, IF flags.LuauCustomYieldablePcalls
             THEN [l EXCEPT !.nCcalls = l.baseCcalls, !.ci = SubSeq(@, 1, rec.ch)]
             ELSE l,
         below \o <<[rec EXCEPT !.pc = "loop"], CBody(th, rec.ch, "error")>>)

AfterErrfunc(th, l, below, rec) ==
  IF rec.k = "pcall" THEN PcallFails(th, l, below, rec) ELSE HandleCont(th, l, below, rec)

\* callerrfunc: the handler of xpcall, which runs on top of the frames of the
\* error through luaD_callny.
callerrfunc(th, l, below, rec) ==
  LET c == Counted(l, FALSE) IN
  IF Overflow(c.nCcalls) THEN AfterErrfunc(th, c, below, rec)
  ELSE Become(th, Entered(c, "lua", th),
              below \o <<[rec EXCEPT !.pc = "errf"], CallRecord(th, l, "ny", FALSE),
                         Execute(th)>>)

\* The loop of resume_finish, for a thread that failed: resume_handle for the
\* newest handler, or the end of the thread.
resume_handle(th, l, below, rec) ==
  LET ch == resume_findhandler(l)
      keep == flags.LuauCustomYieldablePcalls /\ flags.LuauXpcallFixMessageYieldPath
      h == [l EXCEPT !.baseCcalls = rec.old, !.nCcalls = IF keep THEN @ ELSE rec.old,
                     !.ci[ch].handle = FALSE, !.status = "OK"]
  IN IF ch = 0 THEN Become(th, Finished(l, rec, "ERR"), below)
     ELSE IF flags.LuauCustomYieldablePcalls /\ l.ci[ch].fn = "xpcall"
     THEN callerrfunc(th, h, below, [rec EXCEPT !.ch = ch])
     ELSE HandleCont(th, h, below, [rec EXCEPT !.ch = ch])

\* luaD_throw: the error goes to the newest luaD_rawrunprotected, of luaD_pcall or
\* of lua_resume, or of an error function that one of them runs.
luaD_throw(th, l, stack) ==
  LET C == {i \in DOMAIN stack : stack[i].k \in {"pcall", "resume"}}
      j == CHOOSE i \in C : \A m \in C : m <= i
      rec == stack[j]
      below == SubSeq(stack, 1, j - 1)
  IN IF rec.pc = "errf" THEN AfterErrfunc(th, l, below, rec)
     ELSE IF rec.k = "resume" THEN resume_handle(th, l, below, rec)
     ELSE IF rec.ef THEN callerrfunc(th, l, below, rec)
     ELSE PcallFails(th, l, below, rec)

Error(th) == luaD_throw(th, L[th], cs)

-----------------------------------------------------------------------------
(* What a running function may do.                                           *)

\* luaD_callint and luaD_performcally, for a caller that waits as stack says.
Call(th, kind, y, fn, stack) ==
  LET c == Counted(L[th], y) IN
  IF Overflow(c.nCcalls) THEN luaD_throw(th, Counted(L[th], FALSE), stack)
  ELSE Become(th, Entered(c, fn, th),
              stack \o <<CallRecord(th, L[th], kind, y), Activation(th, L[th], fn)>>)

\* lua_yield and lua_break: the activations on the stack return one by one.
Suspend(th, status, stack) ==
  IF lua_isyieldable(L[th])
  THEN Become(th, [L[th] EXCEPT !.status = status], stack)
  ELSE Error(th)

MayCall(th) == FoldFunction(LAMBDA l, n : n + Len(l.ci), 0, L) < MaxFrames

\* LOP_CALL: a Lua function goes on in the same luau_execute, a C function is
\* called from it.
LuaCall(fn, co) ==
  LET th == Top.th IN
  /\ RunsLua /\ MayCall(th)
  /\ co = th \/ fn = "resume"
  /\ Become(th, [L[th] EXCEPT !.ci = Append(@, Frame(fn, co, FALSE))],
            IF fn = "lua" THEN cs ELSE Append(cs, Activation(th, L[th], fn)))

\* LOP_RETURN; the flag LUA_CALLINFO_RETURN ends luau_execute.
LuaReturn ==
  LET th == Top.th IN
  /\ RunsLua
  /\ Become(th, [L[th] EXCEPT !.ci = Front(@)], IF Last(L[th].ci).ret THEN PopC ELSE cs)

\* A metamethod, called through luaD_call.
LuaMetamethod(fn) == RunsLua /\ MayCall(Top.th) /\ Call(Top.th, "int", FALSE, fn, cs)

\* LOP_FORGLOOP with an iterator function.
LuaIterate(fn) ==
  /\ RunsLua /\ MayCall(Top.th)
  /\ IF flags.LuauYieldIter2 THEN Call(Top.th, "iter", TRUE, fn, cs)
     ELSE Call(Top.th, "int", FALSE, fn, cs)

\* VM_INTERRUPT: the hook yields or breaks.
LuaInterrupt(status) == RunsLua /\ Suspend(Top.th, status, PopC)

LuaError == RunsLua /\ Error(Top.th)

\* A C function returns its results.
CReturn(th) == Become(th, [L[th] EXCEPT !.ci = SubSeq(@, 1, Top.ci - 1)], PopC)

Body(fn) == RunsC /\ TopFn = fn

\* Functions without a continuation: coroutine.yield, and functions of the host
\* that return, fail, yield, break, call, or call protected.
CFunctionReturns == Body("c") /\ CReturn(Top.th)
CFunctionFails == Body("c") /\ Error(Top.th)
CFunctionSuspends(status) == Body("c") /\ Suspend(Top.th, status, PopC)
CFunctionCalls(fn) ==
  Body("c") /\ MayCall(Top.th) /\ Call(Top.th, "int", FALSE, fn, SetPc("wait"))
lua_pcall(fn) ==
  /\ Body("c") /\ MayCall(Top.th)
  /\ Call(Top.th, "int", FALSE, fn,
          Append(SetPc("wait"), PcallRecord(Top.th, L[Top.th], FALSE)))

\* luaL_callyieldable and its continuation, which may do the same again.
KFunctionCalls(fn) ==
  Body("k") /\ MayCall(Top.th) /\ Call(Top.th, "int", TRUE, fn, SetPc("wait"))
KFunctionReturns == Body("k") /\ CReturn(Top.th)
KFunctionFails == Body("k") /\ Error(Top.th)
KFunctionSuspends(status) == Body("k") /\ Suspend(Top.th, status, PopC)

\* pcall and xpcall (luaB_pcally, luaB_xpcally, luaL_pcallyieldable): luaD_pcall,
\* or, when the thread can yield and the callee is a Lua function, a call that
\* the loop of lua_resume makes once the native stack is unwound.
luaB_pcally(fn) ==
  LET th == Top.th
      l == [L[th] EXCEPT !.ci[Top.ci].handle = TRUE]
      rec == PcallRecord(th, l, TopFn = "xpcall")
      c == Counted(l, TRUE)
  IN /\ RunsC /\ Top.pc = "run" /\ TopFn \in {"pcall", "xpcall"}
     /\ IF Overflow(c.nCcalls)
        THEN luaD_throw(th, Counted(l, FALSE), Append(SetPc("wait"), rec))
        ELSE IF lua_isyieldable(l) /\ fn = "lua"
        THEN Become(th, [l EXCEPT !.ci = Append(@, Frame(fn, th, TRUE)),
                                  !.status = "REENTRY"], PopC)
        ELSE Become(th, Entered(c, fn, th),
                    SetPc("wait") \o <<rec, CallRecord(th, l, "int", TRUE),
                                       Activation(th, l, fn)>>)

\* luaB_pcallcont and luaB_xpcallcont.
luaB_pcallcont == RunsC /\ Top.pc = "cont" /\ TopFn \in {"pcall", "xpcall"} /\ CReturn(Top.th)

\* The same two called with an error: without LuauCustomYieldablePcalls it is
\* luaB_xpcallcont that runs the error function, protected.
luaB_xpcallcont ==
  LET th == Top.th IN
  /\ cs # <<>> /\ Top.k = "c" /\ Top.pc = "error"
  /\ IF TopFn = "xpcall" /\ ~flags.LuauCustomYieldablePcalls
     THEN Call(th, "ny", FALSE, "lua",
               Append(SetPc("wait"), PcallRecord(th, L[th], FALSE)))
     ELSE CReturn(th)

-----------------------------------------------------------------------------
(* Resuming.                                                                 *)

\* lua_costatus, of a thread other than the one that asks.
lua_costatusBroken(co) ==
  LET l == L[co] IN
  CASE l.status \in {"YIELD", "BREAK"} -> "suspended"
    [] l.status \notin {"OK", "YIELD", "BREAK"} -> "dead"
    [] l.status = "OK" /\ l.ci # <<>> -> "normal"
    [] OTHER -> IF l.hasfn THEN "suspended" ELSE "dead"
lua_costatus(co) ==
  LET l == L[co] IN
  CASE l.status = "YIELD" -> "suspended"
    [] l.status = "BREAK" -> "normal"
    [] l.status \notin {"OK", "YIELD", "BREAK"} -> "dead"
    [] l.status = "OK" /\ l.ci # <<>> -> "normal"
    [] OTHER -> IF l.hasfn THEN "suspended" ELSE "dead"

\* resume_start.
CanStartRunning(l) == l.status \in {"YIELD", "BREAK", "OK"}
CanStart(l) == l.status \in {"YIELD", "BREAK"} \/ (l.status = "OK" /\ l.ci = <<>>)
StartedUncounted(l, n) ==
  [l EXCEPT !.nCcalls = n, !.baseCcalls = n, !.isactive = TRUE]
Started(l, n) ==
  [l EXCEPT !.nCcalls = n + 1, !.baseCcalls = n + 1, !.isactive = TRUE]
ResumeRecord(co, n) ==
  [k |-> "resume", th |-> co, old |-> n + 1, pc |-> "loop", ch |-> 0]

\* lua_resume, from a place n C calls deep: a start of the function, a start of
\* nothing, or a return from the function that yielded; resume_continue does the
\* rest. The function may be any function.
lua_resume(co, n, stack, fn, tgt) ==
  LET l == Started(L[co], n)
      rec == ResumeRecord(co, n)
  IN /\ CanStart(L[co]) /\ n < MaxCcalls
     /\ IF l.status = "OK" /\ ~l.hasfn THEN Become(co, Finished(l, rec, "ERR"), stack)
        ELSE IF l.status = "OK"
        THEN Become(co, [Entered(l, fn, tgt) EXCEPT !.hasfn = FALSE],
                    stack \o <<rec, Activation(co, l, fn)>>)
        ELSE Become(co, [l EXCEPT !.status = "OK",
                                  !.ci = IF Last(@).fn = "c" THEN Front(@) ELSE @],
                    Append(stack, rec))

\* resume_start on a native stack that is full: only the count has changed.
ResumeOverflows(co, n, stack) ==
  /\ CanStart(L[co]) /\ n >= MaxCcalls
  /\ Become(co, [L[co] EXCEPT !.nCcalls = n], stack)

\* lua_resumeerror: the thread goes on with an error.
lua_resumeerror(co, n, stack) ==
  /\ CanStart(L[co]) /\ n < MaxCcalls
  /\ resume_handle(co, Started(L[co], n), stack, ResumeRecord(co, n))

\* The host, at the bottom of the native stack.
HostPcall(fn) ==
  /\ cs = <<>> /\ L[MainThread].status = "OK"
  /\ Call(MainThread, "int", FALSE, fn, <<PcallRecord(MainThread, L[MainThread], FALSE)>>)
HostResume(co, fn, tgt) ==
  cs = <<>> /\ co # MainThread /\ lua_resume(co, 0, <<>>, fn, tgt)
HostResumeError(co) ==
  cs = <<>> /\ co # MainThread /\ lua_resumeerror(co, 0, <<>>)

\* A function of the host that resumes a thread itself.
CFunctionResumes(co, fn, tgt) ==
  LET n == L[Top.th].nCcalls IN
  /\ Body("c") /\ co # MainThread
  /\ \/ lua_resume(co, n, SetPc("wait"), fn, tgt)
     \/ lua_resumeerror(co, n, SetPc("wait"))
     \/ ResumeOverflows(co, n, SetPc("wait"))

\* coroutine.resume and the functions of coroutine.wrap: auxresume.
auxresume(fn, tgt) ==
  LET co == L[Top.th].ci[Top.ci].tgt
      n == L[Top.th].nCcalls
  IN /\ Body("resume") /\ Top.pc = "run"
     /\ co # Top.th /\ lua_costatus(co) = "suspended"
     /\ \/ lua_resume(co, n, SetPc("wait"), fn, tgt)
        \/ ResumeOverflows(co, n, SetPc("failed"))

\* The failure of a resume is returned, or thrown by a wrapped function
\* (coresumefinish, auxwrapfinish).
ResumeFailed == CReturn(Top.th) \/ Error(Top.th)

auxresumeRefused ==
  LET co == L[Top.th].ci[Top.ci].tgt IN
  /\ Body("resume") /\ Top.pc = "run"
  /\ co = Top.th \/ lua_costatus(co) # "suspended"
  /\ ResumeFailed

auxresumeOverflowed ==
  cs # <<>> /\ Top.k = "c" /\ Top.pc = "failed" /\ ResumeFailed

\* After lua_resume, and in the continuation (auxresumecont): a coroutine that
\* broke breaks its resumer too (interruptThread).
ResumeReturns ==
  LET co == L[Top.th].ci[Top.ci].tgt IN
  /\ cs # <<>> /\ Top.k = "c" /\ TopFn = "resume" /\ Top.pc \in {"wait", "cont"}
  /\ IF L[co].status = "BREAK" THEN Suspend(Top.th, "BREAK", PopC)
     ELSE IF L[co].status \in {"OK", "YIELD"} THEN CReturn(Top.th)
     ELSE ResumeFailed

\* coroutine.close: lua_resetthread.
coclose(co) ==
  /\ Body("c") /\ co # Top.th /\ co # MainThread
  /\ lua_costatus(co) \in {"suspended", "dead"}
  /\ Become(co, [Fresh EXCEPT !.hasfn = FALSE, !.isactive = L[co].isactive], cs)

-----------------------------------------------------------------------------
(* Returning through the native stack.                                       *)

Waits(k) == cs # <<>> /\ Top.k = k

\* luau_execute leaves when the thread has yielded.
ExecuteExits == Waits("execute") /\ L[Top.th].status # "OK" /\ Become(Top.th, L[Top.th], PopC)

\* The end of luaD_callint, luaD_callny and luaD_performcally; the last one keeps
\* its counts when the thread has yielded.
CallEndsYieldable ==
  LET l == L[Top.th]
      d == IF Top.kind = "iter" /\ l.status # "OK" THEN 0 ELSE 1
  IN /\ Waits("call")
     /\ Become(Top.th, [l EXCEPT !.isactive = @ /\ Top.act, !.nCcalls = @ - d], PopC)
CallEnds ==
  LET l == L[Top.th]
      d == IF Top.kind = "iter" /\ l.status # "OK" THEN 0 ELSE 1
  IN /\ Waits("call")
     /\ Become(Top.th, [l EXCEPT !.isactive = @ /\ Top.act, !.nCcalls = @ - d,
                                 !.baseCcalls = IF Top.y THEN @ - d ELSE @], PopC)

\* luaD_pcall returns: the call went well or the thread has yielded, or the error
\* function is done.
PcallEnds ==
  /\ Waits("pcall")
  /\ IF Top.pc = "errf" THEN PcallFails(Top.th, L[Top.th], PopC, Top)
     ELSE Become(Top.th, L[Top.th], PopC)

\* Control is back in a C function: it leaves its frame to a continuation if the
\* thread has yielded.
CalleeReturned ==
  LET th == Top.th IN
  /\ Waits("c") /\ Top.pc = "wait" /\ TopFn # "resume"
  /\ IF L[th].status # "OK" THEN Become(th, L[th], PopC)
     ELSE IF TopFn = "c" THEN Become(th, L[th], SetPc("run"))
     ELSE IF TopFn = "k" THEN Become(th, L[th], SetPc("cont"))
     ELSE CReturn(th)

\* resume_continue: the next frame goes on, a Lua function where it was, a C
\* function with its continuation; at the end, resume_finish.
resume_continue ==
  LET th == Top.th
      l == L[th]
      n == Len(l.ci)
  IN /\ Waits("resume") /\ Top.pc = "loop"
     /\ IF l.status \in {"OK", "REENTRY"} /\ n > 0
        THEN IF l.ci[n].fn = "lua"
             THEN Become(th, [l EXCEPT !.status = "OK"], Append(cs, Execute(th)))
             ELSE Become(th, [l EXCEPT !.status = "OK",
                               !.ci[n].handle = @ /\ ~flags.LuauCustomYieldablePcalls],
                         Append(cs, CBody(th, n, "cont")))
        ELSE Become(th, Finished(l, Top, l.status), PopC)

\* resume_handle goes on after the error function.
ErrfuncEnds ==
  Waits("resume") /\ Top.pc = "errf" /\ HandleCont(Top.th, L[Top.th], PopC, Top)

Callee == {"lua", "c"}
\* The function a coroutine starts with: any, pcall and coroutine.resume of
\* another coroutine included.
Start == {"lua", "c", "pcall"} \X {MainThread} \cup {"resume"} \X (Thread \ {MainThread})

Next ==
  \/ \E fn \in CFunction \cup {"lua"}, co \in Thread : LuaCall(fn, co)
  \/ \E fn \in Callee : LuaMetamethod(fn) \/ LuaIterate(fn)
  \/ LuaReturn \/ LuaError
  \/ \E s \in {"YIELD", "BREAK"} : LuaInterrupt(s)
  \/ CFunctionReturns \/ CFunctionFails
  \/ \E s \in {"YIELD", "BREAK"} : CFunctionSuspends(s) \/ KFunctionSuspends(s)
  \/ \E fn \in Callee : CFunctionCalls(fn) \/ lua_pcall(fn) \/ KFunctionCalls(fn)
  \/ KFunctionReturns \/ KFunctionFails
  \/ \E fn \in Callee : luaB_pcally(fn)
  \/ luaB_pcallcont \/ luaB_xpcallcont
  \/ \E fn \in Callee : HostPcall(fn)
  \/ \E s \in Start :
       \/ \E co \in Thread : HostResume(co, s[1], s[2]) \/ CFunctionResumes(co, s[1], s[2])
       \/ auxresume(s[1], s[2])
  \/ \E co \in Thread : HostResumeError(co) \/ coclose(co)
  \/ auxresumeRefused \/ auxresumeOverflowed \/ ResumeReturns
  \/ ExecuteExits \/ CallEnds \/ PcallEnds \/ CalleeReturned
  \/ resume_continue \/ ErrfuncEnds

Spec == Init /\ [][Next]_vars

-----------------------------------------------------------------------------
(* Properties.                                                               *)

Running == RunsLua \/ RunsC

\* An activation of the thread that runs which a yield may throw away, because
\* the loop of lua_resume can go on without it.
Recoverable(i) ==
  LET r == cs[i] IN
  CASE r.k = "execute" -> TRUE
    [] r.k = "call" -> r.y
    [] r.k = "c" -> r.pc # "error" /\ (L[r.th].ci[r.ci].fn # "c" \/ i = Len(cs))
    [] r.k = "pcall" -> r.pc = "run" /\ L[r.th].ci[r.ci].fn # "c"
    [] OTHER -> FALSE

\* The two counters, raised and lowered in a dozen places, say exactly whether
\* the thread that runs can yield: it was resumed, and the native stack holds
\* nothing of it that could not be continued (lua_yield, lua_break,
\* coroutine.isyieldable).
YieldableIsRecoverable ==
  Running =>
    (lua_isyieldable(L[Top.th]) <=>
       /\ \E i \in DOMAIN cs : cs[i].th = Top.th /\ cs[i].k = "resume"
       /\ \A i \in DOMAIN cs :
            cs[i].th = Top.th /\ cs[i].k # "resume" => Recoverable(i))

\* What resume_continue asserts before each frame it goes on with (the counts are
\* at their base, a C function has a continuation) and luaD_callny after the
\* error function (it did not yield).
ResumeAsserts ==
  cs # <<>> =>
    LET l == L[Top.th] IN
    /\ Top.k = "resume" /\ Top.pc = "loop" /\ l.status \in {"OK", "REENTRY"} /\ l.ci # <<>>
         => l.nCcalls = l.baseCcalls /\ Last(l.ci).fn # "c"
    /\ Top.k = "call" /\ Top.kind = "ny" => l.status = "OK"

\* The C calls that are really nested on the native stack.
Depth == Cardinality({i \in DOMAIN cs : cs[i].k \in {"call", "resume"}})

\* The count never falls behind the native stack, across threads, errors and
\* yields: the limit of luaD_checkCstack and of resume_start protects it.
DepthNeverUnderestimated == Running => L[Top.th].nCcalls >= Depth

\* isactive tells the collector which stacks change without barriers
\* (luau_execute, luaC_threadbarrier): a thread with Lua code on the native stack
\* has it, a thread with nothing there does not, whatever failed in between.
ActiveIsRunning ==
  Running \/ cs = <<>> =>
    \A th \in Thread :
      /\ (\E i \in DOMAIN cs : cs[i] = Execute(th)) => L[th].isactive
      /\ (\A i \in DOMAIN cs : cs[i].th # th) => ~L[th].isactive

\* An error ends a coroutine only if no pcall or xpcall of it is under way: each
\* error finds its handler, on the native stack or in a frame left behind by a
\* yield (luaD_pcall, resume_finish).
DiesOnlyUnprotected ==
  [][\A th \in Thread :
       L[th].status # "ERR" /\ L'[th].status = "ERR" =>
         /\ \A i \in DOMAIN L[th].ci : ~L[th].ci[i].handle
         /\ \A i \in DOMAIN cs : cs[i].th = th => cs[i].k # "pcall"]_vars

\* The chain of resumes on the native stack, the n-th resume being the one up to
\* which there are n; and what became of the other threads.
Resumes == {i \in DOMAIN cs : cs[i].k = "resume"}
NthResume(n) ==
  CHOOSE i \in {j \in Resumes : Cardinality({m \in Resumes : m <= j}) = n} : TRUE
Chain ==
  (IF cs # <<>> /\ cs[1].k = "pcall" THEN <<MainThread>> ELSE <<>>)
    \o [n \in 1..Cardinality(Resumes) |-> cs[NthResume(n)].th]
State(co) ==
  IF \E i \in DOMAIN cs : cs[i].k = "resume" /\ cs[i].th = co THEN "entered"
  ELSE CASE L[co].status = "YIELD" -> "suspended"
         [] L[co].status = "BREAK" -> "broken"
         [] OTHER -> IF L[co].status = "OK" /\ L[co].hasfn THEN "suspended" ELSE "dead"

\* What coroutine.status, resume and close take from the status and the frames of
\* a coroutine agrees with the native stack: one that waits on it for another is
\* never found suspended or dead (lua_costatus).
StatusIsTrue ==
  Running =>
    \A co \in Thread \ {Top.th, MainThread} :
      lua_costatus(co) = IF State(co) \in {"entered", "broken"} THEN "normal" ELSE State(co)

Promise == INSTANCE CoroutineChain
             WITH chain <- Chain, state <- [co \in Thread \ {MainThread} |-> State(co)]

\* Threads implement coroutines: a thread is entered only while it is suspended
\* or broken, only the newest is left, and a dead one stays dead (lua_resume,
\* lua_resumeerror, lua_resetthread).
ImplementsChain == Promise!Spec

\* The count is "number of nested C calls" (lstate.h): no more of them than the
\* native stack holds, while no error function runs.
CcallsExact ==
  Running /\ (\A i \in DOMAIN cs : cs[i].k = "call" => cs[i].kind # "ny")
    => L[Top.th].nCcalls = Depth
=============================================================================
