-------------------------- MODULE CoroutineProofs --------------------------
(* Every step of Coroutine keeps its counters, frames and native stack fitting *)
(* together, for any number of threads and any limits; its properties and the  *)
(* refinement of CoroutineChain follow.                                        *)
EXTENDS CoroutineStackProofs

-----------------------------------------------------------------------------
(* Where the thread that runs stands.                                        *)

At(q, a, th, l) ==
  /\ flags \in Flags /\ cs # <<>> /\ Top.th = th /\ l = L[th] /\ L \in [Thread -> LuaState]
  /\ Context(q, th) /\ q \in Seq(Record) /\ a \in {"pcall", "resume"}
  /\ Block(q, th, cs) /\ Heads(q, a, cs) /\ Okay(cs, l) /\ Fits(cs, l)

\* The thread that runs, in these terms.
LEMMA Here ==
  ASSUME CoroutineInv, cs # <<>>
  PROVE  \E q, a : At(q, a, Top.th, L[Top.th])
<1>1. Good(L, cs, flags) /\ flags \in Flags
  BY DEF CoroutineInv
<1>2. PICK b : /\ Base(cs, b)
               /\ Context(Under(cs, b - 1), Last(cs).th)
               /\ Block(Under(cs, b - 1), Last(cs).th, cs)
               /\ Len(Under(cs, b - 1)) = b - 1
  BY <1>1, ContextTop
<1> DEFINE q == Under(cs, b - 1)
           a == cs[b].k
           l == L[Top.th]
<1>3. /\ Shape(cs) /\ cs \in Seq(Record) /\ Len(cs) \in Nat /\ b \in 1..Len(cs) /\ L \in [Thread -> LuaState]
      /\ Len(q) + 1 = b
  BY <1>1, <1>2, LenProperties DEF Good, Shape, Base
<1>4. q \in Seq(Record)
  BY <1>2 DEF Context, Shape
<1>5. Top.th \in Thread
  BY <1>2 DEF Context, Top
<1>6. a \in {"pcall", "resume"}
  <2>1. CASE b = 1
    <3>1. Bottom(cs[1])
      BY <1>3, <2>1, ShapeAt
    <3> QED BY <2>1, <3>1 DEF Bottom
  <2>2. CASE b # 1
    BY <1>2, <2>2 DEF Base
  <2> QED BY <2>1, <2>2
<1>7. Heads(q, a, cs)
  <2>1. a = "resume" /\ cs[b].pc = "errf" => flags.LuauCustomYieldablePcalls
    BY <1>1, <1>3 DEF Good
  <2> QED BY <1>3, <2>1 DEF Heads
<1>8. Okay(cs, l) /\ Fits(cs, l)
  <2>1. Fits(cs, l) /\ FramesOK(l) /\ l \in LuaState
    BY <1>1, <1>3, <1>5 DEF Good, Top
  <2> QED BY <1>3, <2>1 DEF Okay, Fits
<1>9. At(q, a, Top.th, l)
  BY <1>1, <1>2, <1>3, <1>4, <1>6, <1>7, <1>8 DEF At, Top
<1> QED BY <1>9

\* What stands under the newest record of the thread.
LEMMA PopBlock ==
  ASSUME NEW q \in Seq(Record), NEW th, NEW s, Shape(s), s # <<>>, Block(q, th, s), NEW a, Heads(q, a, s),
         a \in {"pcall", "resume"},
         \/ Last(s).k \in {"execute", "c", "call"}
         \/ Last(s).k = "pcall" /\ Len(s) # 1
  PROVE  LET p == Under(s, Len(s) - 1)
         IN /\ Block(q, th, p) /\ Heads(q, a, p) /\ Last(s).th = th /\ Front(s) = p
            /\ p \in Seq(Record) /\ Last(s) \in Record /\ s = Append(p, Last(s))
<1> DEFINE p == Under(s, Len(s) - 1)
<1>1. /\ s = Append(p, Last(s)) /\ Len(s) \in Nat /\ Len(s) > 0 /\ Len(s) - 1 \in 0..Len(s)
      /\ p \in Seq(Record) /\ Last(s) \in Record /\ Front(s) = p /\ s \in Seq(Record) /\ Len(q) \in Nat
  BY TopApart, LenProperties DEF Shape
<1>2. Len(s) # Len(q) + 1
  <2> SUFFICES ASSUME Len(s) = Len(q) + 1 PROVE FALSE
    OBVIOUS
  <2>1. Last(s).k = a
    BY DEF Heads, Last
  <2>2. Last(s).k = "pcall" /\ Len(s) # 1
    BY <2>1
  <2>3. q # <<>>
    BY <2>2
  <2> QED BY <2>2, <2>3 DEF Block, Last
<1>3. Len(s) - 1 \in Len(q)+1..Len(s) /\ Len(s) \in Len(q)+1..Len(s)
  BY <1>1, <1>2 DEF Block
<1>4. Block(q, th, p)
  BY <1>3, BlockUnder
<1>5. Heads(q, a, p)
  <2>1. Len(q) + 1 \in 1..Len(s)-1
    BY <1>1, <1>3
  <2>2. p[Len(q) + 1] = s[Len(q) + 1]
    BY <1>1, <2>1, UnderFacts
  <2> QED BY <2>2 DEF Heads
<1>6. Last(s).th = th
  BY <1>3 DEF Block, Last
<1> QED BY <1>1, <1>4, <1>5, <1>6

\* luaD_callint, luaD_performcally and luaD_callny: the call is made, or the native
\* stack is too deep.
LEMMA CallStep ==
  ASSUME flags \in Flags, NEW q \in Seq(Record), NEW th, Context(q, th),
         NEW s, Block(q, th, s), NEW a, Heads(q, a, s),
         NEW l, l = L[th], Okay(s, l), CountsFit(s, th, l.nCcalls, l.baseCcalls), l.status = "OK",
         NEW kind \in {"int", "iter", "ny"}, NEW y \in BOOLEAN, kind = "ny" => ~y, Caller(s, l, y),
         NEW fn \in Callee,
         Exposed(s, th, l) => Exposed(cs, th, L[th]),
         Call(th, kind, y, fn, s)
  PROVE  Ends(q, th, a)
<1> DEFINE c == Counted(l, y)
           d == Counted(l, FALSE)
           r == CallRecord(th, l, kind, y)
           x == Activation(th, l, fn)
           k == Entered(c, fn, th)
           t == s \o <<r, x>>
<1>1. l \in LuaState /\ s \in Seq(Record)
  BY OkayFacts DEF Okay
<1>2. CASE Overflow(c.nCcalls)
  <2>1. luaD_throw(th, d, s)
    BY <1>2 DEF Call
  <2>2. /\ d \in LuaState /\ d.ci = l.ci /\ d.isactive = l.isactive /\ d.status = l.status
        /\ d.nCcalls = l.nCcalls + 1 /\ d.baseCcalls = l.baseCcalls
    <3>1. l.baseCcalls + 0 = l.baseCcalls
      BY <1>1, FrameTypes
    <3> QED BY <1>1, <3>1, CountedFacts
  <2> HIDE DEF d
  <2>3. Okay(s, d) /\ \A m : FnOf(d, m) = FnOf(l, m)
    BY <2>2, OkaySame
  <2>4. CountsCover(s, th, d.nCcalls, d.baseCcalls)
    <3>1. l.nCcalls \in Int /\ l.baseCcalls \in Int /\ Len(s) \in 0..Len(s)
      BY <1>1, FrameTypes, LenProperties
    <3>2. CountsCover(s, th, l.nCcalls, l.baseCcalls)
      BY DEF CountsFit
    <3> QED BY <1>1, <2>2, <3>1, <3>2, CountsCut
  <2>5. Last(s).k = "c" /\ Last(s).pc = "wait" => FnOf(d, Last(s).ci) \notin {"pcall", "xpcall"}
    <3> HAVE Last(s).k = "c" /\ Last(s).pc = "wait"
    <3>1. FnOf(l, Last(s).ci) = IF y THEN "k" ELSE "c"
      BY DEF Caller
    <3>2. FnOf(l, Last(s).ci) \in {"k", "c"}
      BY <3>1
    <3> QED BY <2>3, <3>2
  <2>6. Exposed(s, th, d) => Exposed(cs, th, L[th])
    BY <2>2 DEF Exposed
  <2>7. d.status = "OK"
    BY <2>2
  <2> QED BY <2>1, <2>3, <2>4, <2>5, <2>6, <2>7, Throw
<1>3. CASE ~Overflow(c.nCcalls)
  <2>1. Become(th, k, t)
    BY <1>3 DEF Call
  <2>2. r = CallRecord(th, l, kind, y) /\ x = Activation(th, l, fn) /\ k = Entered(Counted(l, y), fn, th)
        /\ t = s \o <<r, x>>
    OBVIOUS
  <2> HIDE DEF r, x, k, t
  <2>3. Outcome(q, th, a, k, t)
    BY <2>2, CallsOn
  <2> QED BY <2>1, <2>3 DEF Ends
<1> QED BY <1>2, <1>3

LEMMA AtFacts ==
  ASSUME NEW q, NEW a, NEW th, NEW l, At(q, a, th, l)
  PROVE  /\ Shape(cs) /\ cs # <<>> /\ cs \in Seq(Record) /\ Len(cs) \in Nat /\ Len(cs) > 0
         /\ Top = Last(cs) /\ Top = cs[Len(cs)] /\ Top \in Record /\ Top.th = th /\ th \in Thread
         /\ l = L[Top.th] /\ l \in LuaState /\ FramesOK(l) /\ Okay(cs, l)
         /\ Len(l.ci) \in Nat /\ l.nCcalls \in Int /\ l.baseCcalls \in Int /\ l.ci \in Seq(CallInfo)
         /\ CountsFit(cs, th, l.nCcalls, l.baseCcalls)
         /\ l.status = "OK" => TopFits(cs, l)
         /\ l.status # "OK" => Unwinds(cs, l)
         /\ Sits(Under(cs, Len(cs) - 1), Top, l)
<1>1. Okay(cs, l) /\ Fits(cs, l) /\ Top.th = th /\ l = L[th]
  BY DEF At
<1>2. /\ cs \in Seq(Record) /\ Len(cs) \in Nat /\ Len(cs) > 0
      /\ Last(cs) = cs[Len(cs)] /\ Last(cs) \in Record /\ Last(cs).th \in Thread
      /\ Sits(Under(cs, Len(cs) - 1), Last(cs), l)
  BY <1>1, OkayFacts
<1>3. Shape(cs) /\ l \in LuaState /\ FramesOK(l) /\ cs # <<>>
  BY <1>1 DEF Okay
<1>4. Len(l.ci) \in Nat /\ l.nCcalls \in Int /\ l.baseCcalls \in Int /\ l.ci \in Seq(CallInfo)
  BY <1>3, FrameTypes
<1> QED BY <1>1, <1>2, <1>3, <1>4 DEF Fits, Top

\* The thread goes on.
LEMMA Goes ==
  ASSUME NEW q, NEW th, NEW a, NEW k, NEW t, Become(th, k, t),
         Okay(t, k), Fits(t, k), Block(q, th, t), Heads(q, a, t)
  PROVE  Ends(q, th, a)
BY DEF Ends, Outcome

\* A frame on top of the others.
LEMMA FrameAdded ==
  ASSUME NEW l \in LuaState, NEW f \in CallInfo, NEW k, k = [l EXCEPT !.ci = Append(@, f)]
  PROVE  /\ k \in LuaState /\ k.ci = Append(l.ci, f) /\ k.status = l.status /\ k.isactive = l.isactive
         /\ k.nCcalls = l.nCcalls /\ k.baseCcalls = l.baseCcalls
<1> DEFINE c == Append(l.ci, f)
<1>1. k = [l EXCEPT !.ci = c]
  OBVIOUS
<1>2. c \in Seq(CallInfo)
  BY FrameTypes, AppendProperties
<1> HIDE DEF c
<1>3. /\ k \in LuaState /\ k.ci = c /\ k.status = l.status /\ k.isactive = l.isactive
      /\ k.nCcalls = l.nCcalls /\ k.baseCcalls = l.baseCcalls
  BY <1>1, <1>2 DEF LuaState
<1> QED BY <1>3 DEF c

\* One lemma for each action of the thread that runs: the frames, counters and records
\* it leaves fit again. First the interpreter's.
LEMMA LuaCallEnds ==
  ASSUME NEW q, NEW a, NEW th, NEW l, At(q, a, th, l),
         NEW fn \in CFunction \cup {"lua"}, NEW co \in Thread, LuaCall(fn, co)
  PROVE  Ends(q, th, a)
<1> DEFINE f == Frame(fn, co, FALSE)
           k == [l EXCEPT !.ci = Append(@, f)]
<1>1. /\ Shape(cs) /\ cs # <<>> /\ cs \in Seq(Record) /\ Top = Last(cs) /\ Top.th = th /\ th \in Thread
      /\ l = L[Top.th] /\ l \in LuaState /\ Okay(cs, l) /\ Len(l.ci) \in Nat
      /\ CountsFit(cs, th, l.nCcalls, l.baseCcalls) /\ (l.status = "OK" => TopFits(cs, l))
  BY AtFacts
<1>2. q \in Seq(Record) /\ Block(q, th, cs) /\ Heads(q, a, cs)
  BY DEF At
<1>3. /\ Top.k = "execute" /\ l.status = "OK"
      /\ Become(th, k, IF fn = "lua" THEN cs ELSE Append(cs, Activation(th, l, fn)))
  BY <1>1 DEF LuaCall, RunsLua
<1>4. /\ f \in CallInfo /\ f.fn = fn /\ f.ret = FALSE /\ ~f.handle
      /\ k \in LuaState /\ k.ci = Append(l.ci, f) /\ k.status = l.status /\ k.isactive = l.isactive
      /\ k.nCcalls = l.nCcalls /\ k.baseCcalls = l.baseCcalls
  <2>1. f \in CallInfo /\ f.fn = fn /\ f.ret = FALSE /\ ~f.handle
    BY DEF Frame, CallInfo
  <2>2. k = [l EXCEPT !.ci = Append(@, f)]
    OBVIOUS
  <2> HIDE DEF f, k
  <2> QED BY <1>1, <2>1, <2>2, FrameAdded
<1> HIDE DEF f, k
<1>5. CountsFit(cs, Last(cs).th, k.nCcalls, k.baseCcalls) /\ TopFits(cs, l) /\ Last(cs).k = "execute"
      /\ k.status = "OK"
  BY <1>1, <1>3, <1>4
<1>6. CASE fn = "lua"
  <2>1. ~f.ret
    BY <1>4
  <2>2. Okay(cs, k) /\ Fits(cs, k)
    BY <1>1, <1>4, <1>5, <1>6, <2>1, CallLua
  <2> QED BY <1>2, <1>3, <1>6, <2>2, Goes
<1>7. CASE fn # "lua"
  <2> DEFINE x == CBody(th, Len(l.ci) + 1, "run")
             t == Append(cs, x)
  <2>1. Activation(th, l, fn) = x /\ fn \in CFunction
    BY <1>7 DEF Activation
  <2>2. Okay(t, k) /\ Fits(t, k)
    BY <1>1, <1>4, <1>5, <2>1, PushC
  <2>3. x \in Record /\ x.th = th /\ x.k # "resume"
    BY <1>1 DEF CBody, Record, CRec
  <2> HIDE DEF x
  <2>4. Block(q, th, t) /\ Heads(q, a, t)
    BY <1>2, <2>3, BlockGrows
  <2>5. Become(th, k, t)
    BY <1>3, <1>7, <2>1
  <2> HIDE DEF t
  <2> QED BY <2>2, <2>4, <2>5, Goes
<1> QED BY <1>6, <1>7

\* The oldest h frames.
LEMMA FramesCut ==
  ASSUME NEW l \in LuaState, FramesOK(l), NEW h \in 0..Len(l.ci), NEW k, k = [l EXCEPT !.ci = SubSeq(@, 1, h)]
  PROVE  /\ k \in LuaState /\ FramesOK(k) /\ Len(k.ci) = h /\ \A m \in 1..h : k.ci[m] = l.ci[m]
         /\ k.status = l.status /\ k.isactive = l.isactive
         /\ k.nCcalls = l.nCcalls /\ k.baseCcalls = l.baseCcalls
<1> DEFINE c == SubSeq(l.ci, 1, h)
<1>1. c \in Seq(CallInfo) /\ Len(c) = h /\ \A m \in 1..h : c[m] = l.ci[m]
  BY FrameTypes, UnderFacts DEF Under
<1>2. k = [l EXCEPT !.ci = c]
  OBVIOUS
<1> HIDE DEF c
<1>3. /\ k \in LuaState /\ k.ci = c /\ k.status = l.status /\ k.isactive = l.isactive
      /\ k.nCcalls = l.nCcalls /\ k.baseCcalls = l.baseCcalls
  BY <1>1, <1>2 DEF LuaState
<1> HIDE DEF c
<1>4. Len(k.ci) <= Len(l.ci)
  BY <1>1, <1>3, FrameTypes
<1>5. FramesOK(k)
  BY <1>1, <1>3, <1>4, Prefix
<1> QED BY <1>1, <1>3, <1>5

\* The newest activation of the thread returns.
LEMMA PopStep ==
  ASSUME NEW q, NEW a, NEW th, NEW l, At(q, a, th, l), l.status = "OK",
         \/ Top.k \in {"execute", "c"}
         \/ Top.k = "pcall" /\ Top.pc = "run" /\ Len(cs) # 1,
         NEW k \in LuaState, Len(k.ci) <= Len(l.ci), \A m \in 1..Len(k.ci) : k.ci[m] = l.ci[m],
         Top.k = "execute" => Len(k.ci) = Len(l.ci) - 1 /\ l.ci[Len(l.ci)].ret,
         Top.k = "c" => Len(k.ci) = Top.ci - 1,
         Top.k = "pcall" => Len(k.ci) = Len(l.ci),
         k.isactive = l.isactive, k.status = "OK", k.nCcalls = l.nCcalls, k.baseCcalls = l.baseCcalls,
         Become(th, k, PopC)
  PROVE  Ends(q, th, a)
<1> DEFINE p == Under(cs, Len(cs) - 1)
<1>1. /\ Shape(cs) /\ cs # <<>> /\ cs \in Seq(Record) /\ Top = Last(cs) /\ Top.th = th
      /\ Okay(cs, l) /\ l.nCcalls \in Int /\ l.baseCcalls \in Int
      /\ CountsFit(cs, th, l.nCcalls, l.baseCcalls) /\ TopFits(cs, l)
  BY AtFacts
<1>2. q \in Seq(Record) /\ Block(q, th, cs) /\ Heads(q, a, cs) /\ a \in {"pcall", "resume"}
  BY DEF At
<1>3. Okay(p, k) /\ TopFits(p, k)
  BY <1>1, Pop
<1>4. /\ Block(q, th, p) /\ Heads(q, a, p) /\ PopC = p /\ p \in Seq(Record) /\ Last(cs) \in Record
      /\ cs = Append(p, Last(cs))
  BY <1>1, <1>2, PopBlock DEF PopC
<1> HIDE DEF p
<1>5. CountsFit(p, th, k.nCcalls, k.baseCcalls)
  <2> DEFINE r == Last(cs)
  <2>1. CountsFit(Append(p, r), th, k.nCcalls, k.baseCcalls)
    BY <1>1, <1>4
  <2>2. r \in Record /\ r.k \notin {"call", "resume"} /\ (r.k = "pcall" => r.pc # "errf")
    BY <1>1, <1>4
  <2>3. k.nCcalls \in Int /\ k.baseCcalls \in Int
    BY <1>1
  <2> HIDE DEF r
  <2> QED BY <1>4, <2>1, <2>2, <2>3, CountsPush
<1>6. Last(p).th = th
  <2>1. Len(p) \in Nat /\ Len(q) \in Nat /\ Len(p) \in Len(q)+1..Len(p)
    BY <1>2, <1>4, LenProperties DEF Block
  <2> QED BY <1>4, <2>1 DEF Block, Last
<1>7. Fits(p, k)
  BY <1>3, <1>5, <1>6 DEF Fits, Okay
<1> QED BY <1>3, <1>4, <1>7, Goes

LEMMA LuaReturnEnds ==
  ASSUME NEW q, NEW a, NEW th, NEW l, At(q, a, th, l), LuaReturn
  PROVE  Ends(q, th, a)
<1> DEFINE n == Len(l.ci)
           k == [l EXCEPT !.ci = SubSeq(@, 1, n - 1)]
<1>1. /\ Top = Last(cs) /\ Top.th = th /\ l = L[Top.th] /\ l \in LuaState /\ Okay(cs, l) /\ FramesOK(l)
      /\ CountsFit(cs, th, l.nCcalls, l.baseCcalls) /\ (l.status = "OK" => TopFits(cs, l))
      /\ l.ci \in Seq(CallInfo) /\ n \in Nat
  BY AtFacts
<1>2. q \in Seq(Record) /\ Block(q, th, cs) /\ Heads(q, a, cs)
  BY DEF At
<1>3. /\ Top.k = "execute" /\ l.status = "OK" /\ TopFits(cs, l)
      /\ Become(th, [l EXCEPT !.ci = Front(@)], IF Last(l.ci).ret THEN PopC ELSE cs)
  BY <1>1 DEF LuaReturn, RunsLua
<1>4. n > 0 /\ n - 1 \in 0..n
  <2>1. Runs(cs, n, l)
    BY <1>1, <1>3 DEF TopFits
  <2>2. n \in 1..n
    BY <2>1 DEF Runs
  <2> QED BY <1>1, <2>2
<1>5. [l EXCEPT !.ci = Front(@)] = k /\ Last(l.ci) = l.ci[n]
  BY DEF Front, Last
<1>6. /\ k \in LuaState /\ FramesOK(k) /\ Len(k.ci) = n - 1 /\ (\A m \in 1..n-1 : k.ci[m] = l.ci[m])
      /\ k.status = l.status /\ k.isactive = l.isactive
      /\ k.nCcalls = l.nCcalls /\ k.baseCcalls = l.baseCcalls
  <2> DEFINE h == n - 1
  <2>1. k = [l EXCEPT !.ci = SubSeq(@, 1, h)] /\ h \in 0..Len(l.ci)
    BY <1>4
  <2> HIDE DEF k, h
  <2>2. /\ k \in LuaState /\ FramesOK(k) /\ Len(k.ci) = h /\ (\A m \in 1..h : k.ci[m] = l.ci[m])
        /\ k.status = l.status /\ k.isactive = l.isactive
        /\ k.nCcalls = l.nCcalls /\ k.baseCcalls = l.baseCcalls
    <3>1. l \in LuaState /\ FramesOK(l)
      BY <1>1
    <3> QED BY <2>1, <3>1, FramesCut
  <2> QED BY <2>2 DEF h
<1>7. Become(th, k, IF l.ci[n].ret THEN PopC ELSE cs)
  BY <1>3, <1>5
<1> HIDE DEF k
<1>8. CASE l.ci[n].ret
  <2>1. Become(th, k, PopC)
    BY <1>7, <1>8
  <2>2. Len(k.ci) <= Len(l.ci) /\ Len(k.ci) = Len(l.ci) - 1 /\ (\A m \in 1..Len(k.ci) : k.ci[m] = l.ci[m])
    BY <1>1, <1>6
  <2>3. k.status = "OK" /\ l.ci[Len(l.ci)].ret
    BY <1>3, <1>6, <1>8
  <2> HIDE DEF n
  <2> QED BY <1>3, <1>6, <2>1, <2>2, <2>3, PopStep
<1>9. CASE ~l.ci[n].ret
  <2>1. Become(th, k, cs)
    BY <1>7, <1>9
  <2>2. Okay(cs, k) /\ TopFits(cs, k)
    BY <1>1, <1>3, <1>6, <1>9, ReturnLua
  <2>3. Fits(cs, k)
    BY <1>1, <1>3, <1>6, <2>2 DEF Fits, Okay
  <2> QED BY <1>2, <2>1, <2>2, <2>3, Goes
<1> QED BY <1>8, <1>9

\* A C function returns, once it is its turn.
LEMMA CReturnEnds ==
  ASSUME NEW q, NEW a, NEW th, NEW l, At(q, a, th, l), l.status = "OK", Top.k = "c", CReturn(th)
  PROVE  Ends(q, th, a)
<1> DEFINE h == Top.ci - 1
           k == [l EXCEPT !.ci = SubSeq(@, 1, h)]
<1>1. /\ Top \in Record /\ Top.th = th /\ l = L[Top.th] /\ l \in LuaState /\ FramesOK(l)
      /\ Sits(Under(cs, Len(cs) - 1), Top, l) /\ Len(l.ci) \in Nat
  BY AtFacts
<1>2. h \in 0..Len(l.ci) /\ h \in Nat /\ h <= Len(l.ci)
  BY <1>1, ReachType DEF Sits, Reach
<1>3. Become(th, k, PopC)
  BY <1>1 DEF CReturn
<1>4. /\ k \in LuaState /\ FramesOK(k) /\ Len(k.ci) = h /\ (\A m \in 1..h : k.ci[m] = l.ci[m])
      /\ k.status = l.status /\ k.isactive = l.isactive
      /\ k.nCcalls = l.nCcalls /\ k.baseCcalls = l.baseCcalls
  <2>1. k = [l EXCEPT !.ci = SubSeq(@, 1, h)]
    OBVIOUS
  <2> HIDE DEF k, h
  <2> QED BY <1>1, <1>2, <2>1, FramesCut
<1> HIDE DEF k
<1> QED BY <1>2, <1>3, <1>4, PopStep

\* An error of the function that runs.
LEMMA ErrorEnds ==
  ASSUME NEW q, NEW a, NEW th, NEW l, At(q, a, th, l), l.status = "OK",
         Top.k = "c" /\ Top.pc = "wait" => FnOf(l, Top.ci) \notin {"pcall", "xpcall"},
         Error(th)
  PROVE  Ends(q, th, a)
<1>1. /\ Top = Last(cs) /\ Top.th = th /\ l = L[Top.th] /\ Okay(cs, l)
      /\ CountsFit(cs, th, l.nCcalls, l.baseCcalls)
  BY AtFacts
<1>2. Block(q, th, cs) /\ Heads(q, a, cs) /\ Context(q, th) /\ flags \in Flags
  BY DEF At
<1>3. luaD_throw(th, l, cs)
  BY <1>1 DEF Error
<1>4. CountsCover(cs, th, l.nCcalls, l.baseCcalls)
  BY <1>1 DEF CountsFit
<1>5. Exposed(cs, th, l) => Exposed(cs, th, L[th])
  BY <1>1
<1> QED BY <1>1, <1>2, <1>3, <1>4, <1>5, Throw

-----------------------------------------------------------------------------
(* Yields.                                                                   *)

\* Where the records of the thread stand.
LEMMA AtBlock ==
  ASSUME NEW q, NEW a, NEW th, NEW l, At(q, a, th, l)
  PROVE  /\ Len(q) \in Nat /\ Len(q) + 1 \in 1..Len(cs) /\ cs[Len(q) + 1].k = a
         /\ \A i \in 1..Len(cs) : cs[i].th = th <=> i >= Len(q) + 1
         /\ \A i \in Len(q)+2..Len(cs) : cs[i].k # "resume"
         /\ \A i \in 1..Len(cs) : In(cs, i) <=> cs[i].th = th
         /\ a # "resume" => q = <<>>
<1>1. /\ cs \in Seq(Record) /\ Len(cs) \in Nat /\ Top = Last(cs) /\ Top.th = th
  BY AtFacts
<1>2. Block(q, th, cs) /\ Heads(q, a, cs) /\ q \in Seq(Record)
  BY DEF At
<1>3. Len(q) \in Nat /\ Len(q) + 1 \in 1..Len(cs)
  BY <1>1, <1>2, LenProperties DEF Block
<1>4. \A i \in 1..Len(cs) : cs[i].th = th <=> i >= Len(q) + 1
  <2> TAKE i \in 1..Len(cs)
  <2>1. CASE i >= Len(q) + 1
    BY <1>1, <1>2, <1>3, <2>1 DEF Block
  <2>2. CASE ~(i >= Len(q) + 1)
    <3>1. i \in 1..Len(q)
      BY <1>1, <1>3, <2>2
    <3> QED BY <1>2, <2>2, <3>1 DEF Block
  <2> QED BY <2>1, <2>2
<1> QED BY <1>1, <1>2, <1>3, <1>4 DEF Block, Heads, In

\* All that thread th has on the native stack can be continued.
Ready(a, th, l) ==
  /\ a = "resume" /\ th # MainThread
  /\ CallsOf(cs, th, FALSE) = {} /\ Undisturbed(cs, th)
  /\ \A i \in 1..Len(cs)-1 : cs[i].th = th /\ cs[i].k = "c" =>
       cs[i].pc = "wait" /\ FnOf(l, cs[i].ci) # "resume"

\* A thread whose counts let it yield was resumed, and all its records but the newest
\* can be continued.
LEMMA Yieldable ==
  ASSUME NEW q, NEW a, NEW th, NEW l, At(q, a, th, l), Top.k \in {"execute", "c"}, lua_isyieldable(l)
  PROVE  Ready(a, th, l)
<1>1. /\ Shape(cs) /\ cs \in Seq(Record) /\ Len(cs) \in Nat /\ Top = cs[Len(cs)] /\ Top \in Record
      /\ l \in LuaState /\ Okay(cs, l) /\ l.nCcalls \in Int /\ l.baseCcalls \in Int
      /\ CountsFit(cs, th, l.nCcalls, l.baseCcalls)
  BY AtFacts
<1>2. /\ Len(q) \in Nat /\ Len(q) + 1 \in 1..Len(cs) /\ cs[Len(q) + 1].k = a
      /\ \A i \in 1..Len(cs) : cs[i].th = th <=> i >= Len(q) + 1
      /\ \A i \in Len(q)+2..Len(cs) : cs[i].k # "resume"
      /\ \A i \in 1..Len(cs) : In(cs, i) <=> cs[i].th = th
      /\ a # "resume" => q = <<>>
  BY AtBlock
<1>3. CallsOf(cs, th, FALSE) = {}
  <2> DEFINE C == CallsOf(cs, th, FALSE)
  <2>1. IsFiniteSet(C) /\ Cardinality(C) \in Nat
    BY <1>1, CountTypes
  <2>2. l.nCcalls - l.baseCcalls >= Cardinality(C) /\ l.nCcalls <= l.baseCcalls
    BY <1>1 DEF CountsFit, CountsCover, lua_isyieldable
  <2> HIDE DEF C
  <2>3. Cardinality(C) = 0
    BY <1>1, <2>1, <2>2
  <2> QED BY <2>1, <2>3, FS_EmptySet DEF C
<1>4. \A i \in 1..Len(cs) : cs[i].th = th /\ cs[i].k = "call" => cs[i].y # FALSE
  BY <1>3 DEF CallsOf
<1>5. ASSUME NEW i \in 1..Len(cs)-1, cs[i].th = th
      PROVE  /\ i + 1 \in 1..Len(cs) /\ cs[i+1].th = th /\ cs[i+1].k # "resume" /\ cs[i] \in Record
             /\ cs[i+1] \in Record /\ Follows(cs[i], cs[i+1]) /\ Sits(Under(cs, i), cs[i+1], l)
             /\ Last(Under(cs, i)) = cs[i] /\ Under(cs, i) # <<>>
             /\ cs[i+1].k = "call" => cs[i+1].y = TRUE
  <2>1. i \in 1..Len(cs) /\ i + 1 \in 1..Len(cs) /\ i \in 0..Len(cs) /\ i + 1 > 1 /\ (i + 1) - 1 = i /\ i > 0
    BY <1>1
  <2>2. i >= Len(q) + 1 /\ i + 1 >= Len(q) + 1 /\ i + 1 \in Len(q)+2..Len(cs)
    BY <1>1, <1>2, <1>5, <2>1
  <2>3. cs[i+1].th = th /\ cs[i+1].k # "resume" /\ In(cs, i + 1)
    BY <1>2, <2>1, <2>2
  <2>4. cs[i] \in Record /\ cs[i+1] \in Record /\ Follows(cs[i], cs[i+1])
    BY <1>1, <2>1, ShapeAt
  <2>5. Sits(Under(cs, i), cs[i+1], l)
    BY <1>1, <2>1, <2>3 DEF Okay, FramesFit, SitsAll
  <2>6. Last(Under(cs, i)) = cs[i] /\ Under(cs, i) # <<>>
    <3>1. Last(Under(cs, i)) = cs[i] /\ Len(Under(cs, i)) = i /\ Under(cs, i) \in Seq(Record)
      BY <1>1, <2>1, UnderFacts
    <3> QED BY <2>1, <3>1, EmptySeq
  <2>7. cs[i+1].k = "call" => cs[i+1].y = TRUE
    <3> HAVE cs[i+1].k = "call"
    <3>1. cs[i+1].y \in BOOLEAN /\ cs[i+1].y # FALSE
      BY <1>4, <2>1, <2>3, <2>4, RecordKinds DEF CallRec
    <3> QED BY <3>1
  <2> QED BY <2>1, <2>3, <2>4, <2>5, <2>6, <2>7
<1>6. a = "resume"
  <2> SUFFICES ASSUME a # "resume" PROVE FALSE
    OBVIOUS
  <2>1. q = <<>> /\ a = "pcall"
    BY <1>2 DEF At
  <2>2. cs[1].k = "pcall" /\ cs[1].th = th
    BY <1>2, <2>1
  <2>3. Len(cs) # 1
    BY <1>1, <2>2
  <2>4. 1 \in 1..Len(cs)-1 /\ 2 \in 1..Len(cs) /\ 1 + 1 = 2
    <3> DEFINE n == Len(cs)
    <3>1. n \in Nat /\ n > 0 /\ n # 1
      BY <2>3, AtFacts
    <3> HIDE DEF n
    <3>2. 1 \in 1..n-1 /\ 2 \in 1..n
      BY ONLY <3>1
    <3> QED BY <3>2 DEF n
  <2>5. cs[2].th = th /\ Follows(cs[1], cs[2]) /\ cs[2].k # "resume" /\ (cs[2].k = "call" => cs[2].y = TRUE)
    BY <1>5, <2>2, <2>4
  <2>6. ~cs[2].y
    BY <1>1, <2>2, <2>4, ShapeAt
  <2>7. cs[2].k = "call"
    BY <2>2, <2>5 DEF Follows
  <2> QED BY <2>5, <2>6, <2>7
<1>7. th # MainThread
  BY <1>1, <1>2, <1>6, ShapeAt
<1>8. Undisturbed(cs, th)
  <2> SUFFICES ASSUME NEW i \in 1..Len(cs), cs[i].th = th, cs[i].k \in {"pcall", "resume"}, cs[i].pc = "errf"
               PROVE  FALSE
    BY DEF Undisturbed
  <2>1. i \in 1..Len(cs)-1
    BY <1>1
  <2>2. cs[i+1].k # "resume" /\ Follows(cs[i], cs[i+1]) /\ (cs[i+1].k = "call" => cs[i+1].y = TRUE)
    BY <1>5, <2>1
  <2>3. cs[i+1].k = "call" /\ ~cs[i+1].y
    BY <2>2 DEF Follows
  <2> QED BY <2>2, <2>3
<1>9. \A i \in 1..Len(cs)-1 : cs[i].th = th /\ cs[i].k = "c" =>
              cs[i].pc = "wait" /\ FnOf(l, cs[i].ci) # "resume"
  <2> TAKE i \in 1..Len(cs)-1
  <2> HAVE cs[i].th = th /\ cs[i].k = "c"
  <2>1. /\ cs[i+1].k # "resume" /\ Follows(cs[i], cs[i+1]) /\ Sits(Under(cs, i), cs[i+1], l)
        /\ Last(Under(cs, i)) = cs[i] /\ Under(cs, i) # <<>>
        /\ cs[i+1].k = "call" => cs[i+1].y = TRUE
    BY <1>5
  <2>2. cs[i].pc = "wait" /\ ((cs[i+1].k = "call" /\ cs[i+1].ci = cs[i].ci) \/ cs[i+1].k = "pcall")
    BY <2>1 DEF Follows
  <2> HIDE DEF FnOf
  <2>3. CASE cs[i+1].k = "call"
    BY <2>1, <2>2, <2>3 DEF Sits
  <2>4. CASE cs[i+1].k = "pcall"
    BY <2>1, <2>2, <2>4 DEF Sits
  <2> QED BY <2>2, <2>3, <2>4
<1> QED BY <1>3, <1>6, <1>7, <1>8, <1>9 DEF Ready

\* The thread yields, or asks the loop of lua_resume to go on: its records return.
LEMMA UnwindStart ==
  ASSUME NEW q, NEW a, NEW th, NEW l, At(q, a, th, l), l.status = "OK",
         \/ Top.k = "execute"
         \/ /\ Top.k = "c" /\ Len(l.ci) = Top.ci
            /\ Top.pc = "wait" => FnOf(l, Top.ci) \notin {"pcall", "xpcall"},
         lua_isyieldable(l),
         NEW k \in LuaState, FramesOK(k), Alike(l, k, Len(l.ci)), k.isactive = l.isactive,
         k.nCcalls = l.nCcalls, k.baseCcalls = l.baseCcalls, k.status \in Yielded, k.ci # <<>>,
         Continuable(l, Len(l.ci) - 1) =>
           /\ Continuable(k, Len(k.ci) - 1) /\ (k.status = "REENTRY" => Continuable(k, Len(k.ci)))
           /\ \A m \in 1..Len(k.ci) : k.ci[m].handle =>
                Continuable(k, m) \/ (m <= Len(l.ci) /\ l.ci[m].handle),
         Become(th, k, PopC)
  PROVE  Ends(q, th, a)
<1>0. Top.k \in {"execute", "c"}
  OBVIOUS
<1>3. /\ a = "resume" /\ th # MainThread
      /\ CallsOf(cs, th, FALSE) = {} /\ Undisturbed(cs, th)
      /\ \A i \in 1..Len(cs)-1 : cs[i].th = th /\ cs[i].k = "c" =>
              cs[i].pc = "wait" /\ FnOf(l, cs[i].ci) # "resume"
  <2>1. Ready(a, th, l)
    BY <1>0, Yieldable
  <2> QED BY <2>1 DEF Ready
<1> DEFINE p == Under(cs, Len(cs) - 1)
           n == Len(l.ci)
           j == Len(cs) - 1
<1>1. /\ Shape(cs) /\ cs # <<>> /\ cs \in Seq(Record) /\ Len(cs) \in Nat /\ Len(cs) > 0
      /\ Top = Last(cs) /\ Top = cs[Len(cs)] /\ Top \in Record /\ Top.th = th
      /\ l \in LuaState /\ Okay(cs, l) /\ l.nCcalls \in Int /\ l.baseCcalls \in Int /\ n \in Nat
      /\ CountsFit(cs, th, l.nCcalls, l.baseCcalls) /\ TopFits(cs, l)
      /\ Sits(p, Top, l) /\ FramesOK(l)
  BY AtFacts
<1>2. q \in Seq(Record) /\ Block(q, th, cs) /\ Heads(q, a, cs) /\ a \in {"pcall", "resume"}
  BY DEF At
<1>4. /\ Block(q, th, p) /\ Heads(q, a, p) /\ PopC = p /\ p \in Seq(Record)
  BY <1>1, <1>2, PopBlock DEF PopC
<1>5. j \in 0..Len(cs) /\ Len(p) = j /\ (\A i \in 1..j : p[i] = cs[i]) /\ j \in Nat
  <2>1. j \in 0..Len(cs) /\ j \in Nat
    BY <1>1
  <2>2. Len(Under(cs, j)) = j /\ \A i \in 1..j : Under(cs, j)[i] = cs[i]
    BY <1>1, <2>1, UnderFacts
  <2> QED BY <2>1, <2>2
<1>6. j > 0 /\ j \in 1..Len(cs) /\ Last(p) = cs[j] /\ Last(p).th = th /\ p # <<>> /\ j >= Len(q) + 1 /\ Len(q) \in Nat
  <2>1. Len(p) > Len(q) /\ Len(q) \in Nat
    BY <1>2, <1>4, LenProperties DEF Block
  <2>2. j > 0 /\ j \in 1..Len(cs) /\ j >= Len(q) + 1
    BY <1>1, <1>5, <2>1
  <2>3. Last(p) = cs[j]
    BY <1>1, <1>5, <2>2, UnderFacts
  <2>4. cs[j].th = th
    BY <1>1, <1>5, <2>1, <2>2, <1>2 DEF Block
  <2> QED BY <1>4, <1>5, <2>1, <2>2, <2>3, <2>4, EmptySeq
<1>7. CallsOf(p, th, FALSE) = {} /\ Undisturbed(p, th) /\ CountsFit(p, th, l.nCcalls, l.baseCcalls)
  BY <1>1, <1>3, <1>5, CountsUnwind
<1> HIDE DEF p
<1>8. Continuable(l, n - 1)
  <2>1. CASE Top.k = "execute"
    <3>1. Runs(cs, n, l)
      BY <1>1, <2>1 DEF TopFits
    <3>2. Continuable(l, n)
      BY <1>1, <1>3, <3>1 DEF Runs, Accounted
    <3> QED BY <1>1, <3>2 DEF Continuable
  <2>2. CASE Top.k = "c"
    <3>1. Accounted(p, Top.ci - 1, l) /\ n = Top.ci
      BY <1>1, <2>2 DEF Sits
    <3> QED BY <1>6, <1>7, <3>1 DEF Accounted
  <2> QED BY <2>1, <2>2
<1>9. FramesFit(p, k) /\ Shape(p)
  <2>1. cs[j].th = Last(cs).th /\ n \in Int
    BY <1>1, <1>6
  <2>2. \A i \in 1..j : cs[i].th = Last(cs).th => Reach(cs[i]) <= n
    BY <1>1, <1>5, OkayFacts
  <2>3. \A m \in 1..Len(k.ci) : k.ci[m].handle =>
           \/ Continuable(k, m)
           \/ /\ m <= n /\ l.ci[m].handle
              /\ \A i \in j+1..Len(cs) : ~(cs[i].k = "c" /\ cs[i].pc = "wait" /\ cs[i].ci = m)
    <3> TAKE m \in 1..Len(k.ci)
    <3> HAVE k.ci[m].handle
    <3>1. Continuable(k, m) \/ (m <= n /\ l.ci[m].handle)
      BY <1>8
    <3>2. CASE m <= n /\ l.ci[m].handle
      <4>1. m \in 1..n
        BY <1>1, <3>2, FrameTypes
      <4>2. FnOf(l, m) \in {"pcall", "xpcall"}
        BY <1>1, <3>2, <4>1 DEF FramesOK
      <4>3. \A i \in j+1..Len(cs) : i = Len(cs)
        BY <1>1
      <4>4. ~(Top.k = "c" /\ Top.pc = "wait" /\ Top.ci = m)
        BY <4>2
      <4> QED BY <1>1, <3>2, <4>3, <4>4
    <3> QED BY <3>1, <3>2
  <2>4. \A i \in 1..j : cs[i].th = Last(cs).th /\ cs[i].k \in {"execute", "resume"} => k.isactive
    <3> TAKE i \in 1..j
    <3>1. i \in 1..Len(cs)
      BY <1>1, <1>5
    <3> QED BY <1>1, <3>1 DEF Okay, FramesFit, ActiveFits, In
  <2>5. ~(j = 1 /\ cs[1].k = "pcall")
    <3> SUFFICES ASSUME j = 1, cs[1].k = "pcall" PROVE FALSE
      OBVIOUS
    <3>1. Len(q) = 0
      <4>1. Len(q) \in Nat /\ 1 >= Len(q) + 1
        BY <1>6
      <4> QED BY ONLY <4>1
    <3>2. cs[1].k = a
      BY <1>2, <3>1 DEF Heads
    <3> QED BY <1>3, <3>2
  <2>6. FramesFit(cs, l)
    BY <1>1 DEF Okay
  <2> HIDE DEF j
  <2>7. FramesFit(Under(cs, j), k) /\ Shape(Under(cs, j))
    BY <1>1, <1>6, <2>1, <2>2, <2>3, <2>4, <2>5, <2>6, FramesUnder
  <2> QED BY <2>7 DEF p, j
<1>10. Unwinds(p, k)
  <2>1. \A i \in 1..Len(p) : In(p, i) =>
          /\ p[i].k = "c" => p[i].pc = "wait" /\ FnOf(k, p[i].ci) # "resume"
          /\ p[i].k \in {"pcall", "resume"} => p[i].pc # "errf"
    <3> TAKE i \in 1..Len(p)
    <3> HAVE In(p, i)
    <3>1. i \in 1..j /\ i \in 1..Len(cs) /\ p[i] = cs[i] /\ cs[i].th = th /\ cs[i] \in Record
      <4>1. i \in 1..j /\ i \in 1..Len(cs)
        BY <1>1, <1>5
      <4>2. p[i].th = th
        BY <1>6 DEF In
      <4> QED BY <1>1, <1>5, <4>1, <4>2, ElementOfSeq
    <3>2. p[i].k \in {"pcall", "resume"} => p[i].pc # "errf"
      BY <1>3, <3>1 DEF Undisturbed
    <3>3. p[i].k = "c" => p[i].pc = "wait" /\ FnOf(k, p[i].ci) # "resume"
      <4> HAVE p[i].k = "c"
      <4>1. p[i].pc = "wait" /\ FnOf(l, p[i].ci) # "resume"
        BY <1>3, <3>1
      <4>2. p[i].ci \in 1..n
        <5>1. Reach(cs[i]) <= n
          BY <1>1, <3>1, OkayFacts
        <5> QED BY <1>1, <3>1, <5>1, ReachType DEF Reach
      <4> QED BY <4>1, <4>2 DEF Alike
    <3> QED BY <3>2, <3>3
  <2> QED BY <1>3, <1>6, <1>7, <1>8, <2>1 DEF Unwinds
<1>11. Okay(p, k)
  BY <1>6, <1>9 DEF Okay
<1>12. Fits(p, k)
  <2>1. k.status # "OK"
    BY DEF Yielded
  <2> QED BY <1>6, <1>7, <1>9, <1>10, <2>1 DEF Fits
<1> QED BY <1>4, <1>11, <1>12, Goes

\* lua_yield, lua_break and VM_INTERRUPT.
LEMMA SuspendEnds ==
  ASSUME NEW q, NEW a, NEW th, NEW l, At(q, a, th, l), l.status = "OK",
         \/ Top.k = "execute"
         \/ /\ Top.k = "c" /\ Top.pc # "error"
            /\ Top.pc = "wait" => FnOf(l, Top.ci) \notin {"pcall", "xpcall"},
         NEW status \in {"YIELD", "BREAK"}, Suspend(th, status, PopC)
  PROVE  Ends(q, th, a)
<1>1. /\ l \in LuaState /\ Okay(cs, l) /\ Len(l.ci) \in Nat /\ l = L[th] /\ Top.th = th /\ FramesOK(l)
      /\ TopFits(cs, l) /\ Top = Last(cs) /\ l.ci \in Seq(CallInfo) /\ Top \in Record
      /\ Sits(Under(cs, Len(cs) - 1), Top, l)
  BY AtFacts
<1>2. CASE ~lua_isyieldable(l)
  <2>1. Error(th)
    BY <1>1, <1>2 DEF Suspend
  <2> QED BY <2>1, ErrorEnds
<1>3. CASE lua_isyieldable(l)
  <2> DEFINE k == [l EXCEPT !.status = status]
  <2>1. Become(th, k, PopC)
    BY <1>1, <1>3 DEF Suspend
  <2>2. /\ k \in LuaState /\ k.ci = l.ci /\ k.isactive = l.isactive /\ k.status = status
        /\ k.nCcalls = l.nCcalls /\ k.baseCcalls = l.baseCcalls
    BY <1>1 DEF LuaState, Yielded
  <2> HIDE DEF k
  <2>3. FramesOK(k) /\ Alike(l, k, Len(l.ci)) /\ (\A h : Continuable(l, h) => Continuable(k, h))
    BY <1>1, <2>2 DEF FramesOK, Alike, Continuable, FnOf
  <2>4. k.status \in Yielded /\ k.status # "REENTRY"
    BY <2>2 DEF Yielded
  <2>5. Len(l.ci) > 0
    <3>1. CASE Top.k = "execute"
      BY <1>1, <3>1 DEF TopFits, Runs
    <3>2. CASE Top.k = "c"
      <4>1. Top.ci <= Len(l.ci) /\ Top.ci \in Nat /\ Top.ci > 0
        BY <1>1, <3>2, ReachType DEF Sits, Reach
      <4> QED BY <1>1, <4>1
    <3> QED BY <3>1, <3>2
  <2>6. k.ci # <<>>
    BY <1>1, <2>2, <2>5
  <2>7. Top.k = "c" => Len(l.ci) = Top.ci
    <3> HIDE DEF FnOf
    <3> QED BY <1>1 DEF TopFits
  <2>8. Continuable(l, Len(l.ci) - 1) =>
           /\ Continuable(k, Len(k.ci) - 1) /\ (k.status = "REENTRY" => Continuable(k, Len(k.ci)))
           /\ \A m \in 1..Len(k.ci) : k.ci[m].handle =>
                Continuable(k, m) \/ (m <= Len(l.ci) /\ l.ci[m].handle)
    BY <1>1, <2>2, <2>3, <2>4
  <2> QED BY <1>3, <2>1, <2>2, <2>3, <2>4, <2>6, <2>7, <2>8, UnwindStart
<1> QED BY <1>2, <1>3

-----------------------------------------------------------------------------
(* The steps of a function.                                                  *)

\* A metamethod or an iterator, called by luau_execute.
LEMMA LuaCallsEnds ==
  ASSUME NEW q, NEW a, NEW th, NEW l, At(q, a, th, l), l.status = "OK", Top.k = "execute",
         NEW kind \in {"int", "iter", "ny"}, NEW y \in BOOLEAN, kind = "ny" => ~y,
         NEW fn \in Callee, Call(th, kind, y, fn, cs)
  PROVE  Ends(q, th, a)
<1>1. /\ cs # <<>> /\ cs \in Seq(Record) /\ Len(cs) \in Nat /\ Top = Last(cs) /\ Top = cs[Len(cs)]
      /\ Okay(cs, l) /\ CountsFit(cs, th, l.nCcalls, l.baseCcalls) /\ TopFits(cs, l) /\ l = L[th]
  BY AtFacts
<1>2. flags \in Flags /\ q \in Seq(Record) /\ Context(q, th) /\ Block(q, th, cs) /\ Heads(q, a, cs)
  BY DEF At
<1>3. Runs(cs, Len(l.ci), l)
  BY <1>1 DEF TopFits
<1>4. Caller(cs, l, y)
  <2>1. Accounted(cs, Len(l.ci), l)
    BY <1>3 DEF Runs
  <2>2. ~(Len(cs) = 1 /\ cs[1].k = "pcall")
    BY <1>1
  <2> QED BY <1>1, <1>3, <2>1, <2>2 DEF Caller
<1>5. Exposed(cs, th, l) => Exposed(cs, th, L[th])
  BY <1>1
<1> QED BY <1>1, <1>2, <1>4, <1>5, CallStep

\* The thread stands on stack s, about to call or to fail.
Stands(q, a, th, k, s) ==
  /\ Okay(s, k) /\ Block(q, th, s) /\ Heads(q, a, s)
  /\ CountsFit(s, th, k.nCcalls, k.baseCcalls)
  /\ Exposed(s, th, k) => Exposed(cs, th, L[th])

\* A C function goes on to another of its points, and may begin to handle errors.
LEMMA SetsPc ==
  ASSUME NEW q, NEW a, NEW th, NEW l, At(q, a, th, l), Top.k = "c",
         NEW pc \in {"run", "cont", "wait", "failed"},
         NEW k \in LuaState, FramesOK(k), Len(k.ci) = Len(l.ci), Alike(l, k, Len(l.ci)),
         k.isactive = l.isactive, k.nCcalls = l.nCcalls, k.baseCcalls = l.baseCcalls,
         \A m \in 1..Len(l.ci) : k.ci[m].handle => l.ci[m].handle \/ m = Top.ci,
         \A m \in 1..Len(l.ci) : l.ci[m].handle => k.ci[m].handle,
         k.ci[Top.ci].handle => pc = "wait",
         NEW s, s = SetPc(pc), NEW r, r = [Top EXCEPT !.pc = pc]
  PROVE  Stands(q, a, th, k, s) /\ s = Append(Front(cs), r) /\ r = CBody(th, Top.ci, pc)
<1> DEFINE p == Under(cs, Len(cs) - 1)
<1>1. /\ Shape(cs) /\ cs # <<>> /\ cs \in Seq(Record) /\ Len(cs) \in Nat /\ Len(cs) > 0
      /\ Top = Last(cs) /\ Top = cs[Len(cs)] /\ Top \in Record /\ Top.th = th /\ th \in Thread
      /\ l \in LuaState /\ Okay(cs, l) /\ l.nCcalls \in Int /\ l.baseCcalls \in Int /\ l = L[th]
      /\ CountsFit(cs, th, l.nCcalls, l.baseCcalls) /\ Len(l.ci) \in Nat
  BY AtFacts
<1>2. q \in Seq(Record) /\ Block(q, th, cs) /\ Heads(q, a, cs) /\ a \in {"pcall", "resume"}
  BY DEF At
<1>3. s = Append(Front(cs), r)
  BY <1>1 DEF SetPc
<1>4. /\ r \in Record /\ r = CBody(th, Top.ci, pc)
      /\ r.k = "c" /\ r.th = th /\ r.ci = Top.ci /\ r.pc = pc
  <2>1. Top \in CRec
    BY <1>1, RecordKinds
  <2> QED BY <1>1, <2>1 DEF Record, CRec, CBody
<1>5. FramesFit(s, k) /\ Shape(s)
  <2>1. FramesFit(cs, l)
    BY <1>1 DEF Okay
  <2>2. r.pc # "error"
    BY <1>4
  <2>3. \A m \in 1..Len(l.ci) : k.ci[m].handle => l.ci[m].handle \/ m = r.ci
    BY <1>4
  <2>4. k.ci[r.ci].handle => r.pc = "wait"
    BY <1>4
  <2>5. r.k = "c" /\ r.th = Last(cs).th /\ r.ci = Last(cs).ci /\ Last(cs).k = "c"
    BY <1>1, <1>4
  <2>6. r.pc = "error" => FnOf(l, r.ci) \in {"pcall", "xpcall"}
    BY <2>2
  <2>7. FramesFit(Append(Front(cs), r), k) /\ Shape(Append(Front(cs), r))
    <3>1. /\ Shape(cs) /\ cs # <<>> /\ r \in Record /\ l \in LuaState /\ k \in LuaState
          /\ Len(k.ci) = Len(l.ci) /\ k.isactive = l.isactive /\ Alike(l, k, Len(l.ci))
      BY <1>1, <1>4
    <3> QED BY ONLY <3>1, <2>1, <2>3, <2>4, <2>5, <2>6, FramesSet
  <2> QED BY <1>3, <2>7
<1>6. Block(q, th, p) /\ Heads(q, a, p) /\ Front(cs) = p /\ p \in Seq(Record) /\ cs = Append(p, Top)
  <2>1. Last(cs).k \in {"execute", "c", "call"}
    BY <1>1
  <2>2. /\ Front(cs) = Under(cs, Len(cs) - 1)
        /\ Under(cs, Len(cs) - 1) \in Seq(Record) /\ cs = Append(Under(cs, Len(cs) - 1), Last(cs))
    BY <1>1, TopApart
  <2>3. Block(q, th, p) /\ Heads(q, a, p)
    BY <1>1, <1>2, <2>1, PopBlock
  <2> QED BY <1>1, <2>2, <2>3
<1>7. Len(p) \in Nat /\ Len(p) = Len(cs) - 1 /\ (\A i \in 1..Len(p) : p[i] = cs[i])
  <2>1. Len(cs) - 1 \in 0..Len(cs) /\ Len(cs) - 1 \in Nat
    BY <1>1
  <2> DEFINE j == Len(cs) - 1
  <2> HIDE DEF j
  <2>2. Len(Under(cs, j)) = j /\ \A i \in 1..j : Under(cs, j)[i] = cs[i]
    BY <1>1, <2>1, UnderFacts DEF j
  <2> QED BY <2>1, <2>2 DEF j
<1> HIDE DEF p
<1>8. Block(q, th, s) /\ Heads(q, a, s)
  <2>1. r.k # "resume"
    BY <1>4
  <2>2. Block(q, th, Append(p, r)) /\ Heads(q, a, Append(p, r))
    BY <1>2, <1>4, <1>6, <2>1, BlockGrows
  <2> QED BY <1>3, <1>6, <2>2
<1>9. CountsFit(s, th, k.nCcalls, k.baseCcalls)
  <2>1. CountsFit(p, th, l.nCcalls, l.baseCcalls)
    <3>1. CountsFit(Append(p, Top), th, l.nCcalls, l.baseCcalls)
      BY <1>1, <1>6
    <3>2. Top.k \notin {"call", "resume"} /\ (Top.k = "pcall" => Top.pc # "errf")
      OBVIOUS
    <3> QED BY <1>1, <1>6, <3>1, <3>2, CountsPush
  <2>2. r.k \notin {"call", "resume"}
    BY <1>4
  <2>3. CountsFit(Append(p, r), th, l.nCcalls, l.baseCcalls)
    BY <1>1, <1>4, <1>6, <2>1, <2>2, CountsPush
  <2> QED BY <1>3, <1>6, <2>3
<1>10. s # <<>> /\ Len(s) = Len(cs) /\ (\A i \in 1..Len(p) : s[i] = cs[i])
  BY <1>1, <1>3, <1>4, <1>6, <1>7, PushFacts
<1>11. Exposed(s, th, k) => Exposed(cs, th, L[th])
  <2> HAVE Exposed(s, th, k)
  <2>1. \A m \in 1..Len(l.ci) : ~l.ci[m].handle
    BY DEF Exposed
  <2>2. \A i \in 1..Len(cs) : cs[i].th = th => cs[i].k # "pcall"
    <3> TAKE i \in 1..Len(cs)
    <3>1. CASE i = Len(cs)
      BY <1>1, <3>1
    <3>2. CASE i # Len(cs)
      <4>1. i \in 1..Len(p) /\ i \in 1..Len(s)
        BY <1>1, <1>7, <1>10, <3>2
      <4> QED BY <1>10, <4>1 DEF Exposed
    <3> QED BY <3>1, <3>2
  <2> QED BY <1>1, <2>1, <2>2 DEF Exposed
<1>12. Okay(s, k)
  BY <1>5, <1>10 DEF Okay
<1> QED BY <1>3, <1>4, <1>8, <1>9, <1>11, <1>12 DEF Stands

\* A record more of the thread does not uncover a handler.
LEMMA AccountedPush ==
  ASSUME NEW p \in Seq(Record), p # <<>>, NEW r \in Record, r.th = Last(p).th, NEW h, NEW l, Accounted(p, h, l)
  PROVE  Accounted(Append(p, r), h, l)
<1> DEFINE s == Append(p, r)
<1>1. Len(p) \in Nat /\ Len(s) = Len(p) + 1 /\ (\A i \in 1..Len(p) : s[i] = p[i]) /\ Last(s) = r
  BY PushFacts, LenProperties
<1> HIDE DEF s
<1>2. CallsOf(p, Last(p).th, FALSE) \subseteq CallsOf(s, Last(s).th, FALSE)
  BY <1>1 DEF CallsOf
<1> QED BY <1>2 DEF Accounted, s

\* The same, with the record r of a luaD_pcall on top.
Protected(q, a, th, k, r, t) ==
  /\ Stands(q, a, th, k, t) /\ Last(t) = r /\ r \in Record /\ r.k = "pcall" /\ r.pc = "run"
  /\ r.ci = Len(k.ci) /\ Len(t) # 1 /\ ~Exposed(t, th, k) /\ ~Exposed(t, th, Counted(k, FALSE))

\* luaD_pcall begins.
LEMMA PushPcall ==
  ASSUME NEW q \in Seq(Record), NEW a, NEW th \in Thread, NEW k, NEW s, Stands(q, a, th, k, s),
         Last(s).k = "c", Last(s).pc = "wait", Last(s).th = th,
         FnOf(k, Last(s).ci) \in {"c", "pcall", "xpcall"},
         FnOf(k, Last(s).ci) = "c" => Last(s).ci = Len(k.ci),
         NEW ef \in BOOLEAN, NEW r, r = PcallRecord(th, k, ef),
         NEW t, t = Append(s, r)
  PROVE  Protected(q, a, th, k, r, t)
<1>1. /\ Okay(s, k) /\ Block(q, th, s) /\ Heads(q, a, s) /\ CountsFit(s, th, k.nCcalls, k.baseCcalls)
  BY DEF Stands
<1>2. /\ Shape(s) /\ s # <<>> /\ k \in LuaState /\ FramesOK(k) /\ FramesFit(s, k)
  BY <1>1 DEF Okay
<1>3. /\ s \in Seq(Record) /\ Len(s) \in Nat /\ Len(s) > 0 /\ Last(s) = s[Len(s)] /\ Last(s) \in Record
      /\ \A i \in 1..Len(s) : s[i].th = Last(s).th => Reach(s[i]) <= Len(k.ci)
  BY <1>1, OkayFacts
<1>4. Len(k.ci) \in Nat /\ k.nCcalls \in Int /\ k.baseCcalls \in Int /\ k.isactive \in BOOLEAN
  BY <1>2, FrameTypes
<1>5. /\ r \in Record /\ r.k = "pcall" /\ r.pc = "run" /\ r.ci = Len(k.ci) /\ r.th = th
      /\ r.n = k.nCcalls /\ r.base = k.baseCcalls /\ r.act = k.isactive
  BY <1>4 DEF PcallRecord, Record, PcallRec
<1>6. Lands(s, r)
  <2>1. Follows(Last(s), r)
    BY <1>5 DEF Follows
  <2>2. ~(Len(s) = 1 /\ s[1].k = "pcall")
    BY <1>3
  <2>3. \A m \in 1..Len(s) : s[m].th = r.th /\ s[m].k \in {"execute", "resume"} => r.act
    BY <1>2, <1>5 DEF FramesFit, ActiveFits, In
  <2>4. \A m \in 1..Len(s) : s[m].th = r.th => Reach(s[m]) <= r.ci
    BY <1>3, <1>5
  <2>5. CountsFit(s, r.th, r.n, r.base)
    BY <1>1, <1>5
  <2> QED BY <1>2, <1>5, <2>1, <2>2, <2>3, <2>4, <2>5 DEF Lands
<1>7. Sits(s, r, k)
  <2>1. Reach(r) <= Len(k.ci)
    BY <1>4, <1>5 DEF Reach
  <2> HIDE DEF FnOf
  <2> QED BY <1>5, <2>1 DEF Sits
<1>8. FramesFit(t, k) /\ Shape(t)
  <2>1. r.k # "resume" /\ r.k # "execute"
    BY <1>5
  <2> QED BY <1>2, <1>5, <1>6, <1>7, <2>1, FramesPush
<1>9. Block(q, th, t) /\ Heads(q, a, t)
  <2>1. r.k # "resume"
    BY <1>5
  <2> QED BY <1>1, <1>5, <2>1, BlockGrows
<1>10. CountsFit(t, th, k.nCcalls, k.baseCcalls)
  <2>1. r.k \notin {"call", "resume"}
    BY <1>5
  <2> QED BY <1>1, <1>3, <1>4, <1>5, <2>1, CountsPush
<1>11. t # <<>> /\ Len(t) = Len(s) + 1 /\ t[Len(s) + 1] = r /\ Last(t) = r
  BY <1>3, <1>5, PushFacts
<1>12. Len(t) # 1 /\ Len(s) + 1 \in 1..Len(t)
  BY <1>3, <1>11
<1>13. ~Exposed(t, th, k) /\ ~Exposed(t, th, Counted(k, FALSE))
  BY <1>5, <1>11, <1>12 DEF Exposed
<1>14. Okay(t, k)
  BY <1>2, <1>8, <1>11 DEF Okay
<1> QED BY <1>5, <1>9, <1>10, <1>11, <1>12, <1>13, <1>14 DEF Stands, Protected

\* Where a C function runs, and what is below it.
LEMMA BodyFacts ==
  ASSUME NEW q, NEW a, NEW th, NEW l, At(q, a, th, l), l.status = "OK", Top.k = "c"
  PROVE  /\ Top.ci \in 1..Len(l.ci) /\ Accounted(Front(cs), Top.ci - 1, l)
         /\ Top.pc \in {"run", "cont", "failed"} => Top.ci = Len(l.ci)
         /\ Front(cs) \in Seq(Record) /\ Front(cs) # <<>> /\ Last(Front(cs)).th = th
         /\ Top.pc = "error" => FnOf(l, Top.ci) \in {"pcall", "xpcall"}
<1> DEFINE p == Under(cs, Len(cs) - 1)
<1>1. /\ Shape(cs) /\ cs # <<>> /\ Top = Last(cs) /\ Top \in Record /\ l \in LuaState /\ Len(l.ci) \in Nat
      /\ TopFits(cs, l) /\ Sits(p, Top, l) /\ cs \in Seq(Record) /\ Top.th = th
  BY AtFacts
<1>2. Front(cs) = p /\ p # <<>> /\ p \in Seq(Record) /\ Last(p).th = th
  <2>1. Last(cs).k # "resume" /\ ~(Len(cs) = 1 /\ Last(cs).k = "pcall")
    BY <1>1
  <2>2. p # <<>> /\ p \in Seq(Record) /\ Last(p).th = Last(cs).th
    BY <1>1, <2>1, Below
  <2> QED BY <1>1, <2>2, TopApart
<1> HIDE DEF p
<1> HIDE DEF FnOf
<1>3. Top.ci \in 1..Len(l.ci)
  <2>1. Reach(Top) <= Len(l.ci)
    BY <1>1 DEF Sits
  <2> QED BY <1>1, <2>1, ReachType DEF Reach
<1>4. Accounted(p, Top.ci - 1, l) /\ (Top.pc = "error" => FnOf(l, Top.ci) \in {"pcall", "xpcall"})
  BY <1>1 DEF Sits
<1>5. Top.pc \in {"run", "cont", "failed"} => Top.ci = Len(l.ci)
  BY <1>1 DEF TopFits
<1> QED BY <1>2, <1>3, <1>4, <1>5

\* A function with frames as they are waits.
LEMMA WaitsFor ==
  ASSUME NEW q, NEW a, NEW th, NEW l, At(q, a, th, l), l.status = "OK", Top.k = "c",
         NEW pc \in {"run", "cont", "wait", "failed"},
         l.ci[Top.ci].handle => pc = "wait",
         NEW s, s = SetPc(pc)
  PROVE  /\ Stands(q, a, th, l, s) /\ s = Append(Front(cs), CBody(th, Top.ci, pc))
         /\ Last(s) = CBody(th, Top.ci, pc) /\ CBody(th, Top.ci, pc) \in Record
<1> DEFINE r == [Top EXCEPT !.pc = pc]
<1>1. l \in LuaState /\ FramesOK(l) /\ Len(l.ci) \in Nat /\ Top \in Record /\ Top.th = th
  BY AtFacts
<1>2. Alike(l, l, Len(l.ci))
  BY <1>1 DEF Alike
<1> HIDE DEF r
<1>3. Stands(q, a, th, l, s) /\ s = Append(Front(cs), r) /\ r = CBody(th, Top.ci, pc)
  BY <1>1, <1>2, SetsPc DEF r
<1>4. Front(cs) \in Seq(Record) /\ CBody(th, Top.ci, pc) \in Record
  <2>1. Top \in CRec
    BY <1>1, RecordKinds
  <2>2. CBody(th, Top.ci, pc) \in Record
    BY <1>1, <2>1 DEF CBody, Record, CRec
  <2> QED BY <2>2, BodyFacts
<1> QED BY <1>3, <1>4, PushFacts

\* luaD_callint from a C function, with and without a continuation.
LEMMA CCallsEnds ==
  ASSUME NEW q, NEW a, NEW th, NEW l, At(q, a, th, l), l.status = "OK", Top.k = "c", Top.pc \in {"run", "cont"},
         NEW y \in BOOLEAN, FnOf(l, Top.ci) = IF y THEN "k" ELSE "c",
         NEW fn \in Callee, Call(th, "int", y, fn, SetPc("wait"))
  PROVE  Ends(q, th, a)
<1>1. PICK s : s = SetPc("wait")
  OBVIOUS
<1>2. PICK kind \in {"int", "iter", "ny"} : kind = "int"
  OBVIOUS
<1>3. PICK pc \in {"run", "cont", "wait", "failed"} : pc = "wait"
  OBVIOUS
<1>4. flags \in Flags /\ q \in Seq(Record) /\ Context(q, th) /\ l = L[th]
  BY DEF At
<1>5. /\ Stands(q, a, th, l, s) /\ s = Append(Front(cs), CBody(th, Top.ci, pc))
      /\ Last(s) = CBody(th, Top.ci, pc) /\ CBody(th, Top.ci, pc) \in Record
  BY <1>1, <1>3, WaitsFor
<1>6. /\ Top.ci \in 1..Len(l.ci) /\ Accounted(Front(cs), Top.ci - 1, l) /\ Top.ci = Len(l.ci)
      /\ Front(cs) \in Seq(Record) /\ Front(cs) # <<>> /\ Last(Front(cs)).th = th
  BY BodyFacts
<1>7. Last(s).k = "c" /\ Last(s).pc = "wait" /\ Last(s).ci = Len(l.ci) /\ Last(s).th = th
  BY <1>3, <1>5, <1>6 DEF CBody
<1>8. Caller(s, l, y)
  <2>1. y => Accounted(s, Len(l.ci), l)
    <3> HAVE y
    <3>1. FnOf(l, Len(l.ci)) # "c" /\ Len(l.ci) \in Nat
      BY <1>6, AtFacts
    <3>2. Accounted(Front(cs), Len(l.ci), l)
      <4> DEFINE n == Len(l.ci)
      <4>1. n \in Nat /\ FnOf(l, n) # "c" /\ Accounted(Front(cs), n - 1, l)
        BY <1>6, <3>1
      <4> HIDE DEF n, FnOf
      <4>2. Continuable(l, n - 1) => Continuable(l, n)
        <5> SUFFICES ASSUME Continuable(l, n - 1), NEW m \in 1..n PROVE FnOf(l, m) # "c"
          BY DEF Continuable
        <5>1. m = n \/ m \in 1..n-1
          BY <4>1
        <5> QED BY <4>1, <5>1 DEF Continuable
      <4>3. Accounted(Front(cs), n, l)
        BY <4>1, <4>2 DEF Accounted
      <4> QED BY <4>3 DEF n
    <3>3. CBody(th, Top.ci, pc).th = th
      BY DEF CBody
    <3> QED BY <1>5, <1>6, <3>2, <3>3, AccountedPush
  <2>2. ~(Len(s) = 1 /\ s[1].k = "pcall")
    BY <1>7 DEF Last
  <2>3. FnOf(l, Len(l.ci)) = IF y THEN "k" ELSE "c"
    BY <1>6
  <2> QED BY <1>7, <2>1, <2>2, <2>3 DEF Caller
<1>9. /\ Okay(s, l) /\ Block(q, th, s) /\ Heads(q, a, s) /\ CountsFit(s, th, l.nCcalls, l.baseCcalls)
      /\ Exposed(s, th, l) => Exposed(cs, th, L[th])
  BY <1>5 DEF Stands
<1>10. Call(th, kind, y, fn, s) /\ kind # "ny"
  BY <1>1, <1>2
<1> QED BY <1>4, <1>8, <1>9, <1>10, CallStep

\* lua_pcall, and luaB_xpcallcont: the call that luaD_pcall makes.
LEMMA PcallsEnds ==
  ASSUME NEW q, NEW a, NEW th, NEW l, At(q, a, th, l), l.status = "OK", Top.k = "c",
         FnOf(l, Top.ci) \in {"c", "pcall", "xpcall"}, FnOf(l, Top.ci) = "c" => Top.ci = Len(l.ci),
         NEW kind \in {"int", "iter", "ny"}, NEW fn \in Callee,
         Call(th, kind, FALSE, fn, Append(SetPc("wait"), PcallRecord(th, l, FALSE)))
  PROVE  Ends(q, th, a)
<1>1. PICK s : s = SetPc("wait")
  OBVIOUS
<1>2. PICK no \in BOOLEAN : no = FALSE
  OBVIOUS
<1>3. PICK pc \in {"run", "cont", "wait", "failed"} : pc = "wait"
  OBVIOUS
<1>4. PICK r : r = PcallRecord(th, l, no)
  OBVIOUS
<1>5. PICK t : t = Append(s, r)
  OBVIOUS
<1>6. flags \in Flags /\ q \in Seq(Record) /\ Context(q, th) /\ l = L[th] /\ th \in Thread
  BY AtFacts DEF At
<1>7. Stands(q, a, th, l, s) /\ Last(s) = CBody(th, Top.ci, pc)
  BY <1>1, <1>3, WaitsFor
<1>8. Last(s).k = "c" /\ Last(s).pc = "wait" /\ Last(s).ci = Top.ci /\ Last(s).th = th
  BY <1>3, <1>7 DEF CBody
<1>9. /\ Stands(q, a, th, l, t) /\ Last(t) = r /\ r \in Record /\ r.k = "pcall" /\ r.pc = "run"
      /\ r.ci = Len(l.ci) /\ Len(t) # 1
  <2>1. FnOf(l, Last(s).ci) \in {"c", "pcall", "xpcall"} /\ (FnOf(l, Last(s).ci) = "c" => Last(s).ci = Len(l.ci))
    BY <1>8
  <2>2. Protected(q, a, th, l, r, t)
    BY <1>4, <1>5, <1>6, <1>7, <1>8, <2>1, PushPcall
  <2> QED BY <2>2 DEF Protected
<1>10. Caller(t, l, no)
  BY <1>2, <1>9 DEF Caller
<1>11. /\ Okay(t, l) /\ Block(q, th, t) /\ Heads(q, a, t) /\ CountsFit(t, th, l.nCcalls, l.baseCcalls)
       /\ Exposed(t, th, l) => Exposed(cs, th, L[th])
  BY <1>9 DEF Stands
<1>12. Call(th, kind, no, fn, t) /\ ~no
  BY <1>1, <1>2, <1>4, <1>5
<1> QED BY <1>6, <1>10, <1>11, <1>12, CallStep

\* State k is l with frame h handling errors.
Handling(l, k, h) ==
  /\ k \in LuaState /\ FramesOK(k) /\ Len(k.ci) = Len(l.ci) /\ Alike(l, k, Len(l.ci))
  /\ k.isactive = l.isactive /\ k.nCcalls = l.nCcalls /\ k.baseCcalls = l.baseCcalls /\ k.status = l.status
  /\ \A m \in 1..Len(l.ci) : /\ FnOf(k, m) = FnOf(l, m)
                             /\ k.ci[m].handle => l.ci[m].handle \/ m = h
                             /\ l.ci[m].handle => k.ci[m].handle

\* The frame of pcall or xpcall handles errors from now on.
LEMMA HandleOn ==
  ASSUME NEW l \in LuaState, FramesOK(l), NEW h \in 1..Len(l.ci), FnOf(l, h) \in {"pcall", "xpcall"},
         NEW k, k = [l EXCEPT !.ci[h].handle = TRUE]
  PROVE  Handling(l, k, h)
<1> DEFINE c == [l.ci EXCEPT ![h].handle = TRUE]
<1>1. l.ci \in Seq(CallInfo) /\ Len(l.ci) \in Nat /\ (\A m \in 1..Len(l.ci) : l.ci[m] \in CallInfo)
  BY FrameTypes
<1>2. [l.ci[h] EXCEPT !.handle = TRUE] \in CallInfo
  BY <1>1 DEF CallInfo
<1>3. /\ c \in Seq(CallInfo) /\ Len(c) = Len(l.ci)
      /\ \A m \in 1..Len(l.ci) : c[m] = IF m = h THEN [l.ci[h] EXCEPT !.handle = TRUE] ELSE l.ci[m]
  BY <1>1, <1>2, ExceptSeq
<1>4. k = [l EXCEPT !.ci = c]
  OBVIOUS
<1> HIDE DEF c
<1>5. /\ k \in LuaState /\ k.ci = c
      /\ k.isactive = l.isactive /\ k.nCcalls = l.nCcalls /\ k.baseCcalls = l.baseCcalls /\ k.status = l.status
  BY <1>3, <1>4 DEF LuaState
<1>6. \A m \in 1..Len(l.ci) : /\ c[m].fn = l.ci[m].fn /\ c[m].ret = l.ci[m].ret
                              /\ c[m].handle => l.ci[m].handle \/ m = h
                              /\ l.ci[m].handle => c[m].handle
  BY <1>1, <1>3 DEF CallInfo
<1>7. FramesOK(k)
  <2> SUFFICES ASSUME NEW m \in 1..Len(k.ci)
               PROVE  /\ FnOf(k, m) = "lua" /\ ~k.ci[m].ret => m > 1 /\ FnOf(k, m - 1) = "lua"
                      /\ k.ci[m].handle => FnOf(k, m) \in {"pcall", "xpcall"}
    BY DEF FramesOK
  <2>1. m \in 1..Len(l.ci) /\ (m > 1 => m - 1 \in 1..Len(l.ci))
    BY <1>1, <1>3, <1>5
  <2>2. FnOf(k, m) = FnOf(l, m) /\ k.ci[m].ret = l.ci[m].ret /\ (m > 1 => FnOf(k, m - 1) = FnOf(l, m - 1))
    BY <1>5, <1>6, <2>1 DEF FnOf
  <2>3. FnOf(l, m) = "lua" /\ ~l.ci[m].ret => m > 1 /\ FnOf(l, m - 1) = "lua"
    BY <2>1 DEF FramesOK
  <2>4. l.ci[m].handle => FnOf(l, m) \in {"pcall", "xpcall"}
    BY <2>1 DEF FramesOK
  <2>5. k.ci[m].handle => l.ci[m].handle \/ m = h
    BY <1>5, <1>6, <2>1
  <2> QED BY <2>2, <2>3, <2>4, <2>5
<1> QED BY <1>1, <1>3, <1>5, <1>6, <1>7 DEF Alike, FnOf, Handling

\* pcall and xpcall leave the call to the loop of lua_resume.
LEMMA ReentryEnds ==
  ASSUME NEW q, NEW a, NEW th, NEW l, At(q, a, th, l), l.status = "OK", Top.k = "c", Top.pc = "run",
         FnOf(l, Top.ci) \in {"pcall", "xpcall"}, lua_isyieldable(l),
         NEW k, k = [l EXCEPT !.ci[Top.ci].handle = TRUE],
         NEW e, e = [k EXCEPT !.ci = Append(@, Frame("lua", th, TRUE)), !.status = "REENTRY"],
         Become(th, e, PopC)
  PROVE  Ends(q, th, a)
<1> DEFINE f == Frame("lua", th, TRUE)
           n == Len(l.ci)
<1>1. l \in LuaState /\ FramesOK(l) /\ n \in Nat /\ th \in Thread
  BY AtFacts
<1>2. Top.ci \in 1..n /\ Top.ci = n
  BY BodyFacts
<1>3. /\ k \in LuaState /\ FramesOK(k) /\ Len(k.ci) = n /\ Alike(l, k, n)
      /\ k.isactive = l.isactive /\ k.nCcalls = l.nCcalls /\ k.baseCcalls = l.baseCcalls /\ k.status = l.status
      /\ \A m \in 1..n : /\ FnOf(k, m) = FnOf(l, m)
                         /\ k.ci[m].handle => l.ci[m].handle \/ m = Top.ci
  <2>1. Handling(l, k, Top.ci)
    BY <1>1, <1>2, HandleOn
  <2> QED BY ONLY <2>1 DEF Handling, n
<1>4. f \in CallInfo /\ f.fn = "lua" /\ ~f.handle /\ f.ret
  BY <1>1 DEF Frame, CallInfo
<1> HIDE DEF f
<1>5. k.ci \in Seq(CallInfo)
  BY <1>3, FrameTypes
<1>6. /\ Append(k.ci, f) \in Seq(CallInfo) /\ Len(Append(k.ci, f)) = n + 1
      /\ Append(k.ci, f)[n + 1] = f /\ \A m \in 1..n : Append(k.ci, f)[m] = k.ci[m]
  BY <1>3, <1>4, <1>5, AppendProperties
<1>7. /\ e \in LuaState /\ e.ci = Append(k.ci, f) /\ e.isactive = l.isactive
      /\ e.nCcalls = l.nCcalls /\ e.baseCcalls = l.baseCcalls /\ e.status = "REENTRY"
  <2>1. e = [k EXCEPT !.ci = Append(k.ci, f), !.status = "REENTRY"]
    BY DEF f
  <2> QED BY <1>3, <1>6, <2>1 DEF LuaState, Yielded
<1>8. /\ Len(e.ci) = n + 1 /\ e.ci[n + 1] = f
      /\ \A m \in 1..n : e.ci[m] = k.ci[m] /\ FnOf(e, m) = FnOf(l, m) /\ e.ci[m].ret = l.ci[m].ret
  <2>1. \A m \in 1..n : FnOf(k, m) = FnOf(l, m) /\ k.ci[m].ret = l.ci[m].ret
    BY <1>3 DEF Alike
  <2> QED BY ONLY <1>6, <1>7, <2>1 DEF FnOf
<1> HIDE DEF n
<1>9. FramesOK(e)
  <2> SUFFICES ASSUME NEW m \in 1..Len(e.ci)
               PROVE  /\ FnOf(e, m) = "lua" /\ ~e.ci[m].ret => m > 1 /\ FnOf(e, m - 1) = "lua"
                      /\ e.ci[m].handle => FnOf(e, m) \in {"pcall", "xpcall"}
    BY DEF FramesOK
  <2>1. CASE m = n + 1
    BY <1>4, <1>8, <2>1 DEF FnOf
  <2>2. CASE m # n + 1
    <3>1. m \in 1..n /\ (m > 1 => m - 1 \in 1..n)
      BY <1>1, <1>8, <2>2
    <3>2. FnOf(k, m) = "lua" /\ ~k.ci[m].ret => m > 1 /\ FnOf(k, m - 1) = "lua"
      BY <1>3, <3>1 DEF FramesOK
    <3>3. k.ci[m].handle => FnOf(k, m) \in {"pcall", "xpcall"}
      BY <1>3, <3>1 DEF FramesOK
    <3>4. /\ FnOf(e, m) = FnOf(k, m) /\ e.ci[m] = k.ci[m]
          /\ m > 1 => FnOf(e, m - 1) = FnOf(k, m - 1)
      BY ONLY <1>3, <1>8, <3>1
    <3> QED BY ONLY <3>2, <3>3, <3>4
  <2> QED BY <2>1, <2>2
<1>10. Alike(l, e, n) /\ e.ci # <<>>
  <2>1. Alike(l, e, n)
    <3>1. n <= Len(l.ci) /\ n <= Len(e.ci)
      BY ONLY <1>1, <1>8 DEF n
    <3> QED BY ONLY <1>8, <3>1 DEF Alike
  <2>2. e.ci # <<>>
    BY ONLY <1>1, <1>8
  <2> QED BY <2>1, <2>2
<1>11. ASSUME Continuable(l, n - 1)
       PROVE  /\ Continuable(e, Len(e.ci) - 1) /\ (e.status = "REENTRY" => Continuable(e, Len(e.ci)))
              /\ \A m \in 1..Len(e.ci) : e.ci[m].handle =>
                   Continuable(e, m) \/ (m <= n /\ l.ci[m].handle)
  <2>1. \A m \in 1..n + 1 : FnOf(e, m) # "c"
    <3> TAKE m \in 1..n + 1
    <3>1. CASE m = n + 1
      BY <1>4, <1>8, <3>1 DEF FnOf
    <3>2. CASE m = n
      BY <1>2, <1>8, <3>2
    <3>3. CASE m \in 1..n - 1
      <4>1. m \in 1..n
        BY <1>1, <3>3
      <4> QED BY <1>8, <1>11, <3>3, <4>1 DEF Continuable
    <3> QED BY <1>1, <3>1, <3>2, <3>3
  <2>2. \A m \in 0..n + 1 : Continuable(e, m)
    BY <1>1, <2>1 DEF Continuable
  <2>3. Len(e.ci) - 1 = n /\ n \in 0..n + 1 /\ n + 1 \in 0..n + 1 /\ (\A m \in 1..Len(e.ci) : m \in 0..n + 1)
    BY ONLY <1>1, <1>8
  <2> QED BY ONLY <1>8, <2>2, <2>3
<1>12. e.status \in Yielded
  BY <1>7 DEF Yielded
<1>13. /\ Top.k = "c" /\ Len(l.ci) = Top.ci
       /\ Top.pc = "wait" => FnOf(l, Top.ci) \notin {"pcall", "xpcall"}
  BY <1>2 DEF n
<1>14. Alike(l, e, Len(l.ci)) /\ e.isactive = l.isactive /\ e.nCcalls = l.nCcalls /\ e.baseCcalls = l.baseCcalls
  BY <1>7, <1>10 DEF n
<1>15. Continuable(l, Len(l.ci) - 1) =>
         /\ Continuable(e, Len(e.ci) - 1) /\ (e.status = "REENTRY" => Continuable(e, Len(e.ci)))
         /\ \A m \in 1..Len(e.ci) : e.ci[m].handle =>
              Continuable(e, m) \/ (m <= Len(l.ci) /\ l.ci[m].handle)
  BY <1>11 DEF n
<1>16. e \in LuaState /\ FramesOK(e) /\ e.status \in Yielded /\ e.ci # <<>>
  BY <1>7, <1>9, <1>10, <1>12
<1> QED BY <1>13, <1>14, <1>15, <1>16, UnwindStart

\* pcall and xpcall, in both forms.
LEMMA PcallyEnds ==
  ASSUME NEW q, NEW a, NEW th, NEW l, At(q, a, th, l), l.status = "OK", Top.k = "c", Top.pc = "run",
         FnOf(l, Top.ci) \in {"pcall", "xpcall"}, NEW fn \in Callee, luaB_pcally(fn)
  PROVE  Ends(q, th, a)
<1>1. PICK k : k = [l EXCEPT !.ci[Top.ci].handle = TRUE]
  OBVIOUS
<1>2. PICK s : s = SetPc("wait")
  OBVIOUS
<1>3. PICK pc \in {"run", "cont", "wait", "failed"} : pc = "wait"
  OBVIOUS
<1>4. PICK ef \in BOOLEAN : ef = (TopFn = "xpcall")
  OBVIOUS
<1>5. PICK r : r = PcallRecord(th, k, ef)
  OBVIOUS
<1>6. PICK t : t = Append(s, r)
  OBVIOUS
<1>7. PICK e : e = [Top EXCEPT !.pc = pc]
  OBVIOUS
<1>8. /\ flags \in Flags /\ q \in Seq(Record) /\ Context(q, th)
  BY DEF At
<1>9. l \in LuaState /\ FramesOK(l) /\ Len(l.ci) \in Nat /\ th \in Thread /\ l = L[th] /\ Top.th = th
  BY AtFacts
<1>10. /\ Top.ci \in 1..Len(l.ci) /\ Accounted(Front(cs), Top.ci - 1, l) /\ Top.ci = Len(l.ci)
       /\ Front(cs) \in Seq(Record) /\ Front(cs) # <<>> /\ Last(Front(cs)).th = th
  BY BodyFacts
<1>11. /\ k \in LuaState /\ FramesOK(k) /\ Len(k.ci) = Len(l.ci) /\ Alike(l, k, Len(l.ci))
       /\ k.isactive = l.isactive /\ k.nCcalls = l.nCcalls /\ k.baseCcalls = l.baseCcalls /\ k.status = l.status
       /\ \A m \in 1..Len(l.ci) : /\ FnOf(k, m) = FnOf(l, m)
                                  /\ k.ci[m].handle => l.ci[m].handle \/ m = Top.ci
                                  /\ l.ci[m].handle => k.ci[m].handle
  <2>1. Handling(l, k, Top.ci)
    BY <1>1, <1>9, <1>10, HandleOn
  <2> QED BY ONLY <2>1 DEF Handling
<1>12. Stands(q, a, th, k, s) /\ s = Append(Front(cs), e) /\ e = CBody(th, Top.ci, pc)
  <2>1. k.ci[Top.ci].handle => pc = "wait"
    BY <1>3
  <2>2. s = SetPc(pc)
    BY <1>2, <1>3
  <2>3. /\ \A m \in 1..Len(l.ci) : k.ci[m].handle => l.ci[m].handle \/ m = Top.ci
        /\ \A m \in 1..Len(l.ci) : l.ci[m].handle => k.ci[m].handle
    BY <1>11
  <2> QED BY <1>7, <1>9, <1>11, <2>1, <2>2, <2>3, SetsPc
<1>13. e \in Record /\ e.k = "c" /\ e.th = th /\ e.ci = Top.ci /\ e.pc = "wait"
  <2>1. Top.ci \in Nat \ {0}
    BY <1>9, <1>10
  <2> QED BY <1>3, <1>9, <1>12, <2>1 DEF CBody, Record, CRec
<1>14. s \in Seq(Record) /\ Last(s) = e
  BY <1>10, <1>12, <1>13, PushFacts
<1>15. Protected(q, a, th, k, r, t)
  <2>1. Last(s).k = "c" /\ Last(s).pc = "wait" /\ Last(s).th = th
    BY <1>13, <1>14
  <2>2. FnOf(k, Last(s).ci) \in {"c", "pcall", "xpcall"} /\ (FnOf(k, Last(s).ci) = "c" => Last(s).ci = Len(k.ci))
    <3> HIDE DEF FnOf
    <3> QED BY <1>10, <1>11, <1>13, <1>14
  <2> QED BY <1>5, <1>6, <1>8, <1>9, <1>12, <2>1, <2>2, PushPcall
<1>16. /\ Okay(t, k) /\ Block(q, th, t) /\ Heads(q, a, t) /\ CountsFit(t, th, k.nCcalls, k.baseCcalls)
       /\ Last(t) = r /\ r \in Record /\ r.k = "pcall" /\ r.pc = "run" /\ r.ci = Len(k.ci) /\ Len(t) # 1
       /\ ~Exposed(t, th, Counted(k, FALSE))
  BY <1>15 DEF Protected, Stands
<1>17. /\ TopFn = FnOf(l, Top.ci)
       /\ IF Overflow(Counted(k, TRUE).nCcalls)
          THEN luaD_throw(th, Counted(k, FALSE), t)
          ELSE IF lua_isyieldable(k) /\ fn = "lua"
          THEN Become(th, [k EXCEPT !.ci = Append(@, Frame(fn, th, TRUE)),
                                    !.status = "REENTRY"], PopC)
          ELSE Become(th, Entered(Counted(k, TRUE), fn, th),
                      s \o <<r, CallRecord(th, k, "int", TRUE), Activation(th, k, fn)>>)
  BY <1>1, <1>2, <1>4, <1>5, <1>6, <1>9 DEF luaB_pcally, TopFn, FnOf
<1>18. CASE Overflow(Counted(k, TRUE).nCcalls)
  <2>1. PICK no \in BOOLEAN : no = FALSE
    OBVIOUS
  <2>2. PICK c : c = Counted(k, no)
    OBVIOUS
  <2>3. /\ c \in LuaState /\ c.ci = k.ci /\ c.isactive = k.isactive /\ c.status = k.status
        /\ c.nCcalls = k.nCcalls + 1 /\ c.baseCcalls = k.baseCcalls
    <3>1. k.baseCcalls + 0 = k.baseCcalls
      BY <1>9, <1>11, FrameTypes
    <3> QED BY <1>11, <2>1, <2>2, <3>1, CountedFacts
  <2>4. Okay(t, c)
    BY <1>16, <2>3, OkaySame
  <2>5. CountsCover(t, th, c.nCcalls, c.baseCcalls)
    <3>1. k.nCcalls \in Int /\ k.baseCcalls \in Int /\ t \in Seq(Record)
      BY <1>11, <1>16, FrameTypes, OkayFacts
    <3>2. CountsCover(t, th, k.nCcalls, k.baseCcalls)
      BY <1>16 DEF CountsFit
    <3>3. 0 \in 0..Len(t)
      BY <3>1, LenProperties
    <3>4. CountsCover(t, th, k.nCcalls + 1, k.baseCcalls)
      BY <3>1, <3>2, <3>3, CountsCut
    <3> QED BY <2>3, <3>4
  <2>6. luaD_throw(th, c, t) /\ ~Exposed(t, th, c)
    BY <1>16, <1>17, <1>18, <2>1, <2>2
  <2>7. ~(Last(t).k = "c" /\ Last(t).pc = "wait") /\ c.status = "OK"
    BY <1>11, <1>16, <2>3
  <2> QED BY <1>8, <1>16, <2>4, <2>5, <2>6, <2>7, Throw
<1>19. CASE ~Overflow(Counted(k, TRUE).nCcalls) /\ lua_isyieldable(k) /\ fn = "lua"
  <2>1. lua_isyieldable(l)
    BY <1>11, <1>19 DEF lua_isyieldable
  <2>2. Become(th, [k EXCEPT !.ci = Append(@, Frame("lua", th, TRUE)), !.status = "REENTRY"], PopC)
    BY <1>17, <1>19
  <2> QED BY <1>1, <2>1, <2>2, ReentryEnds
<1>20. CASE ~Overflow(Counted(k, TRUE).nCcalls) /\ ~(lua_isyieldable(k) /\ fn = "lua")
  <2>1. PICK y \in BOOLEAN : y = TRUE
    OBVIOUS
  <2>2. PICK kind \in {"int", "iter", "ny"} : kind = "int"
    OBVIOUS
  <2>3. PICK c : c = CallRecord(th, k, kind, y)
    OBVIOUS
  <2>4. PICK v : v = Activation(th, k, fn)
    OBVIOUS
  <2>5. PICK z : z = Entered(Counted(k, y), fn, th)
    OBVIOUS
  <2>6. PICK u : u = t \o <<c, v>>
    OBVIOUS
  <2>7. c \in Record /\ v \in Record
    <3>1. c \in Record /\ Execute(th) \in Record
      BY <1>9, <1>11, <2>3, CallTypes
    <3>2. CBody(th, Len(k.ci) + 1, "run") \in Record
      BY <1>9, <1>11 DEF CBody, Record, CRec
    <3> QED BY <2>4, <3>1, <3>2 DEF Activation
  <2>8. u = s \o <<r, c, v>>
    <3>1. t \in Seq(Record)
      BY <1>6, <1>14, <1>16, PushFacts
    <3>2. u = Append(Append(t, c), v)
      BY <2>6, <2>7, <3>1, PushTwo
    <3>3. s \o <<r, c, v>> = Append(Append(Append(s, r), c), v)
      BY <1>14, <1>16, <2>7, PushThree
    <3> QED BY <1>6, <3>2, <3>3
  <2>9. Become(th, z, u)
    BY <1>17, <1>20, <2>1, <2>2, <2>3, <2>4, <2>5, <2>8
  <2>10. Caller(t, k, y)
    <3> DEFINE n == Len(l.ci)
    <3>1. n \in Nat /\ FnOf(k, n) # "c" /\ n > 0 /\ Accounted(Front(cs), n - 1, l) /\ Alike(l, k, n) /\ Len(k.ci) = n
      <4> HIDE DEF FnOf
      <4> QED BY <1>9, <1>10, <1>11
    <3>2. Continuable(l, n - 1) => Continuable(k, n)
      <4> HIDE DEF n, FnOf
      <4> SUFFICES ASSUME Continuable(l, n - 1), NEW m \in 1..n PROVE FnOf(k, m) # "c"
        BY DEF Continuable
      <4>1. m = n \/ m \in 1..n-1
        BY <3>1
      <4> QED BY <3>1, <4>1 DEF Continuable, Alike
    <3> HIDE DEF n, FnOf
    <3>3. Accounted(Front(cs), n, k)
      BY <3>1, <3>2 DEF Accounted
    <3>4. Accounted(s, n, k)
      BY <1>10, <1>12, <1>13, <3>3, AccountedPush
    <3>5. r.th = Last(s).th /\ s # <<>>
      <4>1. r.th = th
        BY <1>5 DEF PcallRecord
      <4>2. s # <<>>
        BY <1>10, <1>12, <1>13, PushFacts
      <4> QED BY <1>13, <1>14, <4>1, <4>2
    <3>6. Accounted(t, n, k)
      BY <1>6, <1>14, <1>16, <3>4, <3>5, AccountedPush
    <3>7. Accounted(t, Len(k.ci), k) /\ Len(k.ci) > 0 /\ FnOf(k, Len(k.ci)) # "c"
      BY <3>1, <3>6
    <3> QED BY <1>16, <3>7 DEF Caller
  <2>11. k.status = "OK" /\ kind # "ny"
    BY <1>11, <2>2
  <2>12. Outcome(q, th, a, z, u)
    BY <1>8, <1>16, <2>3, <2>4, <2>5, <2>6, <2>10, <2>11, CallsOn
  <2> QED BY <2>9, <2>12 DEF Ends
<1> QED BY <1>18, <1>19, <1>20

-----------------------------------------------------------------------------
(* Returning through the native stack.                                       *)

\* A thread that yields was resumed, and its resume is not the newest record.
LEMMA UnwindFacts ==
  ASSUME NEW q, NEW a, NEW th, NEW l, At(q, a, th, l), l.status # "OK"
  PROVE  /\ a = "resume" /\ th # MainThread /\ l.status \in Yielded
         /\ Top.k = "resume" => Top.pc = "loop"
         /\ Top.k = "pcall" => Top.pc = "run"
         /\ Top.k = "call" => Top.y /\ Top.kind # "ny"
         /\ CallsOf(cs, th, FALSE) = {} /\ Undisturbed(cs, th)
         /\ l.ci # <<>> /\ Continuable(l, Len(l.ci) - 1) /\ (l.status = "REENTRY" => Continuable(l, Len(l.ci)))
<1>1. /\ Shape(cs) /\ cs \in Seq(Record) /\ Len(cs) \in Nat /\ Len(cs) > 0
      /\ Top = Last(cs) /\ Top = cs[Len(cs)] /\ Top \in Record /\ Top.th = th /\ Unwinds(cs, l)
  BY AtFacts
<1>2. /\ Len(q) \in Nat /\ Len(q) + 1 \in 1..Len(cs) /\ cs[Len(q) + 1].k = a
      /\ \A i \in 1..Len(cs) : In(cs, i) <=> cs[i].th = th
      /\ a # "resume" => q = <<>>
      /\ cs[Len(q) + 1].th = th
  BY AtBlock
<1>3. a \in {"pcall", "resume"}
  BY DEF At
<1>4. th # MainThread /\ CallsOf(cs, th, FALSE) = {} /\ l.status \in Yielded
      /\ \A i \in 1..Len(cs) : cs[i].th = th /\ cs[i].k \in {"pcall", "resume"} => cs[i].pc # "errf"
  BY <1>1, <1>2 DEF Unwinds
<1>5. a = "resume"
  <2> SUFFICES ASSUME a # "resume" PROVE FALSE
    OBVIOUS
  <2>1. q = <<>> /\ cs[1].k = "pcall" /\ cs[1].th = th
    BY <1>2, <1>3
  <2>2. 1 \in 1..Len(cs)
    BY <1>1
  <2>3. Bottom(cs[1])
    BY <1>1, <2>2, ShapeAt
  <2> QED BY <1>4, <2>1, <2>3 DEF Bottom
<1>6. Len(cs) \in 1..Len(cs)
  BY <1>1
<1>7. Top.k \in {"pcall", "resume"} => Top.pc # "errf"
  BY <1>1, <1>4, <1>6
<1>8. /\ Top.k = "resume" => Top.pc = "loop"
      /\ Top.k = "pcall" => Top.pc = "run"
  BY <1>1, <1>7, RecordKinds DEF PcallRec, ResumeRec
<1>9. Top.k = "call" => Top.y /\ Top.kind # "ny"
  <2> HAVE Top.k = "call"
  <2>1. Top.y # FALSE
    BY <1>1, <1>4, <1>6 DEF CallsOf
  <2>2. Top.y \in BOOLEAN
    BY <1>1, RecordKinds DEF CallRec
  <2>3. Top.kind = "ny" => ~Top.y
    BY <1>1, <1>6, ShapeAt
  <2> QED BY <2>1, <2>2, <2>3
<1> QED BY <1>1, <1>4, <1>5, <1>8, <1>9 DEF Unwinds, Undisturbed

\* A record of a thread that yields returns to the one below.
LEMMA UnwindPop ==
  ASSUME NEW q, NEW a, NEW th, NEW l, At(q, a, th, l), l.status # "OK",
         Top.k # "resume",
         NEW k \in LuaState, k.ci = l.ci, k.status = l.status,
         IF Top.k = "call" THEN k.isactive = (l.isactive /\ Top.act) ELSE k.isactive = l.isactive,
         CountsFit(Front(cs), th, k.nCcalls, k.baseCcalls),
         Become(th, k, PopC)
  PROVE  Ends(q, th, a)
<1>1. /\ Shape(cs) /\ cs # <<>> /\ cs \in Seq(Record) /\ Len(cs) \in Nat /\ Len(cs) > 0
      /\ Top = Last(cs) /\ Top = cs[Len(cs)] /\ Top \in Record /\ Top.th = th
      /\ l \in LuaState /\ Okay(cs, l) /\ Len(l.ci) \in Nat
      /\ Unwinds(cs, l) /\ FramesOK(l)
  BY AtFacts
<1>2. q \in Seq(Record) /\ Block(q, th, cs) /\ Heads(q, a, cs) /\ a \in {"pcall", "resume"}
  BY DEF At
<1>3. /\ a = "resume" /\ th # MainThread /\ l.status \in Yielded
      /\ l.ci # <<>> /\ Continuable(l, Len(l.ci) - 1)
  BY UnwindFacts
<1>4. /\ Len(q) \in Nat /\ Len(q) + 1 \in 1..Len(cs) /\ cs[Len(q) + 1].k = a
      /\ \A i \in 1..Len(cs) : cs[i].th = th <=> i >= Len(q) + 1
  BY AtBlock
<1> DEFINE j == Len(cs) - 1
           p == Under(cs, j)
           n == Len(l.ci)
<1>5. j >= Len(q) + 1 /\ j \in 1..Len(cs) /\ j \in 0..Len(cs) /\ j \in Nat
  <2>1. Len(q) + 1 # Len(cs)
    BY <1>1, <1>3, <1>4
  <2> QED BY <1>1, <1>4, <2>1
<1>6. Front(cs) = p
  BY <1>1, TopApart
<1> HIDE DEF j
<1>7. Len(p) = j /\ (\A i \in 1..j : p[i] = cs[i]) /\ Last(p) = cs[j] /\ p \in Seq(Record)
  BY <1>1, <1>5, UnderFacts
<1>8. Last(p).th = th /\ p # <<>> /\ cs[j].th = th
  <2>1. cs[j].th = th
    BY <1>4, <1>5
  <2> QED BY <1>5, <1>7, <2>1, EmptySeq
<1>9. Block(q, th, p) /\ Heads(q, a, p)
  <2>1. \/ Last(cs).k \in {"execute", "c", "call"}
        \/ Last(cs).k = "pcall" /\ Len(cs) # 1
    <3>1. Len(cs) # 1
      BY <1>1, <1>5 DEF j
    <3> QED BY <1>1, <3>1, RecordKinds
  <2> QED BY <1>1, <1>2, <2>1, PopBlock DEF j
<1>10. \A m \in 1..n : l.ci[m].handle => Continuable(l, m)
  <2> TAKE m \in 1..n
  <2> HAVE l.ci[m].handle
  <2>1. FnOf(l, m) \in {"pcall", "xpcall"}
    BY <1>1 DEF FramesOK
  <2> HIDE DEF n, FnOf
  <2>2. n \in Nat /\ Continuable(l, n - 1)
    BY <1>1, <1>3 DEF n
  <2> SUFFICES ASSUME NEW i \in 1..m PROVE FnOf(l, i) # "c"
    BY DEF Continuable
  <2>3. i = m \/ i \in 1..n-1
    BY <2>2
  <2> QED BY <2>1, <2>2, <2>3 DEF Continuable
<1>11. Alike(l, k, n) /\ (\A h : Continuable(k, h) <=> Continuable(l, h)) /\ (\A h : FnOf(k, h) = FnOf(l, h)) /\ FramesOK(k)
  BY <1>1 DEF Alike, Continuable, FnOf, FramesOK
<1>12. FramesFit(p, k) /\ Shape(p)
  <2>1. \A i \in 1..j : cs[i].th = Last(cs).th => Reach(cs[i]) <= n
    BY <1>1, <1>5, OkayFacts DEF j
  <2>2. \A m \in 1..Len(k.ci) : k.ci[m].handle => Continuable(k, m)
    BY <1>10, <1>11
  <2>3. \A i \in 1..j : cs[i].th = Last(cs).th /\ cs[i].k \in {"execute", "resume"} => k.isactive
    <3> SUFFICES ASSUME NEW i \in 1..j, cs[i].th = Last(cs).th, cs[i].k \in {"execute", "resume"}
                 PROVE  k.isactive
      OBVIOUS
    <3>1. i \in 1..Len(cs) /\ i \in 1..Len(cs)-1 /\ Len(cs) \in 1..Len(cs)
      BY <1>1, <1>5 DEF j
    <3>2. l.isactive
      BY <1>1, <3>1 DEF Okay, FramesFit, ActiveFits, In
    <3>3. Top.k = "call" => Top.act
      BY <1>1, <3>1, ShapeAt
    <3> QED BY <3>2, <3>3
  <2>4. ~(j = 1 /\ cs[1].k = "pcall")
    <3> SUFFICES ASSUME j = 1, cs[1].k = "pcall" PROVE FALSE
      OBVIOUS
    <3>1. Len(q) = 0
      <4>1. Len(q) \in Nat /\ 1 >= Len(q) + 1
        BY <1>4, <1>5
      <4> QED BY ONLY <4>1
    <3> QED BY <1>3, <1>4, <3>1
  <2>5. FramesFit(cs, l) /\ cs[j].th = Last(cs).th
    BY <1>1, <1>8 DEF Okay
  <2>6. n \in Int
    BY <1>1
  <2> HIDE DEF n
  <2> QED BY <1>1, <1>5, <1>11, <2>1, <2>2, <2>3, <2>4, <2>5, <2>6, FramesUnder
<1> HIDE DEF p
<1>13. Unwinds(p, k)
  <2>1. CallsOf(p, th, FALSE) = {}
    <3>1. CallsOf(cs, th, FALSE) = {}
      BY UnwindFacts
    <3>2. \A i \in 1..j : i \in 1..Len(cs)
      BY <1>1, <1>5
    <3> QED BY <1>7, <3>1, <3>2 DEF CallsOf
  <2>2. \A i \in 1..Len(p) : In(p, i) =>
          /\ p[i].k = "c" => p[i].pc = "wait" /\ FnOf(k, p[i].ci) # "resume"
          /\ p[i].k \in {"pcall", "resume"} => p[i].pc # "errf"
    <3> TAKE i \in 1..Len(p)
    <3> HAVE In(p, i)
    <3>1. i \in 1..Len(cs) /\ p[i] = cs[i] /\ In(cs, i)
      <4>1. i \in 1..j /\ p[i].th = th
        BY <1>7, <1>8 DEF In
      <4>2. i \in 1..Len(cs)
        BY <1>1, <1>5, <4>1
      <4> QED BY <1>1, <1>7, <4>1, <4>2 DEF In
    <3> HIDE DEF FnOf
    <3> QED BY <1>1, <1>11, <3>1 DEF Unwinds
  <2> HIDE DEF FnOf
  <2> QED BY <1>1, <1>3, <1>8, <1>11, <2>1, <2>2 DEF Unwinds
<1>14. Okay(p, k)
  BY <1>8, <1>11, <1>12 DEF Okay
<1>15. Fits(p, k)
  <2>1. CountsFit(p, Last(p).th, k.nCcalls, k.baseCcalls)
    BY <1>6, <1>8
  <2> QED BY <1>12, <1>13, <2>1 DEF Fits
<1>16. Become(th, k, p)
  BY <1>6 DEF PopC
<1> QED BY <1>9, <1>14, <1>15, <1>16, Goes

\* luau_execute, luaD_pcall or a C function that waits, once the thread has yielded.
LEMMA UnwindSame ==
  ASSUME NEW q, NEW a, NEW th, NEW l, At(q, a, th, l), l.status # "OK",
         Top.k \in {"execute", "c", "pcall"}, Become(th, l, PopC)
  PROVE  Ends(q, th, a)
<1>1. /\ cs # <<>> /\ cs \in Seq(Record) /\ Len(cs) \in Nat /\ Len(cs) > 0
      /\ l \in LuaState /\ CountsFit(cs, th, l.nCcalls, l.baseCcalls) /\ l.nCcalls \in Int /\ l.baseCcalls \in Int
  BY AtFacts
<1>2. CallsOf(cs, th, FALSE) = {} /\ Undisturbed(cs, th)
  BY UnwindFacts
<1> DEFINE j == Len(cs) - 1
<1>3. j \in 0..Len(cs) /\ Front(cs) = Under(cs, j)
  BY <1>1, TopApart
<1> HIDE DEF j
<1>4. CountsFit(Under(cs, j), th, l.nCcalls, l.baseCcalls)
  BY <1>1, <1>2, <1>3, CountsUnwind
<1>5. CountsFit(Front(cs), th, l.nCcalls, l.baseCcalls)
  BY <1>3, <1>4
<1>6. Top.k # "resume" /\ Top.k # "call"
  OBVIOUS
<1> QED BY <1>1, <1>5, <1>6, UnwindPop

\* The interpreter loop leaves a thread that has yielded.
LEMMA ExecuteExitsEnds ==
  ASSUME NEW q, NEW a, NEW th, NEW l, At(q, a, th, l), ExecuteExits
  PROVE  Ends(q, th, a)
<1>1. Top.th = th /\ l = L[th]
  BY DEF At
<1>2. l.status # "OK" /\ Top.k = "execute" /\ Become(th, l, PopC)
  BY <1>1 DEF ExecuteExits, Waits
<1>3. Top.k \in {"execute", "c", "pcall"}
  BY <1>2
<1> QED BY <1>2, <1>3, UnwindSame

\* A call returns or unwinds, the counters going back.
LEMMA CallEndsEnds ==
  ASSUME NEW q, NEW a, NEW th, NEW l, At(q, a, th, l), CallEnds
  PROVE  Ends(q, th, a)
<1> DEFINE d == IF Top.kind = "iter" /\ l.status # "OK" THEN 0 ELSE 1
           k == [l EXCEPT !.isactive = @ /\ Top.act, !.nCcalls = @ - d,
                          !.baseCcalls = IF Top.y THEN @ - d ELSE @]
           j == Len(cs) - 1
           p == Under(cs, j)
<1>1. /\ Shape(cs) /\ cs # <<>> /\ cs \in Seq(Record) /\ Len(cs) \in Nat /\ Len(cs) > 0
      /\ Top = Last(cs) /\ Top \in Record /\ Top.th = th /\ l = L[th]
      /\ l \in LuaState /\ Okay(cs, l) /\ l.nCcalls \in Int /\ l.baseCcalls \in Int /\ Len(l.ci) \in Nat
      /\ CountsFit(cs, th, l.nCcalls, l.baseCcalls)
  BY AtFacts
<1>2. Top.k = "call" /\ Become(th, k, PopC)
  BY <1>1 DEF CallEnds, Waits
<1>3. Top.y \in BOOLEAN /\ Top.act \in BOOLEAN /\ Top.kind \in {"int", "iter", "ny"}
  BY <1>1, <1>2, RecordKinds DEF CallRec
<1>4. d \in {0, 1} /\ (l.status = "OK" => d = 1)
  OBVIOUS
<1>5. /\ k \in LuaState /\ k.ci = l.ci /\ k.status = l.status /\ k.isactive = (l.isactive /\ Top.act)
      /\ k.nCcalls = l.nCcalls - d /\ k.baseCcalls = l.baseCcalls - (IF Top.y THEN d ELSE 0)
  <2> HIDE DEF d
  <2>1. l.isactive \in BOOLEAN
    BY <1>1, FrameTypes
  <2>2. PICK x \in BOOLEAN : x = (l.isactive /\ Top.act)
    OBVIOUS
  <2>3. PICK n \in Int : n = l.nCcalls - d
    BY <1>1, <1>4
  <2>4. PICK w \in Int : w = l.baseCcalls - (IF Top.y THEN d ELSE 0)
    BY <1>1, <1>4
  <2>5. k = [l EXCEPT !.isactive = x, !.nCcalls = n, !.baseCcalls = w]
    <3>1. w = IF Top.y THEN l.baseCcalls - d ELSE l.baseCcalls
      BY <1>1, <1>4, <2>4
    <3> QED BY <2>2, <2>3, <3>1
  <2> HIDE DEF k
  <2>6. /\ k \in LuaState /\ k.ci = l.ci /\ k.status = l.status /\ k.isactive = x
        /\ k.nCcalls = n /\ k.baseCcalls = w
    BY ONLY <1>1, <2>5 DEF LuaState
  <2> QED BY <2>2, <2>3, <2>4, <2>6
<1>6. j \in 0..Len(cs) /\ PopC = p /\ p \in Seq(Record) /\ cs = Append(p, Top)
  BY <1>1, TopApart DEF PopC
<1> HIDE DEF p, k, d
<1>7. ASSUME d = 1 PROVE CountsFit(p, th, k.nCcalls, k.baseCcalls)
  <2> DEFINE e == IF Top.y THEN 1 ELSE 0
             n == l.nCcalls - 1
             b == l.baseCcalls - e
  <2>1. n \in Int /\ b \in Int /\ e \in Int /\ n + 1 = l.nCcalls /\ b + e = l.baseCcalls
    BY <1>1, <1>3
  <2>2. e = IF Top.y THEN 1 ELSE 0
    OBVIOUS
  <2>3. k.nCcalls = n /\ k.baseCcalls = b
    BY <1>5, <1>7
  <2> HIDE DEF e, n, b
  <2>4. CountsFit(Append(p, Top), Top.th, n + 1, b + e)
    BY <1>1, <1>6, <2>1
  <2>5. CountsFit(p, Top.th, n, b)
    BY <1>1, <1>2, <1>6, <2>1, <2>2, <2>4, CountsPushCall
  <2> QED BY <1>1, <2>3, <2>5
<1>8. CASE l.status # "OK"
  <2>1. CASE d = 0
    <3>1. CallsOf(cs, th, FALSE) = {} /\ Undisturbed(cs, th)
      BY <1>8, UnwindFacts
    <3> HIDE DEF j
    <3>2. CountsFit(Under(cs, j), th, l.nCcalls, l.baseCcalls)
      BY <1>1, <1>6, <3>1, CountsUnwind
    <3>3. k.nCcalls = l.nCcalls /\ k.baseCcalls = l.baseCcalls
      <4>1. l.nCcalls - 0 = l.nCcalls /\ l.baseCcalls - 0 = l.baseCcalls
        BY <1>1
      <4> QED BY <1>5, <2>1, <4>1
    <3>4. CountsFit(Front(cs), th, k.nCcalls, k.baseCcalls)
      BY <1>6, <3>2, <3>3 DEF p, PopC
    <3>5. Top.k # "resume"
      BY <1>2
    <3> QED BY <1>2, <1>5, <1>8, <3>4, <3>5, UnwindPop
  <2>2. CASE d = 1
    <3>1. CountsFit(Front(cs), th, k.nCcalls, k.baseCcalls)
      BY <1>6, <1>7, <2>2 DEF PopC
    <3>2. Top.k # "resume"
      BY <1>2
    <3> QED BY <1>2, <1>5, <1>8, <3>1, <3>2, UnwindPop
  <2> QED BY <1>4, <2>1, <2>2
<1>9. CASE l.status = "OK"
  <2>1. TopFits(cs, l)
    BY <1>9, AtFacts
  <2>2. Okay(p, k) /\ TopFits(p, k)
    <3>1. Last(cs).k \in {"execute", "c", "call"} /\ Last(cs).k \notin {"execute", "c", "pcall"}
      BY <1>1, <1>2
    <3>2. Len(k.ci) <= Len(l.ci) /\ (\A m \in 1..Len(k.ci) : k.ci[m] = l.ci[m]) /\ Len(k.ci) = Len(l.ci)
      BY <1>1, <1>5
    <3>3. k.isactive = (l.isactive /\ Last(cs).act)
      BY <1>1, <1>5
    <3> HIDE DEF j
    <3>4. /\ Last(cs).k = "execute" => Len(k.ci) = Len(l.ci) - 1 /\ l.ci[Len(l.ci)].ret
          /\ Last(cs).k = "c" => Len(k.ci) = Last(cs).ci - 1
          /\ Last(cs).k \in {"call", "pcall"} => Len(k.ci) = Len(l.ci)
          /\ Last(cs).k # "call" => k.isactive = l.isactive
          /\ Last(cs).k = "call" => k.isactive = (l.isactive /\ Last(cs).act)
      BY <1>1, <1>2, <3>1, <3>2, <3>3
    <3>5. Okay(Under(cs, Len(cs) - 1), k) /\ TopFits(Under(cs, Len(cs) - 1), k)
      BY <1>1, <1>5, <2>1, <3>1, <3>2, <3>4, Pop
    <3> QED BY <3>5 DEF p, j
  <2>3. Block(q, th, p) /\ Heads(q, a, p)
    <3>1. q \in Seq(Record) /\ Block(q, th, cs) /\ Heads(q, a, cs) /\ a \in {"pcall", "resume"}
      BY DEF At
    <3>2. Last(cs).k \in {"execute", "c", "call"}
      BY <1>1, <1>2
    <3> QED BY <1>1, <3>1, <3>2, PopBlock DEF p
  <2>4. Last(p).th = th
    <3>1. Last(cs).k # "resume" /\ ~(Len(cs) = 1 /\ Last(cs).k = "pcall")
      BY <1>1, <1>2
    <3>2. Last(p).th = Last(cs).th
      BY <1>1, <3>1, Below DEF p
    <3> QED BY <1>1, <3>2
  <2>5. Fits(p, k)
    <3>1. CountsFit(p, th, k.nCcalls, k.baseCcalls)
      BY <1>4, <1>7, <1>9
    <3> QED BY <1>5, <1>9, <2>2, <2>4, <3>1 DEF Fits, Okay
  <2>6. Become(th, k, p)
    BY <1>2, <1>6
  <2> QED BY <2>2, <2>3, <2>5, <2>6, Goes
<1> QED BY <1>8, <1>9

\* The oldest record of the thread is on top.
LEMMA AtBase ==
  ASSUME NEW q, NEW a, NEW th, NEW l, At(q, a, th, l), Top.k = "resume" \/ Len(cs) = 1
  PROVE  /\ PopC = q /\ cs = Append(q, Top) /\ a = Top.k /\ Len(cs) = Len(q) + 1
         /\ \A i \in 1..Len(cs) : cs[i].th = th => i = Len(cs)
<1>1. /\ cs # <<>> /\ cs \in Seq(Record) /\ Len(cs) \in Nat /\ Len(cs) > 0
      /\ Top = Last(cs) /\ Top = cs[Len(cs)]
  BY AtFacts
<1>2. /\ Len(q) \in Nat /\ Len(q) + 1 \in 1..Len(cs) /\ cs[Len(q) + 1].k = a
      /\ \A i \in 1..Len(cs) : cs[i].th = th <=> i >= Len(q) + 1
      /\ \A i \in Len(q)+2..Len(cs) : cs[i].k # "resume"
  BY AtBlock
<1>3. q \in Seq(Record) /\ \A i \in 1..Len(q) : cs[i] = q[i]
  BY DEF At, Block
<1>4. Len(cs) = Len(q) + 1
  <2>1. CASE Top.k = "resume"
    <3>1. ~(Len(cs) \in Len(q)+2..Len(cs))
      BY <1>1, <1>2, <2>1
    <3> QED BY <1>1, <1>2, <3>1
  <2>2. CASE Len(cs) = 1
    BY <1>2, <2>2
  <2> QED BY <2>1, <2>2
<1> DEFINE j == Len(cs) - 1
<1>5. /\ PopC = Under(cs, j) /\ cs = Append(Under(cs, j), Top) /\ j \in 0..Len(cs)
      /\ Under(cs, j) \in Seq(Record)
  BY <1>1, TopApart DEF PopC
<1>6. j = Len(q)
  BY <1>2, <1>4
<1> HIDE DEF j
<1>7. Len(Under(cs, j)) = j /\ \A i \in 1..j : Under(cs, j)[i] = cs[i]
  BY <1>1, <1>5, UnderFacts
<1>8. Under(cs, j) = q
  BY <1>3, <1>5, <1>6, <1>7, SeqEqual
<1>9. \A i \in 1..Len(cs) : cs[i].th = th => i = Len(cs)
  BY <1>1, <1>2, <1>4
<1> QED BY <1>1, <1>2, <1>4, <1>5, <1>8, <1>9

\* The thread has nothing left on the native stack.
LEMMA Gone ==
  ASSUME NEW q, NEW th, NEW a, NEW k \in LuaState, Become(th, k, q), FramesOK(k), Off(th, k), k.status # "ERR"
  PROVE  Ends(q, th, a)
BY DEF Ends, Outcome

\* luaD_pcall returns, unwinds, or has run its error function.
LEMMA PcallEndsEnds ==
  ASSUME NEW q, NEW a, NEW th, NEW l, At(q, a, th, l), PcallEnds
  PROVE  Ends(q, th, a)
<1>1. /\ Shape(cs) /\ cs # <<>> /\ cs \in Seq(Record) /\ Len(cs) \in Nat /\ Len(cs) > 0
      /\ Top = Last(cs) /\ Top = cs[Len(cs)] /\ Top \in Record /\ Top.th = th /\ l = L[th] /\ th \in Thread
      /\ l \in LuaState /\ Okay(cs, l) /\ l.nCcalls \in Int /\ l.baseCcalls \in Int /\ Len(l.ci) \in Nat
      /\ CountsFit(cs, th, l.nCcalls, l.baseCcalls) /\ FramesOK(l)
  BY AtFacts
<1>2. Top.k = "pcall" /\ IF Top.pc = "errf" THEN PcallFails(th, l, PopC, Top) ELSE Become(th, l, PopC)
  BY <1>1 DEF PcallEnds, Waits
<1>3. CASE l.status # "OK"
  <2>1. Top.pc # "errf"
    BY <1>2, <1>3, UnwindFacts
  <2>2. Top.k \in {"execute", "c", "pcall"} /\ Become(th, l, PopC)
    BY <1>2, <2>1
  <2> QED BY <1>3, <2>2, UnwindSame
<1>4. CASE l.status = "OK" /\ Top.pc = "errf"
  <2>1. q \in Seq(Record) /\ Block(q, th, cs) /\ Heads(q, a, cs)
    BY DEF At
  <2> DEFINE j == Len(cs)
  <2>2. j \in Len(q)+1..Len(cs)
    BY <1>1, AtBlock
  <2>3. PcallFails(th, l, Under(cs, j - 1), cs[j]) /\ cs[j].k = "pcall"
    BY <1>1, <1>2, <1>4, TopApart DEF PopC
  <2> HIDE DEF j
  <2> QED BY <1>1, <1>4, <2>1, <2>2, <2>3, PcallFailsEnds
<1>5. CASE l.status = "OK" /\ Top.pc # "errf" /\ Len(cs) # 1
  <2>1. Top.pc = "run"
    BY <1>1, <1>2, <1>5, RecordKinds DEF PcallRec
  <2>2. Become(th, l, PopC) /\ Top.k \notin {"execute", "c"} /\ Len(l.ci) <= Len(l.ci)
    BY <1>1, <1>2, <1>5
  <2> QED BY <1>1, <1>2, <1>5, <2>1, <2>2, PopStep
<1>6. CASE l.status = "OK" /\ Top.pc # "errf" /\ Len(cs) = 1
  <2>1. PopC = q /\ cs = Append(q, Top) /\ Len(cs) = Len(q) + 1
    BY <1>6, AtBase
  <2>2. q = <<>>
    <3>1. q \in Seq(Record) /\ Len(q) \in Nat /\ Len(q) = 0
      BY <1>6, <2>1, AtBlock DEF At
    <3> QED BY <3>1, EmptySeq
  <2>3. Bottom(cs[1]) /\ Top = cs[1] /\ 1 \in 1..Len(cs)
    BY <1>1, <1>6, ShapeAt
  <2>4. Top.ci = 0 /\ Top.pc = "run"
    BY <1>2, <2>3 DEF Bottom
  <2>5. Len(l.ci) = 0
    <3>1. TopFits(cs, l)
      BY <1>6, AtFacts
    <3> HIDE DEF FnOf
    <3> QED BY <1>1, <1>2, <2>4, <3>1 DEF TopFits
  <2>6. l.ci = <<>>
    BY <1>1, <2>5, FrameTypes, EmptySeq
  <2>7. ~l.isactive
    <3>1. ActiveFits(cs, l)
      BY <1>1 DEF Okay, FramesFit
    <3> QED BY <1>2, <1>6, <2>3, <3>1 DEF ActiveFits
  <2>8. l.nCcalls >= 0 /\ l.nCcalls = l.baseCcalls
    <3>1. CountsFit(Append(q, Top), th, l.nCcalls, l.baseCcalls) /\ q \in Seq(Record)
      BY <1>1, <2>1, <2>2
    <3>2. Top.k \notin {"call", "resume"} /\ (Top.k = "pcall" => Top.pc # "errf")
      BY <1>2, <1>6
    <3>3. CountsFit(q, th, l.nCcalls, l.baseCcalls)
      BY <1>1, <3>1, <3>2, CountsPush
    <3> QED BY <1>1, <2>2, <3>3, CountsNil
  <2>9. Off(th, l)
    BY <1>6, <2>6, <2>7, <2>8 DEF Off, Yielded
  <2>10. Become(th, l, q) /\ l.status # "ERR"
    BY <1>2, <1>6, <2>1
  <2> QED BY <1>1, <2>9, <2>10, Gone
<1> QED BY <1>3, <1>4, <1>5, <1>6

\* Control is back in a C function.
LEMMA CalleeReturnedEnds ==
  ASSUME NEW q, NEW a, NEW th, NEW l, At(q, a, th, l), CalleeReturned
  PROVE  Ends(q, th, a)
<1>1. /\ Top = Last(cs) /\ Top.th = th /\ l = L[th] /\ l \in LuaState /\ FramesOK(l)
  BY AtFacts
<1>2. Top.k = "c" /\ Top.pc = "wait" /\ FnOf(l, Top.ci) # "resume"
      /\ IF l.status # "OK" THEN Become(th, l, PopC)
         ELSE IF FnOf(l, Top.ci) = "c" THEN Become(th, l, SetPc("run"))
         ELSE IF FnOf(l, Top.ci) = "k" THEN Become(th, l, SetPc("cont"))
         ELSE CReturn(th)
  BY <1>1 DEF CalleeReturned, Waits, TopFn, FnOf
<1> HIDE DEF FnOf
<1>3. CASE l.status # "OK"
  <2>1. Top.k \in {"execute", "c", "pcall"} /\ Become(th, l, PopC)
    BY <1>2, <1>3
  <2> QED BY <1>3, <2>1, UnwindSame
<1>4. CASE l.status = "OK" /\ FnOf(l, Top.ci) \in {"c", "k"}
  <2>1. PICK pc \in {"run", "cont", "wait", "failed"} : Become(th, l, SetPc(pc)) /\ pc \in {"run", "cont"}
    <3>1. CASE FnOf(l, Top.ci) = "c"
      BY <1>2, <1>4, <3>1
    <3>2. CASE FnOf(l, Top.ci) = "k"
      BY <1>2, <1>4, <3>2
    <3> QED BY <1>4, <3>1, <3>2
  <2>2. PICK s : s = SetPc(pc)
    OBVIOUS
  <2>3. Top.ci \in 1..Len(l.ci)
    BY <1>2, <1>4, BodyFacts
  <2>4. ~l.ci[Top.ci].handle
    BY <1>1, <1>4, <2>3 DEF FramesOK
  <2>5. Stands(q, a, th, l, s) /\ Last(s) = CBody(th, Top.ci, pc)
    BY <1>2, <1>4, <2>2, <2>4, WaitsFor
  <2>6. Okay(s, l) /\ Block(q, th, s) /\ Heads(q, a, s) /\ CountsFit(s, th, l.nCcalls, l.baseCcalls)
    BY <2>5 DEF Stands
  <2>7. Len(l.ci) = Top.ci
    <3>1. TopFits(cs, l)
      BY <1>4, AtFacts
    <3> QED BY <1>1, <1>2, <1>4, <3>1 DEF TopFits
  <2>8. TopFits(s, l) /\ Last(s).th = th
    BY <2>5, <2>7 DEF TopFits, CBody
  <2>9. Fits(s, l)
    BY <1>4, <2>6, <2>8 DEF Fits, Okay
  <2>10. Become(th, l, s)
    BY <2>1, <2>2
  <2> QED BY <2>6, <2>9, <2>10, Goes
<1>5. CASE l.status = "OK" /\ FnOf(l, Top.ci) \notin {"c", "k"}
  <2>1. CReturn(th)
    BY <1>2, <1>5
  <2> QED BY <1>2, <1>5, <2>1, CReturnEnds
<1> QED BY <1>3, <1>4, <1>5

\* resume_handle goes on after the error function.
LEMMA ErrfuncEndsEnds ==
  ASSUME NEW q, NEW a, NEW th, NEW l, At(q, a, th, l), ErrfuncEnds
  PROVE  Ends(q, th, a)
<1>1. /\ Shape(cs) /\ cs # <<>> /\ cs \in Seq(Record) /\ Len(cs) \in Nat /\ Len(cs) > 0
      /\ Top = Last(cs) /\ Top = cs[Len(cs)] /\ Top \in Record /\ Top.th = th /\ l = L[th] /\ th \in Thread
      /\ l \in LuaState /\ Okay(cs, l) /\ l.nCcalls \in Int /\ l.baseCcalls \in Int /\ Len(l.ci) \in Nat
      /\ CountsFit(cs, th, l.nCcalls, l.baseCcalls) /\ FramesOK(l)
      /\ Sits(Under(cs, Len(cs) - 1), Top, l)
  BY AtFacts
<1>2. Top.k = "resume" /\ Top.pc = "errf" /\ HandleCont(th, l, PopC, Top)
  BY <1>1 DEF ErrfuncEnds, Waits
<1>3. l.status = "OK"
  BY <1>2, UnwindFacts
<1>4. /\ PopC = q /\ cs = Append(q, Top) /\ a = "resume" /\ Len(cs) = Len(q) + 1
      /\ \A i \in 1..Len(cs) : cs[i].th = th => i = Len(cs)
  BY <1>2, AtBase
<1>5. flags.LuauCustomYieldablePcalls /\ Shape(q) /\ \A i \in 1..Len(q) : q[i].th # th
  <2>1. Heads(q, a, cs) /\ Context(q, th)
    BY DEF At
  <2> QED BY <1>1, <1>2, <1>4, <2>1 DEF Heads, Context
<1>6. Lands(q, Top)
  <2>1. Lands(Under(cs, Len(cs) - 1), Last(cs))
    BY <1>1, OkayFacts
  <2>2. Under(cs, Len(cs) - 1) = q
    BY <1>1, <1>4, TopApart DEF PopC
  <2> QED BY <1>1, <2>1, <2>2
<1>7. l.isactive /\ \A m \in 1..Len(l.ci) : l.ci[m].handle => Continuable(l, m)
  <2>1. ActiveFits(cs, l) /\ Handles(cs, l) /\ Len(cs) \in 1..Len(cs)
    BY <1>1 DEF Okay, FramesFit
  <2>2. l.isactive
    BY <1>1, <1>2, <2>1 DEF ActiveFits, In
  <2>3. \A m \in 1..Len(l.ci) : l.ci[m].handle => Continuable(l, m)
    <3> TAKE m \in 1..Len(l.ci)
    <3> HAVE l.ci[m].handle
    <3>1. \A i \in 1..Len(cs) : In(cs, i) => cs[i].k # "c"
      BY <1>1, <1>2, <1>4 DEF In
    <3> QED BY <2>1, <3>1 DEF Handles
  <2> QED BY <2>2, <2>3
<1>8. Top.ch \in 1..Len(l.ci) /\ FnOf(l, Top.ch) \in {"pcall", "xpcall"} /\ Continuable(l, Top.ch)
  <2> HIDE DEF FnOf
  <2>1. Reach(Top) <= Len(l.ci) /\ Top.ch > 0 /\ FnOf(l, Top.ch) \in {"pcall", "xpcall"} /\ Continuable(l, Top.ch)
    BY <1>1, <1>2 DEF Sits
  <2>2. Reach(Top) = Top.ch /\ Top.ch \in Nat
    BY <1>1, <1>2, ReachType DEF Reach
  <2> QED BY <1>1, <2>1, <2>2
<1>9. l.baseCcalls >= Top.old
  <2>1. Cardinality(CallsOf(cs, th, TRUE)) \in Nat
    BY <1>1, CountTypes
  <2>2. Len(cs) \in 1..Len(cs) /\ Top.old \in Int
    BY <1>1, <1>2, RecordKinds DEF ResumeRec
  <2>3. l.baseCcalls >= Top.old + Cardinality(CallsOf(cs, th, TRUE))
    BY <1>1, <1>2, <2>2 DEF CountsFit, CountsCover
  <2> DEFINE x == Cardinality(CallsOf(cs, th, TRUE))
             y == l.baseCcalls
             z == Top.old
  <2>4. x \in Nat /\ y \in Int /\ z \in Int /\ y >= z + x
    BY <1>1, <2>1, <2>2, <2>3
  <2> HIDE DEF x, y, z
  <2>5. y >= z
    BY ONLY <2>4
  <2> QED BY <2>5 DEF y, z
<1>10. HandleCont(th, l, q, Top)
  BY <1>2, <1>4
<1>11. Ends(q, th, "resume")
  BY <1>1, <1>2, <1>3, <1>5, <1>6, <1>7, <1>8, <1>9, <1>10, HandleContEnds
<1> QED BY <1>4, <1>11

\* resume_continue goes on with a C function: k is l with what its handler becomes.
LEMMA ContinueC ==
  ASSUME NEW q, NEW a, NEW th, NEW l, At(q, a, th, l), Top.k = "resume", Top.pc = "loop",
         NEW n, n = Len(l.ci), n > 0, Continuable(l, n), FnOf(l, n) # "lua",
         NEW k \in LuaState, FramesOK(k), Len(k.ci) = n, Alike(l, k, n),
         \A m \in 1..n : k.ci[m].handle => l.ci[m].handle, k.status = "OK",
         k.isactive = l.isactive, k.nCcalls = l.nCcalls, k.baseCcalls = l.baseCcalls,
         Become(th, k, Append(cs, CBody(th, n, "cont")))
  PROVE  Ends(q, th, a)
<1>1. /\ Shape(cs) /\ cs # <<>> /\ cs \in Seq(Record) /\ Len(cs) \in Nat /\ Len(cs) > 0
      /\ Top = Last(cs) /\ Top = cs[Len(cs)] /\ Top \in Record /\ Top.th = th /\ th \in Thread
      /\ l \in LuaState /\ Okay(cs, l) /\ l.nCcalls \in Int /\ l.baseCcalls \in Int /\ Len(l.ci) \in Nat
      /\ CountsFit(cs, th, l.nCcalls, l.baseCcalls) /\ FramesOK(l)
  BY AtFacts
<1>2. q \in Seq(Record) /\ Block(q, th, cs) /\ Heads(q, a, cs)
  BY DEF At
<1>3. \A i \in 1..Len(cs) : cs[i].th = th => i = Len(cs)
  BY AtBase
<1>4. n \in Nat /\ n \in Int
  BY <1>1
<1> DEFINE r == CBody(th, n, "cont")
<1>5. r \in Record /\ r.k = "c" /\ r.th = th /\ r.ci = n /\ r.pc = "cont"
  BY <1>1, <1>4 DEF CBody, Record, CRec
<1> HIDE DEF r
<1>6. \A h \in 0..n : Continuable(k, h)
  <2> SUFFICES ASSUME NEW h \in 0..n, NEW m \in 1..h PROVE FnOf(k, m) # "c"
    BY DEF Continuable
  <2>1. m \in 1..n
    BY <1>4
  <2> HIDE DEF FnOf
  <2> QED BY <2>1 DEF Continuable, Alike
<1>7. FramesFit(cs, k)
  <2> DEFINE j == Len(cs)
  <2>1. j \in 1..Len(cs) /\ cs[j].th = Last(cs).th
    BY <1>1
  <2>2. \A i \in 1..j : cs[i].th = Last(cs).th => Reach(cs[i]) <= n
    BY <1>1, OkayFacts
  <2>3. \A m \in 1..Len(k.ci) : k.ci[m].handle => Continuable(k, m)
    BY <1>4, <1>6
  <2>4. l.isactive
    BY <1>1, <2>1 DEF Okay, FramesFit, ActiveFits, In
  <2>5. ~(j = 1 /\ cs[1].k = "pcall")
    BY <1>1
  <2>6. FramesFit(cs, l) /\ Under(cs, j) = cs
    BY <1>1, OkayFacts DEF Okay
  <2> HIDE DEF j
  <2>7. FramesFit(Under(cs, j), k)
    BY <1>1, <1>4, <2>1, <2>2, <2>3, <2>4, <2>5, <2>6, FramesUnder
  <2> QED BY <2>6, <2>7
<1>8. Lands(cs, r)
  <2>1. Follows(Last(cs), r)
    BY <1>1, <1>5 DEF Follows
  <2>2. ~(Len(cs) = 1 /\ cs[1].k = "pcall")
    BY <1>1
  <2>3. \A m \in 1..Len(cs) : cs[m].th = r.th => Reach(cs[m]) <= r.ci /\ Reach(cs[m]) < r.ci
    <3> TAKE m \in 1..Len(cs)
    <3> HAVE cs[m].th = r.th
    <3>1. cs[m] = Top
      BY <1>1, <1>3, <1>5
    <3>2. Reach(Top) = 0
      BY DEF Reach
    <3> QED BY <1>4, <1>5, <3>1, <3>2
  <2> QED BY <1>1, <1>5, <2>1, <2>2, <2>3 DEF Lands
<1>9. Sits(cs, r, k)
  <2>1. Reach(r) <= Len(k.ci)
    BY <1>4, <1>5 DEF Reach
  <2>2. FnOf(k, n) # "lua"
    <3>1. n \in 1..n
      BY <1>4
    <3> HIDE DEF FnOf
    <3> QED BY <3>1 DEF Alike
  <2>3. Accounted(cs, n - 1, k)
    <3>1. n - 1 \in 0..n
      BY <1>4
    <3> QED BY <1>6, <3>1 DEF Accounted
  <2> HIDE DEF FnOf
  <2> QED BY <1>1, <1>5, <2>1, <2>2, <2>3 DEF Sits
<1> DEFINE t == Append(cs, r)
<1>10. FramesFit(t, k) /\ Shape(t)
  <2>1. r.k # "resume" /\ r.k # "execute"
    BY <1>5
  <2> QED BY <1>1, <1>5, <1>7, <1>8, <1>9, <2>1, FramesPush
<1>11. t # <<>> /\ Last(t) = r
  BY <1>1, <1>5, PushFacts
<1>12. CountsFit(t, th, k.nCcalls, k.baseCcalls)
  <2>1. r.k \notin {"call", "resume"}
    BY <1>5
  <2>2. CountsFit(t, th, l.nCcalls, l.baseCcalls)
    BY <1>1, <1>5, <2>1, CountsPush
  <2> QED BY <2>2
<1>13. Block(q, th, t) /\ Heads(q, a, t)
  <2>1. r.k # "resume"
    BY <1>5
  <2> QED BY <1>2, <1>5, <2>1, BlockGrows
<1> HIDE DEF t
<1>14. Okay(t, k)
  BY <1>10, <1>11 DEF Okay
<1>15. Fits(t, k)
  <2>1. TopFits(t, k)
    <3> HIDE DEF FnOf
    <3> QED BY <1>5, <1>11 DEF TopFits
  <2> QED BY <1>5, <1>10, <1>11, <1>12, <2>1 DEF Fits
<1>16. Become(th, k, t)
  BY DEF t, r
<1> QED BY <1>13, <1>14, <1>15, <1>16, Goes

\* The same with a Lua function.
LEMMA ContinueLua ==
  ASSUME NEW q, NEW a, NEW th, NEW l, At(q, a, th, l), Top.k = "resume", Top.pc = "loop",
         NEW n, n = Len(l.ci), n > 0, Continuable(l, n), FnOf(l, n) = "lua",
         NEW k \in LuaState, k.ci = l.ci, k.status = "OK",
         k.isactive = l.isactive, k.nCcalls = l.nCcalls, k.baseCcalls = l.baseCcalls,
         Become(th, k, Append(cs, Execute(th)))
  PROVE  Ends(q, th, a)
<1>1. /\ Shape(cs) /\ cs # <<>> /\ cs \in Seq(Record) /\ Len(cs) \in Nat /\ Len(cs) > 0
      /\ Top = Last(cs) /\ Top = cs[Len(cs)] /\ Top \in Record /\ Top.th = th /\ th \in Thread
      /\ l \in LuaState /\ Okay(cs, l) /\ l.nCcalls \in Int /\ l.baseCcalls \in Int /\ Len(l.ci) \in Nat
      /\ CountsFit(cs, th, l.nCcalls, l.baseCcalls) /\ FramesOK(l)
  BY AtFacts
<1>2. q \in Seq(Record) /\ Block(q, th, cs) /\ Heads(q, a, cs)
  BY DEF At
<1>3. Okay(cs, k) /\ (\A h : FnOf(k, h) = FnOf(l, h))
  BY <1>1, OkaySame
<1> DEFINE r == Execute(th)
<1>4. r \in Record /\ r.k = "execute" /\ r.th = th
  BY <1>1 DEF Execute, Record, ExecuteRec
<1> HIDE DEF r
<1>5. Continuable(k, n)
  BY <1>3 DEF Continuable
<1>6. k.isactive
  <2>1. Len(cs) \in 1..Len(cs)
    BY <1>1
  <2> QED BY <1>1, <2>1 DEF Okay, FramesFit, ActiveFits, In
<1>7. Lands(cs, r)
  <2>1. Follows(Last(cs), r)
    BY <1>1, <1>4 DEF Follows
  <2>2. ~(Len(cs) = 1 /\ cs[1].k = "pcall")
    BY <1>1
  <2> QED BY <1>1, <1>4, <2>1, <2>2 DEF Lands
<1>8. Sits(cs, r, k)
  <2>1. Reach(r) <= Len(k.ci)
    BY <1>1, <1>4 DEF Reach
  <2> QED BY <1>4, <2>1 DEF Sits
<1> DEFINE t == Append(cs, r)
<1>9. FramesFit(t, k) /\ Shape(t)
  <2>1. r.k # "resume" /\ FramesFit(cs, k)
    BY <1>3, <1>4 DEF Okay
  <2> QED BY <1>1, <1>4, <1>6, <1>7, <1>8, <2>1, FramesPush
<1>10. /\ t # <<>> /\ Last(t) = r /\ Len(t) = Len(cs) + 1 /\ t[Len(cs)] = Top
  <2>1. Len(cs) \in 1..Len(cs)
    BY <1>1
  <2> QED BY <1>1, <1>4, <2>1, PushFacts
<1>11. CountsFit(t, th, l.nCcalls, l.baseCcalls)
  <2>1. r.k \notin {"call", "resume"}
    BY <1>4
  <2> QED BY <1>1, <1>4, <2>1, CountsPush
<1>12. Block(q, th, t) /\ Heads(q, a, t)
  <2>1. r.k # "resume"
    BY <1>4
  <2> QED BY <1>2, <1>4, <2>1, BlockGrows
<1> HIDE DEF t
<1>13. Okay(t, k)
  BY <1>3, <1>9, <1>10 DEF Okay
<1>14. Runs(t, n, k)
  <2>1. n \in 1..Len(k.ci)
    BY <1>1
  <2>2. FnOf(k, n) = "lua"
    BY <1>3
  <2>3. Len(t) - 1 = Len(cs)
    BY <1>1, <1>10
  <2>4. t[Len(t) - 1].k # "call"
    BY <1>10, <2>3
  <2> HIDE DEF FnOf
  <2> QED BY <1>5, <2>1, <2>2, <2>4 DEF Runs, Accounted
<1>15. Fits(t, k)
  <2>1. TopFits(t, k)
    <3> HIDE DEF FnOf
    <3> QED BY <1>4, <1>10, <1>14 DEF TopFits
  <2> QED BY <1>4, <1>9, <1>10, <1>11, <2>1 DEF Fits
<1>16. Become(th, k, t)
  BY DEF t, r
<1> QED BY <1>12, <1>13, <1>15, <1>16, Goes

\* resume_continue goes on with the next frame or finishes the thread.
LEMMA ContinueEnds ==
  ASSUME NEW q, NEW a, NEW th, NEW l, At(q, a, th, l), resume_continue
  PROVE  Ends(q, th, a)
<1> DEFINE n == Len(l.ci)
<1>1. /\ Top = Last(cs) /\ Top = cs[Len(cs)] /\ Top \in Record /\ Top.th = th /\ l = L[th] /\ th \in Thread
      /\ l \in LuaState /\ Okay(cs, l) /\ n \in Nat /\ FramesOK(l) /\ l.ci \in Seq(CallInfo)
      /\ Shape(cs) /\ Len(cs) \in Nat /\ Len(cs) > 0
  BY AtFacts
<1>2. /\ Top.k = "resume" /\ Top.pc = "loop"
      /\ IF l.status \in {"OK", "REENTRY"} /\ n > 0
         THEN IF FnOf(l, n) = "lua"
              THEN Become(th, [l EXCEPT !.status = "OK"], Append(cs, Execute(th)))
              ELSE Become(th, [l EXCEPT !.status = "OK",
                                        !.ci[n].handle = @ /\ ~flags.LuauCustomYieldablePcalls],
                          Append(cs, CBody(th, n, "cont")))
         ELSE Become(th, Finished(l, Top, l.status), PopC)
  BY <1>1 DEF resume_continue, Waits, FnOf
<1>3. l.status \in {"OK", "REENTRY"} => Continuable(l, n)
  <2>1. CASE l.status = "OK"
    <3>1. TopFits(cs, l)
      BY <2>1, AtFacts
    <3> HIDE DEF FnOf
    <3> QED BY <1>1, <1>2, <3>1 DEF TopFits
  <2>2. CASE l.status = "REENTRY"
    BY <2>2, UnwindFacts
  <2> QED BY <2>1, <2>2
<1>4. CASE l.status \in {"OK", "REENTRY"} /\ n > 0 /\ FnOf(l, n) = "lua"
  <2>1. PICK k : k = [l EXCEPT !.status = "OK"]
    OBVIOUS
  <2>2. /\ k \in LuaState /\ k.ci = l.ci /\ k.status = "OK"
        /\ k.isactive = l.isactive /\ k.nCcalls = l.nCcalls /\ k.baseCcalls = l.baseCcalls
    BY <1>1, <2>1 DEF LuaState
  <2>3. Become(th, k, Append(cs, Execute(th)))
    BY <1>2, <1>4, <2>1
  <2> QED BY <1>2, <1>3, <1>4, <2>2, <2>3, ContinueLua
<1>5. CASE l.status \in {"OK", "REENTRY"} /\ n > 0 /\ FnOf(l, n) # "lua"
  <2>1. PICK f \in BOOLEAN : f = (l.ci[n].handle /\ ~flags.LuauCustomYieldablePcalls)
    OBVIOUS
  <2>2. PICK e : e = [l.ci[n] EXCEPT !.handle = f]
    OBVIOUS
  <2>3. PICK c : c = [l.ci EXCEPT ![n] = e]
    OBVIOUS
  <2>4. PICK k : k = [l EXCEPT !.status = "OK", !.ci = c]
    OBVIOUS
  <2>5. n \in 1..n /\ l.ci[n] \in CallInfo
    <3>1. n \in 1..n
      BY <1>1, <1>5
    <3> QED BY <1>1, <3>1, FrameTypes
  <2>6. /\ e \in CallInfo /\ e.fn = l.ci[n].fn /\ e.ret = l.ci[n].ret /\ (e.handle => l.ci[n].handle)
    BY <2>1, <2>2, <2>5 DEF CallInfo
  <2>7. /\ c \in Seq(CallInfo) /\ Len(c) = n
        /\ \A m \in 1..n : c[m] = IF m = n THEN e ELSE l.ci[m]
    BY <1>1, <2>3, <2>5, <2>6, ExceptSeq
  <2>8. /\ k \in LuaState /\ k.ci = c /\ k.status = "OK"
        /\ k.isactive = l.isactive /\ k.nCcalls = l.nCcalls /\ k.baseCcalls = l.baseCcalls
    BY <1>1, <2>4, <2>7 DEF LuaState
  <2>9. Len(k.ci) = n /\ \A m \in 1..n : /\ FnOf(k, m) = FnOf(l, m) /\ k.ci[m].ret = l.ci[m].ret
                                         /\ k.ci[m].handle => l.ci[m].handle
    BY ONLY <2>6, <2>7, <2>8 DEF FnOf
  <2> HIDE DEF n
  <2>10. FramesOK(k)
    <3> SUFFICES ASSUME NEW m \in 1..Len(k.ci)
                 PROVE  /\ FnOf(k, m) = "lua" /\ ~k.ci[m].ret => m > 1 /\ FnOf(k, m - 1) = "lua"
                        /\ k.ci[m].handle => FnOf(k, m) \in {"pcall", "xpcall"}
      BY DEF FramesOK
    <3>1. m \in 1..n /\ (m > 1 => m - 1 \in 1..n)
      BY <1>1, <2>9
    <3>2. FnOf(l, m) = "lua" /\ ~l.ci[m].ret => m > 1 /\ FnOf(l, m - 1) = "lua"
      BY <1>1, <3>1 DEF FramesOK, n
    <3>3. l.ci[m].handle => FnOf(l, m) \in {"pcall", "xpcall"}
      BY <1>1, <3>1 DEF FramesOK, n
    <3> QED BY ONLY <2>9, <3>1, <3>2, <3>3
  <2>11. Alike(l, k, n)
    <3>1. n <= Len(l.ci) /\ n <= Len(k.ci)
      BY <1>1, <2>9 DEF n
    <3> QED BY <2>9, <3>1 DEF Alike
  <2>12. Become(th, k, Append(cs, CBody(th, n, "cont")))
    <3>1. [l EXCEPT !.status = "OK", !.ci[n].handle = @ /\ ~flags.LuauCustomYieldablePcalls] = k
      BY <2>1, <2>2, <2>3, <2>4
    <3> QED BY <1>2, <1>5, <3>1
  <2>13. \A m \in 1..n : k.ci[m].handle => l.ci[m].handle
    BY <2>9
  <2>14. n = Len(l.ci)
    BY DEF n
  <2> QED BY <1>2, <1>3, <1>5, <2>8, <2>9, <2>10, <2>11, <2>12, <2>13, <2>14, ContinueC
<1>6. CASE ~(l.status \in {"OK", "REENTRY"} /\ n > 0)
  <2>1. PICK k : k = Finished(l, Top, l.status)
    OBVIOUS
  <2>2. PopC = q /\ Become(th, k, q)
    <3>1. PopC = q
      BY <1>2, AtBase
    <3> QED BY <1>2, <1>6, <2>1, <3>1
  <2>3. k \in LuaState /\ k.ci = l.ci /\ ~k.isactive /\ k.status = l.status
    <3>1. Top.old \in Int
      BY <1>1, <1>2, RecordKinds DEF ResumeRec
    <3>2. l.status \in {"OK", "ERR"} \cup Yielded
      BY <1>1 DEF LuaState
    <3> QED BY <1>1, <2>1, <3>1, <3>2, FinishedFacts
  <2>4. th # MainThread
    <3>1. Len(cs) \in 1..Len(cs)
      BY <1>1
    <3> QED BY <1>1, <1>2, <3>1, ShapeAt
  <2>5. l.status # "OK" => l.status \in Yielded /\ l.ci # <<>> /\ Continuable(l, n - 1)
    BY UnwindFacts
  <2>6. n = 0 <=> l.ci = <<>>
    BY <1>1, EmptySeq
  <2>7. l.status \in {"OK", "REENTRY"} => l.ci = <<>>
    BY <1>1, <1>6, <2>6
  <2>8. FramesOK(k) /\ (\A h : Continuable(l, h) => Continuable(k, h))
    BY <1>1, <2>3 DEF FramesOK, Continuable, FnOf
  <2>9. Off(th, k) /\ k.status # "ERR"
    BY <2>3, <2>4, <2>5, <2>7, <2>8 DEF Off, Yielded
  <2> QED BY <2>2, <2>3, <2>8, <2>9, Gone
<1> QED BY <1>4, <1>5, <1>6

-----------------------------------------------------------------------------
(* One thread goes on.                                                       *)

\* A C function that is not waiting for a callee, or waits for a resume, is never
\* on top of a thread that yields.
LEMMA BodyRuns ==
  ASSUME NEW q, NEW a, NEW th, NEW l, At(q, a, th, l), Top.k = "c",
         Top.pc # "wait" \/ FnOf(l, Top.ci) = "resume"
  PROVE  l.status = "OK"
<1> SUFFICES ASSUME l.status # "OK" PROVE FALSE
  OBVIOUS
<1>1. Unwinds(cs, l) /\ Top = cs[Len(cs)] /\ Top = Last(cs) /\ Len(cs) \in Nat /\ Len(cs) > 0
  BY AtFacts
<1>2. In(cs, Len(cs)) /\ Len(cs) \in 1..Len(cs)
  BY <1>1 DEF In
<1> HIDE DEF FnOf
<1> QED BY <1>1, <1>2 DEF Unwinds

\* The failure of a resume is returned or thrown.
LEMMA ResumeFailedEnds ==
  ASSUME NEW q, NEW a, NEW th, NEW l, At(q, a, th, l), l.status = "OK", Top.k = "c",
         Top.pc = "wait" => FnOf(l, Top.ci) \notin {"pcall", "xpcall"}, ResumeFailed
  PROVE  Ends(q, th, a)
<1>1. Top.th = th
  BY DEF At
<1>2. CReturn(th) \/ Error(th)
  BY <1>1 DEF ResumeFailed
<1>3. CASE CReturn(th)
  BY <1>3, CReturnEnds
<1>4. CASE Error(th)
  BY <1>4, ErrorEnds
<1> QED BY <1>2, <1>3, <1>4

\* The steps of the thread on top that resume no other.
Steps ==
  \/ \E fn \in CFunction \cup {"lua"}, co \in Thread : LuaCall(fn, co)
  \/ \E fn \in Callee : LuaMetamethod(fn) \/ LuaIterate(fn)
  \/ LuaReturn \/ LuaError
  \/ \E s \in {"YIELD", "BREAK"} : LuaInterrupt(s)
  \/ CFunctionReturns \/ CFunctionFails
  \/ \E s \in {"YIELD", "BREAK"} : CFunctionSuspends(s) \/ KFunctionSuspends(s)
  \/ \E fn \in Callee : CFunctionCalls(fn) \/ lua_pcall(fn) \/ KFunctionCalls(fn)
  \/ KFunctionReturns \/ KFunctionFails
  \/ \E fn \in Callee : luaB_pcally(fn)
  \/ luaB_pcallcont \/ luaB_xpcallcont
  \/ auxresumeRefused \/ auxresumeOverflowed \/ ResumeReturns
  \/ ExecuteExits \/ CallEnds \/ PcallEnds \/ CalleeReturned
  \/ resume_continue \/ ErrfuncEnds

\* What the Lua function on top does.
LEMMA LuaStepsEnds ==
  ASSUME NEW q, NEW a, NEW th, NEW l, At(q, a, th, l), RunsLua,
         \/ \E fn \in Callee : LuaMetamethod(fn) \/ LuaIterate(fn)
         \/ LuaError
         \/ \E s \in {"YIELD", "BREAK"} : LuaInterrupt(s)
  PROVE  Ends(q, th, a)
<1>1. Top.th = th /\ l = L[th] /\ l.status = "OK" /\ Top.k = "execute"
  BY DEF At, RunsLua
<1>2. PICK yes \in BOOLEAN : yes = TRUE
  OBVIOUS
<1>3. PICK no \in BOOLEAN : no = FALSE
  OBVIOUS
<1>4. PICK int \in {"int", "iter", "ny"} : int = "int"
  OBVIOUS
<1>5. PICK iter \in {"int", "iter", "ny"} : iter = "iter"
  OBVIOUS
<1>6. ASSUME NEW fn \in Callee, LuaMetamethod(fn) \/ LuaIterate(fn) PROVE Ends(q, th, a)
  <2>1. Call(th, int, no, fn, cs) \/ Call(th, iter, yes, fn, cs)
    BY <1>1, <1>2, <1>3, <1>4, <1>5, <1>6 DEF LuaMetamethod, LuaIterate
  <2>2. CASE Call(th, int, no, fn, cs)
    <3>1. int # "ny"
      BY <1>4
    <3> QED BY <1>1, <2>2, <3>1, LuaCallsEnds
  <2>3. CASE Call(th, iter, yes, fn, cs)
    <3>1. iter # "ny"
      BY <1>5
    <3> QED BY <1>1, <2>3, <3>1, LuaCallsEnds
  <2> QED BY <2>1, <2>2, <2>3
<1>7. CASE LuaError
  <2>1. Error(th) /\ ~(Top.k = "c")
    BY <1>1, <1>7 DEF LuaError
  <2> QED BY <1>1, <2>1, ErrorEnds
<1>8. ASSUME NEW s \in {"YIELD", "BREAK"}, LuaInterrupt(s) PROVE Ends(q, th, a)
  <2>1. Suspend(th, s, PopC)
    BY <1>1, <1>8 DEF LuaInterrupt
  <2> QED BY <1>1, <2>1, SuspendEnds
<1> QED BY <1>6, <1>7, <1>8

\* What the C function on top does, without a continuation and with one.
LEMMA CStepsEnds ==
  ASSUME NEW q, NEW a, NEW th, NEW l, At(q, a, th, l), RunsC,
         \/ CFunctionReturns \/ CFunctionFails
         \/ \E s \in {"YIELD", "BREAK"} : CFunctionSuspends(s) \/ KFunctionSuspends(s)
         \/ \E fn \in Callee : CFunctionCalls(fn) \/ lua_pcall(fn) \/ KFunctionCalls(fn)
         \/ KFunctionReturns \/ KFunctionFails
  PROVE  Ends(q, th, a)
<1>1. /\ Top.th = th /\ l = L[th] /\ l.status = "OK" /\ Top.k = "c" /\ Top.pc \in {"run", "cont"}
      /\ TopFn = FnOf(l, Top.ci)
  BY DEF At, RunsC, TopFn, FnOf
<1> HIDE DEF FnOf
<1>2. PICK yes \in BOOLEAN : yes = TRUE
  OBVIOUS
<1>3. PICK no \in BOOLEAN : no = FALSE
  OBVIOUS
<1>4. PICK int \in {"int", "iter", "ny"} : int = "int"
  OBVIOUS
<1>5. CASE CFunctionReturns \/ KFunctionReturns
  <2>1. CReturn(th)
    BY <1>1, <1>5 DEF CFunctionReturns, KFunctionReturns
  <2> QED BY <1>1, <2>1, CReturnEnds
<1>6. CASE CFunctionFails \/ KFunctionFails
  <2>1. Error(th) /\ Top.pc # "wait"
    BY <1>1, <1>6 DEF CFunctionFails, KFunctionFails
  <2> QED BY <1>1, <2>1, ErrorEnds
<1>7. ASSUME NEW s \in {"YIELD", "BREAK"}, CFunctionSuspends(s) \/ KFunctionSuspends(s) PROVE Ends(q, th, a)
  <2>1. Suspend(th, s, PopC) /\ Top.pc # "wait" /\ Top.pc # "error"
    BY <1>1, <1>7 DEF CFunctionSuspends, KFunctionSuspends
  <2> QED BY <1>1, <2>1, SuspendEnds
<1>8. ASSUME NEW fn \in Callee, CFunctionCalls(fn) PROVE Ends(q, th, a)
  <2>1. Call(th, "int", no, fn, SetPc("wait")) /\ FnOf(l, Top.ci) = IF no THEN "k" ELSE "c"
    BY <1>1, <1>3, <1>8 DEF CFunctionCalls, Body
  <2> QED BY <1>1, <2>1, CCallsEnds
<1>9. ASSUME NEW fn \in Callee, KFunctionCalls(fn) PROVE Ends(q, th, a)
  <2>1. Call(th, "int", yes, fn, SetPc("wait")) /\ FnOf(l, Top.ci) = IF yes THEN "k" ELSE "c"
    BY <1>1, <1>2, <1>9 DEF KFunctionCalls, Body
  <2> QED BY <1>1, <2>1, CCallsEnds
<1>10. ASSUME NEW fn \in Callee, lua_pcall(fn) PROVE Ends(q, th, a)
  <2>1. /\ Call(th, int, FALSE, fn, Append(SetPc("wait"), PcallRecord(th, l, FALSE)))
        /\ FnOf(l, Top.ci) = "c"
    BY <1>1, <1>4, <1>10 DEF lua_pcall, Body
  <2>2. Top.ci = Len(l.ci)
    BY <1>1, BodyFacts
  <2>3. FnOf(l, Top.ci) \in {"c", "pcall", "xpcall"}
    BY <2>1
  <2> QED BY <1>1, <2>1, <2>2, <2>3, PcallsEnds
<1> QED BY <1>5, <1>6, <1>7, <1>8, <1>9, <1>10

\* pcall, xpcall and their continuations.
LEMMA PcallStepsEnds ==
  ASSUME NEW q, NEW a, NEW th, NEW l, At(q, a, th, l),
         (\E fn \in Callee : luaB_pcally(fn)) \/ luaB_pcallcont \/ luaB_xpcallcont
  PROVE  Ends(q, th, a)
<1>1. Top.th = th /\ l = L[th] /\ TopFn = FnOf(l, Top.ci)
  BY DEF At, TopFn, FnOf
<1> HIDE DEF FnOf
<1>2. ASSUME NEW fn \in Callee, luaB_pcally(fn) PROVE Ends(q, th, a)
  <2>1. l.status = "OK" /\ Top.k = "c" /\ Top.pc = "run" /\ FnOf(l, Top.ci) \in {"pcall", "xpcall"}
    BY <1>1, <1>2 DEF luaB_pcally, RunsC
  <2> QED BY <1>2, <2>1, PcallyEnds
<1>3. CASE luaB_pcallcont
  <2>1. l.status = "OK" /\ Top.k = "c" /\ CReturn(th)
    BY <1>1, <1>3 DEF luaB_pcallcont, RunsC
  <2> QED BY <2>1, CReturnEnds
<1>4. CASE luaB_xpcallcont
  <2>1. Top.k = "c" /\ Top.pc = "error"
    BY <1>4 DEF luaB_xpcallcont
  <2>2. l.status = "OK"
    BY <2>1, BodyRuns
  <2>3. FnOf(l, Top.ci) \in {"pcall", "xpcall"}
    BY <2>1, <2>2, BodyFacts
  <2>4. PICK ny \in {"int", "iter", "ny"} : ny = "ny"
    OBVIOUS
  <2>5. PICK fn \in Callee : fn = "lua"
    BY DEF Callee
  <2>6. \/ CReturn(th)
        \/ Call(th, ny, FALSE, fn, Append(SetPc("wait"), PcallRecord(th, l, FALSE)))
    BY <1>1, <1>4, <2>4, <2>5 DEF luaB_xpcallcont
  <2>7. CASE CReturn(th)
    BY <2>1, <2>2, <2>7, CReturnEnds
  <2>8. CASE Call(th, ny, FALSE, fn, Append(SetPc("wait"), PcallRecord(th, l, FALSE)))
    <3>1. FnOf(l, Top.ci) \in {"c", "pcall", "xpcall"} /\ FnOf(l, Top.ci) # "c"
      BY <2>3
    <3> QED BY <2>1, <2>2, <2>8, <3>1, PcallsEnds
  <2> QED BY <2>6, <2>7, <2>8
<1> QED BY <1>2, <1>3, <1>4

\* coroutine.resume, before and after the coroutine ran.
LEMMA ResumerStepsEnds ==
  ASSUME NEW q, NEW a, NEW th, NEW l, At(q, a, th, l),
         auxresumeRefused \/ auxresumeOverflowed \/ ResumeReturns
  PROVE  Ends(q, th, a)
<1>1. Top.th = th /\ l = L[th] /\ TopFn = FnOf(l, Top.ci)
  BY DEF At, TopFn, FnOf
<1> HIDE DEF FnOf
<1>2. CASE auxresumeRefused
  <2>1. l.status = "OK" /\ Top.k = "c" /\ Top.pc = "run" /\ ResumeFailed
    BY <1>1, <1>2 DEF auxresumeRefused, Body, RunsC
  <2>2. Top.pc # "wait"
    BY <2>1
  <2> QED BY <2>1, <2>2, ResumeFailedEnds
<1>3. CASE auxresumeOverflowed
  <2>1. Top.k = "c" /\ Top.pc # "wait" /\ ResumeFailed
    BY <1>3 DEF auxresumeOverflowed
  <2>2. l.status = "OK"
    BY <2>1, BodyRuns
  <2> QED BY <2>1, <2>2, ResumeFailedEnds
<1>4. CASE ResumeReturns
  <2>1. Top.k = "c" /\ FnOf(l, Top.ci) = "resume" /\ Top.pc \in {"wait", "cont"}
    BY <1>1, <1>4 DEF ResumeReturns
  <2>2. l.status = "OK"
    BY <2>1, BodyRuns
  <2>3. FnOf(l, Top.ci) \notin {"pcall", "xpcall"} /\ Top.pc # "error"
    BY <2>1
  <2>4. PICK broken \in {"YIELD", "BREAK"} : broken = "BREAK"
    OBVIOUS
  <2>5. Suspend(th, broken, PopC) \/ CReturn(th) \/ ResumeFailed
    BY <1>1, <1>4, <2>4 DEF ResumeReturns
  <2>6. CASE Suspend(th, broken, PopC)
    BY <2>1, <2>2, <2>3, <2>6, SuspendEnds
  <2>7. CASE CReturn(th)
    BY <2>1, <2>2, <2>7, CReturnEnds
  <2>8. CASE ResumeFailed
    BY <2>1, <2>2, <2>3, <2>8, ResumeFailedEnds
  <2> QED BY <2>5, <2>6, <2>7, <2>8
<1> QED BY <1>2, <1>3, <1>4

\* All actions of a thread that has records.
LEMMA StepsEnds ==
  ASSUME NEW q, NEW a, NEW th, NEW l, At(q, a, th, l), Steps
  PROVE  Ends(q, th, a)
<1>1. ASSUME NEW fn \in CFunction \cup {"lua"}, NEW co \in Thread, LuaCall(fn, co) PROVE Ends(q, th, a)
  BY <1>1, LuaCallEnds
<1>2. CASE LuaReturn
  BY <1>2, LuaReturnEnds
<1>3. CASE \/ \E fn \in Callee : LuaMetamethod(fn) \/ LuaIterate(fn)
           \/ LuaError
           \/ \E s \in {"YIELD", "BREAK"} : LuaInterrupt(s)
  <2>1. RunsLua
    BY <1>3 DEF LuaMetamethod, LuaIterate, LuaError, LuaInterrupt
  <2> QED BY <1>3, <2>1, LuaStepsEnds
<1>4. CASE \/ CFunctionReturns \/ CFunctionFails
           \/ \E s \in {"YIELD", "BREAK"} : CFunctionSuspends(s) \/ KFunctionSuspends(s)
           \/ \E fn \in Callee : CFunctionCalls(fn) \/ lua_pcall(fn) \/ KFunctionCalls(fn)
           \/ KFunctionReturns \/ KFunctionFails
  <2>1. RunsC
    BY <1>4 DEF CFunctionReturns, CFunctionFails, CFunctionSuspends, KFunctionSuspends, CFunctionCalls,
                lua_pcall, KFunctionCalls, KFunctionReturns, KFunctionFails, Body
  <2> QED BY <1>4, <2>1, CStepsEnds
<1>5. CASE (\E fn \in Callee : luaB_pcally(fn)) \/ luaB_pcallcont \/ luaB_xpcallcont
  BY <1>5, PcallStepsEnds
<1>6. CASE auxresumeRefused \/ auxresumeOverflowed \/ ResumeReturns
  BY <1>6, ResumerStepsEnds
<1>7. CASE ExecuteExits
  BY <1>7, ExecuteExitsEnds
<1>8. CASE CallEnds
  BY <1>8, CallEndsEnds
<1>9. CASE PcallEnds
  BY <1>9, PcallEndsEnds
<1>10. CASE CalleeReturned
  BY <1>10, CalleeReturnedEnds
<1>11. CASE resume_continue
  BY <1>11, ContinueEnds
<1>12. CASE ErrfuncEnds
  BY <1>12, ErrfuncEndsEnds
<1> QED BY <1>1, <1>2, <1>3, <1>4, <1>5, <1>6, <1>7, <1>8, <1>9, <1>10, <1>11, <1>12 DEF Steps

-----------------------------------------------------------------------------
(* A thread is entered.                                                      *)

\* A thread that waits on the native stack for another.
LEMMA Pending ==
  ASSUME CoroutineInv, NEW co, NEW i \in 1..Len(cs), cs[i].th = co, co # Top.th
  PROVE  L[co].status = "OK" /\ L[co].ci # <<>> /\ Len(L[co].ci) > 0
<1>1. Good(L, cs, flags) /\ Shape(cs)
  BY DEF CoroutineInv, Good
<1>2. cs \in Seq(Record) /\ Len(cs) \in Nat /\ cs[i] \in Record /\ co \in Thread
  BY <1>1, ShapeAt, RecordKinds
<1>3. Top = cs[Len(cs)]
  BY DEF Top, Last
<1> DEFINE H == {m \in 1..Len(cs) : cs[m].th = co}
<1>4. PICK j \in H : \A m \in H : m <= j
  <2>1. H \subseteq 1..Len(cs) /\ H # {}
    OBVIOUS
  <2> HIDE DEF H
  <2> QED BY <1>2, <2>1, Greatest
<1>5. j \in 1..Len(cs)-1 /\ j + 1 \in 1..Len(cs) /\ cs[j].th = co /\ cs[j+1].th # co /\ j \in 0..Len(cs)
  <2>1. j \in 1..Len(cs) /\ cs[j].th = co /\ j # Len(cs)
    BY <1>3, <1>4
  <2>2. j + 1 \in 1..Len(cs) /\ j \in 1..Len(cs)-1 /\ ~(j + 1 <= j)
    BY <1>2, <2>1
  <2> QED BY <1>4, <2>1, <2>2
<1> HIDE DEF H
<1>6. Follows(cs[j], cs[j+1])
  <2> DEFINE m == j + 1
  <2>1. m \in 1..Len(cs) /\ m > 1 /\ m - 1 = j
    BY <1>5
  <2> HIDE DEF m
  <2>2. Follows(cs[m-1], cs[m])
    BY <1>1, <2>1, ShapeAt
  <2> QED BY <2>1, <2>2 DEF m
<1>7. cs[j+1].k = "resume" /\ cs[j].k = "c"
  BY <1>5, <1>6 DEF Follows
<1>8. L[co].status = "OK" /\ Fits(Under(cs, j), L[co])
  BY <1>1, <1>5, <1>7 DEF Good
<1>9. Last(Under(cs, j)) = cs[j] /\ Len(Under(cs, j)) = j /\ Shape(Under(cs, j)) /\ Under(cs, j) \in Seq(Record)
  BY <1>1, <1>2, <1>5, UnderFacts, ShapeUnder
<1>10. L[co] \in LuaState /\ FramesOK(L[co])
  BY <1>1, <1>2 DEF Good
<1>11. Okay(Under(cs, j), L[co])
  <2>1. Under(cs, j) # <<>>
    BY <1>5, <1>9, EmptySeq
  <2> QED BY <1>8, <1>9, <1>10, <2>1 DEF Okay, Fits
<1>12. Reach(cs[j]) <= Len(L[co].ci)
  <2>1. Sits(Under(Under(cs, j), Len(Under(cs, j)) - 1), Last(Under(cs, j)), L[co])
    BY <1>11, OkayFacts
  <2> QED BY <1>9, <2>1 DEF Sits
<1>13. cs[j] \in Record
  <2>1. j \in 1..Len(cs)
    BY <1>5
  <2> QED BY <1>2, <2>1, ElementOfSeq
<1>14. Reach(cs[j]) \in Nat /\ Reach(cs[j]) > 0
  BY <1>7, <1>13, ReachType DEF Reach
<1>15. Len(L[co].ci) > 0
  <2>1. Len(L[co].ci) \in Nat
    BY <1>10, FrameTypes
  <2> QED BY <1>12, <1>14, <2>1
<1>16. L[co].ci # <<>>
  BY <1>15
<1> QED BY <1>8, <1>15, <1>16

\* Stack q, from which thread co can be entered at n C calls.
Entry(q, co, n) ==
  /\ flags \in Flags /\ Context(q, co) /\ co \in Thread /\ co # MainThread
  /\ \A i \in 1..Len(cs) : cs[i].th # co
  /\ L[co] \in LuaState /\ FramesOK(L[co]) /\ Off(co, L[co])
  /\ n \in Int /\ n >= Cardinality(Nested(q))
  /\ q # <<>> => Last(q).k = "c" /\ Last(q).pc \in {"wait", "failed"}

\* The record of a resume lands on the stack of the resumer.
LEMMA EntryFacts ==
  ASSUME NEW q, NEW co, NEW n, Entry(q, co, n), q # <<>> => Last(q).pc = "wait",
         NEW r, r = ResumeRecord(co, n)
  PROVE  /\ r \in Record /\ r.k = "resume" /\ r.th = co /\ r.pc = "loop" /\ r.ch = 0 /\ r.old = n + 1
         /\ Lands(q, r) /\ Shape(q) /\ q \in Seq(Record) /\ \A i \in 1..Len(q) : q[i].th # co
<1>1. /\ r \in Record /\ r.k = "resume" /\ r.th = co /\ r.pc = "loop" /\ r.ch = 0 /\ r.old = n + 1
  BY DEF Entry, ResumeRecord, Record, ResumeRec
<1>2. Shape(q) /\ q \in Seq(Record) /\ \A i \in 1..Len(q) : q[i].th # co
  BY DEF Entry, Context, Shape
<1>3. Cardinality(Nested(q)) \in Nat
  BY <1>2, CountTypes
<1>4. IF q = <<>> THEN Bottom(r) ELSE Follows(Last(q), r)
  BY <1>1 DEF Entry, Bottom, Follows
<1>5. ~(Len(q) = 1 /\ q[1].k = "pcall")
  <2> SUFFICES ASSUME Len(q) = 1, q[1].k = "pcall" PROVE FALSE
    OBVIOUS
  <2>1. q # <<>> /\ Last(q) = q[1]
    BY <1>2 DEF Last
  <2> QED BY <2>1 DEF Entry
<1>6. r.old >= Cardinality(Nested(q)) + 1
  <2> DEFINE x == Cardinality(Nested(q))
  <2>1. n \in Int /\ n >= x /\ x \in Nat
    BY <1>3 DEF Entry
  <2> HIDE DEF x
  <2>2. n + 1 >= x + 1
    BY <2>1
  <2> QED BY <1>1, <2>2 DEF x
<1>7. Lands(q, r)
  BY <1>1, <1>2, <1>4, <1>5, <1>6 DEF Lands, Entry
<1> QED BY <1>1, <1>2, <1>7

\* What resume_start sets.
LEMMA StartedFacts ==
  ASSUME NEW l \in LuaState, NEW n \in Int, NEW k, k = Started(l, n)
  PROVE  /\ k \in LuaState /\ k.ci = l.ci /\ k.status = l.status /\ k.hasfn = l.hasfn /\ k.isactive
         /\ k.nCcalls = n + 1 /\ k.baseCcalls = n + 1
<1>1. PICK m \in Int : m = n + 1
  OBVIOUS
<1>2. k = [l EXCEPT !.nCcalls = m, !.baseCcalls = m, !.isactive = TRUE]
  BY <1>1 DEF Started
<1>3. /\ k \in LuaState /\ k.ci = l.ci /\ k.status = l.status /\ k.hasfn = l.hasfn /\ k.isactive
      /\ k.nCcalls = m /\ k.baseCcalls = m
  BY ONLY <1>2, l \in LuaState DEF LuaState
<1> QED BY <1>1, <1>3

\* The frames of a thread that is not on the native stack and may be resumed.
LEMMA Suspended ==
  ASSUME NEW th, NEW l \in LuaState, FramesOK(l), Off(th, l), CanStart(l)
  PROVE  /\ \A m \in 1..Len(l.ci) : l.ci[m].handle => Continuable(l, m)
         /\ Len(l.ci) \in Nat
         /\ l.status = "OK" => l.ci = <<>> /\ Len(l.ci) = 0
         /\ l.status # "OK" => Len(l.ci) > 0 /\ Continuable(l, Len(l.ci) - 1)
<1>1. l.ci \in Seq(CallInfo) /\ Len(l.ci) \in Nat
  BY FrameTypes
<1>2. l.status = "OK" => l.ci = <<>> /\ Len(l.ci) = 0
  BY DEF Off
<1>3. l.status # "OK" => Len(l.ci) > 0 /\ Continuable(l, Len(l.ci) - 1)
  <2> HAVE l.status # "OK"
  <2>1. l.ci # <<>> /\ Continuable(l, Len(l.ci) - 1)
    BY DEF CanStart, Off, Yielded
  <2>2. Len(l.ci) # 0
    BY <1>1, <2>1, EmptySeq
  <2> QED BY <1>1, <2>1, <2>2
<1>4. \A m \in 1..Len(l.ci) : l.ci[m].handle => Continuable(l, m)
  <2> TAKE m \in 1..Len(l.ci)
  <2> HAVE l.ci[m].handle
  <2> DEFINE n == Len(l.ci)
  <2>1. FnOf(l, m) \in {"pcall", "xpcall"}
    BY DEF FramesOK
  <2>2. l.status # "OK"
    BY <1>1, <1>2
  <2>3. n \in Nat /\ m \in 1..n /\ Continuable(l, n - 1)
    BY <1>1, <1>3, <2>2
  <2> HIDE DEF n, FnOf
  <2> SUFFICES ASSUME NEW i \in 1..m PROVE FnOf(l, i) # "c"
    BY DEF Continuable
  <2>4. i = m \/ i \in 1..n-1
    BY <2>3
  <2> QED BY <2>1, <2>3, <2>4 DEF Continuable
<1> QED BY <1>1, <1>2, <1>3, <1>4

\* A thread that failed or was refused without being entered.
LEMMA NotEntered ==
  ASSUME NEW q, NEW co, NEW n, Entry(q, co, n), NEW a, NEW k \in LuaState, FramesOK(k), Off(co, k),
         k.status = "ERR" => \A m \in 1..Len(L[co].ci) : ~L[co].ci[m].handle,
         Become(co, k, q)
  PROVE  Ends(q, co, a)
<1>1. k.status = "ERR" => Exposed(cs, co, L[co])
  BY DEF Exposed, Entry
<1>2. Outcome(q, co, a, k, q)
  BY <1>1 DEF Outcome
<1> QED BY <1>2 DEF Ends

\* Thread co stands on the stack s, on which record r of its resume is the newest.
Resumed(q, co, a, k, r, s) ==
  /\ Okay(s, k) /\ TopFits(s, k) /\ CountsFit(s, co, k.nCcalls, k.baseCcalls)
  /\ Last(s) = r /\ Block(q, co, s) /\ Heads(q, a, s) /\ Fits(s, k)

\* The record of a resume goes on the stack, with a thread that can be continued.
LEMMA ResumeLands ==
  ASSUME NEW q, NEW co, NEW n, Entry(q, co, n), q # <<>> => Last(q).pc = "wait",
         NEW r, r = ResumeRecord(co, n),
         NEW k \in LuaState, FramesOK(k), k.isactive, k.status = "OK", k.nCcalls = n + 1, k.baseCcalls = n + 1,
         \A m \in 1..Len(k.ci) : k.ci[m].handle => Continuable(k, m),
         Continuable(k, Len(k.ci)),
         NEW s, s = Append(q, r), NEW a, a = "resume"
  PROVE  Resumed(q, co, a, k, r, s)
<1>1. /\ r \in Record /\ r.k = "resume" /\ r.th = co /\ r.pc = "loop" /\ r.ch = 0 /\ r.old = n + 1
      /\ Lands(q, r) /\ Shape(q) /\ q \in Seq(Record) /\ \A i \in 1..Len(q) : q[i].th # co
  BY EntryFacts
<1>2. n \in Int
  BY DEF Entry
<1>3. Okay(s, k) /\ CountsFit(s, co, k.nCcalls, k.baseCcalls) /\ Last(s) = r
  <2>1. k.baseCcalls >= r.old /\ k.nCcalls >= k.baseCcalls /\ k.nCcalls = k.baseCcalls
    BY <1>1, <1>2
  <2>2. r.pc # "errf"
    BY <1>1
  <2>3. Okay(Append(q, r), k) /\ CountsFit(Append(q, r), r.th, k.nCcalls, k.baseCcalls) /\ Last(Append(q, r)) = r
    BY <1>1, <2>1, <2>2, ResumeAlone
  <2> QED BY <1>1, <2>3
<1>4. TopFits(s, k)
  <2> HIDE DEF FnOf
  <2> QED BY <1>1, <1>3 DEF TopFits
<1>5. Block(q, co, s)
  BY <1>1, BlockFirst
<1>6. Heads(q, a, s)
  <2>1. s[Len(q) + 1] = r
    BY <1>1, PushFacts
  <2> QED BY <1>1, <2>1 DEF Heads
<1>7. Fits(s, k)
  BY <1>1, <1>3, <1>4 DEF Fits, Okay
<1> QED BY <1>3, <1>4, <1>5, <1>6, <1>7 DEF Resumed

\* The start of the function of a coroutine.
LEMMA ResumeStarts ==
  ASSUME NEW q, NEW co, NEW n, Entry(q, co, n), q # <<>> => Last(q).pc = "wait",
         NEW fn \in CFunction \cup {"lua"}, NEW tgt \in Thread,
         L[co].status = "OK", CanStart(L[co]),
         NEW l, l = Started(L[co], n), NEW r, r = ResumeRecord(co, n),
         NEW v, v = Activation(co, l, fn),
         NEW k, k = [Entered(l, fn, tgt) EXCEPT !.hasfn = FALSE],
         Become(co, k, q \o <<r, v>>), NEW a, a = "resume"
  PROVE  Ends(q, co, a)
<1>1. /\ L[co] \in LuaState /\ FramesOK(L[co]) /\ Off(co, L[co]) /\ n \in Int /\ co \in Thread
  BY DEF Entry
<1>2. L[co].ci = <<>> /\ Len(L[co].ci) = 0
  BY <1>1, Suspended
<1>3. /\ l \in LuaState /\ l.ci = L[co].ci /\ l.status = L[co].status /\ l.isactive
      /\ l.nCcalls = n + 1 /\ l.baseCcalls = n + 1
  BY <1>1, StartedFacts
<1>4. FramesOK(l) /\ Len(l.ci) = 0 /\ (\A m \in 1..Len(l.ci) : l.ci[m].handle => Continuable(l, m))
      /\ Continuable(l, Len(l.ci))
  BY ONLY <1>2, <1>3 DEF FramesOK, Continuable
<1>0. PICK s : s = Append(q, r)
  OBVIOUS
<1>5. /\ Okay(s, l) /\ TopFits(s, l) /\ CountsFit(s, co, l.nCcalls, l.baseCcalls)
      /\ Last(s) = r /\ Block(q, co, s) /\ Heads(q, a, s)
  <2>1. l.status = "OK"
    BY <1>3
  <2>2. Resumed(q, co, a, l, r, s)
    BY <1>0, <1>3, <1>4, <2>1, ResumeLands
  <2> QED BY <2>2 DEF Resumed
<1>6. /\ r \in Record /\ r.k = "resume" /\ r.th = co /\ r.pc = "loop" /\ q \in Seq(Record)
  BY EntryFacts
<1> DEFINE f == Frame(fn, tgt, fn = "lua")
           e == Entered(l, fn, tgt)
<1>7. /\ f \in CallInfo /\ f.fn = fn /\ ~f.handle /\ (fn = "lua" => f.ret)
      /\ e \in LuaState /\ e.ci = Append(l.ci, f) /\ e.status = l.status
      /\ e.nCcalls = l.nCcalls /\ e.baseCcalls = l.baseCcalls
      /\ (l.isactive => e.isactive)
  <2>1. l \in LuaState /\ fn \in CFunction \cup {"lua"} /\ tgt \in Thread
    BY <1>3
  <2> QED BY ONLY <2>1, EnteredFacts
<1> HIDE DEF f, e
<1>8. /\ k \in LuaState /\ k.ci = Append(l.ci, f) /\ k.status = "OK"
      /\ k.nCcalls = l.nCcalls /\ k.baseCcalls = l.baseCcalls /\ k.isactive
  <2>1. k = [e EXCEPT !.hasfn = FALSE]
    BY DEF e
  <2>2. k \in LuaState /\ k.ci = e.ci /\ k.status = e.status
        /\ k.nCcalls = e.nCcalls /\ k.baseCcalls = e.baseCcalls /\ k.isactive = e.isactive
    BY ONLY <1>7, <2>1 DEF LuaState
  <2> QED BY ONLY <1>3, <1>7, <2>2, L[co].status = "OK"
<1>9. CountsFit(s, Last(s).th, k.nCcalls, k.baseCcalls) /\ Last(s).k = "resume" /\ Last(s).pc = "loop"
  BY <1>5, <1>6, <1>8
<1>10. Okay(Append(s, v), k) /\ Fits(Append(s, v), k)
  <2>1. CASE fn = "lua"
    <3>1. v = Execute(Last(s).th)
      BY <1>5, <1>6, <2>1 DEF Activation
    <3>2. f.fn = "lua" /\ f.ret
      BY <1>7, <2>1
    <3>3. Okay(Append(s, Execute(Last(s).th)), k) /\ Fits(Append(s, Execute(Last(s).th)), k)
      BY ONLY <1>5, <1>7, <1>8, <1>9, <3>2, PushExecute
    <3> QED BY <3>1, <3>3
  <2>2. CASE fn # "lua"
    <3>1. v = CBody(Last(s).th, Len(l.ci) + 1, "run")
      BY <1>5, <1>6, <2>2 DEF Activation
    <3>2. f.fn \in CFunction
      BY <1>7, <2>2
    <3>3. /\ Okay(Append(s, CBody(Last(s).th, Len(l.ci) + 1, "run")), k)
          /\ Fits(Append(s, CBody(Last(s).th, Len(l.ci) + 1, "run")), k)
      BY ONLY <1>3, <1>5, <1>7, <1>8, <1>9, <3>2, PushC
    <3> QED BY <3>1, <3>3
  <2> QED BY <2>1, <2>2
<1>11. v \in Record /\ v.th = co /\ v.k # "resume"
  <2>1. Len(l.ci) + 1 \in Nat \ {0}
    BY <1>4
  <2> QED BY <1>1, <2>1 DEF Activation, Execute, CBody, Record, ExecuteRec, CRec
<1>12. Block(q, co, Append(s, v)) /\ Heads(q, a, Append(s, v))
  BY <1>5, <1>6, <1>11, BlockGrows
<1>13. Become(co, k, Append(s, v))
  <2>1. q \o <<r, v>> = Append(s, v)
    BY <1>0, <1>6, <1>11, PushTwo
  <2> QED BY <2>1
<1> QED BY <1>10, <1>12, <1>13, Goes

\* The return from the function that yielded.
LEMMA ResumeReenters ==
  ASSUME NEW q, NEW co, NEW n, Entry(q, co, n), q # <<>> => Last(q).pc = "wait",
         L[co].status # "OK", CanStart(L[co]),
         NEW l, l = Started(L[co], n), NEW r, r = ResumeRecord(co, n),
         NEW k, k = [l EXCEPT !.status = "OK", !.ci = IF Last(@).fn = "c" THEN Front(@) ELSE @],
         Become(co, k, Append(q, r)), NEW a, a = "resume"
  PROVE  Ends(q, co, a)
<1>1. /\ L[co] \in LuaState /\ FramesOK(L[co]) /\ Off(co, L[co]) /\ n \in Int /\ co \in Thread
  BY DEF Entry
<1>2. /\ \A m \in 1..Len(L[co].ci) : L[co].ci[m].handle => Continuable(L[co], m)
      /\ Len(L[co].ci) \in Nat /\ Len(L[co].ci) > 0 /\ Continuable(L[co], Len(L[co].ci) - 1)
  BY <1>1, Suspended
<1>3. /\ l \in LuaState /\ l.ci = L[co].ci /\ l.isactive /\ l.nCcalls = n + 1 /\ l.baseCcalls = n + 1
  BY <1>1, StartedFacts
<1>4. PICK c : c = IF Last(l.ci).fn = "c" THEN Front(l.ci) ELSE l.ci
  OBVIOUS
<1> DEFINE h == Len(l.ci)
<1>5. /\ l.ci \in Seq(CallInfo) /\ h \in Nat /\ h > 0 /\ FramesOK(l) /\ l.ci # <<>>
      /\ Continuable(l, h - 1) /\ (\A m \in 1..h : l.ci[m].handle => Continuable(l, m))
  <2>1. l.ci \in Seq(CallInfo)
    BY <1>3, FrameTypes
  <2>2. FramesOK(l)
    BY ONLY <1>1, <1>3 DEF FramesOK, FnOf
  <2>3. Continuable(l, h - 1) /\ (\A m \in 1..h : l.ci[m].handle => Continuable(l, m))
    BY ONLY <1>2, <1>3 DEF Continuable, FnOf
  <2>4. h \in Nat /\ h > 0
    BY <1>2, <1>3
  <2> QED BY <2>1, <2>2, <2>3, <2>4
<1>6. /\ c \in Seq(CallInfo) /\ Len(c) \in Nat /\ Len(c) <= h /\ (\A m \in 1..Len(c) : c[m] = l.ci[m])
      /\ Continuable(l, Len(c))
  <2>1. CASE Last(l.ci).fn = "c"
    <3> DEFINE j == h - 1
    <3>1. c = Under(l.ci, j) /\ j \in 0..h /\ j \in Nat
      BY <1>4, <1>5, <2>1, FrontIsUnder
    <3>2. Continuable(l, j) /\ j <= h
      BY <1>5
    <3> HIDE DEF j
    <3>3. Under(l.ci, j) \in Seq(CallInfo) /\ Len(Under(l.ci, j)) = j /\ \A m \in 1..j : Under(l.ci, j)[m] = l.ci[m]
      BY <1>5, <3>1, UnderFacts
    <3> QED BY <3>1, <3>2, <3>3
  <2>2. CASE Last(l.ci).fn # "c"
    <3>1. c = l.ci
      BY <1>4, <2>2
    <3>2. FnOf(l, h) # "c"
      BY <2>2 DEF FnOf, Last
    <3>3. Continuable(l, h)
      <4>1. h \in Nat /\ Continuable(l, h - 1)
        BY <1>5
      <4> HIDE DEF h, FnOf
      <4> SUFFICES ASSUME NEW i \in 1..h PROVE FnOf(l, i) # "c"
        BY DEF Continuable
      <4>2. i = h \/ i \in 1..h-1
        BY <4>1
      <4> QED BY <3>2, <4>1, <4>2 DEF Continuable
    <3> QED BY <1>5, <3>1, <3>3
  <2> QED BY <2>1, <2>2
<1>7. k = [l EXCEPT !.status = "OK", !.ci = c]
  BY <1>4
<1>8. /\ k \in LuaState /\ k.ci = c /\ k.status = "OK" /\ k.isactive
      /\ k.nCcalls = n + 1 /\ k.baseCcalls = n + 1
  BY ONLY <1>3, <1>6, <1>7 DEF LuaState
<1>9. FramesOK(k) /\ (\A m \in 0..Len(k.ci) : Continuable(k, m) <=> Continuable(l, m))
  <2>1. Len(k.ci) <= Len(l.ci) /\ \A m \in 1..Len(k.ci) : k.ci[m] = l.ci[m]
    BY <1>6, <1>8
  <2> QED BY <1>3, <1>5, <1>8, <2>1, Prefix
<1>10. Continuable(k, Len(k.ci)) /\ (\A m \in 1..Len(k.ci) : k.ci[m].handle => Continuable(k, m))
  <2>1. Len(k.ci) \in 0..Len(k.ci) /\ \A m \in 1..Len(k.ci) : m \in 0..Len(k.ci) /\ m \in 1..h
    BY <1>5, <1>6, <1>8
  <2>2. Continuable(k, Len(k.ci))
    BY <1>6, <1>8, <1>9, <2>1
  <2>3. ASSUME NEW m \in 1..Len(k.ci), k.ci[m].handle PROVE Continuable(k, m)
    <3>1. l.ci[m].handle /\ m \in 1..h /\ m \in 0..Len(k.ci)
      BY <1>6, <1>8, <2>1, <2>3
    <3> QED BY <1>5, <1>9, <3>1
  <2> QED BY <2>2, <2>3
<1>0. PICK s : s = Append(q, r)
  OBVIOUS
<1>11. Okay(s, k) /\ Block(q, co, s) /\ Heads(q, a, s) /\ Fits(s, k)
  <2>1. Resumed(q, co, a, k, r, s)
    BY <1>0, <1>8, <1>9, <1>10, ResumeLands
  <2> QED BY <2>1 DEF Resumed
<1>12. Become(co, k, s)
  BY <1>0
<1> QED BY <1>11, <1>12, Goes

\* lua_resume starts a function, starts nothing, or goes on with what yielded.
LEMMA ResumeEnds ==
  ASSUME NEW q, NEW co, NEW n, Entry(q, co, n), q # <<>> => Last(q).pc = "wait",
         NEW fn \in CFunction \cup {"lua"}, NEW tgt \in Thread, lua_resume(co, n, q, fn, tgt),
         NEW a, a = "resume"
  PROVE  Ends(q, co, a)
<1>1. PICK l : l = Started(L[co], n)
  OBVIOUS
<1>2. PICK r : r = ResumeRecord(co, n)
  OBVIOUS
<1>3. PICK v : v = Activation(co, l, fn)
  OBVIOUS
<1>4. /\ L[co] \in LuaState /\ FramesOK(L[co]) /\ Off(co, L[co]) /\ n \in Int /\ co \in Thread /\ co # MainThread
  BY DEF Entry
<1>5. /\ l \in LuaState /\ l.ci = L[co].ci /\ l.status = L[co].status
  BY <1>1, <1>4, StartedFacts
<1>6. /\ CanStart(L[co])
      /\ IF l.status = "OK" /\ ~l.hasfn THEN Become(co, Finished(l, r, "ERR"), q)
         ELSE IF l.status = "OK"
         THEN Become(co, [Entered(l, fn, tgt) EXCEPT !.hasfn = FALSE], q \o <<r, v>>)
         ELSE Become(co, [l EXCEPT !.status = "OK", !.ci = IF Last(@).fn = "c" THEN Front(@) ELSE @],
                     Append(q, r))
  BY <1>1, <1>2, <1>3 DEF lua_resume
<1>7. CASE l.status = "OK" /\ ~l.hasfn
  <2>1. L[co].ci = <<>>
    BY <1>4, <1>5, <1>6, <1>7, Suspended
  <2>2. PICK k : k = Finished(l, r, "ERR")
    OBVIOUS
  <2>3. r.old \in Int
    <3>1. r.old = n + 1
      BY <1>2 DEF ResumeRecord
    <3> QED BY <1>4, <3>1
  <2>4. k \in LuaState /\ k.ci = l.ci /\ ~k.isactive /\ k.status = "ERR"
    BY <1>5, <2>2, <2>3, FinishedFacts
  <2>5. FramesOK(k) /\ Off(co, k)
    BY <1>4, <1>5, <2>1, <2>4 DEF FramesOK, Off, Yielded
  <2>6. \A m \in 1..Len(L[co].ci) : ~L[co].ci[m].handle
    BY <2>1
  <2>7. Become(co, k, q)
    BY <1>6, <1>7, <2>2
  <2> QED BY <2>4, <2>5, <2>6, <2>7, NotEntered
<1>8. CASE l.status = "OK" /\ l.hasfn
  <2>1. PICK k : k = [Entered(l, fn, tgt) EXCEPT !.hasfn = FALSE]
    OBVIOUS
  <2>2. Become(co, k, q \o <<r, v>>) /\ L[co].status = "OK"
    BY <1>5, <1>6, <1>8, <2>1
  <2> QED BY <1>1, <1>2, <1>3, <1>6, <2>1, <2>2, ResumeStarts
<1>9. CASE l.status # "OK"
  <2>1. PICK k : k = [l EXCEPT !.status = "OK", !.ci = IF Last(@).fn = "c" THEN Front(@) ELSE @]
    OBVIOUS
  <2>2. Become(co, k, Append(q, r)) /\ L[co].status # "OK"
    BY <1>5, <1>6, <1>9, <2>1
  <2> QED BY <1>1, <1>2, <1>6, <2>1, <2>2, ResumeReenters
<1> QED BY <1>7, <1>8, <1>9

\* A resume on a full native stack changes a counter only.
LEMMA OverflowsEnds ==
  ASSUME NEW q, NEW co, NEW n, Entry(q, co, n), NEW a, ResumeOverflows(co, n, q)
  PROVE  Ends(q, co, a)
<1>1. /\ L[co] \in LuaState /\ FramesOK(L[co]) /\ Off(co, L[co]) /\ n \in Int /\ co # MainThread
  BY DEF Entry
<1>2. PICK k : k = [L[co] EXCEPT !.nCcalls = n]
  OBVIOUS
<1>3. /\ k \in LuaState /\ k.ci = L[co].ci /\ k.isactive = L[co].isactive /\ k.status = L[co].status
  BY ONLY <1>1, <1>2 DEF LuaState
<1>4. FramesOK(k) /\ Off(co, k)
  BY ONLY <1>1, <1>3 DEF FramesOK, Off, FnOf, Continuable
<1>5. k.status # "ERR" /\ Become(co, k, q)
  BY <1>2, <1>3 DEF ResumeOverflows, CanStart
<1> QED BY <1>3, <1>4, <1>5, NotEntered

\* lua_resumeerror goes on with an error, or ends the thread.
LEMMA ResumeErrorEnds ==
  ASSUME NEW q, NEW co, NEW n, Entry(q, co, n), q # <<>> => Last(q).pc = "wait",
         lua_resumeerror(co, n, q)
  PROVE  Ends(q, co, "resume")
<1>1. PICK l : l = Started(L[co], n)
  OBVIOUS
<1>2. PICK r : r = ResumeRecord(co, n)
  OBVIOUS
<1>3. /\ L[co] \in LuaState /\ FramesOK(L[co]) /\ Off(co, L[co]) /\ n \in Int /\ co \in Thread
      /\ flags \in Flags /\ (\A i \in 1..Len(cs) : cs[i].th # co)
  BY DEF Entry
<1>4. /\ l \in LuaState /\ l.ci = L[co].ci /\ l.isactive /\ l.nCcalls = n + 1 /\ l.baseCcalls = n + 1
  BY <1>1, <1>3, StartedFacts
<1>5. /\ r \in Record /\ r.k = "resume" /\ r.th = co /\ r.pc = "loop" /\ r.old = n + 1
      /\ Lands(q, r) /\ Shape(q) /\ \A i \in 1..Len(q) : q[i].th # co
  BY <1>2, EntryFacts
<1>6. CanStart(L[co]) /\ resume_handle(co, l, q, r)
  BY <1>1, <1>2 DEF lua_resumeerror
<1>7. \A m \in 1..Len(L[co].ci) : L[co].ci[m].handle => Continuable(L[co], m)
  BY <1>3, <1>6, Suspended
<1>8. FramesOK(l) /\ (\A m \in 1..Len(l.ci) : l.ci[m].handle => Continuable(l, m))
  BY ONLY <1>3, <1>4, <1>7 DEF FramesOK, Continuable, FnOf
<1>9. (\A m \in 1..Len(l.ci) : ~l.ci[m].handle) => Exposed(cs, co, L[co])
  BY <1>3, <1>4 DEF Exposed
<1>10. l.baseCcalls >= r.old /\ l.nCcalls >= l.baseCcalls
  BY <1>3, <1>4, <1>5
<1> QED BY <1>3, <1>4, <1>5, <1>6, <1>8, <1>9, <1>10, ResumeHandleEnds

\* The host enters a coroutine.
LEMMA HostEntry ==
  ASSUME CoroutineInv, cs = <<>>, NEW co \in Thread, co # MainThread,
         NEW q, q = <<>>, NEW n, n = 0
  PROVE  Entry(q, co, n)
<1>1. /\ Good(L, cs, flags) /\ flags \in Flags /\ L \in [Thread -> LuaState]
      /\ L[co] \in LuaState /\ FramesOK(L[co])
  BY DEF CoroutineInv, Good
<1>2. Len(cs) = 0 /\ \A i \in 1..Len(cs) : cs[i].th # co
  OBVIOUS
<1>3. Off(co, L[co])
  BY <1>1, <1>2 DEF Good
<1>4. PICK x : x = L[co]
  OBVIOUS
<1>5. Context(q, co)
  <2>1. [L EXCEPT ![co] = x] = L
    BY <1>1, <1>4
  <2>2. Good([L EXCEPT ![co] = x], q, flags)
    BY <1>1, <2>1
  <2>3. \A i \in 1..Len(q) : q[i].th # co
    BY <1>2
  <2> QED BY <1>1, <2>2, <2>3, ContextOf
<1>6. Cardinality(Nested(q)) = 0
  <2>1. Nested(q) = {}
    BY DEF Nested
  <2> QED BY <2>1, FS_EmptySet
<1> QED BY <1>1, <1>2, <1>3, <1>5, <1>6 DEF Entry

\* A thread that can be resumed has nothing on the native stack.
LEMMA Resumable ==
  ASSUME CoroutineInv, NEW q, NEW a, NEW th, NEW l, At(q, a, th, l), RunsC, NEW co, CanStart(L[co])
  PROVE  \A i \in 1..Len(cs) : cs[i].th # co
<1>1. Top.th = th /\ l = L[th] /\ Len(l.ci) \in Nat
  BY AtFacts
<1>2. l.status = "OK" /\ Top.k = "c"
  BY <1>1 DEF RunsC
<1>3. Top.ci \in 1..Len(l.ci)
  BY <1>2, BodyFacts
<1>4. l.ci # <<>>
  BY <1>1, <1>3
<1> SUFFICES ASSUME NEW i \in 1..Len(cs), cs[i].th = co PROVE FALSE
  OBVIOUS
<1>5. co # Top.th
  BY <1>1, <1>2, <1>4 DEF CanStart
<1>6. L[co].status = "OK" /\ L[co].ci # <<>>
  BY <1>5, Pending
<1> QED BY <1>6 DEF CanStart

\* A function of the thread on top enters another thread.
LEMMA BodyEntry ==
  ASSUME CoroutineInv, NEW q, NEW a, NEW th, NEW l, At(q, a, th, l), RunsC,
         FnOf(l, Top.ci) \in {"c", "resume"},
         NEW pc \in {"wait", "failed"}, NEW s, s = SetPc(pc),
         NEW co \in Thread, co # MainThread, \A i \in 1..Len(cs) : cs[i].th # co,
         NEW n, n = L[Top.th].nCcalls
  PROVE  Entry(s, co, n) /\ Last(s).pc = pc
<1>1. /\ Top.th = th /\ l = L[th] /\ th \in Thread /\ Len(l.ci) \in Nat /\ FramesOK(l) /\ l \in LuaState
      /\ cs \in Seq(Record) /\ Len(cs) \in Nat /\ Len(cs) > 0 /\ Top = cs[Len(cs)] /\ cs # <<>>
  BY AtFacts
<1>2. l.status = "OK" /\ Top.k = "c" /\ Top.pc \in {"run", "cont"} /\ flags \in Flags
  BY <1>1 DEF RunsC, At
<1>3. Top.ci \in 1..Len(l.ci) /\ Top.ci = Len(l.ci) /\ Front(cs) \in Seq(Record)
  BY <1>2, BodyFacts
<1> HIDE DEF FnOf
<1>4. ~l.ci[Top.ci].handle
  BY <1>1, <1>3 DEF FramesOK
<1>5. PICK r : r = CBody(th, Top.ci, pc)
  OBVIOUS
<1>6. Stands(q, a, th, l, s) /\ s = Append(Front(cs), r) /\ Last(s) = r /\ r \in Record
  BY <1>2, <1>4, <1>5, WaitsFor
<1>7. r.k = "c" /\ r.th = th /\ r.pc = pc /\ r.ci = Top.ci
  BY <1>5 DEF CBody
<1>8. Okay(s, l) /\ Block(q, th, s) /\ Heads(q, a, s) /\ CountsFit(s, th, l.nCcalls, l.baseCcalls)
  BY <1>6 DEF Stands
<1>9. Fits(s, l)
  <2>1. TopFits(s, l)
    BY <1>3, <1>6, <1>7 DEF TopFits
  <2> QED BY <1>2, <1>6, <1>7, <1>8, <2>1 DEF Fits, Okay
<1>10. Good(L, s, flags)
  <2>1. Context(q, th) /\ L \in [Thread -> LuaState]
    BY DEF At
  <2>2. Good([L EXCEPT ![th] = l], s, flags)
    BY <1>1, <1>8, <1>9, <2>1 DEF Context, Okay, Heads
  <2>3. [L EXCEPT ![th] = l] = L
    BY <1>1, <2>1
  <2> QED BY <2>2, <2>3
<1>11. \A i \in 1..Len(s) : s[i].th # co
  <2>1. th # co
    BY <1>1
  <2>2. PICK j : j = Len(cs) - 1
    OBVIOUS
  <2>3. Len(Front(cs)) = j /\ (\A i \in 1..j : Front(cs)[i] = cs[i]) /\ j \in Nat /\ Len(cs) = j + 1
    <3>1. Front(cs) = Under(cs, j) /\ j \in 0..Len(cs)
      BY <1>1, <2>2, FrontIsUnder
    <3>2. Len(Under(cs, j)) = j /\ \A i \in 1..j : Under(cs, j)[i] = cs[i]
      BY <1>1, <3>1, UnderFacts
    <3> QED BY <1>1, <2>2, <3>1, <3>2
  <2>4. Len(s) = Len(cs) /\ \A i \in 1..Len(s) : s[i] = cs[i] \/ s[i] = r
    <3>1. /\ Len(s) = Len(Front(cs)) + 1 /\ s[Len(Front(cs)) + 1] = r
          /\ \A i \in 1..Len(Front(cs)) : s[i] = Front(cs)[i]
      BY <1>3, <1>6, PushFacts
    <3> QED BY <1>1, <2>3, <3>1
  <2> QED BY <1>7, <2>1, <2>4
<1>12. L \in [Thread -> LuaState] /\ L[co] \in LuaState /\ FramesOK(L[co]) /\ Off(co, L[co])
  BY DEF CoroutineInv, Good
<1>13. Context(s, co)
  <2>1. PICK x : x = L[co]
    OBVIOUS
  <2>2. [L EXCEPT ![co] = x] = L
    BY <1>12, <2>1
  <2>3. Good([L EXCEPT ![co] = x], s, flags) /\ (s # <<>> => L[Last(s).th].status = "OK")
    BY <1>1, <1>2, <1>6, <1>7, <1>10, <2>2
  <2> QED BY <1>11, <1>12, <2>3, ContextOf
<1>14. n \in Int /\ n >= Cardinality(Nested(s))
  BY <1>1, <1>8, FrameTypes DEF CountsFit, CountsCover
<1> QED BY <1>2, <1>6, <1>7, <1>12, <1>13, <1>14 DEF Entry

-----------------------------------------------------------------------------
(* The main thread has no function of its own.                               *)

Has(l, b) == "hasfn" \in DOMAIN l /\ l.hasfn = b
Keeps(th, b) == \E k, t : Become(th, k, t) /\ Has(k, b)

\* Which operations leave hasfn alone.
LEMMA FinishedHas ==
  ASSUME NEW l, NEW b, Has(l, b), NEW rec, NEW status
  PROVE  Has(Finished(l, rec, status), b)
BY DEF Has, Finished

LEMMA CountedHas ==
  ASSUME NEW l, NEW b, Has(l, b), NEW y
  PROVE  Has(Counted(l, y), b)
BY DEF Has, Counted

LEMMA EnteredHas ==
  ASSUME NEW l, NEW b, Has(l, b), NEW fn, NEW co
  PROVE  Has(Entered(l, fn, co), b)
BY DEF Has, Entered

LEMMA HandleContHas ==
  ASSUME NEW th, NEW l, NEW b, Has(l, b), NEW below, NEW rec, HandleCont(th, l, below, rec)
  PROVE  Keeps(th, b)
<1> DEFINE k == IF flags.LuauCustomYieldablePcalls
             THEN [l EXCEPT !.nCcalls = l.baseCcalls, !.ci = SubSeq(@, 1, rec.ch)]
             ELSE l
<1>1. Has(k, b)
  BY DEF Has
<1> QED BY <1>1 DEF HandleCont, Keeps

LEMMA PcallFailsHas ==
  ASSUME NEW th, NEW l, NEW b, Has(l, b), NEW below, NEW rec, PcallFails(th, l, below, rec)
  PROVE  Keeps(th, b)
<1> DEFINE k == [l EXCEPT !.nCcalls = rec.n, !.baseCcalls = rec.base,
                       !.isactive = @ /\ rec.act, !.ci = SubSeq(@, 1, rec.ci)]
<1>1. Has(k, b)
  BY DEF Has
<1> QED BY <1>1 DEF PcallFails, Keeps


LEMMA AfterErrfuncHas ==
  ASSUME NEW th, NEW l, NEW b, Has(l, b), NEW below, NEW rec, AfterErrfunc(th, l, below, rec)
  PROVE  Keeps(th, b)
BY PcallFailsHas, HandleContHas DEF AfterErrfunc

LEMMA callerrfuncHas ==
  ASSUME NEW th, NEW l, NEW b, Has(l, b), NEW below, NEW rec, callerrfunc(th, l, below, rec)
  PROVE  Keeps(th, b)
<1>1. PICK c : c = Counted(l, FALSE)
  OBVIOUS
<1>2. Has(c, b) /\ Has(Entered(c, "lua", th), b)
  BY <1>1, CountedHas, EnteredHas
<1>3. \/ AfterErrfunc(th, c, below, rec)
      \/ \E t : Become(th, Entered(c, "lua", th), t)
  BY <1>1 DEF callerrfunc
<1> QED BY <1>2, <1>3, AfterErrfuncHas DEF Keeps

LEMMA resume_handleHas ==
  ASSUME NEW th, NEW l, NEW b, Has(l, b), NEW below, NEW rec, resume_handle(th, l, below, rec)
  PROVE  Keeps(th, b)
<1> DEFINE ch == resume_findhandler(l)
           keep == flags.LuauCustomYieldablePcalls /\ flags.LuauXpcallFixMessageYieldPath
<1>1. PICK h : h = [l EXCEPT !.baseCcalls = rec.old, !.nCcalls = IF keep THEN @ ELSE rec.old,
                             !.ci[ch].handle = FALSE, !.status = "OK"]
  OBVIOUS
<1>2. Has(h, b)
  BY <1>1 DEF Has
<1>3. PICK r : r = [rec EXCEPT !.ch = ch]
  OBVIOUS
<1>4. \/ Become(th, Finished(l, rec, "ERR"), below)
      \/ callerrfunc(th, h, below, r)
      \/ HandleCont(th, h, below, r)
  BY <1>1, <1>3 DEF resume_handle
<1> QED BY <1>2, <1>4, FinishedHas, callerrfuncHas, HandleContHas DEF Keeps

LEMMA luaD_throwHas ==
  ASSUME NEW th, NEW l, NEW b, Has(l, b), NEW stack, luaD_throw(th, l, stack)
  PROVE  Keeps(th, b)
<1>1. \E below, rec : \/ AfterErrfunc(th, l, below, rec)
                      \/ resume_handle(th, l, below, rec)
                      \/ callerrfunc(th, l, below, rec)
                      \/ PcallFails(th, l, below, rec)
  BY DEF luaD_throw
<1> QED BY <1>1, AfterErrfuncHas, resume_handleHas, callerrfuncHas, PcallFailsHas

LEMMA CallHas ==
  ASSUME NEW th, NEW b, Has(L[th], b), NEW kind, NEW y, NEW fn, NEW stack, Call(th, kind, y, fn, stack)
  PROVE  Keeps(th, b)
<1>1. PICK c : c = Counted(L[th], y)
  OBVIOUS
<1>2. Has(c, b) /\ Has(Entered(c, fn, th), b) /\ Has(Counted(L[th], FALSE), b)
  BY <1>1, CountedHas, EnteredHas
<1>3. luaD_throw(th, Counted(L[th], FALSE), stack) \/ \E t : Become(th, Entered(c, fn, th), t)
  BY <1>1 DEF Call
<1> QED BY <1>2, <1>3, luaD_throwHas DEF Keeps

LEMMA CReturnHas ==
  ASSUME NEW th, NEW b, Has(L[th], b), CReturn(th)
  PROVE  Keeps(th, b)
<1> DEFINE k == [L[th] EXCEPT !.ci = SubSeq(@, 1, Top.ci - 1)]
<1>1. Has(k, b)
  BY DEF Has
<1> QED BY <1>1 DEF CReturn, Keeps

LEMMA SuspendHas ==
  ASSUME NEW th, NEW b, Has(L[th], b), NEW s, NEW stack, Suspend(th, s, stack)
  PROVE  Keeps(th, b)
<1> DEFINE k == [L[th] EXCEPT !.status = s]
<1>1. Has(k, b)
  BY DEF Has
<1>2. Become(th, k, stack) \/ luaD_throw(th, L[th], cs)
  BY DEF Suspend, Error
<1> QED BY <1>1, <1>2, luaD_throwHas DEF Keeps

\* A step of the thread on top does not give it a function.
LEMMA StepsHas ==
  ASSUME NEW th, th = Top.th, NEW b, Has(L[th], b), Steps
  PROVE  Keeps(th, b)
<1>1. \A l, t : Has(l, b) /\ Become(th, l, t) => Keeps(th, b)
  BY DEF Keeps
<1>2. ASSUME Error(th) PROVE Keeps(th, b)
  BY <1>2, luaD_throwHas DEF Error
<1>3. ASSUME ResumeFailed PROVE Keeps(th, b)
  BY <1>2, <1>3, CReturnHas DEF ResumeFailed
<1>4. ASSUME NEW fn, NEW co, LuaCall(fn, co) PROVE Keeps(th, b)
  <2> DEFINE k == [L[th] EXCEPT !.ci = Append(@, Frame(fn, co, FALSE))]
  <2>1. Has(k, b)
    BY DEF Has
  <2>2. \E t : Become(th, k, t)
    BY <1>4 DEF LuaCall
  <2> QED BY <1>1, <2>1, <2>2
<1>5. ASSUME LuaReturn PROVE Keeps(th, b)
  <2> DEFINE k == [L[th] EXCEPT !.ci = Front(@)]
  <2>1. Has(k, b)
    BY DEF Has
  <2>2. \E t : Become(th, k, t)
    BY <1>5 DEF LuaReturn
  <2> QED BY <1>1, <2>1, <2>2
<1>6. ASSUME NEW fn, LuaMetamethod(fn) \/ LuaIterate(fn) \/ CFunctionCalls(fn) \/ lua_pcall(fn) \/ KFunctionCalls(fn)
      PROVE  Keeps(th, b)
  <2>1. \E kind, y, stack : Call(th, kind, y, fn, stack)
    BY <1>6 DEF LuaMetamethod, LuaIterate, CFunctionCalls, lua_pcall, KFunctionCalls
  <2> QED BY <2>1, CallHas
<1>7. ASSUME NEW s, LuaInterrupt(s) \/ CFunctionSuspends(s) \/ KFunctionSuspends(s) PROVE Keeps(th, b)
  <2>1. \E stack : Suspend(th, s, stack)
    BY <1>7 DEF LuaInterrupt, CFunctionSuspends, KFunctionSuspends
  <2> QED BY <2>1, SuspendHas
<1>8. ASSUME LuaError \/ CFunctionFails \/ KFunctionFails PROVE Keeps(th, b)
  BY <1>2, <1>8 DEF LuaError, CFunctionFails, KFunctionFails
<1>9. ASSUME CFunctionReturns \/ KFunctionReturns \/ luaB_pcallcont PROVE Keeps(th, b)
  BY <1>9, CReturnHas DEF CFunctionReturns, KFunctionReturns, luaB_pcallcont
<1>10. ASSUME NEW fn, luaB_pcally(fn) PROVE Keeps(th, b)
  <2>1. PICK l : l = [L[th] EXCEPT !.ci[Top.ci].handle = TRUE]
    OBVIOUS
  <2>2. Has(l, b)
    BY <2>1 DEF Has
  <2>3. PICK c : c = Counted(l, TRUE)
    OBVIOUS
  <2>4. Has(c, b) /\ Has(Entered(c, fn, th), b) /\ Has(Counted(l, FALSE), b)
    BY <2>2, <2>3, CountedHas, EnteredHas
  <2> DEFINE k == [l EXCEPT !.ci = Append(@, Frame(fn, th, TRUE)), !.status = "REENTRY"]
  <2>5. Has(k, b)
    BY <2>2 DEF Has
  <2>6. \E t : \/ luaD_throw(th, Counted(l, FALSE), t)
               \/ Become(th, k, t) \/ Become(th, Entered(c, fn, th), t)
    BY <1>10, <2>1, <2>3 DEF luaB_pcally
  <2> QED BY <1>1, <2>4, <2>5, <2>6, luaD_throwHas
<1>11. ASSUME luaB_xpcallcont PROVE Keeps(th, b)
  <2>1. CReturn(th) \/ \E kind, y, fn, stack : Call(th, kind, y, fn, stack)
    BY <1>11 DEF luaB_xpcallcont
  <2> QED BY <2>1, CallHas, CReturnHas
<1>12. ASSUME auxresumeRefused \/ auxresumeOverflowed PROVE Keeps(th, b)
  BY <1>3, <1>12 DEF auxresumeRefused, auxresumeOverflowed
<1>13. ASSUME ResumeReturns PROVE Keeps(th, b)
  <2>1. CReturn(th) \/ ResumeFailed \/ \E s, stack : Suspend(th, s, stack)
    BY <1>13 DEF ResumeReturns
  <2> QED BY <1>3, <2>1, CReturnHas, SuspendHas
<1>14. ASSUME ExecuteExits \/ PcallEnds PROVE Keeps(th, b)
  <2>1. PcallFails(th, L[th], PopC, Top) \/ \E t : Become(th, L[th], t)
    BY <1>14 DEF ExecuteExits, PcallEnds
  <2> QED BY <1>1, <2>1, PcallFailsHas
<1>15. ASSUME CallEnds PROVE Keeps(th, b)
  <2> DEFINE d == IF Top.kind = "iter" /\ L[th].status # "OK" THEN 0 ELSE 1
             k == [L[th] EXCEPT !.isactive = @ /\ Top.act, !.nCcalls = @ - d,
                                !.baseCcalls = IF Top.y THEN @ - d ELSE @]
  <2>1. Has(k, b)
    BY DEF Has
  <2>2. \E t : Become(th, k, t)
    BY <1>15 DEF CallEnds
  <2> QED BY <1>1, <2>1, <2>2
<1>16. ASSUME CalleeReturned PROVE Keeps(th, b)
  <2>1. CReturn(th) \/ \E t : Become(th, L[th], t)
    BY <1>16 DEF CalleeReturned
  <2> QED BY <1>1, <2>1, CReturnHas
<1>17. ASSUME resume_continue PROVE Keeps(th, b)
  <2> DEFINE n == Len(L[th].ci)
             k == [L[th] EXCEPT !.status = "OK"]
             j == [L[th] EXCEPT !.status = "OK", !.ci[n].handle = @ /\ ~flags.LuauCustomYieldablePcalls]
             f == Finished(L[th], Top, L[th].status)
  <2>1. Has(k, b) /\ Has(j, b) /\ Has(f, b)
    BY FinishedHas DEF Has
  <2>2. \E t : Become(th, k, t) \/ Become(th, j, t) \/ Become(th, f, t)
    BY <1>17 DEF resume_continue
  <2> QED BY <1>1, <2>1, <2>2
<1>18. ASSUME ErrfuncEnds PROVE Keeps(th, b)
  BY <1>18, HandleContHas DEF ErrfuncEnds
<1> QED BY <1>4, <1>5, <1>6, <1>7, <1>8, <1>9, <1>10, <1>11, <1>12, <1>13, <1>14, <1>15, <1>16, <1>17, <1>18
        DEF Steps

-----------------------------------------------------------------------------
(* Every step.                                                               *)

\* The host calls the main thread.
LEMMA HostPcallEnds ==
  ASSUME CoroutineInv, NEW fn \in Callee, HostPcall(fn)
  PROVE  Context(<<>>, MainThread) /\ Ends(<<>>, MainThread, "pcall")
<1>1. /\ Good(L, cs, flags) /\ flags \in Flags /\ L \in [Thread -> LuaState] /\ MainThread \in Thread
      /\ cs = <<>> /\ L[MainThread].status = "OK"
  BY CoroutineAssumption DEF CoroutineInv, Good, HostPcall
<1>2. PICK th \in Thread : th = MainThread
  BY <1>1
<1>3. PICK l : l = L[th]
  OBVIOUS
<1>4. PICK q : q = <<>> /\ q \in Seq(Record) /\ Len(q) = 0
  <2>1. <<>> \in Seq(Record) /\ Len(<<>>) = 0
    OBVIOUS
  <2> QED BY <2>1
<1>5. l \in LuaState /\ FramesOK(l) /\ Off(th, l) /\ l.status = "OK"
  BY <1>1, <1>2, <1>3 DEF Good
<1>6. /\ l.ci = <<>> /\ Len(l.ci) = 0 /\ ~l.isactive /\ l.nCcalls >= 0 /\ l.nCcalls = l.baseCcalls
      /\ l.nCcalls \in Int /\ l.baseCcalls \in Int /\ l.isactive \in BOOLEAN
  BY <1>2, <1>5, FrameTypes DEF Off
<1>7. Context(q, th)
  <2>1. [L EXCEPT ![th] = l] = L
    BY <1>1, <1>3
  <2>2. Good([L EXCEPT ![th] = l], q, flags)
    BY <1>1, <1>4, <2>1
  <2> QED BY <1>1, <1>4, <2>2, ContextOf
<1>8. PICK r : r = PcallRecord(th, l, FALSE)
  OBVIOUS
<1>9. /\ r \in Record /\ r.k = "pcall" /\ r.pc = "run" /\ r.ci = 0 /\ r.th = th /\ ~r.act /\ ~r.ef
      /\ r.n = l.nCcalls /\ r.base = l.baseCcalls
  BY <1>6, <1>8 DEF PcallRecord, Record, PcallRec
<1>10. PICK s : s = Append(q, r)
  OBVIOUS
<1>11. /\ s \in Seq(Record) /\ s # <<>> /\ Len(s) = 1 /\ s[1] = r /\ Last(s) = r
       /\ Under(s, 0) = q
  <2>1. /\ s \in Seq(Record) /\ s # <<>> /\ Len(s) = Len(q) + 1 /\ s[Len(q) + 1] = r /\ Last(s) = r
        /\ Under(s, Len(q)) = q
    <3>1. q \in Seq(Record) /\ r \in Record
      BY <1>4, <1>9
    <3> QED BY ONLY <1>10, <3>1, PushFacts
  <2> QED BY <1>4, <2>1
<1>12. CountsFit(q, th, l.nCcalls, l.baseCcalls)
  BY <1>4, <1>6, CountsNil
<1>13. Shape(s)
  <2>1. Lands(q, r)
    BY <1>2, <1>4, <1>9, <1>12 DEF Lands, Bottom
  <2>2. Shape(q)
    BY <1>7 DEF Context
  <2> QED BY <1>9, <1>10, <2>1, <2>2, ShapePush
<1>14. FramesFit(s, l)
  <2>1. Sits(q, r, l)
    BY <1>4, <1>6, <1>9 DEF Sits, Reach
  <2>2. SitsAll(s, l)
    BY <1>11, <2>1 DEF SitsAll, In
  <2>3. ActiveFits(s, l)
    BY <1>6, <1>9, <1>11 DEF ActiveFits, In
  <2>4. Handles(s, l)
    BY <1>6 DEF Handles
  <2> QED BY <2>2, <2>3, <2>4 DEF FramesFit
<1>15. Okay(s, l)
  BY <1>5, <1>11, <1>13, <1>14 DEF Okay
<1>16. CountsFit(s, th, l.nCcalls, l.baseCcalls)
  <2>1. r.k \notin {"call", "resume"}
    BY <1>9
  <2> QED BY <1>4, <1>6, <1>9, <1>10, <1>12, <2>1, CountsPush
<1>17. Block(q, th, s)
  <2>1. \A i \in 1..Len(q) : q[i].th # r.th
    BY <1>4
  <2>2. Block(q, r.th, s)
    BY <1>4, <1>9, <1>10, <2>1, BlockFirst
  <2> QED BY <1>9, <2>2
<1>18. PICK a : a = "pcall"
  OBVIOUS
<1>19. Heads(q, a, s)
  BY <1>4, <1>9, <1>11, <1>18 DEF Heads
<1>20. PICK y \in BOOLEAN : y = FALSE
  OBVIOUS
<1>21. PICK kind \in {"int", "iter", "ny"} : kind = "int"
  OBVIOUS
<1>22. Caller(s, l, y)
  BY <1>6, <1>9, <1>11, <1>20 DEF Caller
<1>23. ~Exposed(s, th, l)
  BY <1>9, <1>11 DEF Exposed
<1>24. Call(th, kind, y, fn, s)
  <2>1. s = <<r>>
    BY <1>4, <1>10
  <2> QED BY <1>1, <1>2, <1>3, <1>8, <1>20, <1>21, <2>1 DEF HostPcall
<1>25. Ends(q, th, a)
  BY <1>1, <1>3, <1>4, <1>5, <1>7, <1>15, <1>16, <1>17, <1>19, <1>20, <1>21, <1>22, <1>23, <1>24, CallStep
<1> QED BY <1>2, <1>4, <1>7, <1>18, <1>25

\* A coroutine is closed.
LEMMA CocloseEnds ==
  ASSUME CoroutineInv, NEW co \in Thread, coclose(co), NEW a
  PROVE  /\ Context(cs, co) /\ Ends(cs, co, a)
         /\ \A i \in 1..Len(cs) : cs[i].th # co
<1>1. RunsC /\ co # Top.th /\ co # MainThread /\ lua_costatus(co) \in {"suspended", "dead"}
  BY DEF coclose, Body
<1>2. /\ Good(L, cs, flags) /\ flags \in Flags /\ L \in [Thread -> LuaState]
      /\ L[co] \in LuaState
  BY DEF CoroutineInv, Good
<1>3. \A i \in 1..Len(cs) : cs[i].th # co
  <2> SUFFICES ASSUME NEW i \in 1..Len(cs), cs[i].th = co PROVE FALSE
    OBVIOUS
  <2>1. L[co].status = "OK" /\ L[co].ci # <<>>
    BY <1>1, Pending
  <2> QED BY <1>1, <2>1 DEF lua_costatus
<1>4. Off(co, L[co])
  BY <1>2, <1>3 DEF Good
<1>5. PICK x : x = L[co]
  OBVIOUS
<1>6. Context(cs, co)
  <2>1. [L EXCEPT ![co] = x] = L
    BY <1>2, <1>5
  <2>2. Good([L EXCEPT ![co] = x], cs, flags) /\ (cs # <<>> => L[Last(cs).th].status = "OK")
    BY <1>1, <1>2, <2>1 DEF RunsC, Top
  <2> QED BY <1>2, <1>3, <2>2, ContextOf
<1>7. PICK k : k = [Fresh EXCEPT !.hasfn = FALSE, !.isactive = L[co].isactive]
  OBVIOUS
<1>8. /\ k \in LuaState /\ k.ci = <<>> /\ Len(k.ci) = 0 /\ k.status = "OK" /\ ~k.isactive
  <2>1. ~L[co].isactive /\ L[co].isactive \in BOOLEAN
    BY <1>2, <1>4, FrameTypes DEF Off
  <2>2. Fresh \in LuaState /\ Fresh.ci = <<>> /\ Fresh.status = "OK"
    BY FreshFacts DEF Fresh
  <2>3. k \in LuaState /\ k.ci = Fresh.ci /\ k.status = Fresh.status /\ k.isactive = L[co].isactive
    BY ONLY <1>7, <2>1, <2>2 DEF LuaState
  <2> QED BY <2>1, <2>2, <2>3
<1>9. FramesOK(k) /\ Off(co, k)
  BY <1>1, <1>8 DEF FramesOK, Off, Yielded
<1>10. Become(co, k, cs)
  BY <1>7 DEF coclose
<1>11. Ends(cs, co, a)
  BY <1>8, <1>9, <1>10, Gone
<1> QED BY <1>3, <1>6, <1>11

\* Stack q is the native stack, up to what the C function on top does.
Same(q) == q = cs \/ (cs # <<>> /\ Top.k = "c" /\ \E pc \in {"wait", "failed"} : q = SetPc(pc))

\* Thread co is entered from stack q.
Enters(q, co, n) ==
  \/ /\ q # <<>> => Last(q).pc = "wait"
     /\ \/ lua_resumeerror(co, n, q)
        \/ \E fn \in CFunction \cup {"lua"}, tgt \in Thread : lua_resume(co, n, q, fn, tgt)
  \/ ResumeOverflows(co, n, q)

\* The actions that resume another thread.
Resuming ==
  \/ \E s \in Start :
       \/ \E co \in Thread : HostResume(co, s[1], s[2]) \/ CFunctionResumes(co, s[1], s[2])
       \/ auxresume(s[1], s[2])
  \/ \E co \in Thread : HostResumeError(co)

\* What a coroutine starts with.
LEMMA StartTypes ==
  ASSUME NEW s \in Start
  PROVE  s[1] \in CFunction \cup {"lua"} /\ s[2] \in Thread
BY CoroutineAssumption DEF Start, CFunction

\* The main thread is never found suspended.
LEMMA MainNotSuspended ==
  ASSUME CoroutineInv, ~L[MainThread].hasfn, MainThread # Top.th
  PROVE  lua_costatus(MainThread) # "suspended"
<1>1. Good(L, cs, flags) /\ MainThread \in Thread
  BY CoroutineAssumption DEF CoroutineInv
<1>2. PICK th \in Thread : th = MainThread
  BY <1>1
<1>3. CASE \E i \in 1..Len(cs) : cs[i].th = th
  <2>1. L[th].status = "OK" /\ L[th].ci # <<>>
    BY <1>2, <1>3, Pending
  <2> QED BY <1>2, <2>1 DEF lua_costatus
<1>4. CASE \A i \in 1..Len(cs) : cs[i].th # th
  <2>1. Off(th, L[th])
    BY <1>1, <1>4 DEF Good
  <2>2. L[th].status = "OK" /\ L[th].ci = <<>>
    BY <1>2, <2>1 DEF Off
  <2> QED BY <1>2, <2>2 DEF lua_costatus
<1> QED BY <1>3, <1>4

\* Who resumes a thread, and from what stack: the host, a C function of it, auxresume.
LEMMA Entering ==
  ASSUME CoroutineInv, ~L[MainThread].hasfn, Resuming
  PROVE  \E q, co, n : Entry(q, co, n) /\ Same(q) /\ Enters(q, co, n)
<1>1. ASSUME NEW co \in Thread, cs = <<>>, co # MainThread,
             NEW n, n = 0, NEW q, q = <<>>,
             \/ lua_resumeerror(co, n, q)
             \/ \E fn \in CFunction \cup {"lua"}, tgt \in Thread : lua_resume(co, n, q, fn, tgt)
      PROVE  Entry(q, co, n) /\ Same(q) /\ Enters(q, co, n)
  <2>1. Entry(q, co, n)
    BY <1>1, HostEntry
  <2>2. Enters(q, co, n)
    BY <1>1 DEF Enters
  <2> QED BY <1>1, <2>1, <2>2 DEF Same
<1>2. ASSUME NEW co \in Thread, RunsC, TopFn \in {"c", "resume"}, co # MainThread,
             NEW n, n = L[Top.th].nCcalls, CanStart(L[co]),
             NEW pc \in {"wait", "failed"}, NEW q, q = SetPc(pc),
             \/ /\ pc = "wait"
                /\ \/ lua_resumeerror(co, n, q)
                   \/ \E fn \in CFunction \cup {"lua"}, tgt \in Thread : lua_resume(co, n, q, fn, tgt)
             \/ ResumeOverflows(co, n, q)
      PROVE  Entry(q, co, n) /\ Same(q) /\ Enters(q, co, n)
  <2>1. cs # <<>> /\ Top.k = "c"
    BY <1>2 DEF RunsC
  <2>2. PICK p, a : At(p, a, Top.th, L[Top.th])
    BY <2>1, Here
  <2>3. PICK th : th = Top.th
    OBVIOUS
  <2>4. PICK l : l = L[th]
    OBVIOUS
  <2>5. At(p, a, th, l) /\ FnOf(l, Top.ci) \in {"c", "resume"}
    BY <1>2, <2>2, <2>3, <2>4 DEF TopFn, FnOf
  <2> HIDE DEF FnOf
  <2>6. \A i \in 1..Len(cs) : cs[i].th # co
    BY <1>2, <2>5, Resumable
  <2>7. Entry(q, co, n) /\ Last(q).pc = pc
    BY <1>2, <2>5, <2>6, BodyEntry
  <2>8. Enters(q, co, n)
    BY <1>2, <2>7 DEF Enters
  <2>9. Same(q)
    BY <1>2, <2>1 DEF Same
  <2> QED BY <2>7, <2>8, <2>9
<1>3. CASE \E s \in Start, co \in Thread : HostResume(co, s[1], s[2])
  <2>1. PICK s \in Start, co \in Thread : HostResume(co, s[1], s[2])
    BY <1>3
  <2>2. PICK q : q = <<>>
    OBVIOUS
  <2>3. PICK n : n = 0
    OBVIOUS
  <2>4. cs = <<>> /\ co # MainThread /\ lua_resume(co, n, q, s[1], s[2])
    BY <2>1, <2>2, <2>3 DEF HostResume
  <2>5. \E fn \in CFunction \cup {"lua"}, tgt \in Thread : lua_resume(co, n, q, fn, tgt)
    BY <2>4, StartTypes
  <2> QED BY <1>1, <2>2, <2>3, <2>4, <2>5
<1>4. CASE \E co \in Thread : HostResumeError(co)
  <2>1. PICK co \in Thread : HostResumeError(co)
    BY <1>4
  <2>2. PICK q : q = <<>>
    OBVIOUS
  <2>3. PICK n : n = 0
    OBVIOUS
  <2>4. cs = <<>> /\ co # MainThread /\ lua_resumeerror(co, n, q)
    BY <2>1, <2>2, <2>3 DEF HostResumeError
  <2> QED BY <1>1, <2>2, <2>3, <2>4
<1>5. CASE \E s \in Start, co \in Thread : CFunctionResumes(co, s[1], s[2])
  <2>1. PICK s \in Start, co \in Thread : CFunctionResumes(co, s[1], s[2])
    BY <1>5
  <2>2. PICK pc \in {"wait", "failed"} : pc = "wait"
    OBVIOUS
  <2>3. PICK q : q = SetPc(pc)
    OBVIOUS
  <2>4. PICK n : n = L[Top.th].nCcalls
    OBVIOUS
  <2>5. /\ RunsC /\ TopFn = "c" /\ co # MainThread
        /\ lua_resume(co, n, q, s[1], s[2]) \/ lua_resumeerror(co, n, q) \/ ResumeOverflows(co, n, q)
    BY <2>1, <2>2, <2>3, <2>4 DEF CFunctionResumes, Body
  <2>6. CanStart(L[co])
    BY <2>5 DEF lua_resume, lua_resumeerror, ResumeOverflows
  <2>7. \/ /\ pc = "wait"
           /\ \/ lua_resumeerror(co, n, q)
              \/ \E fn \in CFunction \cup {"lua"}, tgt \in Thread : lua_resume(co, n, q, fn, tgt)
        \/ ResumeOverflows(co, n, q)
    BY <2>2, <2>5, StartTypes
  <2> QED BY <1>2, <2>3, <2>4, <2>5, <2>6, <2>7
<1>6. CASE \E s \in Start : auxresume(s[1], s[2])
  <2>1. PICK s \in Start : auxresume(s[1], s[2])
    BY <1>6
  <2>2. PICK co : co = L[Top.th].ci[Top.ci].tgt
    OBVIOUS
  <2>3. PICK n : n = L[Top.th].nCcalls
    OBVIOUS
  <2>4. RunsC /\ TopFn = "resume" /\ co # Top.th /\ lua_costatus(co) = "suspended"
    BY <2>1, <2>2 DEF auxresume, Body
  <2>5. PICK pc \in {"wait", "failed"} :
          \/ pc = "wait" /\ lua_resume(co, n, SetPc(pc), s[1], s[2])
          \/ ResumeOverflows(co, n, SetPc(pc))
    BY <2>1, <2>2, <2>3 DEF auxresume
  <2>6. PICK q : q = SetPc(pc)
    OBVIOUS
  <2>7. CanStart(L[co])
    BY <2>5 DEF lua_resume, ResumeOverflows
  <2>8. co # MainThread
    BY <2>4, MainNotSuspended
  <2>9. co \in Thread
    <3>1. cs # <<>> /\ Top.k = "c" /\ L[Top.th].status = "OK"
      BY <2>4 DEF RunsC
    <3>2. PICK p, a : At(p, a, Top.th, L[Top.th])
      BY <3>1, Here
    <3>3. PICK th : th = Top.th
      OBVIOUS
    <3>4. PICK l : l = L[th]
      OBVIOUS
    <3>5. At(p, a, th, l) /\ l.status = "OK"
      BY <3>1, <3>2, <3>3, <3>4
    <3>6. Top.ci \in 1..Len(l.ci) /\ l.ci \in Seq(CallInfo)
      BY <3>1, <3>5, BodyFacts, AtFacts
    <3>7. l.ci[Top.ci] \in CallInfo
      BY <3>6, ElementOfSeq
    <3> QED BY <2>2, <3>3, <3>4, <3>7 DEF CallInfo
  <2>10. \/ /\ pc = "wait"
            /\ \/ lua_resumeerror(co, n, q)
               \/ \E fn \in CFunction \cup {"lua"}, tgt \in Thread : lua_resume(co, n, q, fn, tgt)
         \/ ResumeOverflows(co, n, q)
    BY <2>5, <2>6, StartTypes
  <2> QED BY <1>2, <2>3, <2>4, <2>6, <2>7, <2>8, <2>9, <2>10
<1> QED BY <1>3, <1>4, <1>5, <1>6 DEF Resuming

\* What entering a thread makes of it.
LEMMA EntersEnds ==
  ASSUME NEW q, NEW co, NEW n, Entry(q, co, n), Enters(q, co, n), NEW a, a = "resume"
  PROVE  Ends(q, co, a)
<1>1. CASE ResumeOverflows(co, n, q)
  BY <1>1, OverflowsEnds
<1>2. CASE (q # <<>> => Last(q).pc = "wait") /\ lua_resumeerror(co, n, q)
  BY <1>2, ResumeErrorEnds
<1>3. CASE /\ q # <<>> => Last(q).pc = "wait"
           /\ \E fn \in CFunction \cup {"lua"}, tgt \in Thread : lua_resume(co, n, q, fn, tgt)
  BY <1>3, ResumeEnds
<1> QED BY <1>1, <1>2, <1>3 DEF Enters

-----------------------------------------------------------------------------
(* The invariant.                                                            *)

\* The inductive invariant; the main thread does not start like a coroutine.
InductiveInv == CoroutineInv /\ ~L[MainThread].hasfn

\* Steps are those of a thread with records.
LEMMA StepsOfTop ==
  ASSUME Steps
  PROVE  cs # <<>>
BY DEF Steps, LuaCall, LuaMetamethod, LuaIterate, LuaReturn, LuaError, LuaInterrupt, CFunctionReturns,
       CFunctionFails, CFunctionSuspends, KFunctionSuspends, CFunctionCalls, lua_pcall, KFunctionCalls,
       KFunctionReturns, KFunctionFails, luaB_pcally, luaB_pcallcont, luaB_xpcallcont, auxresumeRefused,
       auxresumeOverflowed, ResumeReturns, ExecuteExits, CallEnds, PcallEnds, CalleeReturned,
       resume_continue, ErrfuncEnds, Body, RunsLua, RunsC, Waits

\* The four ways in which a thread changes.
LEMMA NextSplits ==
  ASSUME Next
  PROVE  Steps \/ (\E fn \in Callee : HostPcall(fn)) \/ Resuming \/ (\E co \in Thread : coclose(co))
BY DEF Next, Steps, Resuming

\* Where a step starts: the thread th that changes and the stack q below it.
Origin(q, th, a) ==
  \/ Steps /\ \E l : At(q, a, th, l)
  \/ (\E fn \in Callee : HostPcall(fn)) /\ q = <<>> /\ th = MainThread /\ a = "pcall"
  \/ a = "resume" /\ \E n : Entry(q, th, n) /\ Same(q) /\ Enters(q, th, n)
  \/ a = "resume" /\ th \in Thread /\ coclose(th) /\ q = cs /\ \A i \in 1..Len(cs) : cs[i].th # th

\* Every step changes one thread, and leaves it in a state that fits the stack.
LEMMA NextEnds ==
  ASSUME InductiveInv, Next
  PROVE  \E q, th, a : Context(q, th) /\ Ends(q, th, a) /\ Origin(q, th, a)
<1>1. CoroutineInv /\ ~L[MainThread].hasfn
  BY DEF InductiveInv
<1>2. CASE Steps
  <2>1. cs # <<>>
    BY <1>2, StepsOfTop
  <2>2. PICK q, a : At(q, a, Top.th, L[Top.th])
    BY <1>1, <2>1, Here
  <2>3. PICK th : th = Top.th
    OBVIOUS
  <2>4. PICK l : l = L[th]
    OBVIOUS
  <2>5. At(q, a, th, l)
    BY <2>2, <2>3, <2>4
  <2>6. Ends(q, th, a)
    BY <1>2, <2>5, StepsEnds
  <2>7. Context(q, th)
    BY <2>5 DEF At
  <2>8. Origin(q, th, a)
    BY <1>2, <2>5 DEF Origin
  <2> QED BY <2>6, <2>7, <2>8
<1>3. CASE \E fn \in Callee : HostPcall(fn)
  <2>1. Context(<<>>, MainThread) /\ Ends(<<>>, MainThread, "pcall")
    BY <1>1, <1>3, HostPcallEnds
  <2>2. Origin(<<>>, MainThread, "pcall")
    BY <1>3 DEF Origin
  <2> QED BY <2>1, <2>2
<1>4. CASE Resuming
  <2>1. PICK q, co, n : Entry(q, co, n) /\ Same(q) /\ Enters(q, co, n)
    BY <1>1, <1>4, Entering
  <2>2. PICK a : a = "resume"
    OBVIOUS
  <2>3. Ends(q, co, a)
    BY <2>1, <2>2, EntersEnds
  <2>4. Context(q, co)
    BY <2>1 DEF Entry
  <2>5. Origin(q, co, a)
    BY <2>1, <2>2 DEF Origin
  <2> QED BY <2>3, <2>4, <2>5
<1>5. CASE \E co \in Thread : coclose(co)
  <2>1. PICK co \in Thread : coclose(co)
    BY <1>5
  <2>2. PICK a : a = "resume"
    OBVIOUS
  <2>3. Context(cs, co) /\ Ends(cs, co, a) /\ \A i \in 1..Len(cs) : cs[i].th # co
    BY <1>1, <2>1, CocloseEnds
  <2>4. Origin(cs, co, a)
    BY <2>1, <2>2, <2>3 DEF Origin
  <2> QED BY <2>3, <2>4
<1> QED BY <1>2, <1>3, <1>4, <1>5, NextSplits

\* The main thread gets no function.
LEMMA MainHas ==
  ASSUME InductiveInv, NEW q, NEW th, NEW a, Context(q, th), Ends(q, th, a), Origin(q, th, a)
  PROVE  ~L'[MainThread].hasfn
<1>1. MainThread \in Thread /\ L \in [Thread -> LuaState] /\ ~L[MainThread].hasfn
  BY CoroutineAssumption DEF InductiveInv, CoroutineInv, Good
<1>2. th \in Thread
  BY DEF Context
<1>3. CASE th # MainThread
  <2>1. PICK k, t : Become(th, k, t)
    BY DEF Ends
  <2>2. L'[MainThread] = L[MainThread]
    BY <1>1, <1>3, <2>1 DEF Become
  <2> QED BY <1>1, <2>2
<1>4. CASE th = MainThread
  <2>1. PICK b : b = L[th].hasfn
    OBVIOUS
  <2>2. Has(L[th], b) /\ ~b
    BY <1>1, <1>4, <2>1 DEF Has, LuaState
  <2>3. Keeps(th, b)
    <3>1. CASE Steps /\ \E l : At(q, a, th, l)
      <4>1. th = Top.th
        BY <3>1 DEF At
      <4> QED BY <2>2, <3>1, <4>1, StepsHas
    <3>2. CASE \E fn \in Callee : HostPcall(fn)
      <4>1. \E kind, y, fn, stack : Call(th, kind, y, fn, stack)
        BY <1>4, <3>2 DEF HostPcall
      <4> QED BY <2>2, <4>1, CallHas
    <3>3. CASE \E n : Entry(q, th, n)
      BY <1>4, <3>3 DEF Entry
    <3>4. CASE coclose(th)
      BY <1>4, <3>4 DEF coclose
    <3> QED BY <3>1, <3>2, <3>3, <3>4 DEF Origin
  <2>4. PICK k, t : Become(th, k, t) /\ Has(k, b)
    BY <2>3 DEF Keeps
  <2>5. L'[th] = k
    BY <1>1, <1>2, <2>4 DEF Become
  <2> QED BY <1>4, <2>2, <2>4, <2>5 DEF Has
<1> QED BY <1>3, <1>4

\* The invariant is inductive.
LEMMA InvInit ==
  ASSUME Init
  PROVE  InductiveInv
<1>1. cs = <<>> /\ flags \in Flags /\ MainThread \in Thread
  BY CoroutineAssumption DEF Init
<1>2. ASSUME NEW th \in Thread
      PROVE  /\ L[th] \in LuaState /\ L[th].ci = <<>> /\ L[th].status = "OK" /\ ~L[th].isactive
             /\ L[th].nCcalls = 0 /\ L[th].baseCcalls = 0 /\ L[th].hasfn = (th # MainThread)
  <2>1. L[th] = [Fresh EXCEPT !.hasfn = th # MainThread]
    BY DEF Init
  <2>2. Fresh \in LuaState
    BY FreshFacts
  <2>3. L[th] \in LuaState
    BY ONLY <2>1, <2>2 DEF LuaState
  <2> QED BY <2>1, <2>3 DEF Fresh
<1>3. L \in [Thread -> LuaState]
  <2>1. L = [th \in Thread |-> [Fresh EXCEPT !.hasfn = th # MainThread]]
    BY DEF Init
  <2>2. L = [th \in Thread |-> L[th]]
    BY <2>1
  <2> QED BY <1>2, <2>2
<1>4. \A th \in Thread : FramesOK(L[th]) /\ Off(th, L[th])
  <2> TAKE th \in Thread
  <2>1. Len(L[th].ci) = 0
    BY <1>2
  <2> QED BY <1>2, <2>1 DEF FramesOK, Off, Yielded
<1>5. Shape(cs) /\ Len(cs) = 0
  <2>1. Len(cs) = 0 /\ cs \in Seq(Record)
    BY <1>1
  <2> QED BY <2>1 DEF Shape
<1>6. Good(L, cs, flags)
  <2>1. \A i \in 1..Len(cs) : FALSE
    BY <1>5
  <2>2. \A i \in 1..Len(cs)-1 : FALSE
    BY <1>5
  <2> QED BY <1>1, <1>3, <1>4, <1>5, <2>1, <2>2 DEF Good
<1> QED BY <1>1, <1>2, <1>6 DEF InductiveInv, CoroutineInv

LEMMA InvNext ==
  ASSUME InductiveInv, [Next]_vars
  PROVE  InductiveInv'
<1>1. CASE Next
  <2>1. PICK q, th, a : Context(q, th) /\ Ends(q, th, a) /\ Origin(q, th, a)
    BY <1>1, NextEnds
  <2>2. flags \in Flags
    BY DEF InductiveInv, CoroutineInv
  <2>3. CoroutineInv'
    BY <2>1, <2>2, Settled
  <2>4. ~L'[MainThread].hasfn
    BY <2>1, MainHas
  <2> QED BY <2>3, <2>4 DEF InductiveInv
<1>2. CASE UNCHANGED vars
  <2>1. L' = L /\ cs' = cs /\ flags' = flags
    BY <1>2 DEF vars
  <2>2. Good(L, cs, flags)' <=> Good(L, cs, flags)
    BY <2>1
  <2> QED BY <2>1, <2>2 DEF InductiveInv, CoroutineInv
<1> QED BY <1>1, <1>2

\* Frames, counters and native stack of all threads agree in every state that
\* calls, yields, breaks, errors and resumes lead to (ldo.cpp).
THEOREM StackDiscipline == Spec => []InductiveInv
<1>1. Init => InductiveInv
  BY InvInit
<1>2. InductiveInv /\ [Next]_vars => InductiveInv'
  BY InvNext
<1> QED BY <1>1, <1>2, PTL DEF Spec

-----------------------------------------------------------------------------
(* The properties.                                                           *)

\* The stack as a sequence.
LEMMA StackDomain ==
  ASSUME CoroutineInv
  PROVE  DOMAIN cs = 1..Len(cs) /\ Shape(cs) /\ cs \in Seq(Record) /\ Len(cs) \in Nat
BY LenProperties DEF CoroutineInv, Good, Shape

\* A thread with a record, up to its newest.
LEMMA Newest ==
  ASSUME CoroutineInv, NEW co, NEW i \in 1..Len(cs), cs[i].th = co
  PROVE  \E j \in 1..Len(cs) : /\ cs[j].th = co /\ Fits(Under(cs, j), L[co])
                               /\ \A m \in 1..Len(cs) : cs[m].th = co => m <= j
<1>1. Good(L, cs, flags) /\ Shape(cs) /\ cs \in Seq(Record) /\ Len(cs) \in Nat
  BY StackDomain DEF CoroutineInv
<1> DEFINE H == {m \in 1..Len(cs) : cs[m].th = co}
<1>2. PICK j \in H : \A m \in H : m <= j
  <2>1. H \subseteq 1..Len(cs) /\ H # {}
    OBVIOUS
  <2> HIDE DEF H
  <2> QED BY <1>1, <2>1, Greatest
<1>3. j \in 1..Len(cs) /\ cs[j].th = co /\ \A m \in 1..Len(cs) : cs[m].th = co => m <= j
  BY <1>2
<1> HIDE DEF H
<1>4. CASE j = Len(cs)
  <2>1. cs # <<>> /\ Last(cs) = cs[j] /\ Under(cs, j) = cs
    BY <1>1, <1>3, <1>4, UnderAll DEF Last
  <2>2. Fits(Under(cs, j), L[co])
    BY <1>1, <1>3, <2>1 DEF Good
  <2> QED BY <1>3, <2>2
<1>5. CASE j # Len(cs)
  <2>1. j \in 1..Len(cs)-1 /\ j + 1 \in 1..Len(cs) /\ ~(j + 1 <= j)
    BY <1>1, <1>3, <1>5
  <2>2. cs[j+1].th # co
    BY <1>3, <2>1
  <2>3. Follows(cs[j], cs[j+1])
    <3> DEFINE m == j + 1
    <3>1. m \in 1..Len(cs) /\ m > 1 /\ m - 1 = j
      BY <2>1
    <3> HIDE DEF m
    <3>2. Follows(cs[m-1], cs[m])
      BY <1>1, <3>1, ShapeAt
    <3> QED BY <3>1, <3>2 DEF m
  <2>4. cs[j+1].k = "resume"
    BY <1>3, <2>2, <2>3 DEF Follows
  <2>5. Fits(Under(cs, j), L[co])
    BY <1>1, <1>3, <2>1, <2>4 DEF Good
  <2> QED BY <1>3, <2>5
<1> QED BY <1>4, <1>5

\* The records of interpreter loops need the active flag, a thread without records has
\* none of it.
LEMMA ActiveRuns ==
  ASSUME CoroutineInv
  PROVE  ActiveIsRunning
<1>1. DOMAIN cs = 1..Len(cs) /\ Good(L, cs, flags) /\ cs \in Seq(Record) /\ Len(cs) \in Nat
  BY StackDomain DEF CoroutineInv
<1>2. ASSUME NEW th \in Thread, \A i \in 1..Len(cs) : cs[i].th # th
      PROVE  ~L[th].isactive
  BY <1>1, <1>2 DEF Good, Off
<1>3. ASSUME NEW th \in Thread, NEW i \in 1..Len(cs), cs[i] = Execute(th)
      PROVE  L[th].isactive
  <2>1. cs[i].th = th /\ cs[i].k = "execute"
    BY <1>3 DEF Execute
  <2>2. PICK j \in 1..Len(cs) : /\ cs[j].th = th /\ Fits(Under(cs, j), L[th])
                                /\ \A m \in 1..Len(cs) : cs[m].th = th => m <= j
    BY <2>1, Newest
  <2>3. i <= j /\ i \in 1..j /\ j \in 0..Len(cs)
    BY <1>1, <2>1, <2>2
  <2>4. /\ Len(Under(cs, j)) = j /\ Under(cs, j)[i] = cs[i]
        /\ Last(Under(cs, j)) = cs[j]
    BY <1>1, <2>3, UnderFacts
  <2>5. In(Under(cs, j), i) /\ i \in 1..Len(Under(cs, j)) /\ Under(cs, j)[i].k = "execute"
    BY <2>1, <2>2, <2>3, <2>4 DEF In
  <2> QED BY <2>2, <2>5 DEF Fits, FramesFit, ActiveFits
<1> QED BY <1>1, <1>2, <1>3 DEF ActiveIsRunning

\* The counter includes the records of all threads below.
LEMMA DepthCovered ==
  ASSUME CoroutineInv
  PROVE  DepthNeverUnderestimated
<1> SUFFICES ASSUME Running PROVE L[Top.th].nCcalls >= Depth
  BY DEF DepthNeverUnderestimated
<1>1. cs # <<>>
  BY DEF Running, RunsLua, RunsC
<1>2. Fits(cs, L[Top.th])
  BY <1>1 DEF CoroutineInv, Good, Top
<1>3. Depth = Cardinality(Nested(cs))
  BY StackDomain DEF Depth, Nested
<1> QED BY <1>2, <1>3 DEF Fits, CountsFit, CountsCover

\* Nothing of a thread lies below the resume that entered it.
LEMMA FreshlyResumed ==
  ASSUME NEW s, Shape(s), s # <<>>, Last(s).k = "resume", Last(s).pc = "loop", NEW th, th = Last(s).th
  PROVE  CallsOf(s, th, FALSE) = {} /\ Undisturbed(s, th)
<1>1. s \in Seq(Record) /\ Len(s) \in Nat /\ Len(s) \in 1..Len(s) /\ Last(s) = s[Len(s)]
  BY EmptySeq, LenProperties DEF Shape, Last
<1>2. \A m \in 1..Len(s)-1 : s[m].th # th
  BY <1>1, ShapeAt
<1>3. \A m \in 1..Len(s) : s[m].th = th => m = Len(s)
  BY <1>1, <1>2
<1> QED BY <1>1, <1>3 DEF CallsOf, Undisturbed

\* A resume in its loop has nothing of its thread above it, so the counters are at their
\* base and the next frame can go on.
LEMMA AssertsHold ==
  ASSUME CoroutineInv
  PROVE  ResumeAsserts
<1> SUFFICES ASSUME cs # <<>>
             PROVE  /\ Top.k = "resume" /\ Top.pc = "loop" /\ L[Top.th].status \in {"OK", "REENTRY"}
                         /\ L[Top.th].ci # <<>>
                         => L[Top.th].nCcalls = L[Top.th].baseCcalls /\ Last(L[Top.th].ci).fn # "c"
                    /\ Top.k = "call" /\ Top.kind = "ny" => L[Top.th].status = "OK"
  BY DEF ResumeAsserts
<1>1. PICK q, a : At(q, a, Top.th, L[Top.th])
  BY Here
<1>2. PICK th : th = Top.th
  OBVIOUS
<1>3. PICK l : l = L[th]
  OBVIOUS
<1>4. At(q, a, th, l)
  BY <1>1, <1>2, <1>3
<1>5. /\ Shape(cs) /\ cs \in Seq(Record) /\ Len(cs) \in Nat /\ Len(cs) > 0 /\ Top = Last(cs) /\ Top = cs[Len(cs)]
      /\ Len(l.ci) \in Nat /\ l.nCcalls \in Int /\ l.baseCcalls \in Int /\ l.ci \in Seq(CallInfo)
      /\ CountsFit(cs, th, l.nCcalls, l.baseCcalls)
      /\ l.status = "OK" => TopFits(cs, l)
      /\ l.status # "OK" => Unwinds(cs, l)
  BY <1>4, AtFacts
<1>6. ASSUME Top.k = "resume", Top.pc = "loop", l.status \in {"OK", "REENTRY"}, l.ci # <<>>
      PROVE  l.nCcalls = l.baseCcalls /\ Last(l.ci).fn # "c"
  <2>1. CallsOf(cs, th, FALSE) = {} /\ Undisturbed(cs, th)
    BY <1>2, <1>5, <1>6, FreshlyResumed
  <2>2. l.nCcalls - l.baseCcalls = 0
    BY <1>5, <2>1, FS_EmptySet DEF CountsFit
  <2>3. Continuable(l, Len(l.ci))
    BY <1>5, <1>6 DEF TopFits, Unwinds
  <2>4. Len(l.ci) \in 1..Len(l.ci) /\ Last(l.ci) = l.ci[Len(l.ci)]
    BY <1>5, <1>6, EmptySeq DEF Last
  <2> QED BY <1>5, <2>2, <2>3, <2>4 DEF Continuable, FnOf
<1>7. ASSUME Top.k = "call", Top.kind = "ny", l.status # "OK"
      PROVE  FALSE
  <2>1. CallsOf(cs, th, FALSE) = {}
    BY <1>2, <1>5, <1>7 DEF Unwinds
  <2>2. Len(cs) \in 1..Len(cs)
    BY <1>5
  <2>3. ~Top.y
    BY <1>5, <1>7, <2>2, ShapeAt
  <2>4. Len(cs) \in CallsOf(cs, th, FALSE)
    <3>1. Top \in CallRec
      BY <1>5, <1>7, <2>2, ShapeAt, RecordKinds
    <3> QED BY <1>2, <1>5, <1>7, <2>2, <2>3, <3>1 DEF CallsOf, CallRec
  <2> QED BY <2>1, <2>4
<1> QED BY <1>2, <1>3, <1>6, <1>7

\* A coroutine with a record was resumed.
LEMMA WasResumed ==
  ASSUME NEW s, Shape(s), NEW i \in 1..Len(s), s[i].th # MainThread
  PROVE  \E j \in 1..Len(s) : s[j].k = "resume" /\ s[j].th = s[i].th
<1>1. s \in Seq(Record) /\ Len(s) \in Nat /\ i \in 0..Len(s)
  BY ShapeAt
<1>2. /\ Len(Under(s, i)) = i /\ (\A m \in 1..i : Under(s, i)[m] = s[m]) /\ Last(Under(s, i)) = s[i]
      /\ Based(Under(s, i))
  BY <1>1, UnderFacts DEF Shape
<1>3. PICK b \in 1..i : (b = 1 \/ s[b].k = "resume") /\ s[b].th = s[i].th
  <2>1. PICK b \in 1..i : (b = 1 \/ Under(s, i)[b].k = "resume") /\ \A m \in b..i : Under(s, i)[m].th = s[i].th
    BY <1>2 DEF Based
  <2> QED BY <1>1, <1>2, <2>1
<1>4. s[b].k = "resume"
  <2>1. CASE b = 1
    <3>1. Bottom(s[1])
      BY <1>1, <1>3, <2>1, ShapeAt
    <3> QED BY <1>3, <2>1, <3>1 DEF Bottom
  <2> QED BY <1>3, <2>1
<1> QED BY <1>1, <1>3, <1>4

\* A thread with records has status OK and frames; one without is off.
LEMMA StatusAgrees ==
  ASSUME CoroutineInv
  PROVE  StatusIsTrue
<1>1. DOMAIN cs = 1..Len(cs) /\ Good(L, cs, flags) /\ Shape(cs)
  BY StackDomain DEF CoroutineInv
<1> SUFFICES ASSUME NEW co \in Thread \ {Top.th, MainThread}
             PROVE  lua_costatus(co) = IF State(co) \in {"entered", "broken"} THEN "normal" ELSE State(co)
  BY DEF StatusIsTrue
<1>2. CASE \E i \in 1..Len(cs) : cs[i].th = co
  <2>1. L[co].status = "OK" /\ L[co].ci # <<>>
    BY <1>2, Pending
  <2>2. \E j \in 1..Len(cs) : cs[j].k = "resume" /\ cs[j].th = co
    BY <1>1, <1>2, WasResumed
  <2>3. State(co) = "entered"
    BY <1>1, <2>2 DEF State
  <2>4. lua_costatus(co) = "normal"
    BY <2>1 DEF lua_costatus
  <2> QED BY <2>3, <2>4
<1>3. CASE \A i \in 1..Len(cs) : cs[i].th # co
  <2>1. Off(co, L[co]) /\ L[co].status \in {"OK", "ERR"} \cup Yielded
    BY <1>1, <1>3 DEF Good, LuaState
  <2>2. ~\E i \in DOMAIN cs : cs[i].k = "resume" /\ cs[i].th = co
    BY <1>1, <1>3
  <2>3. L[co].status \in {"OK", "ERR", "YIELD", "BREAK"} /\ (L[co].status = "OK" => L[co].ci = <<>>)
    BY <2>1 DEF Off, Yielded
  <2>4. CASE L[co].status = "OK"
    <3>1. State(co) = IF L[co].hasfn THEN "suspended" ELSE "dead"
      BY <2>2, <2>4 DEF State
    <3>2. lua_costatus(co) = IF L[co].hasfn THEN "suspended" ELSE "dead"
      BY <2>3, <2>4 DEF lua_costatus
    <3> QED BY <3>1, <3>2
  <2>5. CASE L[co].status = "ERR"
    <3>1. State(co) = "dead" /\ lua_costatus(co) = "dead"
      BY <2>2, <2>5 DEF State, lua_costatus
    <3> QED BY <3>1
  <2>6. CASE L[co].status = "YIELD"
    <3>1. State(co) = "suspended" /\ lua_costatus(co) = "suspended"
      BY <2>2, <2>6 DEF State, lua_costatus
    <3> QED BY <3>1
  <2>7. CASE L[co].status = "BREAK"
    <3>1. State(co) = "broken" /\ lua_costatus(co) = "normal"
      BY <2>2, <2>7 DEF State, lua_costatus
    <3> QED BY <3>1
  <2> QED BY <2>3, <2>4, <2>5, <2>6, <2>7
<1> QED BY <1>2, <1>3

\* A step does not end a thread with a handler in an error.
LEMMA DiesExposed ==
  ASSUME InductiveInv, Next, NEW th \in Thread, L[th].status # "ERR", L'[th].status = "ERR"
  PROVE  /\ \A i \in DOMAIN L[th].ci : ~L[th].ci[i].handle
         /\ \A i \in DOMAIN cs : cs[i].th = th => cs[i].k # "pcall"
<1>1. PICK q, x, a : Ends(q, x, a)
  BY NextEnds
<1>2. PICK k, t : Become(x, k, t) /\ Outcome(q, x, a, k, t)
  BY <1>1 DEF Ends
<1>3. L \in [Thread -> LuaState] /\ L' = [L EXCEPT ![x] = k]
  BY <1>2 DEF Become, InductiveInv, CoroutineInv, Good
<1>4. x = th /\ k.status = "ERR"
  BY <1>3
<1>5. ~Fits(t, k)
  BY <1>4 DEF Fits, Unwinds, Yielded
<1>6. Exposed(cs, th, L[th])
  BY <1>2, <1>4, <1>5 DEF Outcome
<1>7. L[th].ci \in Seq(CallInfo)
  BY <1>3, FrameTypes
<1>8. DOMAIN L[th].ci = 1..Len(L[th].ci) /\ DOMAIN cs = 1..Len(cs)
  BY <1>7, StackDomain DEF InductiveInv
<1> QED BY <1>6, <1>8 DEF Exposed

\* When the thread can yield, a function that waits on the native stack can be
\* continued.
LEMMA WaitingRecoverable ==
  ASSUME NEW q, NEW a, NEW th, NEW l, At(q, a, th, l), Ready(a, th, l), Top.k \in {"execute", "c"},
         NEW i \in 1..Len(cs)-1, cs[i].th = th, cs[i].k \in {"c", "pcall"}
  PROVE  FnOf(l, cs[i].ci) # "c"
<1>1. /\ Shape(cs) /\ cs \in Seq(Record) /\ Len(cs) \in Nat /\ Top = cs[Len(cs)] /\ Okay(cs, l) /\ Top.th = th
  BY AtFacts
<1>2. /\ \A m \in 1..Len(cs) : cs[m].th = th <=> m >= Len(q) + 1
      /\ \A m \in Len(q)+2..Len(cs) : cs[m].k # "resume"
      /\ \A m \in 1..Len(cs) : In(cs, m) <=> cs[m].th = th
      /\ Len(q) \in Nat
  BY AtBlock
<1>3. CallsOf(cs, th, FALSE) = {} /\ Undisturbed(cs, th)
  BY DEF Ready
<1> HIDE DEF FnOf
<1>4. \A m \in 1..Len(cs) : cs[m].th = th => Sits(Under(cs, m - 1), cs[m], l)
  BY <1>1, <1>2 DEF Okay, FramesFit, SitsAll
<1>5. \A m \in 1..Len(cs) : cs[m].th = th /\ cs[m].k = "call" => cs[m].y
  <2> TAKE m \in 1..Len(cs)
  <2> HAVE cs[m].th = th /\ cs[m].k = "call"
  <2>1. cs[m] \in CallRec
    BY <1>1, ShapeAt, RecordKinds
  <2> QED BY <1>3, <2>1 DEF CallsOf, CallRec
\* What lies on a record of the thread.
<1>6. ASSUME NEW j \in 1..Len(cs)-1, cs[j].th = th
      PROVE  /\ j + 1 \in 1..Len(cs) /\ cs[j+1].th = th /\ cs[j+1].k # "resume"
             /\ Follows(cs[j], cs[j+1]) /\ Sits(Under(cs, j), cs[j+1], l)
             /\ Last(Under(cs, j)) = cs[j] /\ Under(cs, j) # <<>>
  <2>1. PICK m : m = j + 1
    OBVIOUS
  <2>2. m \in 1..Len(cs) /\ m > 1 /\ m - 1 = j /\ j \in 1..Len(cs) /\ j \in 0..Len(cs) /\ j > 0
    BY <1>1, <2>1
  <2>3. j >= Len(q) + 1
    BY <1>2, <1>6, <2>2
  <2>4. m >= Len(q) + 1 /\ m \in Len(q)+2..Len(cs)
    BY <1>2, <2>1, <2>2, <2>3
  <2>5. cs[m].th = th /\ cs[m].k # "resume"
    BY <1>2, <2>2, <2>4
  <2>6. Follows(cs[j], cs[m])
    <3>1. Follows(cs[m-1], cs[m])
      BY <1>1, <2>2, ShapeAt
    <3> QED BY <2>2, <3>1
  <2>7. Sits(Under(cs, j), cs[m], l)
    <3>1. Sits(Under(cs, m - 1), cs[m], l)
      BY <1>4, <2>2, <2>5
    <3> QED BY <2>2, <3>1
  <2>8. Last(Under(cs, j)) = cs[j] /\ Len(Under(cs, j)) = j
    BY <1>1, <2>2, UnderFacts
  <2> QED BY <2>1, <2>2, <2>5, <2>6, <2>7, <2>8
<1>7. ASSUME NEW j \in 1..Len(cs)-1, cs[j].th = th, cs[j].k = "pcall"
      PROVE  cs[j].ci > 0 /\ FnOf(l, cs[j].ci) # "c"
  <2>1. cs[j].pc # "errf"
    BY <1>3, <1>7 DEF Undisturbed
  <2>2. /\ j + 1 \in 1..Len(cs) /\ cs[j+1].th = th
        /\ Follows(cs[j], cs[j+1]) /\ Sits(Under(cs, j), cs[j+1], l)
        /\ Last(Under(cs, j)) = cs[j]
    BY <1>6, <1>7
  <2>3. cs[j+1].k = "call" /\ cs[j+1].ci = cs[j].ci
    BY <1>7, <2>1, <2>2 DEF Follows
  <2>4. cs[j+1].y
    BY <1>5, <2>2, <2>3
  <2> QED BY <1>7, <2>2, <2>3, <2>4 DEF Sits
<1>8. CASE cs[i].k = "pcall"
  BY <1>7, <1>8
<1>9. CASE cs[i].k = "c"
  <2>1. /\ i + 1 \in 1..Len(cs) /\ cs[i+1].th = th /\ cs[i+1].k # "resume"
        /\ Follows(cs[i], cs[i+1]) /\ Sits(Under(cs, i), cs[i+1], l)
        /\ Last(Under(cs, i)) = cs[i] /\ Under(cs, i) # <<>>
    BY <1>6
  <2>2. (cs[i+1].k = "call" /\ cs[i+1].ci = cs[i].ci) \/ cs[i+1].k = "pcall"
    BY <1>9, <2>1 DEF Follows
  <2>3. CASE cs[i+1].k = "call"
    <3>1. cs[i+1].y /\ cs[i+1].ci = cs[i].ci
      BY <1>5, <2>1, <2>2, <2>3
    <3>2. FnOf(l, cs[i].ci) = "k"
      BY <1>9, <2>1, <2>3, <3>1 DEF Sits
    <3> QED BY <3>2
  <2>4. CASE cs[i+1].k = "pcall"
    <3>1. PICK j : j = i + 1
      OBVIOUS
    <3>2. j \in 1..Len(cs)-1
      <4>1. j # Len(cs)
        BY <1>1, <2>4, <3>1
      <4> QED BY <1>1, <2>1, <3>1, <4>1
    <3>3. FnOf(l, cs[j].ci) # "c"
      BY <1>7, <2>1, <2>4, <3>1, <3>2
    <3>4. FnOf(l, cs[i].ci) = "c" => cs[j].ci = cs[i].ci
      BY <2>1, <2>4, <3>1 DEF Sits
    <3> QED BY <3>3, <3>4
  <2> QED BY <2>2, <2>3, <2>4
<1> QED BY <1>8, <1>9

\* The counters differ by the calls that cannot be continued.
LEMMA YieldableRecovers ==
  ASSUME CoroutineInv
  PROVE  YieldableIsRecoverable
<1> SUFFICES ASSUME Running
             PROVE  lua_isyieldable(L[Top.th]) <=>
                      /\ \E i \in DOMAIN cs : cs[i].th = Top.th /\ cs[i].k = "resume"
                      /\ \A i \in DOMAIN cs :
                           cs[i].th = Top.th /\ cs[i].k # "resume" => Recoverable(i)
  BY DEF YieldableIsRecoverable
<1>1. cs # <<>> /\ Top.k \in {"execute", "c"} /\ (Top.k = "c" => Top.pc \in {"run", "cont"})
  BY DEF Running, RunsLua, RunsC
<1>2. PICK q, a : At(q, a, Top.th, L[Top.th])
  BY <1>1, Here
<1>3. PICK th : th = Top.th
  OBVIOUS
<1>4. PICK l : l = L[th]
  OBVIOUS
<1>5. At(q, a, th, l)
  BY <1>2, <1>3, <1>4
<1>6. /\ Shape(cs) /\ cs \in Seq(Record) /\ Len(cs) \in Nat /\ Len(cs) > 0 /\ Top = cs[Len(cs)]
      /\ l.nCcalls \in Int /\ l.baseCcalls \in Int
      /\ CountsFit(cs, th, l.nCcalls, l.baseCcalls)
  BY <1>5, AtFacts
<1>7. /\ Len(q) \in Nat /\ Len(q) + 1 \in 1..Len(cs) /\ cs[Len(q) + 1].k = a
      /\ \A i \in 1..Len(cs) : cs[i].th = th <=> i >= Len(q) + 1
  BY <1>5, AtBlock
<1>8. DOMAIN cs = 1..Len(cs)
  BY StackDomain
<1>9. ASSUME lua_isyieldable(l)
      PROVE  /\ \E i \in DOMAIN cs : cs[i].th = th /\ cs[i].k = "resume"
             /\ \A i \in DOMAIN cs : cs[i].th = th /\ cs[i].k # "resume" => Recoverable(i)
  <2>1. Ready(a, th, l)
    BY <1>1, <1>5, <1>9, Yieldable
  <2>2. \E i \in DOMAIN cs : cs[i].th = th /\ cs[i].k = "resume"
    <3>1. Len(q) + 1 \in DOMAIN cs /\ cs[Len(q) + 1].th = th /\ cs[Len(q) + 1].k = "resume"
      BY <1>7, <1>8, <2>1 DEF Ready
    <3> QED BY <3>1
  <2>3. ASSUME NEW i \in 1..Len(cs), cs[i].th = th, cs[i].k # "resume"
        PROVE  Recoverable(i)
    <3>1. cs[i] \in Record /\ cs[i].k \in {"execute", "c", "call", "pcall"}
      BY <1>6, <2>3, ShapeAt, RecordKinds
    <3>2. CASE cs[i].k = "execute"
      BY <3>2 DEF Recoverable
    <3>3. CASE cs[i].k = "call"
      <4>1. cs[i] \in CallRec
        BY <3>1, <3>3, RecordKinds
      <4>2. cs[i].y
        BY <2>1, <2>3, <3>3, <4>1 DEF Ready, CallsOf, CallRec
      <4> QED BY <3>3, <4>2 DEF Recoverable
    <3>4. CASE cs[i].k = "c"
      <4>1. CASE i = Len(cs)
        BY <1>1, <1>6, <3>4, <4>1 DEF Recoverable
      <4>2. CASE i # Len(cs)
        <5>1. i \in 1..Len(cs)-1
          BY <1>6, <4>2
        <5>2. cs[i].pc = "wait"
          BY <2>1, <2>3, <3>4, <5>1 DEF Ready
        <5>3. FnOf(l, cs[i].ci) # "c"
          BY <1>1, <1>5, <2>1, <2>3, <3>4, <5>1, WaitingRecoverable
        <5>4. L[cs[i].th].ci[cs[i].ci].fn # "c"
          BY <1>4, <2>3, <5>3 DEF FnOf
        <5> QED BY <3>4, <5>2, <5>4 DEF Recoverable
      <4> QED BY <4>1, <4>2
    <3>5. CASE cs[i].k = "pcall"
      <4>1. i \in 1..Len(cs)-1
        BY <1>1, <1>6, <3>5
      <4>2. cs[i].pc = "run"
        <5>1. cs[i].pc # "errf"
          BY <2>1, <2>3, <3>5 DEF Ready, Undisturbed
        <5>2. cs[i] \in PcallRec
          BY <3>1, <3>5, RecordKinds
        <5> QED BY <5>1, <5>2 DEF PcallRec
      <4>3. FnOf(l, cs[i].ci) # "c"
        BY <1>1, <1>5, <2>1, <2>3, <3>5, <4>1, WaitingRecoverable
      <4>4. L[cs[i].th].ci[cs[i].ci].fn # "c"
        BY <1>4, <2>3, <4>3 DEF FnOf
      <4> QED BY <3>5, <4>2, <4>4 DEF Recoverable
    <3> QED BY <3>1, <3>2, <3>3, <3>4, <3>5
  <2> QED BY <1>8, <2>2, <2>3
<1>10. ASSUME \E i \in DOMAIN cs : cs[i].th = th /\ cs[i].k = "resume",
              \A i \in DOMAIN cs : cs[i].th = th /\ cs[i].k # "resume" => Recoverable(i)
       PROVE  lua_isyieldable(l)
  <2>1. ASSUME NEW i \in 1..Len(cs), cs[i].th = th, cs[i].k = "call" PROVE cs[i].y
    <3>1. Recoverable(i)
      BY <1>8, <1>10, <2>1
    <3> QED BY <2>1, <3>1 DEF Recoverable
  <2>2. CallsOf(cs, th, FALSE) = {}
    BY <2>1 DEF CallsOf
  <2>3. ASSUME NEW i \in 1..Len(cs), cs[i].th = th, cs[i].k \in {"pcall", "resume"} PROVE cs[i].pc # "errf"
    <3>1. CASE cs[i].k = "pcall"
      <4>1. Recoverable(i)
        BY <1>8, <1>10, <2>3, <3>1
      <4> QED BY <3>1, <4>1 DEF Recoverable
    <3>2. CASE cs[i].k = "resume"
      <4> SUFFICES ASSUME cs[i].pc = "errf" PROVE FALSE
        OBVIOUS
      <4>1. PICK m : m = i + 1
        OBVIOUS
      <4>2. m \in 1..Len(cs) /\ m > 1 /\ m - 1 = i
        BY <1>1, <1>6, <3>2, <4>1
      <4>3. Follows(cs[m-1], cs[m])
        BY <1>6, <4>2, ShapeAt
      <4>4. cs[i].k # "c" /\ cs[m].k = "call" /\ ~cs[m].y /\ cs[m].th = th
        BY <2>3, <3>2, <4>2, <4>3 DEF Follows
      <4> QED BY <2>1, <4>2, <4>4
    <3> QED BY <2>3, <3>1, <3>2
  <2>4. Undisturbed(cs, th)
    BY <2>3 DEF Undisturbed
  <2>5. l.nCcalls - l.baseCcalls = 0
    BY <1>6, <2>2, <2>4, FS_EmptySet DEF CountsFit
  <2>6. l.nCcalls <= l.baseCcalls
    BY <1>6, <2>5
  <2> QED BY <2>6 DEF lua_isyieldable
<1> QED BY <1>3, <1>4, <1>9, <1>10

\* The counters of C calls tell exactly whether the thread that runs can yield
\* (lua_yield, lua_break, lua_isyieldable).
THEOREM YieldableIffRecoverable == Spec => []YieldableIsRecoverable
<1>1. InductiveInv => YieldableIsRecoverable
  BY YieldableRecovers DEF InductiveInv
<1> QED BY <1>1, StackDiscipline, PTL

\* The assertions of resume_continue and luaD_callny never fail.
THEOREM AssertsNeverFail == Spec => []ResumeAsserts
<1>1. InductiveInv => ResumeAsserts
  BY AssertsHold DEF InductiveInv
<1> QED BY <1>1, StackDiscipline, PTL

\* nCcalls is at least the depth of the native stack, through errors and yields of
\* any number of threads (luaD_checkCstack, resume_start).
THEOREM DepthIsCounted == Spec => []DepthNeverUnderestimated
<1>1. InductiveInv => DepthNeverUnderestimated
  BY DepthCovered DEF InductiveInv
<1> QED BY <1>1, StackDiscipline, PTL

\* A thread with Lua code on the native stack is active for the collector, one
\* with nothing there is not (luau_execute, luaD_pcall, resume_finish).
THEOREM ActiveWhileRunning == Spec => []ActiveIsRunning
<1>1. InductiveInv => ActiveIsRunning
  BY ActiveRuns DEF InductiveInv
<1> QED BY <1>1, StackDiscipline, PTL

\* lua_costatus says of every other coroutine what the native stack says.
THEOREM StatusAlwaysTrue == Spec => []StatusIsTrue
<1>1. InductiveInv => StatusIsTrue
  BY StatusAgrees DEF InductiveInv
<1> QED BY <1>1, StackDiscipline, PTL

\* An error kills a coroutine only when it has no handler, neither on the native
\* stack nor in a frame (luaD_throw, resume_handle, resume_finish).
THEOREM ErrorsFindHandlers == Spec => DiesOnlyUnprotected
<1> DEFINE A == \A th \in Thread :
                  L[th].status # "ERR" /\ L'[th].status = "ERR" =>
                    /\ \A i \in DOMAIN L[th].ci : ~L[th].ci[i].handle
                    /\ \A i \in DOMAIN cs : cs[i].th = th => cs[i].k # "pcall"
<1>1. InductiveInv /\ [Next]_vars => [A]_vars
  BY DiesExposed
<1> QED BY <1>1, StackDiscipline, PTL DEF Spec, DiesOnlyUnprotected

-----------------------------------------------------------------------------
(* The chain of coroutines.                                                  *)

\* The resumes of a stack, the elements of R up to j, the one that closes n of
\* them, and the threads in the order of their resumes.
ResumesOf(s) == {i \in DOMAIN s : s[i].k = "resume"}
UpTo(R, j) == {m \in R : m <= j}
RankedIn(R, n) == {j \in R : Cardinality(UpTo(R, j)) = n}
One(S) == CHOOSE i \in S : TRUE
ThreadsOf(s) ==
  [n \in 1..Cardinality(ResumesOf(s)) |-> s[One(RankedIn(ResumesOf(s), n))].th]
Host(s) == IF s # <<>> /\ s[1].k = "pcall" THEN <<MainThread>> ELSE <<>>
ChainOf(s) == Host(s) \o ThreadsOf(s)

\* The chain is a function of the native stack.
LEMMA ChainIs == Chain = ChainOf(cs)
BY DEF Chain, ChainOf, Host, ThreadsOf, One, RankedIn, UpTo, ResumesOf, NthResume, Resumes

\* The first n elements of a set of numbers end in one of them.
LEMMA RankExists ==
  ASSUME NEW N \in Nat, NEW R, R \subseteq 1..N, NEW n \in 1..Cardinality(R)
  PROVE  One(RankedIn(R, n)) \in RankedIn(R, n)
<1>1. IsFiniteSet(1..N) /\ IsFiniteSet(R) /\ Cardinality(R) \in Nat
  <2>1. IsFiniteSet(1..N)
    BY FS_Interval
  <2> QED BY <2>1, FS_Subset, FS_CardinalityType
<1>2. \A j : UpTo(R, j) \subseteq R /\ IsFiniteSet(UpTo(R, j)) /\ Cardinality(UpTo(R, j)) \in Nat
  <2> TAKE j
  <2>1. UpTo(R, j) \subseteq R
    BY DEF UpTo
  <2> QED BY <1>1, <2>1, FS_Subset, FS_CardinalityType
<1>3. R # {}
  BY <1>1, FS_EmptySet
<1>4. N \in 1..N /\ N > 0 /\ 1 \in 1..N
  <2>1. PICK e \in R : TRUE
    BY <1>3
  <2>2. e \in 1..N
    BY <2>1
  <2> QED BY <2>2
<1> DEFINE C == {j \in 1..N : Cardinality(UpTo(R, j)) <= n}
<1>5. C \subseteq 1..N /\ C # {}
  <2>1. UpTo(R, 1) \subseteq {1}
    <3>1. \A m \in 1..N : m <= 1 => m = 1
      OBVIOUS
    <3> QED BY <3>1 DEF UpTo
  <2>2. Cardinality(UpTo(R, 1)) <= 1
    <3>1. IsFiniteSet({1}) /\ Cardinality({1}) = 1
      BY FS_Singleton
    <3>2. Cardinality(UpTo(R, 1)) <= Cardinality({1})
      BY <2>1, <3>1, FS_Subset
    <3> QED BY <3>1, <3>2
  <2>3. Cardinality(UpTo(R, 1)) <= n
    BY <1>2, <2>2
  <2>4. 1 \in C
    BY <1>4, <2>3
  <2> QED BY <2>4
<1>6. \A j : j \in C <=> j \in 1..N /\ Cardinality(UpTo(R, j)) <= n
  OBVIOUS
<1> HIDE DEF C
<1>7. PICK j \in C : \A m \in C : m <= j
  BY <1>5, Greatest
<1>8. Cardinality(UpTo(R, j)) = n
  <2>1. CASE j = N
    <3>1. UpTo(R, j) = R
      <4>1. \A m \in R : m <= N
        OBVIOUS
      <4> QED BY <2>1, <4>1 DEF UpTo
    <3> QED BY <1>1, <1>6, <1>7, <3>1
  <2>2. CASE j # N
    <3>1. j + 1 \in 1..N /\ ~(j + 1 <= j) /\ j \in 1..N
      BY <1>5, <1>7, <2>2
    <3>2. ~(Cardinality(UpTo(R, j + 1)) <= n)
      BY <1>6, <1>7, <3>1
    <3>3. UpTo(R, j + 1) \subseteq UpTo(R, j) \cup {j + 1}
      <4>1. \A m \in 1..N : m <= j + 1 => m <= j \/ m = j + 1
        BY <3>1
      <4> QED BY <4>1 DEF UpTo
    <3>4. /\ IsFiniteSet(UpTo(R, j) \cup {j + 1})
          /\ Cardinality(UpTo(R, j) \cup {j + 1}) <= Cardinality(UpTo(R, j)) + 1
      <4>1. PICK S : S = UpTo(R, j)
        OBVIOUS
      <4>2. IsFiniteSet(S) /\ Cardinality(S) \in Nat
        BY <1>2, <4>1
      <4>3. IsFiniteSet(S \cup {j + 1}) /\ Cardinality(S \cup {j + 1}) = IF j + 1 \in S THEN Cardinality(S) ELSE Cardinality(S) + 1
        BY ONLY <4>2, FS_AddElement
      <4>4. Cardinality(S \cup {j + 1}) <= Cardinality(S) + 1
        BY ONLY <4>2, <4>3
      <4> QED BY <4>1, <4>3, <4>4
    <3>5. Cardinality(UpTo(R, j + 1)) <= Cardinality(UpTo(R, j) \cup {j + 1})
      <4>1. IsFiniteSet(UpTo(R, j) \cup {j + 1})
        BY <3>4
      <4> QED BY <3>3, <4>1, FS_Subset
    <3>6. Cardinality(UpTo(R, j)) <= n
      BY <1>6, <1>7
    <3> DEFINE x == Cardinality(UpTo(R, j))
               y == Cardinality(UpTo(R, j + 1))
               z == Cardinality(UpTo(R, j) \cup {j + 1})
    <3>7. x \in Nat /\ y \in Nat /\ z \in Nat /\ ~(y <= n) /\ z <= x + 1 /\ y <= z /\ x <= n
      BY <1>2, <3>2, <3>4, <3>5, <3>6, FS_CardinalityType
    <3> HIDE DEF x, y, z
    <3>8. x = n
      BY <3>7
    <3> QED BY <3>8 DEF x
  <2> QED BY <2>1, <2>2
<1>9. PICK i \in UpTo(R, j) : \A m \in UpTo(R, j) : m <= i
  <2>1. UpTo(R, j) # {}
    <3>1. n # 0
      OBVIOUS
    <3> QED BY <1>8, <3>1, FS_EmptySet
  <2>2. UpTo(R, j) \subseteq 1..N
    BY <1>2
  <2> QED BY <2>1, <2>2, Greatest
<1>10. i \in R /\ UpTo(R, i) = UpTo(R, j)
  <2>1. i \in 1..N /\ j \in 1..N /\ i <= j /\ i \in R /\ \A m \in R : m \in 1..N
    BY <1>5, <1>7, <1>9 DEF UpTo
  <2>2. \A m \in R : m <= i <=> m <= j
    BY <1>9, <2>1 DEF UpTo
  <2> QED BY <2>1, <2>2 DEF UpTo
<1>11. i \in RankedIn(R, n)
  BY <1>8, <1>10 DEF RankedIn
<1> QED BY <1>11 DEF One

\* The resumes of a stack and their ranks.
LEMMA ResumesTypes ==
  ASSUME NEW s \in Seq(Record)
  PROVE  /\ ResumesOf(s) \subseteq 1..Len(s) /\ Len(s) \in Nat /\ DOMAIN s = 1..Len(s)
         /\ IsFiniteSet(ResumesOf(s)) /\ Cardinality(ResumesOf(s)) \in Nat
         /\ \A n \in 1..Cardinality(ResumesOf(s)) :
              /\ One(RankedIn(ResumesOf(s), n)) \in 1..Len(s)
              /\ One(RankedIn(ResumesOf(s), n)) \in ResumesOf(s)
<1>1. Len(s) \in Nat /\ DOMAIN s = 1..Len(s)
  BY LenProperties
<1>2. ResumesOf(s) \subseteq 1..Len(s)
  BY <1>1 DEF ResumesOf
<1>3. IsFiniteSet(ResumesOf(s)) /\ Cardinality(ResumesOf(s)) \in Nat
  <2>1. IsFiniteSet(1..Len(s))
    BY <1>1, FS_Interval
  <2> QED BY <1>2, <2>1, FS_Subset, FS_CardinalityType
<1>4. ASSUME NEW n \in 1..Cardinality(ResumesOf(s))
      PROVE  One(RankedIn(ResumesOf(s), n)) \in ResumesOf(s)
  <2>1. One(RankedIn(ResumesOf(s), n)) \in RankedIn(ResumesOf(s), n)
    BY <1>1, <1>2, RankExists
  <2> HIDE DEF ResumesOf
  <2> QED BY <2>1 DEF RankedIn
<1> QED BY <1>1, <1>2, <1>3, <1>4

\* The chain is a sequence of threads.
LEMMA ThreadsType ==
  ASSUME NEW s \in Seq(Record)
  PROVE  /\ ThreadsOf(s) \in Seq(Thread) /\ Len(ThreadsOf(s)) = Cardinality(ResumesOf(s))
         /\ Host(s) \in Seq(Thread) /\ ChainOf(s) \in Seq(Thread)
<1>1. /\ \A n \in 1..Cardinality(ResumesOf(s)) : One(RankedIn(ResumesOf(s), n)) \in 1..Len(s)
      /\ Cardinality(ResumesOf(s)) \in Nat
  BY ResumesTypes
<1>2. \A i \in 1..Len(s) : s[i].th \in Thread
  BY ElementOfSeq, RecordKinds
<1> DEFINE c == Cardinality(ResumesOf(s))
<1>3. ThreadsOf(s) \in [1..c -> Thread]
  BY <1>1, <1>2 DEF ThreadsOf
<1>4. c \in Nat
  BY <1>1
<1> HIDE DEF c
<1>5. ThreadsOf(s) \in Seq(Thread) /\ Len(ThreadsOf(s)) = c
  BY <1>3, <1>4
<1>6. Host(s) \in Seq(Thread)
  BY CoroutineAssumption DEF Host
<1>7. ChainOf(s) \in Seq(Thread)
  BY <1>5, <1>6, ConcatProperties DEF ChainOf
<1> QED BY <1>5, <1>6, <1>7 DEF c

\* Only the kinds and the threads of the records make the chain.
LEMMA ChainAlike ==
  ASSUME NEW s \in Seq(Record), NEW t \in Seq(Record), Len(t) = Len(s),
         \A i \in 1..Len(s) : t[i].k = s[i].k /\ t[i].th = s[i].th
  PROVE  ChainOf(t) = ChainOf(s)
<1>1. Len(s) \in Nat /\ DOMAIN s = 1..Len(s) /\ DOMAIN t = 1..Len(s)
  BY LenProperties
<1>2. ResumesOf(t) = ResumesOf(s)
  BY <1>1 DEF ResumesOf
<1>3. \A n \in 1..Cardinality(ResumesOf(s)) : One(RankedIn(ResumesOf(s), n)) \in 1..Len(s)
  BY ResumesTypes
<1>4. ThreadsOf(t) = ThreadsOf(s)
  BY <1>2, <1>3 DEF ThreadsOf
<1>5. Host(t) = Host(s)
  <2>1. s = <<>> <=> Len(s) = 0
    BY EmptySeq
  <2>2. t = <<>> <=> Len(t) = 0
    BY EmptySeq
  <2>3. s # <<>> => 1 \in 1..Len(s)
    BY <1>1, <2>1
  <2> QED BY <2>1, <2>2, <2>3 DEF Host
<1> QED BY <1>4, <1>5 DEF ChainOf

\* The resume that enters a thread is the newest of the stack.
LEMMA ThreadsGrow ==
  ASSUME NEW q \in Seq(Record), NEW th \in Thread, NEW t, Block(q, th, t), t[Len(q) + 1].k = "resume"
  PROVE  ThreadsOf(t) = Append(ThreadsOf(q), th) /\ Host(t) = Host(q)
<1> DEFINE m == Len(q) + 1
           c == Cardinality(ResumesOf(q))
<1>1. /\ t \in Seq(Record) /\ Len(q) \in Nat /\ Len(t) \in Nat /\ Len(t) > Len(q)
      /\ DOMAIN q = 1..Len(q) /\ DOMAIN t = 1..Len(t)
      /\ m \in Nat /\ m \in 1..Len(t) /\ t[m].k = "resume" /\ t[m].th = th
      /\ \A i \in 1..Len(q) : t[i] = q[i]
  <2>1. t \in Seq(Record) /\ Len(q) \in Nat /\ Len(t) \in Nat /\ Len(t) > Len(q)
        /\ DOMAIN q = 1..Len(q) /\ DOMAIN t = 1..Len(t)
    BY LenProperties DEF Block
  <2>2. m \in 1..Len(t) /\ m \in Len(q)+1..Len(t)
    BY <2>1
  <2> QED BY <2>1, <2>2 DEF Block
<1>2. /\ ResumesOf(q) \subseteq 1..Len(q) /\ IsFiniteSet(ResumesOf(q)) /\ c \in Nat
      /\ \A n \in 1..c : One(RankedIn(ResumesOf(q), n)) \in 1..Len(q)
  BY ResumesTypes
<1>3. ResumesOf(t) = ResumesOf(q) \cup {m}
  <2>1. ASSUME NEW i \in 1..Len(t), i # m, t[i].k = "resume" PROVE i \in 1..Len(q)
    <3>1. i \in 1..Len(q) \/ i \in Len(q)+2..Len(t)
      BY <1>1, <2>1
    <3> QED BY <2>1, <3>1 DEF Block
  <2>2. \A i \in 1..Len(q) : i \in 1..Len(t)
    BY <1>1
  <2> QED BY <1>1, <2>1, <2>2 DEF ResumesOf
<1>4. \A i \in 1..Len(q) : i < m
  BY <1>1
<1> HIDE DEF m, c
<1>5. m \notin ResumesOf(q) /\ \A i \in ResumesOf(q) : i \in 1..Len(q) /\ i < m /\ ~(m <= i)
  <2>1. \A i \in 1..Len(q) : i < m /\ ~(m <= i)
    BY <1>1, <1>4
  <2>2. m \notin 1..Len(q)
    BY <1>1, <2>1
  <2> QED BY <1>2, <2>1, <2>2
<1>6. Cardinality(ResumesOf(t)) = c + 1
  BY <1>2, <1>3, <1>5, FS_AddElement DEF c
<1>7. UpTo(ResumesOf(t), m) = ResumesOf(t)
  <2>1. \A i \in ResumesOf(t) : i <= m
    BY <1>1, <1>2, <1>3, <1>5
  <2> QED BY <2>1 DEF UpTo
<1>8. \A j \in ResumesOf(q) : UpTo(ResumesOf(t), j) = UpTo(ResumesOf(q), j)
  BY <1>3, <1>5 DEF UpTo
<1>9. \A n \in 1..c : RankedIn(ResumesOf(t), n) = RankedIn(ResumesOf(q), n)
  <2> TAKE n \in 1..c
  <2>1. c + 1 # n
    BY <1>2
  <2> QED BY <1>3, <1>6, <1>7, <1>8, <2>1 DEF RankedIn
<1>10. One(RankedIn(ResumesOf(t), c + 1)) = m
  <2>1. c + 1 \in 1..Cardinality(ResumesOf(t))
    BY <1>2, <1>6
  <2>2. One(RankedIn(ResumesOf(t), c + 1)) \in RankedIn(ResumesOf(t), c + 1)
    <3>1. ResumesOf(t) \subseteq 1..Len(t)
      BY <1>1, ResumesTypes
    <3> QED BY <1>1, <2>1, <3>1, RankExists
  <2>3. ASSUME NEW j \in ResumesOf(q) PROVE Cardinality(UpTo(ResumesOf(t), j)) # c + 1
    <3>1. UpTo(ResumesOf(q), j) \subseteq ResumesOf(q)
      BY DEF UpTo
    <3>2. Cardinality(UpTo(ResumesOf(q), j)) <= c /\ Cardinality(UpTo(ResumesOf(q), j)) \in Nat
      BY <1>2, <3>1, FS_Subset, FS_CardinalityType DEF c
    <3>3. Cardinality(UpTo(ResumesOf(q), j)) # c + 1
      BY <1>2, <3>2
    <3> QED BY <1>8, <3>3
  <2> QED BY <1>3, <2>2, <2>3 DEF RankedIn
<1>11. ThreadsOf(t) = Append(ThreadsOf(q), th)
  <2> DEFINE f == ThreadsOf(q)
             g == Append(f, th)
  <2>1. f \in Seq(Thread) /\ Len(f) = c /\ ThreadsOf(t) \in Seq(Thread) /\ Len(ThreadsOf(t)) = c + 1
    BY <1>1, <1>6, ThreadsType DEF c
  <2>2. \A n \in 1..c : f[n] = q[One(RankedIn(ResumesOf(q), n))].th
    BY DEF ThreadsOf, c
  <2>3. \A n \in 1..c+1 : ThreadsOf(t)[n] = t[One(RankedIn(ResumesOf(t), n))].th
    BY <1>6 DEF ThreadsOf
  <2> HIDE DEF f
  <2>4. g \in Seq(Thread) /\ Len(g) = c + 1 /\ (\A n \in 1..c : g[n] = f[n]) /\ g[c + 1] = th
    BY <2>1, AppendProperties
  <2> HIDE DEF g
  <2>5. \A n \in 1..c+1 : ThreadsOf(t)[n] = g[n]
    <3> TAKE n \in 1..c+1
    <3>1. CASE n = c + 1
      BY <1>1, <1>10, <2>3, <2>4, <3>1
    <3>2. CASE n # c + 1
      <4>1. n \in 1..c
        BY <1>2, <3>2
      <4>2. One(RankedIn(ResumesOf(q), n)) \in 1..Len(q)
        BY <1>2, <4>1
      <4>3. t[One(RankedIn(ResumesOf(q), n))] = q[One(RankedIn(ResumesOf(q), n))]
        BY <1>1, <4>2
      <4> QED BY <1>9, <2>2, <2>3, <2>4, <4>1, <4>3
    <3> QED BY <3>1, <3>2
  <2>6. ThreadsOf(t) = g
    BY <2>1, <2>4, <2>5, SeqEqual
  <2> QED BY <2>6 DEF f, g
<1>12. Host(t) = Host(q)
  <2>1. t # <<>>
    BY <1>1
  <2>2. CASE q = <<>>
    <3>1. t[1].k = "resume"
      BY <1>1, <2>2 DEF m
    <3> QED BY <2>2, <3>1 DEF Host
  <2>3. CASE q # <<>>
    <3>1. 1 \in 1..Len(q)
      BY <1>1, <2>3, EmptySeq
    <3>2. t[1] = q[1]
      BY <1>1, <3>1
    <3> QED BY <2>1, <2>3, <3>2 DEF Host
  <2> QED BY <2>2, <2>3
<1> QED BY <1>11, <1>12

\* A block is one coroutine more, or the main thread.
LEMMA ChainBlock ==
  ASSUME NEW q \in Seq(Record), NEW th \in Thread, NEW t, Shape(t), Block(q, th, t),
         NEW a \in {"pcall", "resume"}, Heads(q, a, t)
  PROVE  /\ ChainOf(t) = Append(ChainOf(q), th)
         /\ a = "pcall" => q = <<>> /\ th = MainThread
         /\ a = "resume" => th # MainThread
<1>1. /\ Len(q) \in Nat /\ Len(t) \in Nat /\ Len(q) + 1 \in 1..Len(t) /\ t \in Seq(Record) /\ t # <<>>
      /\ t[Len(q) + 1].th = th /\ t[Len(q) + 1].k = a
  <2>1. Len(q) \in Nat /\ Len(t) \in Nat /\ Len(t) > Len(q) /\ t \in Seq(Record)
    BY LenProperties DEF Block
  <2>2. Len(q) + 1 \in 1..Len(t) /\ Len(q) + 1 \in Len(q)+1..Len(t) /\ Len(t) # 0
    BY <2>1
  <2>3. t # <<>>
    BY <2>2
  <2> QED BY <2>1, <2>2, <2>3 DEF Block, Heads
<1>2. CASE a = "pcall"
  <2>1. q = <<>>
    BY <1>1, <1>2 DEF Block
  <2>2. Len(q) = 0 /\ t[1].k = "pcall" /\ t[1].th = th /\ 1 \in 1..Len(t)
    BY <1>1, <1>2, <2>1
  <2>3. Bottom(t[1])
    BY <2>2, ShapeAt
  <2>4. th = MainThread
    BY <2>2, <2>3 DEF Bottom
  <2>5. ResumesOf(t) = {}
    <3>1. ASSUME NEW i \in 1..Len(t) PROVE t[i].k # "resume"
      <4>1. i = 1 \/ i \in Len(q)+2..Len(t)
        BY <1>1, <2>2
      <4> QED BY <2>2, <4>1 DEF Block
    <3> QED BY <1>1, <3>1, LenProperties DEF ResumesOf
  <2>6. ResumesOf(q) = {}
    BY <2>1 DEF ResumesOf
  <2>7. ThreadsOf(t) = <<>> /\ ThreadsOf(q) = <<>>
    <3>1. /\ ThreadsOf(t) \in Seq(Thread) /\ Len(ThreadsOf(t)) = 0
          /\ ThreadsOf(q) \in Seq(Thread) /\ Len(ThreadsOf(q)) = 0
      BY <1>1, <2>5, <2>6, ThreadsType, FS_EmptySet
    <3> QED BY <3>1, EmptySeq
  <2>8. Host(t) = <<th>> /\ Host(q) = <<>>
    BY <1>1, <2>1, <2>2, <2>4 DEF Host
  <2>9. ChainOf(t) = <<th>> /\ ChainOf(q) = <<>>
    BY <2>7, <2>8 DEF ChainOf
  <2> QED BY <1>2, <2>1, <2>4, <2>9
<1>3. CASE a = "resume"
  <2>1. ThreadsOf(t) = Append(ThreadsOf(q), th) /\ Host(t) = Host(q)
    BY <1>1, <1>3, ThreadsGrow
  <2>2. ThreadsOf(q) \in Seq(Thread) /\ Host(q) \in Seq(Thread)
    BY ThreadsType
  <2> DEFINE f == ThreadsOf(q)
             h == Host(q)
  <2>3. h \o Append(f, th) = Append(h \o f, th)
    <3>1. f \in Seq(Thread) /\ h \in Seq(Thread) /\ <<th>> \in Seq(Thread)
      BY <2>2
    <3> HIDE DEF f, h
    <3>2. Append(f, th) = f \o <<th>>
      BY <3>1, AppendIsConcat
    <3>3. h \o f \in Seq(Thread)
      BY <3>1, ConcatProperties
    <3>4. Append(h \o f, th) = (h \o f) \o <<th>>
      BY <3>3, AppendIsConcat
    <3>5. h \o (f \o <<th>>) = (h \o f) \o <<th>>
      BY <3>1, ConcatAssociative
    <3> QED BY <3>2, <3>4, <3>5
  <2>4. ChainOf(t) = Append(ChainOf(q), th)
    BY <2>1, <2>3 DEF ChainOf
  <2>5. th # MainThread
    BY <1>1, <1>3, ShapeAt
  <2> QED BY <1>3, <2>4, <2>5
<1> QED BY <1>2, <1>3

\* A function that goes on waiting leaves the chain as it is.
LEMMA ChainSame ==
  ASSUME CoroutineInv, NEW q, Same(q)
  PROVE  /\ q \in Seq(Record) /\ Len(q) = Len(cs) /\ ChainOf(q) = ChainOf(cs)
         /\ \A i \in 1..Len(cs) : q[i].k = cs[i].k /\ q[i].th = cs[i].th
<1>1. Shape(cs) /\ cs \in Seq(Record) /\ Len(cs) \in Nat
  BY StackDomain
<1>2. CASE q = cs
  BY <1>1, <1>2
<1>3. CASE cs # <<>> /\ Top.k = "c" /\ \E pc \in {"wait", "failed"} : q = SetPc(pc)
  <2>1. PICK pc \in {"wait", "failed"} : q = SetPc(pc)
    BY <1>3
  <2>2. PICK r : r = [Top EXCEPT !.pc = pc]
    OBVIOUS
  <2>3. Len(cs) > 0 /\ Len(cs) \in 1..Len(cs) /\ Top = cs[Len(cs)]
    BY <1>1, <1>3, EmptySeq DEF Top, Last
  <2>4. Top \in CRec
    BY <1>1, <1>3, <2>3, ShapeAt, RecordKinds
  <2>5. r \in CRec /\ r.k = Top.k /\ r.th = Top.th
    BY ONLY <2>2, <2>4, pc \in {"wait", "failed"} DEF CRec
  <2>6. r \in Record
    BY <2>5 DEF Record
  <2>7. PICK j : j = Len(cs) - 1
    OBVIOUS
  <2>8. Front(cs) = Under(cs, j) /\ j \in 0..Len(cs) /\ Len(cs) = j + 1 /\ j \in Nat
    BY <1>1, <1>3, <2>3, <2>7, FrontIsUnder
  <2>9. Front(cs) \in Seq(Record) /\ Len(Front(cs)) = j /\ \A i \in 1..j : Front(cs)[i] = cs[i]
    BY <1>1, <2>8, UnderFacts
  <2>10. q = Append(Front(cs), r)
    BY <2>1, <2>2 DEF SetPc, Top
  <2>11. q \in Seq(Record) /\ Len(q) = j + 1 /\ (\A i \in 1..j : q[i] = cs[i]) /\ q[j + 1] = r
    BY <2>6, <2>9, <2>10, PushFacts
  <2>12. \A i \in 1..Len(cs) : q[i].k = cs[i].k /\ q[i].th = cs[i].th
    <3> TAKE i \in 1..Len(cs)
    <3>1. i \in 1..j \/ i = j + 1
      BY <2>8
    <3> QED BY <2>3, <2>5, <2>8, <2>11, <3>1
  <2>13. ChainOf(q) = ChainOf(cs)
    BY <1>1, <2>8, <2>11, <2>12, ChainAlike
  <2> QED BY <2>8, <2>11, <2>12, <2>13
<1> QED BY <1>2, <1>3 DEF Same

-----------------------------------------------------------------------------
(* What entering a thread, or failing to, makes of its state.                *)

\* The state of a thread without a record.
Idle(l) ==
  CASE l.status = "YIELD" -> "suspended"
    [] l.status = "BREAK" -> "broken"
    [] OTHER -> IF l.status = "OK" /\ l.hasfn THEN "suspended" ELSE "dead"
StateIn(s, l, co) ==
  IF \E i \in DOMAIN s : s[i].k = "resume" /\ s[i].th = co THEN "entered" ELSE Idle(l)

\* The state of a coroutine in these terms.
LEMMA StateIs ==
  ASSUME NEW co
  PROVE  State(co) = StateIn(cs, L[co], co)
BY DEF State, StateIn, Idle

\* A coroutine without records is suspended, broken or dead.
LEMMA IdleTypes ==
  ASSUME NEW l \in LuaState
  PROVE  Idle(l) \in {"suspended", "broken", "dead"}
<1>1. l.status = "YIELD" => Idle(l) = "suspended"
  BY DEF Idle
<1>2. l.status = "BREAK" => Idle(l) = "broken"
  BY DEF Idle
<1>3. l.status # "YIELD" /\ l.status # "BREAK" => Idle(l) \in {"suspended", "dead"}
  BY DEF Idle
<1> QED BY <1>1, <1>2, <1>3

\* A stack with records more is another one.
LEMMA LongerBy ==
  ASSUME NEW q \in Seq(Record), NEW x, NEW y, NEW z
  PROVE  q \o <<x, y>> # q /\ q \o <<x, y, z>> # q /\ Append(q, x) # q
<1>1. Len(q) \in Nat
  BY LenProperties
<1> DEFINE S == Record \cup {x, y, z}
<1>2. q \in Seq(S)
  <2>1. \A i \in 1..Len(q) : q[i] \in S
    BY ElementOfSeq
  <2>2. q = [i \in 1..Len(q) |-> q[i]]
    BY <1>1
  <2> HIDE DEF S
  <2> QED BY <1>1, <2>1, <2>2, IsASeq
<1>3. x \in S /\ y \in S /\ z \in S
  OBVIOUS
<1> HIDE DEF S
<1>4. <<x, y>> \in Seq(S) /\ Len(<<x, y>>) = 2 /\ <<x, y, z>> \in Seq(S) /\ Len(<<x, y, z>>) = 3
  BY <1>3
<1>5. Len(q \o <<x, y>>) = Len(q) + 2
  BY <1>2, <1>4, ConcatProperties
<1>6. Len(q \o <<x, y, z>>) = Len(q) + 3
  BY <1>2, <1>4, ConcatProperties
<1>7. Len(Append(q, x)) = Len(q) + 1
  BY <1>2, <1>3, AppendProperties
<1> QED BY <1>1, <1>5, <1>6, <1>7

\* resume_handle with a handler, or at the end of the thread.
LEMMA HandleSteps ==
  ASSUME NEW th, NEW l, NEW q \in Seq(Record), NEW rec, rec.k = "resume", DOMAIN rec = {"k", "th", "old", "pc", "ch"},
         resume_handle(th, l, q, rec)
  PROVE  \/ resume_findhandler(l) = 0 /\ Become(th, Finished(l, rec, "ERR"), q)
         \/ resume_findhandler(l) # 0 /\ cs' # q
<1>1. ASSUME NEW c, NEW h, HandleCont(th, h, q, c) PROVE cs' # q
  <2>1. cs' = q \o <<[c EXCEPT !.pc = "loop"], CBody(th, c.ch, "error")>>
    BY <1>1 DEF HandleCont, Become
  <2> QED BY <2>1, LongerBy
<1>2. ASSUME NEW c, NEW h, c.k = "resume", callerrfunc(th, h, q, c) PROVE cs' # q
  <2>1. \/ AfterErrfunc(th, Counted(h, FALSE), q, c)
        \/ cs' = q \o <<[c EXCEPT !.pc = "errf"], CallRecord(th, h, "ny", FALSE), Execute(th)>>
    BY <1>2 DEF callerrfunc, Become
  <2>2. AfterErrfunc(th, Counted(h, FALSE), q, c) => HandleCont(th, Counted(h, FALSE), q, c)
    BY <1>2 DEF AfterErrfunc
  <2> QED BY <1>1, <2>1, <2>2, LongerBy
<1>3. CASE resume_findhandler(l) = 0
  BY <1>3 DEF resume_handle
<1>4. CASE resume_findhandler(l) # 0
  <2>1. PICK c : c = [rec EXCEPT !.ch = resume_findhandler(l)]
    OBVIOUS
  <2>2. c.k = "resume"
    BY <2>1
  <2>3. \E h : HandleCont(th, h, q, c) \/ callerrfunc(th, h, q, c)
    BY <1>4, <2>1 DEF resume_handle
  <2> QED BY <1>1, <1>2, <1>4, <2>2, <2>3
<1> QED BY <1>3, <1>4

\* A thread is entered while it is suspended or broken; otherwise it is dead or what
\* it was before.
LEMMA EntersFrom ==
  ASSUME NEW q, NEW co, NEW n, Entry(q, co, n), Enters(q, co, n), L \in [Thread -> LuaState]
  PROVE  /\ cs' # q => Idle(L[co]) \in {"suspended", "broken"}
         /\ cs' = q => Idle(L'[co]) \in {"dead", Idle(L[co])}
<1>1. /\ q \in Seq(Record) /\ co \in Thread /\ L[co] \in LuaState
  BY DEF Entry, Context, Shape
<1>2. CanStart(L[co])
  BY DEF Enters, ResumeOverflows, lua_resume, lua_resumeerror
<1>3. L[co].status = "OK" => L[co].ci = <<>>
  BY <1>2 DEF CanStart
<1>4. ~(L[co].status = "OK" /\ ~L[co].hasfn) => Idle(L[co]) \in {"suspended", "broken"}
  <2> SUFFICES ASSUME ~(L[co].status = "OK" /\ ~L[co].hasfn) PROVE Idle(L[co]) \in {"suspended", "broken"}
    OBVIOUS
  <2>1. CASE L[co].status = "YIELD"
    BY <2>1 DEF Idle
  <2>2. CASE L[co].status = "BREAK"
    BY <2>2 DEF Idle
  <2>3. CASE L[co].status = "OK" /\ L[co].hasfn
    BY <2>3 DEF Idle
  <2> QED BY <1>2, <2>1, <2>2, <2>3 DEF CanStart
<1>5. PICK l : l = Started(L[co], n)
  OBVIOUS
<1>6. PICK r : r = ResumeRecord(co, n)
  OBVIOUS
<1>7. /\ l.status = L[co].status /\ l.hasfn = L[co].hasfn /\ l.ci = L[co].ci /\ l \in LuaState
  <2>1. n \in Int
    BY DEF Entry
  <2>2. PICK k \in LuaState : k = L[co]
    BY <1>1
  <2>3. l = Started(k, n)
    BY <1>5, <2>2
  <2>4. l.status = k.status /\ l.hasfn = k.hasfn /\ l.ci = k.ci /\ l \in LuaState
    BY ONLY <2>1, <2>3, k \in LuaState, StartedFacts
  <2> QED BY <2>2, <2>4
<1>8. r.k = "resume" /\ DOMAIN r = {"k", "th", "old", "pc", "ch"} /\ r.old \in Int
  <2>1. n \in Int
    BY DEF Entry
  <2>2. r.k = "resume" /\ DOMAIN r = {"k", "th", "old", "pc", "ch"} /\ r.old = n + 1
    BY ONLY <1>6 DEF ResumeRecord
  <2> QED BY <2>1, <2>2
<1>9. \A k, t : Become(co, k, t) => L'[co] = k /\ cs' = t
  BY <1>1 DEF Become
<1>10. ASSUME Become(co, Finished(l, r, "ERR"), q) PROVE cs' = q /\ Idle(L'[co]) = "dead"
  <2>1. PICK k : k = Finished(l, r, "ERR")
    OBVIOUS
  <2>2. k.status = "ERR"
    BY <1>7, <1>8, <2>1, FinishedFacts
  <2>3. L'[co] = k /\ cs' = q
    BY <1>9, <1>10, <2>1
  <2> QED BY <2>2, <2>3 DEF Idle
<1>11. CASE ResumeOverflows(co, n, q)
  <2>1. PICK k : k = [L[co] EXCEPT !.nCcalls = n]
    OBVIOUS
  <2>2. L'[co] = k /\ cs' = q
    BY <1>9, <1>11, <2>1 DEF ResumeOverflows
  <2>3. k.status = L[co].status /\ k.hasfn = L[co].hasfn
    BY <1>1, <2>1 DEF LuaState
  <2>4. Idle(k) = Idle(L[co])
    BY <2>3 DEF Idle
  <2> QED BY <2>2, <2>4
<1>12. CASE lua_resumeerror(co, n, q)
  <2>1. resume_handle(co, l, q, r)
    BY <1>5, <1>6, <1>12 DEF lua_resumeerror
  <2>2. \/ resume_findhandler(l) = 0 /\ Become(co, Finished(l, r, "ERR"), q)
        \/ resume_findhandler(l) # 0 /\ cs' # q
    BY <1>1, <1>8, <2>1, HandleSteps
  <2>3. CASE resume_findhandler(l) = 0 /\ Become(co, Finished(l, r, "ERR"), q)
    BY <1>10, <2>3
  <2>4. CASE resume_findhandler(l) # 0 /\ cs' # q
    <3>1. L[co].status # "OK"
      <4> SUFFICES ASSUME L[co].status = "OK" PROVE FALSE
        OBVIOUS
      <4>1. DOMAIN l.ci = {}
        BY <1>3, <1>7
      <4>2. resume_findhandler(l) = 0
        BY <4>1 DEF resume_findhandler
      <4> QED BY <2>4, <4>2
    <3> QED BY <1>4, <2>4, <3>1
  <2> QED BY <2>2, <2>3, <2>4
<1>13. CASE \E fn \in CFunction \cup {"lua"}, tgt \in Thread : lua_resume(co, n, q, fn, tgt)
  <2>1. PICK fn, tgt : lua_resume(co, n, q, fn, tgt)
    BY <1>13
  <2>2. \/ l.status = "OK" /\ ~l.hasfn /\ Become(co, Finished(l, r, "ERR"), q)
        \/ /\ ~(l.status = "OK" /\ ~l.hasfn)
           /\ \E k, x : Become(co, k, q \o <<r, x>>) \/ Become(co, k, Append(q, r))
    <3>1. CASE l.status = "OK" /\ ~l.hasfn
      BY <1>5, <1>6, <2>1, <3>1 DEF lua_resume
    <3>2. CASE l.status = "OK" /\ l.hasfn
      BY <1>5, <1>6, <2>1, <3>2 DEF lua_resume
    <3>3. CASE l.status # "OK"
      BY <1>5, <1>6, <2>1, <3>3 DEF lua_resume
    <3> QED BY <3>1, <3>2, <3>3
  <2>3. CASE l.status = "OK" /\ ~l.hasfn /\ Become(co, Finished(l, r, "ERR"), q)
    BY <1>10, <2>3
  <2>4. CASE /\ ~(l.status = "OK" /\ ~l.hasfn)
             /\ \E k, x : Become(co, k, q \o <<r, x>>) \/ Become(co, k, Append(q, r))
    <3>1. cs' # q
      BY <1>1, <2>4, LongerBy DEF Become
    <3> QED BY <1>4, <1>7, <2>4, <3>1
  <2> QED BY <2>2, <2>3, <2>4
<1> QED BY <1>11, <1>12, <1>13 DEF Enters

\* A coroutine that was resumed and has not been left.
Owns(s, co) == \E i \in DOMAIN s : s[i].k = "resume" /\ s[i].th = co

\* Only the thread of a block gets a resume from it.
LEMMA OwnsBlock ==
  ASSUME NEW q \in Seq(Record), NEW th, NEW t, Block(q, th, t)
  PROVE  /\ ~Owns(q, th)
         /\ \A co : co # th => (Owns(t, co) <=> Owns(q, co))
         /\ Owns(t, th) <=> t[Len(q) + 1].k = "resume"
<1>1. /\ Len(q) \in Nat /\ Len(t) \in Nat /\ Len(t) > Len(q)
      /\ DOMAIN q = 1..Len(q) /\ DOMAIN t = 1..Len(t)
  BY LenProperties DEF Block
<1>2. \A i \in 1..Len(q) : t[i] = q[i] /\ q[i].th # th /\ i \in 1..Len(t)
  BY <1>1 DEF Block
<1>3. \A i \in 1..Len(t) : i \in 1..Len(q) \/ i \in Len(q)+1..Len(t)
  BY <1>1
<1>4. \A i \in Len(q)+1..Len(t) : t[i].th = th /\ (i = Len(q) + 1 \/ i \in Len(q)+2..Len(t))
  BY <1>1 DEF Block
<1>5. \A i \in Len(q)+2..Len(t) : t[i].k # "resume"
  BY DEF Block
<1>6. Len(q) + 1 \in 1..Len(t) /\ Len(q) + 1 \in Len(q)+1..Len(t)
  BY <1>1
<1>7. ~Owns(q, th)
  BY <1>1, <1>2 DEF Owns
<1>8. ASSUME NEW co, co # th PROVE Owns(t, co) <=> Owns(q, co)
  BY <1>1, <1>2, <1>3, <1>4, <1>8 DEF Owns
<1>9. Owns(t, th) <=> t[Len(q) + 1].k = "resume"
  BY <1>1, <1>2, <1>3, <1>4, <1>5, <1>6 DEF Owns
<1> QED BY <1>7, <1>8, <1>9

\* The chain after a step.
LEMMA ChainIsNext == Chain' = ChainOf(cs')
BY DEF Chain, ChainOf, Host, ThreadsOf, Resumes, ResumesOf, NthResume, One, RankedIn, UpTo

\* What a step of one thread does to the states.
LEMMA Moves ==
  ASSUME NEW th \in Thread, NEW k, NEW t, L \in [Thread -> LuaState], Become(th, k, t),
         \A co : co # th => (Owns(t, co) <=> Owns(cs, co))
  PROVE  /\ \A co \in Thread : co # th => State(co)' = State(co)
         /\ State(th)' = IF Owns(t, th) THEN "entered" ELSE Idle(k)
         /\ Chain' = ChainOf(t)
<1>1. L' = [L EXCEPT ![th] = k] /\ cs' = t
  BY DEF Become
<1>2. L'[th] = k /\ \A co \in Thread : co # th => L'[co] = L[co]
  BY <1>1
<1>3. \A co : State(co) = IF Owns(cs, co) THEN "entered" ELSE Idle(L[co])
  BY DEF State, Owns, Idle
<1>4. \A co : State(co)' = IF Owns(t, co) THEN "entered" ELSE Idle(L'[co])
  BY <1>1 DEF State, Owns, Idle
<1>5. \A co \in Thread : co # th => State(co)' = State(co)
  BY <1>2, <1>3, <1>4
<1>6. State(th)' = IF Owns(t, th) THEN "entered" ELSE Idle(k)
  BY <1>2, <1>4
<1>7. Chain' = ChainOf(t)
  BY <1>1, ChainIsNext
<1> QED BY <1>5, <1>6, <1>7

States == [co \in Thread \ {MainThread} |-> State(co)]

\* The steps of CoroutineChain: none, a thread entered, ended, the main thread started,
\* the newest thread left.
LEMMA PromiseStutters ==
  ASSUME Chain' = Chain, \A co \in Thread \ {MainThread} : State(co)' = State(co)
  PROVE  Chain' = Chain /\ States' = States
BY DEF States

LEMMA PromiseEnter ==
  ASSUME NEW co \in Thread \ {MainThread}, State(co) \in {"suspended", "broken"},
         Chain' = Append(Chain, co), State(co)' = "entered",
         \A x \in Thread \ {MainThread} : x # co => State(x)' = State(x)
  PROVE  Promise!Next
<1>1. /\ States[co] \in {"suspended", "broken"}
      /\ States' = [States EXCEPT ![co] = "entered"]
  BY DEF States
<1>2. Promise!Enter(co)
  BY <1>1 DEF Promise!Enter, States
<1> QED BY <1>2 DEF Promise!Next, Promise!Coroutines

LEMMA PromiseEnd ==
  ASSUME NEW co \in Thread \ {MainThread}, State(co) \in {"suspended", "broken"},
         Chain' = Chain, State(co)' = "dead",
         \A x \in Thread \ {MainThread} : x # co => State(x)' = State(x)
  PROVE  Promise!Next
<1>1. /\ States[co] \in {"suspended", "broken"}
      /\ States' = [States EXCEPT ![co] = "dead"]
  BY DEF States
<1>2. Promise!End(co)
  BY <1>1 DEF Promise!End, States
<1> QED BY <1>2 DEF Promise!Next, Promise!Coroutines

LEMMA PromiseStart ==
  ASSUME Chain = <<>>, Chain' = <<MainThread>>,
         \A co \in Thread \ {MainThread} : State(co)' = State(co)
  PROVE  Promise!Next
<1>1. States' = States
  BY DEF States
<1>2. Promise!Start
  BY <1>1 DEF Promise!Start, States
<1> QED BY <1>2 DEF Promise!Next

LEMMA PromiseLeave ==
  ASSUME NEW th \in Thread, Chain # <<>>, Chain' = Front(Chain), Last(Chain) = th,
         State(th)' # "entered",
         \A x \in Thread \ {MainThread} : State(x)' \in Promise!State,
         \A x \in Thread \ {MainThread} : x # th => State(x)' = State(x)
  PROVE  Promise!Next
<1>1. States' \in [Thread \ {MainThread} -> Promise!State]
  BY DEF States
<1>2. \A co \in Thread \ {MainThread} :
        IF co = Last(Chain) THEN States'[co] # "entered" ELSE States'[co] = States[co]
  BY DEF States
<1>3. Promise!Front(Chain) = Front(Chain) /\ Promise!Last(Chain) = Last(Chain)
  BY DEF Promise!Front, Promise!Last, Front, Last
<1>4. Promise!Leave
  BY <1>1, <1>2, <1>3 DEF Promise!Leave, Promise!Coroutines, States
<1> QED BY <1>4 DEF Promise!Next

\* A step of the thread at the top: it goes on, or it is left.
LEMMA RunsOrLeaves ==
  ASSUME NEW q, NEW th, NEW a, NEW l, At(q, a, th, l), Ends(q, th, a)
  PROVE  Promise!Next \/ (Chain' = Chain /\ States' = States)
<1>1. /\ q \in Seq(Record) /\ th \in Thread /\ a \in {"pcall", "resume"} /\ L \in [Thread -> LuaState]
      /\ Block(q, th, cs) /\ Heads(q, a, cs) /\ Shape(cs)
  BY DEF At, Context, Okay
<1>2. PICK k, t : Become(th, k, t) /\ Outcome(q, th, a, k, t)
  BY DEF Ends
<1>3. ChainOf(cs) = Append(ChainOf(q), th) /\ (a = "pcall" => th = MainThread)
  BY <1>1, ChainBlock
<1>4. ~Owns(q, th) /\ (\A co : co # th => (Owns(cs, co) <=> Owns(q, co))) /\ (Owns(cs, th) <=> a = "resume")
  BY <1>1, OwnsBlock DEF Heads
<1>5. CASE Okay(t, k) /\ Block(q, th, t) /\ Heads(q, a, t)
  <2>1. Shape(t)
    BY <1>5 DEF Okay
  <2>2. ChainOf(t) = Append(ChainOf(q), th)
    BY <1>1, <1>5, <2>1, ChainBlock
  <2>3. (\A co : co # th => (Owns(t, co) <=> Owns(q, co))) /\ (Owns(t, th) <=> a = "resume")
    BY <1>1, <1>5, OwnsBlock DEF Heads
  <2>4. /\ \A co \in Thread : co # th => State(co)' = State(co)
        /\ State(th)' = IF Owns(t, th) THEN "entered" ELSE Idle(k)
        /\ Chain' = ChainOf(t)
    BY <1>1, <1>2, <1>4, <2>3, Moves
  <2>5. th # MainThread => State(th)' = "entered" /\ State(th) = "entered"
    <3>1. th # MainThread => a = "resume"
      BY <1>1, <1>3
    <3>2. State(th) = IF Owns(cs, th) THEN "entered" ELSE Idle(L[th])
      BY DEF State, Owns, Idle
    <3> QED BY <1>4, <2>3, <2>4, <3>1, <3>2
  <2>6. Chain' = Chain
    BY <1>3, <2>2, <2>4, ChainIs
  <2>7. \A co \in Thread \ {MainThread} : State(co)' = State(co)
    BY <2>4, <2>5
  <2> QED BY <2>6, <2>7, PromiseStutters
<1>6. CASE t = q /\ k \in LuaState
  <2>1. \A co : co # th => (Owns(t, co) <=> Owns(cs, co))
    BY <1>4, <1>6
  <2>2. /\ \A co \in Thread : co # th => State(co)' = State(co)
        /\ State(th)' = IF Owns(t, th) THEN "entered" ELSE Idle(k)
        /\ Chain' = ChainOf(t)
    BY <1>1, <1>2, <2>1, Moves
  <2>3. State(th)' \in {"suspended", "broken", "dead"}
    BY <1>4, <1>6, <2>2, IdleTypes
  <2>4. Chain = Append(ChainOf(q), th) /\ Chain' = ChainOf(q)
    BY <1>3, <1>6, <2>2, ChainIs
  <2>5. Chain # <<>> /\ Chain' = Front(Chain) /\ Last(Chain) = th
    <3>1. PICK x \in Seq(Thread) : x = ChainOf(q)
      BY <1>1, ThreadsType
    <3>2. PICK c : c = Append(x, th)
      OBVIOUS
    <3>3. c \in Seq(Thread) /\ c # <<>> /\ Len(c) = Len(x) + 1 /\ Last(c) = th
      BY <1>1, <3>2, PushFacts
    <3>4. Front(c) = x
      <4>1. Under(c, Len(x)) = x
        BY <1>1, <3>2, PushFacts
      <4>2. Len(x) \in Nat /\ Len(c) - 1 = Len(x)
        BY <3>3, LenProperties
      <4> QED BY <3>3, <4>1, <4>2, FrontIsUnder
    <3> QED BY <2>4, <3>1, <3>2, <3>3, <3>4
  <2>6. \A x \in Thread \ {MainThread} : State(x)' \in Promise!State
    <3> TAKE x \in Thread \ {MainThread}
    <3>1. CASE x = th
      BY <2>3, <3>1 DEF Promise!State
    <3>2. CASE x # th
      <4>1. State(x)' = State(x) /\ L[x] \in LuaState
        BY <1>1, <2>2, <3>2
      <4>2. State(x) = "entered" \/ State(x) = Idle(L[x])
        BY DEF State, Idle
      <4> QED BY <4>1, <4>2, IdleTypes DEF Promise!State
    <3> QED BY <3>1, <3>2
  <2> QED BY <1>1, <2>2, <2>3, <2>5, <2>6, PromiseLeave
<1> QED BY <1>2, <1>5, <1>6 DEF Outcome

\* A step that leaves the stack as it was, for a thread without a record.
LEMMA Ended ==
  ASSUME NEW th \in Thread \ {MainThread}, NEW k, NEW t, L \in [Thread -> LuaState], Become(th, k, t),
         \A co : Owns(t, co) <=> Owns(cs, co), ~Owns(cs, th), ChainOf(t) = ChainOf(cs),
         Idle(k) \in {"dead", Idle(L[th])}
  PROVE  Promise!Next \/ (Chain' = Chain /\ States' = States)
<1>1. /\ \A co \in Thread : co # th => State(co)' = State(co)
      /\ State(th)' = Idle(k) /\ Chain' = Chain
  <2>1. /\ \A co \in Thread : co # th => State(co)' = State(co)
        /\ State(th)' = IF Owns(t, th) THEN "entered" ELSE Idle(k)
        /\ Chain' = ChainOf(t)
    BY Moves
  <2> QED BY <2>1, ChainIs
<1>2. State(th) = Idle(L[th])
  BY DEF State, Owns, Idle
<1>3. CASE Idle(k) = Idle(L[th])
  <2>1. \A co \in Thread \ {MainThread} : State(co)' = State(co)
    BY <1>1, <1>2, <1>3
  <2> QED BY <1>1, <2>1, PromiseStutters
<1>4. CASE Idle(k) = "dead" /\ Idle(L[th]) # "dead"
  <2>1. State(th) \in {"suspended", "broken"}
    BY <1>2, <1>4, IdleTypes
  <2> QED BY <1>1, <1>4, <2>1, PromiseEnd
<1> QED BY <1>3, <1>4

\* A thread is entered, or is resumed in vain.
LEMMA EnteredOrEnded ==
  ASSUME CoroutineInv, NEW q, NEW co, NEW n, NEW a, a = "resume", Entry(q, co, n), Same(q),
         Enters(q, co, n), Ends(q, co, a)
  PROVE  Promise!Next \/ (Chain' = Chain /\ States' = States)
<1>1. L \in [Thread -> LuaState] /\ co \in Thread \ {MainThread} /\ cs \in Seq(Record)
  BY StackDomain DEF CoroutineInv, Good, Entry
<1>2. /\ q \in Seq(Record) /\ Len(q) = Len(cs) /\ ChainOf(q) = ChainOf(cs)
      /\ \A i \in 1..Len(cs) : q[i].k = cs[i].k /\ q[i].th = cs[i].th
  BY ChainSame
<1>3. DOMAIN q = 1..Len(cs) /\ DOMAIN cs = 1..Len(cs) /\ Len(q) \in Nat
  BY <1>1, <1>2, LenProperties
<1>4. \A x : Owns(q, x) <=> Owns(cs, x)
  BY <1>2, <1>3 DEF Owns
<1>5. ~Owns(cs, co)
  BY <1>3 DEF Owns, Entry
<1>6. PICK k, t : Become(co, k, t) /\ Outcome(q, co, a, k, t)
  BY DEF Ends
<1>7. cs' = t /\ L'[co] = k
  BY <1>1, <1>6 DEF Become
<1>8. /\ cs' # q => Idle(L[co]) \in {"suspended", "broken"}
      /\ cs' = q => Idle(L'[co]) \in {"dead", Idle(L[co])}
  BY <1>1, EntersFrom
<1>9. CASE Okay(t, k) /\ Block(q, co, t) /\ Heads(q, a, t)
  <2>1. Shape(t)
    BY <1>9 DEF Okay
  <2>2. ChainOf(t) = Append(ChainOf(q), co)
    BY <1>1, <1>2, <1>9, <2>1, ChainBlock
  <2>3. (\A x : x # co => (Owns(t, x) <=> Owns(q, x))) /\ Owns(t, co)
    BY <1>2, <1>9, OwnsBlock DEF Heads
  <2>4. /\ \A x \in Thread : x # co => State(x)' = State(x)
        /\ State(co)' = IF Owns(t, co) THEN "entered" ELSE Idle(k)
        /\ Chain' = ChainOf(t)
    BY <1>1, <1>4, <1>6, <2>3, Moves
  <2>5. Chain' = Append(Chain, co) /\ State(co)' = "entered"
    BY <1>2, <2>2, <2>3, <2>4, ChainIs
  <2>6. cs' # q
    <3>1. Len(t) > Len(q)
      BY <1>9 DEF Block
    <3> QED BY <1>3, <1>7, <3>1
  <2>7. State(co) \in {"suspended", "broken"}
    <3>1. State(co) = Idle(L[co])
      BY <1>5 DEF State, Owns, Idle
    <3> QED BY <1>8, <2>6, <3>1
  <2> QED BY <1>1, <2>4, <2>5, <2>7, PromiseEnter
<1>10. CASE t = q
  <2>1. Idle(k) \in {"dead", Idle(L[co])}
    BY <1>7, <1>8, <1>10
  <2> QED BY <1>1, <1>2, <1>4, <1>5, <1>6, <1>10, <2>1, Ended
<1> QED BY <1>6, <1>9, <1>10 DEF Outcome

\* The host calls into the main thread.
LEMMA HostStarts ==
  ASSUME CoroutineInv, NEW a, a = "pcall", cs = <<>>, Ends(<<>>, MainThread, a)
  PROVE  Promise!Next \/ (Chain' = Chain /\ States' = States)
<1>1. L \in [Thread -> LuaState] /\ MainThread \in Thread
  BY CoroutineAssumption DEF CoroutineInv, Good
<1>2. PICK q \in Seq(Record) : q = <<>>
  <2>1. <<>> \in Seq(Record)
    OBVIOUS
  <2> QED BY <2>1, Zenon
<1>3. PICK k, t : Become(MainThread, k, t) /\ Outcome(q, MainThread, a, k, t)
  BY <1>2 DEF Ends
<1>4. ChainOf(q) = <<>> /\ Chain = <<>>
  <2>1. ResumesOf(q) = {}
    BY <1>2 DEF ResumesOf
  <2>2. ThreadsOf(q) = <<>>
    <3>1. ThreadsOf(q) \in Seq(Thread) /\ Len(ThreadsOf(q)) = 0
      BY <2>1, ThreadsType, FS_EmptySet
    <3> QED BY <3>1, EmptySeq
  <2>3. Host(q) = <<>>
    BY <1>2 DEF Host
  <2>4. ChainOf(q) = <<>>
    BY <2>2, <2>3 DEF ChainOf
  <2> QED BY <1>2, <2>4, ChainIs
<1>5. ASSUME \A co : co # MainThread => (Owns(t, co) <=> Owns(q, co))
      PROVE  Chain' = ChainOf(t) /\ \A co \in Thread \ {MainThread} : State(co)' = State(co)
  <2>1. \A co : co # MainThread => (Owns(t, co) <=> Owns(cs, co))
    BY <1>2, <1>5
  <2>2. /\ \A co \in Thread : co # MainThread => State(co)' = State(co)
        /\ Chain' = ChainOf(t)
    BY <1>1, <1>3, <2>1, Moves
  <2> QED BY <2>2
<1>6. CASE Okay(t, k) /\ Block(q, MainThread, t) /\ Heads(q, a, t)
  <2>1. Shape(t)
    BY <1>6 DEF Okay
  <2>2. ChainOf(t) = Append(ChainOf(q), MainThread)
    BY <1>1, <1>6, <2>1, ChainBlock
  <2>3. ChainOf(t) = <<MainThread>>
    BY <1>4, <2>2
  <2>4. \A co : co # MainThread => (Owns(t, co) <=> Owns(q, co))
    BY <1>6, OwnsBlock
  <2> QED BY <1>4, <1>5, <2>3, <2>4, PromiseStart
<1>7. CASE t = q
  BY <1>4, <1>5, <1>7, PromiseStutters
<1> QED BY <1>3, <1>6, <1>7 DEF Outcome

\* At first nothing is entered.
LEMMA PromiseInit ==
  ASSUME Init
  PROVE  Promise!Init
<1>1. Chain = <<>>
  <2>1. Resumes = {}
    BY DEF Init, Resumes
  <2>2. Cardinality(Resumes) = 0
    BY <2>1, FS_EmptySet
  <2> QED BY <2>2 DEF Init, Chain
<1>2. \A co \in Thread \ {MainThread} : State(co) = "suspended"
  <2> TAKE co \in Thread \ {MainThread}
  <2>1. L[co].status = "OK" /\ L[co].hasfn
    BY DEF Init, Fresh
  <2> QED BY <2>1 DEF Init, State
<1> QED BY <1>1, <1>2 DEF Promise!Init, Promise!Coroutines

\* Every step is one of the chain, or none.
LEMMA PromiseNext ==
  ASSUME InductiveInv, [Next]_vars
  PROVE  Promise!Next \/ (Chain' = Chain /\ States' = States)
<1>1. CoroutineInv
  BY DEF InductiveInv
<1>2. CASE UNCHANGED vars
  <2>1. Chain' = Chain
    BY <1>2 DEF vars, Chain, Resumes, NthResume
  <2>2. \A co \in Thread \ {MainThread} : State(co)' = State(co)
    BY <1>2 DEF vars, State
  <2> QED BY <2>1, <2>2, PromiseStutters
<1>3. CASE Next
  <2>1. PICK q, th, a : Context(q, th) /\ Ends(q, th, a) /\ Origin(q, th, a)
    BY <1>3, NextEnds
  <2>2. CASE \E l : At(q, a, th, l)
    BY <2>1, <2>2, RunsOrLeaves
  <2>3. CASE (\E fn \in Callee : HostPcall(fn)) /\ q = <<>> /\ th = MainThread /\ a = "pcall"
    <3>1. cs = <<>>
      BY <2>3 DEF HostPcall
    <3> QED BY <1>1, <2>1, <2>3, <3>1, HostStarts
  <2>4. CASE a = "resume" /\ \E n : Entry(q, th, n) /\ Same(q) /\ Enters(q, th, n)
    BY <1>1, <2>1, <2>4, EnteredOrEnded
  <2>5. CASE th \in Thread /\ coclose(th) /\ \A i \in 1..Len(cs) : cs[i].th # th
    <3>1. th # MainThread /\ L \in [Thread -> LuaState]
      BY <1>1, <2>5 DEF coclose, CoroutineInv, Good
    <3>2. PICK k : k = [Fresh EXCEPT !.hasfn = FALSE, !.isactive = L[th].isactive]
      OBVIOUS
    <3>3. Become(th, k, cs)
      BY <2>5, <3>2 DEF coclose
    <3>4. Idle(k) = "dead"
      <4>1. k.status = "OK" /\ ~k.hasfn
        BY <3>2 DEF Fresh
      <4> QED BY <4>1 DEF Idle
    <3>5. ~Owns(cs, th)
      BY <1>1, <2>5, StackDomain DEF Owns
    <3> QED BY <2>5, <3>1, <3>3, <3>4, <3>5, Ended
  <2> QED BY <2>1, <2>2, <2>3, <2>4, <2>5 DEF Origin
<1> QED BY <1>2, <1>3

\* Threads implement coroutines: a thread is entered only while it is suspended or
\* broken, only the newest is left, and a dead one stays dead, for any number of
\* threads and any limits (lua_resume, lua_resumeerror, lua_resetthread).
THEOREM ImplementsCoroutines == Spec => ImplementsChain
<1>1. Init => Promise!Init
  BY PromiseInit
<1>2. InductiveInv /\ [Next]_vars => [Promise!Next]_<<Chain, States>>
  BY PromiseNext
<1>3. Init => InductiveInv
  BY InvInit
<1>4. InductiveInv /\ [Next]_vars => InductiveInv'
  BY InvNext
<1> QED BY <1>1, <1>2, <1>3, <1>4, PTL DEF Spec, ImplementsChain, Promise!Spec, States

=============================================================================
