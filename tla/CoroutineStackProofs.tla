----------------------- MODULE CoroutineStackProofs ------------------------
(* How the records of Coroutine's native stack, the frames of a thread and its *)
(* counters fit together, and how the pieces every step is made of keep them   *)
(* so: pushing a record, popping one, and throwing to whatever catches.        *)
EXTENDS Coroutine, SequenceTheorems, FiniteSetTheorems, WellFoundedInduction, TLAPS

-----------------------------------------------------------------------------
(* Types.                                                                    *)

LuaState ==
  [status : {"OK", "ERR"} \cup Yielded, ci : Seq(CallInfo), nCcalls : Int,
   baseCcalls : Int, isactive : BOOLEAN, hasfn : BOOLEAN]

ExecuteRec == [k : {"execute"}, th : Thread]
CRec == [k : {"c"}, th : Thread, ci : Nat \ {0},
         pc : {"run", "cont", "wait", "error", "failed"}]
CallRec == [k : {"call"}, th : Thread, kind : {"int", "iter", "ny"}, y : BOOLEAN,
            act : BOOLEAN, ci : Nat]
PcallRec == [k : {"pcall"}, th : Thread, n : Int, base : Int, ci : Nat, act : BOOLEAN,
             ef : BOOLEAN, pc : {"run", "errf"}]
ResumeRec == [k : {"resume"}, th : Thread, old : Int, pc : {"loop", "errf"}, ch : Nat]
Record == ExecuteRec \cup CRec \cup CallRec \cup PcallRec \cup ResumeRec

-----------------------------------------------------------------------------
(* The native stack by itself.                                               *)

\* What may lie directly on a record of the native stack.
Follows(r, q) ==
  IF q.k = "resume" THEN r.k = "c" /\ r.pc = "wait"
  ELSE /\ q.th = r.th
       /\ r.k = "execute" => q.k \in {"c", "call"}
       /\ r.k = "c" => r.pc = "wait" /\ ((q.k = "call" /\ q.ci = r.ci) \/ q.k = "pcall")
       /\ r.k = "call" => q.k = "execute" \/ (q.k = "c" /\ q.ci = r.ci + 1)
       /\ r.k = "pcall" => q.k = "call" /\ IF r.pc = "errf" THEN ~q.y ELSE q.ci = r.ci
       /\ r.k = "resume" => IF r.pc = "errf" THEN q.k = "call" /\ ~q.y
                            ELSE q.k \in {"execute", "c"}

\* The host calls the main thread protected or resumes a coroutine.
Bottom(r) ==
  \/ r.k = "resume"
  \/ r.k = "pcall" /\ r.th = MainThread /\ ~r.act /\ ~r.ef /\ r.pc = "run" /\ r.ci = 0

\* The calls and resumes of a stack; the calls of one thread from functions with
\* and without a continuation.
Nested(s) == {i \in 1..Len(s) : s[i].k \in {"call", "resume"}}
CallsOf(s, th, y) == {i \in 1..Len(s) : s[i].th = th /\ s[i].k = "call" /\ s[i].y = y}

\* No error function of thread th runs.
Undisturbed(s, th) ==
  \A i \in 1..Len(s) : s[i].th = th /\ s[i].k \in {"pcall", "resume"} => s[i].pc # "errf"

\* The counts n and base of thread th fit a stack: n covers everything nested, base
\* what was nested when the thread was resumed and its calls with a continuation,
\* and their difference is the number of its calls without one (more only while
\* an error function runs, on top of the counts of the error).
CountsCover(s, th, n, base) ==
  /\ n >= Cardinality(Nested(s))
  /\ n - base >= Cardinality(CallsOf(s, th, FALSE))
  /\ \A i \in 1..Len(s) : s[i].th = th /\ s[i].k = "resume"
        => base >= s[i].old + Cardinality(CallsOf(s, th, TRUE))
CountsFit(s, th, n, base) ==
  /\ CountsCover(s, th, n, base)
  /\ Undisturbed(s, th) => n - base = Cardinality(CallsOf(s, th, FALSE))

\* The newest frame that record r stands for.
Reach(r) ==
  IF r.k \in {"c", "call", "pcall"} THEN r.ci
  ELSE IF r.k = "resume" /\ r.pc = "errf" THEN r.ch ELSE 0

\* Record r may be put on stack s.
Lands(s, r) ==
  /\ IF s = <<>> THEN Bottom(r) ELSE Follows(Last(s), r)
  /\ Len(s) = 1 /\ s[1].k = "pcall" => ~r.y /\ ~r.act
  /\ r.k = "resume" => /\ r.th # MainThread
                       /\ \A m \in 1..Len(s) : s[m].th # r.th
                       /\ r.old >= Cardinality(Nested(s)) + 1
  /\ r.k = "call" /\ r.kind = "ny" => ~r.y
  /\ r.k \in {"call", "pcall"} =>
       \A m \in 1..Len(s) : s[m].th = r.th /\ s[m].k \in {"execute", "resume"} => r.act
  /\ r.k \in {"c", "call", "pcall"} =>
       \A m \in 1..Len(s) : s[m].th = r.th =>
         Reach(s[m]) <= r.ci /\ (r.k = "c" => Reach(s[m]) < r.ci)
  /\ r.k = "pcall" => CountsFit(s, r.th, r.n, r.base)

\* The newest records belong to one thread, down to the one that entered it.
Based(s) ==
  \E b \in 1..Len(s) :
    /\ b = 1 \/ s[b].k = "resume"
    /\ \A m \in b..Len(s) : s[m].th = Last(s).th

\* The oldest i records of a stack.
Under(s, i) == SubSeq(s, 1, i)

Shape(s) ==
  /\ s \in Seq(Record)
  /\ \A i \in 1..Len(s) : Lands(Under(s, i - 1), s[i]) /\ Based(Under(s, i))

-----------------------------------------------------------------------------
(* The frames of a thread and its part of the native stack.                  *)

FnOf(l, m) == l.ci[m].fn

FramesOK(l) ==
  \A m \in 1..Len(l.ci) :
    /\ FnOf(l, m) = "lua" /\ ~l.ci[m].ret => m > 1 /\ FnOf(l, m - 1) = "lua"
    /\ l.ci[m].handle => FnOf(l, m) \in {"pcall", "xpcall"}

\* The frames up to h can be continued, or the thread on top of stack p cannot
\* yield.
Continuable(l, h) == \A m \in 1..h : FnOf(l, m) # "c"
Accounted(p, h, l) == CallsOf(p, Last(p).th, FALSE) # {} \/ Continuable(l, h)

\* The interpreter loop on top of stack p has frame h as its newest.
Runs(p, h, l) ==
  /\ h \in 1..Len(l.ci) /\ FnOf(l, h) = "lua" /\ Accounted(p, h, l)
  /\ Len(p) > 1 /\ p[Len(p)-1].k = "call" =>
       /\ h > p[Len(p)-1].ci
       /\ l.ci[p[Len(p)-1].ci + 1].ret
       /\ \A m \in p[Len(p)-1].ci + 2..h : ~l.ci[m].ret

\* Record r on stack p agrees with the frames of its thread.
Sits(p, r, l) ==
  /\ Reach(r) <= Len(l.ci)
  /\ r.k = "c" => /\ FnOf(l, r.ci) # "lua" /\ Accounted(p, r.ci - 1, l)
                  /\ r.pc = "error" => FnOf(l, r.ci) \in {"pcall", "xpcall"}
                  /\ Last(p).k = "execute" => Runs(p, r.ci - 1, l)
  /\ r.k = "call" => /\ r.y => Accounted(p, r.ci, l)
                     /\ Last(p).k = "execute" => Runs(p, r.ci, l)
                     /\ Last(p).k = "c" => FnOf(l, r.ci) = IF r.y THEN "k" ELSE "c"
                     /\ Last(p).k = "pcall" /\ r.y => r.ci > 0 /\ FnOf(l, r.ci) # "c"
  /\ r.k = "pcall" /\ p # <<>> =>
       /\ FnOf(l, Last(p).ci) \in {"c", "pcall", "xpcall"}
       /\ FnOf(l, Last(p).ci) = "c" => r.ci = Last(p).ci
  /\ r.k = "resume" /\ r.pc = "errf" =>
       r.ch > 0 /\ FnOf(l, r.ch) \in {"pcall", "xpcall"} /\ Continuable(l, r.ch)

\* The records of the thread on top.
In(s, i) == i \in 1..Len(s) /\ s[i].th = Last(s).th

SitsAll(s, l) == \A i \in 1..Len(s) : In(s, i) => Sits(Under(s, i - 1), s[i], l)

ActiveFits(s, l) ==
  /\ (\E i \in 1..Len(s) : In(s, i) /\ s[i].k \in {"execute", "resume"}) => l.isactive
  /\ Len(s) = 1 /\ s[1].k = "pcall" => ~l.isactive

\* A frame that handles errors waits for its luaD_pcall on the native stack, or
\* everything below it can be continued.
Handles(s, l) ==
  \A m \in 1..Len(l.ci) : l.ci[m].handle =>
    \/ Continuable(l, m)
    \/ \E i \in 1..Len(s) : In(s, i) /\ s[i].k = "c" /\ s[i].pc = "wait" /\ s[i].ci = m

FramesFit(s, l) == SitsAll(s, l) /\ ActiveFits(s, l) /\ Handles(s, l)

\* What the newest record says while the thread runs.
TopFits(s, l) ==
  LET r == Last(s)
      n == Len(l.ci)
  IN /\ r.k = "execute" => Runs(s, n, l)
     /\ r.k = "call" => n = r.ci
     /\ r.k = "pcall" /\ r.pc = "run" => n = r.ci
     /\ r.k = "c" /\ (r.pc \notin {"wait", "error"} \/ FnOf(l, r.ci) \notin {"pcall", "xpcall"})
          => n = r.ci
     /\ r.k = "resume" /\ r.pc = "loop" => Continuable(l, n)

\* The thread has yielded, and all it has on the native stack can be continued.
Unwinds(s, l) ==
  /\ l.status \in Yielded /\ Last(s).th # MainThread
  /\ l.ci # <<>> /\ Continuable(l, Len(l.ci) - 1)
  /\ l.status = "REENTRY" => Continuable(l, Len(l.ci))
  /\ CallsOf(s, Last(s).th, FALSE) = {}
  /\ \A i \in 1..Len(s) : In(s, i) =>
       /\ s[i].k = "c" => s[i].pc = "wait" /\ FnOf(l, s[i].ci) # "resume"
       /\ s[i].k \in {"pcall", "resume"} => s[i].pc # "errf"

\* The thread whose records end the stack s is in a state that fits them.
Fits(s, l) ==
  /\ FramesFit(s, l)
  /\ IF l.status = "OK" THEN TopFits(s, l) ELSE Unwinds(s, l)
  /\ CountsFit(s, Last(s).th, l.nCcalls, l.baseCcalls)

\* A thread without a record.
Off(th, l) ==
  /\ ~l.isactive
  /\ l.status # "REENTRY"
  /\ l.status = "OK" => l.ci = <<>>
  /\ l.status \in Yielded => l.ci # <<>> /\ Continuable(l, Len(l.ci) - 1)
  /\ th = MainThread => l.status = "OK" /\ l.nCcalls >= 0 /\ l.nCcalls = l.baseCcalls

Good(Lf, s, fl) ==
  /\ Lf \in [Thread -> LuaState]
  /\ \A th \in Thread : FramesOK(Lf[th])
  /\ Shape(s)
  /\ \A i \in 1..Len(s) : s[i].k = "resume" /\ s[i].pc = "errf" => fl.LuauCustomYieldablePcalls
  /\ \A i \in 1..Len(s)-1 : s[i+1].k = "resume" =>
       Lf[s[i].th].status = "OK" /\ Fits(Under(s, i), Lf[s[i].th])
  /\ s # <<>> => Fits(s, Lf[Last(s).th])
  /\ \A th \in Thread : (\A i \in 1..Len(s) : s[i].th # th) => Off(th, Lf[th])

CoroutineInv == flags \in Flags /\ Good(L, cs, flags)

-----------------------------------------------------------------------------
(* Stacks.                                                                   *)

\* What SubSeq leaves of a stack.
LEMMA UnderFacts ==
  ASSUME NEW S, NEW s \in Seq(S), NEW j \in 0..Len(s)
  PROVE  /\ Under(s, j) \in Seq(S)
         /\ Len(Under(s, j)) = j
         /\ \A i \in 1..j : Under(s, j)[i] = s[i]
         /\ j > 0 => Last(Under(s, j)) = s[j]
         /\ j = 0 => Under(s, j) = <<>>
<1>1. \A i \in 1..j : s[i] \in S
  BY ElementOfSeq
<1>2. /\ Under(s, j) \in Seq(S)
      /\ Len(Under(s, j)) = j
      /\ \A i \in 1..j : Under(s, j)[i] = s[1 + i - 1]
  <2>1. Len(s) \in Nat
    BY LenProperties
  <2>2. 1 \in Int /\ j \in Int
    BY <2>1
  <2> QED BY <1>1, <2>1, <2>2, SubSeqProperties DEF Under
<1>3. Len(s) \in Nat
  BY LenProperties
<1>4. j = 0 => Under(s, j) = <<>>
  BY <1>2, EmptySeq
<1> QED BY <1>2, <1>3, <1>4 DEF Last

\* What is under what is under.
LEMMA UnderUnder ==
  ASSUME NEW S, NEW s \in Seq(S), NEW j \in 0..Len(s), NEW i \in 0..j
  PROVE  Under(Under(s, j), i) = Under(s, i)
<1>1. Len(s) \in Nat
  BY LenProperties
<1>2. Under(s, j) \in Seq(S) /\ Len(Under(s, j)) = j
  BY UnderFacts
<1>3. /\ Under(s, i) \in Seq(S) /\ Len(Under(s, i)) = i
      /\ \A m \in 1..i : Under(s, i)[m] = s[m]
  <2>1. i \in 0..Len(s)
    BY <1>1
  <2> QED BY <2>1, UnderFacts
<1>4. /\ Under(Under(s, j), i) \in Seq(S) /\ Len(Under(Under(s, j), i)) = i
      /\ \A m \in 1..i : Under(Under(s, j), i)[m] = Under(s, j)[m]
  BY <1>2, UnderFacts
<1>5. \A m \in 1..j : Under(s, j)[m] = s[m]
  BY UnderFacts
<1> QED BY <1>1, <1>3, <1>4, <1>5, SeqEqual

\* Two stacks that agree on the oldest i records.
LEMMA UnderAgree ==
  ASSUME NEW S, NEW s \in Seq(S), NEW t \in Seq(S), NEW i \in 0..Len(s), i <= Len(t),
         \A m \in 1..i : t[m] = s[m]
  PROVE  Under(t, i) = Under(s, i)
<1>1. Len(s) \in Nat /\ Len(t) \in Nat
  BY LenProperties
<1>2. /\ Under(s, i) \in Seq(S) /\ Len(Under(s, i)) = i
      /\ \A m \in 1..i : Under(s, i)[m] = s[m]
  BY UnderFacts
<1>3. /\ Under(t, i) \in Seq(S) /\ Len(Under(t, i)) = i
      /\ \A m \in 1..i : Under(t, i)[m] = t[m]
  <2>1. i \in 0..Len(t)
    BY <1>1
  <2> QED BY <2>1, UnderFacts
<1> QED BY <1>1, <1>2, <1>3, SeqEqual

\* All of a sequence.
LEMMA UnderAll ==
  ASSUME NEW S, NEW s \in Seq(S)
  PROVE  Under(s, Len(s)) = s
BY SubSeqFull DEF Under

\* A record on top.
LEMMA PushFacts ==
  ASSUME NEW S, NEW s \in Seq(S), NEW r \in S
  PROVE  /\ Append(s, r) \in Seq(S)
         /\ Append(s, r) # <<>>
         /\ Len(Append(s, r)) = Len(s) + 1
         /\ \A i \in 1..Len(s) : Append(s, r)[i] = s[i]
         /\ Append(s, r)[Len(s) + 1] = r
         /\ Last(Append(s, r)) = r
         /\ Under(Append(s, r), Len(s)) = s
<1>1. /\ Append(s, r) \in Seq(S)
      /\ Append(s, r) # <<>>
      /\ Len(Append(s, r)) = Len(s) + 1
      /\ \A i \in 1..Len(s) : Append(s, r)[i] = s[i]
      /\ Append(s, r)[Len(s) + 1] = r
  BY AppendProperties
<1>2. Len(s) \in Nat
  BY LenProperties
<1>3. Under(Append(s, r), Len(s)) = Under(s, Len(s))
  <2> DEFINE t == Append(s, r)
  <2>1. t \in Seq(S) /\ Len(s) \in 0..Len(s) /\ Len(s) <= Len(t)
    BY <1>1, <1>2
  <2>2. \A m \in 1..Len(s) : t[m] = s[m]
    BY <1>1
  <2> HIDE DEF t
  <2>3. Under(t, Len(s)) = Under(s, Len(s))
    BY <2>1, <2>2, UnderAgree
  <2> QED BY <2>3 DEF t
<1> QED BY <1>1, <1>3, UnderAll DEF Last

\* The operators of the model in these terms.
LEMMA FrontIsUnder ==
  ASSUME NEW S, NEW s \in Seq(S), s # <<>>
  PROVE  Front(s) = Under(s, Len(s) - 1) /\ Len(s) \in Nat /\ Len(s) > 0
<1>1. Len(s) \in Nat \ {0}
  BY EmptySeq
<1> QED BY <1>1 DEF Front, Under

\* Two records pushed at once are two pushes, and three are three.
LEMMA PushTwo ==
  ASSUME NEW S, NEW s \in Seq(S), NEW r \in S, NEW q \in S
  PROVE  s \o <<r, q>> = Append(Append(s, r), q)
<1>1. <<r, q>> \in Seq(S) /\ Len(<<r, q>>) = 2 /\ <<r, q>>[1] = r /\ <<r, q>>[2] = q
  OBVIOUS
<1>2. Len(s) \in Nat
  BY LenProperties
<1>3. /\ s \o <<r, q>> \in Seq(S) /\ Len(s \o <<r, q>>) = Len(s) + 2
      /\ \A i \in 1..Len(s) + 2 : (s \o <<r, q>>)[i] =
            IF i <= Len(s) THEN s[i] ELSE <<r, q>>[i - Len(s)]
  BY <1>1, ConcatProperties
<1> DEFINE t == Append(s, r)
           u == Append(t, q)
<1>4. /\ t \in Seq(S) /\ Len(t) = Len(s) + 1 /\ t[Len(s) + 1] = r
      /\ \A i \in 1..Len(s) : t[i] = s[i]
  BY AppendProperties
<1> HIDE DEF t
<1>5. /\ u \in Seq(S) /\ Len(u) = Len(t) + 1 /\ u[Len(t) + 1] = q
      /\ \A i \in 1..Len(t) : u[i] = t[i]
  BY <1>4, AppendProperties
<1> HIDE DEF u
<1>6. \A i \in 1..Len(s) + 2 : u[i] = IF i <= Len(s) THEN s[i] ELSE <<r, q>>[i - Len(s)]
  <2> TAKE i \in 1..Len(s) + 2
  <2>1. CASE i <= Len(s)
    BY <1>2, <1>4, <1>5, <2>1
  <2>2. CASE i = Len(s) + 1
    <3>1. i - Len(s) = 1
      BY <1>2, <2>2
    <3> QED BY <1>1, <1>2, <1>4, <1>5, <2>2, <3>1
  <2>3. CASE i = Len(s) + 2
    <3>1. i - Len(s) = 2
      BY <1>2, <2>3
    <3> QED BY <1>1, <1>2, <1>4, <1>5, <2>3, <3>1
  <2> QED BY <1>2, <2>1, <2>2, <2>3
<1>7. s \o <<r, q>> = u
  <2> DEFINE v == s \o <<r, q>>
  <2>1. v \in Seq(S) /\ Len(v) = Len(u) /\ \A i \in 1..Len(v) : v[i] = u[i]
    BY <1>2, <1>3, <1>4, <1>5, <1>6
  <2> HIDE DEF v
  <2>2. v = u
    BY <1>5, <2>1, SeqEqual
  <2> QED BY <2>2 DEF v
<1> QED BY <1>7 DEF t, u

LEMMA PushThree ==
  ASSUME NEW S, NEW s \in Seq(S), NEW r \in S, NEW q \in S, NEW p \in S
  PROVE  s \o <<r, q, p>> = Append(Append(Append(s, r), q), p)
<1>1. <<r, q, p>> = <<r, q>> \o <<p>> /\ <<r, q>> \in Seq(S) /\ <<p>> \in Seq(S)
  OBVIOUS
<1>2. s \o <<r, q, p>> = (s \o <<r, q>>) \o <<p>>
  BY <1>1, ConcatAssociative
<1>3. s \o <<r, q>> \in Seq(S)
  BY <1>1, ConcatProperties
<1>4. (s \o <<r, q>>) \o <<p>> = Append(s \o <<r, q>>, p)
  BY <1>3, AppendIsConcat
<1> QED BY <1>2, <1>4, PushTwo

-----------------------------------------------------------------------------
(* The shape of the native stack.                                            *)

\* The kinds of records are told apart by their first field.
LEMMA RecordKinds ==
  ASSUME NEW r \in Record
  PROVE  /\ r.th \in Thread
         /\ r.k \in {"execute", "c", "call", "pcall", "resume"}
         /\ r.k = "execute" <=> r \in ExecuteRec
         /\ r.k = "c" <=> r \in CRec
         /\ r.k = "call" <=> r \in CallRec
         /\ r.k = "pcall" <=> r \in PcallRec
         /\ r.k = "resume" <=> r \in ResumeRec
BY DEF Record, ExecuteRec, CRec, CallRec, PcallRec, ResumeRec

\* What is left of a well-shaped stack when records are taken off is well shaped.
LEMMA ShapeUnder ==
  ASSUME NEW s, Shape(s), NEW j \in 0..Len(s)
  PROVE  Shape(Under(s, j))
<1>1. s \in Seq(Record) /\ Len(s) \in Nat
  BY LenProperties DEF Shape
<1>2. Under(s, j) \in Seq(Record) /\ Len(Under(s, j)) = j
      /\ \A i \in 1..j : Under(s, j)[i] = s[i]
  BY <1>1, UnderFacts
<1>3. ASSUME NEW i \in 1..j
      PROVE  Under(Under(s, j), i - 1) = Under(s, i - 1) /\ Under(Under(s, j), i) = Under(s, i)
  <2>1. i \in 0..j /\ i - 1 \in 0..j
    BY <1>1
  <2> QED BY <1>1, <2>1, UnderUnder
<1>4. \A i \in 1..j : Lands(Under(s, i - 1), s[i]) /\ Based(Under(s, i))
  BY <1>1 DEF Shape
<1> QED BY <1>2, <1>3, <1>4 DEF Shape

\* A record that may land on a well-shaped stack leaves it well shaped.
LEMMA ShapePush ==
  ASSUME NEW s, Shape(s), NEW r \in Record, Lands(s, r)
  PROVE  Shape(Append(s, r))
<1> DEFINE t == Append(s, r)
<1>1. s \in Seq(Record) /\ Len(s) \in Nat
  BY LenProperties DEF Shape
<1>2. /\ t \in Seq(Record) /\ Len(t) = Len(s) + 1
      /\ \A i \in 1..Len(s) : t[i] = s[i]
      /\ t[Len(s) + 1] = r /\ Last(t) = r /\ Under(t, Len(s)) = s
  BY <1>1, PushFacts
<1> HIDE DEF t
<1>3. \A i \in 0..Len(s) : Under(t, i) = Under(s, i)
  <2> TAKE i \in 0..Len(s)
  <2>1. i <= Len(t) /\ \A m \in 1..i : t[m] = s[m]
    BY <1>1, <1>2
  <2> QED BY <1>1, <1>2, <2>1, UnderAgree
<1>4. \A i \in 1..Len(s) : Lands(Under(t, i - 1), t[i]) /\ Based(Under(t, i))
  <2> TAKE i \in 1..Len(s)
  <2>1. i \in 0..Len(s) /\ i - 1 \in 0..Len(s)
    BY <1>1
  <2> QED BY <1>2, <1>3, <2>1 DEF Shape
<1>5. Lands(Under(t, Len(s) + 1 - 1), t[Len(s) + 1])
  BY <1>1, <1>2
<1>6. Based(t)
  <2>1. CASE r.k = "resume" \/ s = <<>>
    <3>1. s = <<>> => Len(s) = 0
      BY EmptySeq
    <3> QED BY <1>1, <1>2, <2>1, <3>1 DEF Based
  <2>2. CASE r.k # "resume" /\ s # <<>>
    <3>1. r.th = Last(s).th
      BY <2>2 DEF Lands, Follows
    <3>2. Len(s) > 0 /\ Len(s) \in 1..Len(s) /\ Under(s, Len(s)) = s
      BY <1>1, <2>2, EmptySeq, UnderAll
    <3>3. Based(s)
      BY <3>2 DEF Shape
    <3>4. PICK b \in 1..Len(s) : /\ b = 1 \/ s[b].k = "resume"
                                 /\ \A m \in b..Len(s) : s[m].th = Last(s).th
      BY <3>3 DEF Based
    <3>5. b \in 1..Len(t) /\ (b = 1 \/ t[b].k = "resume")
      BY <1>1, <1>2, <3>4
    <3>6. \A m \in b..Len(t) : t[m].th = Last(t).th
      <4> TAKE m \in b..Len(t)
      <4>1. CASE m = Len(s) + 1
        BY <1>2, <4>1
      <4>2. CASE m # Len(s) + 1
        <5>1. m \in 1..Len(s) /\ m \in b..Len(s)
          BY <1>1, <1>2, <3>4, <4>2
        <5> QED BY <1>2, <3>1, <3>4, <5>1
      <4> QED BY <4>1, <4>2
    <3> QED BY <3>5, <3>6 DEF Based
  <2> QED BY <2>1, <2>2
<1>7. Under(t, Len(s) + 1) = t
  BY <1>2, UnderAll
<1>8. Shape(t)
  BY <1>1, <1>2, <1>4, <1>5, <1>6, <1>7 DEF Shape
<1> QED BY <1>8 DEF t

\* What the shape says of a record and those below it.
LEMMA ShapeAt ==
  ASSUME NEW s, Shape(s), NEW i \in 1..Len(s)
  PROVE  /\ s \in Seq(Record) /\ Len(s) \in Nat /\ s[i] \in Record
         /\ i = 1 => Bottom(s[1])
         /\ i > 1 => Follows(s[i-1], s[i])
         /\ i = 2 /\ s[1].k = "pcall" => ~s[2].y /\ ~s[2].act
         /\ s[i].k = "resume" => /\ s[i].th # MainThread
                                 /\ \A m \in 1..i-1 : s[m].th # s[i].th
         /\ s[i].k = "call" /\ s[i].kind = "ny" => ~s[i].y
         /\ s[i].k \in {"call", "pcall"} =>
              \A m \in 1..i-1 : s[m].th = s[i].th /\ s[m].k \in {"execute", "resume"} => s[i].act
         /\ s[i].k \in {"c", "call", "pcall"} =>
              \A m \in 1..i-1 : s[m].th = s[i].th =>
                Reach(s[m]) <= s[i].ci /\ (s[i].k = "c" => Reach(s[m]) < s[i].ci)
<1>1. s \in Seq(Record) /\ Len(s) \in Nat
  BY LenProperties DEF Shape
<1> DEFINE p == Under(s, i - 1)
<1>2. i - 1 \in 0..Len(s)
  BY <1>1
<1>3. /\ Len(p) = i - 1 /\ \A m \in 1..i-1 : p[m] = s[m]
      /\ i - 1 > 0 => Last(p) = s[i-1]
      /\ i - 1 = 0 => p = <<>>
  BY <1>1, <1>2, UnderFacts
<1>4. Lands(p, s[i])
  BY DEF Shape
<1>5. i > 1 => p # <<>>
  BY <1>1, <1>3, EmptySeq
<1> HIDE DEF p
<1>6. s[i] \in Record
  BY <1>1, ElementOfSeq
<1> QED BY <1>1, <1>3, <1>4, <1>5, <1>6 DEF Lands

\* The records of the thread on top begin at b.
Base(s, b) ==
  /\ b \in 1..Len(s)
  /\ b = 1 \/ s[b].k = "resume"
  /\ \A m \in b..Len(s) : s[m].th = Last(s).th
  /\ \A m \in 1..b-1 : s[m].th # Last(s).th
  /\ \A m \in b+1..Len(s) : s[m].k # "resume"

\* The records of the newest thread begin somewhere.
LEMMA BaseExists ==
  ASSUME NEW s, Shape(s), s # <<>>
  PROVE  \E b : Base(s, b)
<1>1. s \in Seq(Record) /\ Len(s) \in Nat /\ Len(s) > 0
  BY EmptySeq, LenProperties DEF Shape
<1>2. Based(s)
  BY <1>1, UnderAll DEF Shape
<1>3. PICK b \in 1..Len(s) : /\ b = 1 \/ s[b].k = "resume"
                             /\ \A m \in b..Len(s) : s[m].th = Last(s).th
  BY <1>2 DEF Based
<1>4. \A m \in 1..b-1 : s[m].th # Last(s).th
  BY <1>1, <1>3, ShapeAt
<1>5. \A m \in b+1..Len(s) : s[m].k # "resume"
  BY <1>1, <1>3, ShapeAt
<1> QED BY <1>3, <1>4, <1>5 DEF Base

-----------------------------------------------------------------------------
(* Steps on one thread keep the others as they are.                          *)

\* The thread on top leaves the native stack.
LEMMA GoodLeaves ==
  ASSUME NEW Lf, NEW s, NEW fl, Good(Lf, s, fl), s # <<>>, NEW b, Base(s, b),
         NEW l \in LuaState, FramesOK(l), Off(Last(s).th, l)
  PROVE  Good([Lf EXCEPT ![Last(s).th] = l], Under(s, b - 1), fl)
<1> DEFINE th == Last(s).th
           G == [Lf EXCEPT ![th] = l]
           t == Under(s, b - 1)
<1>1. /\ s \in Seq(Record) /\ Len(s) \in Nat /\ Len(s) > 0 /\ Shape(s)
      /\ b \in Nat /\ b > 0 /\ b <= Len(s)
  BY EmptySeq, LenProperties DEF Good, Shape, Base
<1>2. Last(s) \in Record /\ th \in Thread
  BY <1>1, ElementOfSeq, RecordKinds DEF Last
<1>3. G \in [Thread -> LuaState] /\ G[th] = l /\ \A x \in Thread \ {th} : G[x] = Lf[x]
  BY <1>2 DEF Good
<1>a. b - 1 \in 0..Len(s)
  BY <1>1
<1>4. /\ t \in Seq(Record) /\ Len(t) = b - 1
      /\ \A i \in 1..b-1 : t[i] = s[i]
      /\ b - 1 > 0 => Last(t) = s[b-1]
      /\ b - 1 = 0 => t = <<>>
      /\ Shape(t)
      /\ \A i \in 0..b-1 : Under(t, i) = Under(s, i)
  <2>1. Shape(t)
    BY <1>1, <1>a, ShapeUnder
  <2>2. \A i \in 0..b-1 : Under(t, i) = Under(s, i)
    BY <1>1, <1>a, UnderUnder
  <2> QED BY <1>1, <1>a, <2>1, <2>2, UnderFacts
<1> HIDE DEF G, t
<1>5. \A x \in Thread : FramesOK(G[x])
  BY <1>3 DEF Good
<1>6. \A i \in 1..Len(t) : t[i].k = "resume" /\ t[i].pc = "errf" => fl.LuauCustomYieldablePcalls
  <2> TAKE i \in 1..Len(t)
  <2>1. i \in 1..Len(s) /\ t[i] = s[i]
    BY <1>1, <1>4
  <2> QED BY <2>1 DEF Good
<1>7. ASSUME NEW i \in 1..b-1, s[i+1].k = "resume"
      PROVE  G[s[i].th].status = "OK" /\ Fits(Under(s, i), G[s[i].th])
  <2>1. i \in 1..Len(s)-1
    BY <1>1
  <2>2. s[i].th # th /\ s[i] \in Record
    BY <1>1, ElementOfSeq DEF Base
  <2>3. s[i].th \in Thread
    BY <2>2, RecordKinds
  <2> QED BY <1>3, <1>7, <2>1, <2>2, <2>3 DEF Good
<1>8. ASSUME NEW i \in 1..Len(t)-1, t[i+1].k = "resume"
      PROVE  G[t[i].th].status = "OK" /\ Fits(Under(t, i), G[t[i].th])
  <2>1. i \in 1..b-1 /\ i \in 0..b-1 /\ s[i+1].k = "resume" /\ t[i] = s[i]
    BY <1>1, <1>4, <1>8
  <2>2. G[s[i].th].status = "OK" /\ Fits(Under(s, i), G[s[i].th])
    BY <1>7, <2>1
  <2> QED BY <1>4, <2>1, <2>2
<1>9. t # <<>> => Fits(t, G[Last(t).th])
  <2> HAVE t # <<>>
  <2>1. b > 1 /\ b - 1 \in 1..b-1 /\ s[b].k = "resume" /\ b - 1 \in 0..b-1 /\ (b - 1) + 1 = b
    BY <1>1, <1>4 DEF Base
  <2>2. Fits(Under(s, b - 1), G[s[b-1].th])
    BY <1>7, <2>1
  <2> QED BY <1>4, <2>1, <2>2 DEF t
<1>10. ASSUME NEW x \in Thread, \A i \in 1..Len(t) : t[i].th # x
       PROVE  Off(x, G[x])
  <2>1. CASE x = th
    BY <1>3, <2>1
  <2>2. CASE x # th
    <3>1. \A i \in 1..Len(s) : s[i].th # x
      <4> TAKE i \in 1..Len(s)
      <4>1. CASE i < b
        BY <1>1, <1>4, <1>10, <4>1
      <4>2. CASE i >= b
        BY <1>1, <2>2, <4>2 DEF Base
      <4> QED BY <1>1, <4>1, <4>2
    <3> QED BY <1>3, <2>2, <3>1 DEF Good
  <2> QED BY <2>1, <2>2
<1>11. Good(G, t, fl)
  BY <1>3, <1>4, <1>5, <1>6, <1>8, <1>9, <1>10 DEF Good
<1> QED BY <1>11 DEF G, t

\* A thread without a record changes.
LEMMA GoodOff ==
  ASSUME NEW Lf, NEW s, NEW fl, Good(Lf, s, fl), NEW co \in Thread,
         \A i \in 1..Len(s) : s[i].th # co,
         NEW l \in LuaState, FramesOK(l), Off(co, l)
  PROVE  Good([Lf EXCEPT ![co] = l], s, fl)
<1> DEFINE G == [Lf EXCEPT ![co] = l]
<1>1. G \in [Thread -> LuaState] /\ G[co] = l /\ \A x \in Thread \ {co} : G[x] = Lf[x]
  BY DEF Good
<1>2. /\ s \in Seq(Record) /\ Len(s) \in Nat
      /\ \A i \in 1..Len(s) : s[i] \in Record /\ s[i].th \in Thread /\ s[i].th # co
  BY LenProperties, ElementOfSeq, RecordKinds DEF Good, Shape
<1> HIDE DEF G
<1>3. \A i \in 1..Len(s) : G[s[i].th] = Lf[s[i].th]
  BY <1>1, <1>2
<1>4. s # <<>> => Len(s) \in 1..Len(s)
  BY <1>2, EmptySeq
<1>5. Good(G, s, fl)
  BY <1>1, <1>2, <1>3, <1>4 DEF Good, Last
<1> QED BY <1>5 DEF G

\* On stack t the records above those of s belong to thread co.
Block(s, co, t) ==
  /\ t \in Seq(Record) /\ Len(t) > Len(s)
  /\ \A i \in 1..Len(s) : t[i] = s[i] /\ s[i].th # co
  /\ s # <<>> => t[Len(s) + 1].k = "resume"
  /\ \A i \in Len(s)+1..Len(t) : t[i].th = co
  /\ \A i \in Len(s)+2..Len(t) : t[i].k # "resume"

\* One record more of the same thread.
LEMMA BlockPush ==
  ASSUME NEW s \in Seq(Record), NEW co, NEW t, Block(s, co, t),
         NEW r \in Record, r.th = co, r.k # "resume"
  PROVE  Block(s, co, Append(t, r))
<1> DEFINE u == Append(t, r)
<1>1. t \in Seq(Record) /\ Len(t) \in Nat /\ Len(s) \in Nat /\ Len(t) > Len(s)
  BY LenProperties DEF Block
<1>2. /\ u \in Seq(Record) /\ Len(u) = Len(t) + 1
      /\ \A i \in 1..Len(t) : u[i] = t[i]
      /\ u[Len(t) + 1] = r
  BY <1>1, PushFacts
<1> HIDE DEF u
<1>3. \A i \in Len(s)+1..Len(u) : u[i].th = co
  <2> TAKE i \in Len(s)+1..Len(u)
  <2>1. CASE i = Len(t) + 1
    BY <1>2, <2>1
  <2>2. CASE i # Len(t) + 1
    BY <1>1, <1>2, <2>2 DEF Block
  <2> QED BY <2>1, <2>2
<1>4. \A i \in Len(s)+2..Len(u) : u[i].k # "resume"
  <2> TAKE i \in Len(s)+2..Len(u)
  <2>1. CASE i = Len(t) + 1
    BY <1>2, <2>1
  <2>2. CASE i # Len(t) + 1
    BY <1>1, <1>2, <2>2 DEF Block
  <2> QED BY <2>1, <2>2
<1>5. Block(s, co, u)
  BY <1>1, <1>2, <1>3, <1>4 DEF Block
<1> QED BY <1>5 DEF u

\* A thread's first record: its resume, or the protected call of the host.
LEMMA BlockFirst ==
  ASSUME NEW s \in Seq(Record), NEW r \in Record, s # <<>> => r.k = "resume",
         \A i \in 1..Len(s) : s[i].th # r.th
  PROVE  Block(s, r.th, Append(s, r))
<1> DEFINE u == Append(s, r)
<1>1. Len(s) \in Nat
  BY LenProperties
<1>2. /\ u \in Seq(Record) /\ Len(u) = Len(s) + 1
      /\ \A i \in 1..Len(s) : u[i] = s[i]
      /\ u[Len(s) + 1] = r
  BY PushFacts
<1> HIDE DEF u
<1>3. Block(s, r.th, u)
  BY <1>1, <1>2 DEF Block
<1> QED BY <1>3 DEF u

\* The invariant of the whole stack follows from what the thread on top and its block
\* satisfy, when the stack below did not change.
LEMMA GoodEnters ==
  ASSUME NEW Lf, NEW s, NEW fl, Good(Lf, s, fl),
         s # <<>> => Lf[Last(s).th].status = "OK",
         NEW co \in Thread, NEW t, Block(s, co, t), Shape(t),
         t[Len(s) + 1].k = "resume" /\ t[Len(s) + 1].pc = "errf" => fl.LuauCustomYieldablePcalls,
         NEW l \in LuaState, FramesOK(l), Fits(t, l)
  PROVE  Good([Lf EXCEPT ![co] = l], t, fl)
<1> DEFINE G == [Lf EXCEPT ![co] = l]
<1>1. G \in [Thread -> LuaState] /\ G[co] = l /\ \A x \in Thread \ {co} : G[x] = Lf[x]
  BY DEF Good
<1>2. /\ s \in Seq(Record) /\ Len(s) \in Nat
      /\ t \in Seq(Record) /\ Len(t) \in Nat /\ Len(t) > Len(s)
      /\ \A i \in 1..Len(s) : t[i] = s[i] /\ s[i] \in Record /\ s[i].th \in Thread /\ s[i].th # co
      /\ Last(t).th = co
  BY LenProperties, ElementOfSeq, RecordKinds DEF Good, Shape, Block, Last
<1> HIDE DEF G
<1>3. \A x \in Thread : FramesOK(G[x])
  BY <1>1 DEF Good
<1>4. \A i \in 1..Len(t) : t[i].k = "resume" /\ t[i].pc = "errf" => fl.LuauCustomYieldablePcalls
  <2> TAKE i \in 1..Len(t)
  <2>1. CASE i <= Len(s)
    BY <1>2, <2>1 DEF Good
  <2>2. CASE i = Len(s) + 1
    BY <2>2
  <2>3. CASE i > Len(s) + 1
    BY <1>2, <2>3 DEF Block
  <2> QED BY <1>2, <2>1, <2>2, <2>3
<1>5. ASSUME NEW i \in 1..Len(t)-1, t[i+1].k = "resume"
      PROVE  G[t[i].th].status = "OK" /\ Fits(Under(t, i), G[t[i].th])
  <2>1. i <= Len(s) /\ i \in 1..Len(s) /\ i \in 0..Len(s)
    BY <1>2, <1>5 DEF Block
  <2>2. Under(t, i) = Under(s, i)
    BY <1>2, <2>1, UnderAgree
  <2>3. G[t[i].th] = Lf[s[i].th]
    BY <1>1, <1>2, <2>1
  <2>4. CASE i < Len(s)
    BY <1>2, <1>5, <2>1, <2>2, <2>3, <2>4 DEF Good
  <2>5. CASE i = Len(s)
    <3>1. s # <<>> /\ Last(s) = s[i] /\ Under(s, i) = s
      BY <1>2, <2>1, <2>5, EmptySeq, UnderAll DEF Last
    <3> QED BY <2>2, <2>3, <3>1 DEF Good
  <2> QED BY <1>2, <2>1, <2>4, <2>5
<1>6. ASSUME NEW x \in Thread, \A i \in 1..Len(t) : t[i].th # x
      PROVE  Off(x, G[x])
  <2>1. x # co
    BY <1>2, <1>6 DEF Last
  <2>2. \A i \in 1..Len(s) : s[i].th # x
    BY <1>2, <1>6
  <2> QED BY <1>1, <2>1, <2>2 DEF Good
<1>7. Good(G, t, fl)
  BY <1>1, <1>2, <1>3, <1>4, <1>5, <1>6 DEF Good
<1> QED BY <1>7 DEF G

-----------------------------------------------------------------------------
(* The counts.                                                               *)

\* The counts of records are numbers.
LEMMA CountTypes ==
  ASSUME NEW s \in Seq(Record), NEW th, NEW y
  PROVE  /\ IsFiniteSet(Nested(s)) /\ Cardinality(Nested(s)) \in Nat
         /\ IsFiniteSet(CallsOf(s, th, y)) /\ Cardinality(CallsOf(s, th, y)) \in Nat
<1>1. Len(s) \in Nat
  BY LenProperties
<1>2. IsFiniteSet(1..Len(s))
  BY <1>1, FS_Interval
<1>3. IsFiniteSet(Nested(s)) /\ IsFiniteSet(CallsOf(s, th, y))
  <2>1. Nested(s) \subseteq 1..Len(s) /\ CallsOf(s, th, y) \subseteq 1..Len(s)
    BY DEF Nested, CallsOf
  <2> QED BY <1>2, <2>1, FS_Subset
<1> QED BY <1>3, FS_CardinalityType

\* A push adds at most one to a count.
LEMMA CountsOfPush ==
  ASSUME NEW s \in Seq(Record), NEW r \in Record, NEW th, NEW y
  PROVE  /\ Cardinality(Nested(Append(s, r))) =
              Cardinality(Nested(s)) + IF r.k \in {"call", "resume"} THEN 1 ELSE 0
         /\ Cardinality(CallsOf(Append(s, r), th, y)) =
              Cardinality(CallsOf(s, th, y)) + IF r.k = "call" /\ r.th = th /\ r.y = y THEN 1 ELSE 0
<1> DEFINE t == Append(s, r)
           n == Len(s)
<1>1. n \in Nat
  BY LenProperties
<1>2. Len(t) = n + 1 /\ (\A i \in 1..n : t[i] = s[i]) /\ t[n + 1] = r
  BY PushFacts
<1>3. /\ IsFiniteSet(Nested(s)) /\ Cardinality(Nested(s)) \in Nat
      /\ IsFiniteSet(CallsOf(s, th, y)) /\ Cardinality(CallsOf(s, th, y)) \in Nat
  BY CountTypes
<1> HIDE DEF t, n
<1>4. n + 1 \notin Nested(s) /\ n + 1 \notin CallsOf(s, th, y)
  BY <1>1 DEF Nested, CallsOf, n
<1>5. Nested(t) = IF r.k \in {"call", "resume"} THEN Nested(s) \cup {n + 1} ELSE Nested(s)
  <2>1. \A i \in 1..n+1 : i \in 1..n \/ i = n + 1
    BY <1>1
  <2>2. 1..n \subseteq 1..n+1 /\ n + 1 \in 1..n+1
    BY <1>1
  <2>3. Nested(t) = {i \in 1..n+1 : t[i].k \in {"call", "resume"}}
    BY <1>2 DEF Nested
  <2>4. Nested(s) = {i \in 1..n : s[i].k \in {"call", "resume"}}
    BY DEF Nested, n
  <2> QED BY <1>2, <2>1, <2>2, <2>3, <2>4
<1>6. CallsOf(t, th, y) = IF r.k = "call" /\ r.th = th /\ r.y = y
                          THEN CallsOf(s, th, y) \cup {n + 1} ELSE CallsOf(s, th, y)
  <2>1. \A i \in 1..n+1 : i \in 1..n \/ i = n + 1
    BY <1>1
  <2>2. 1..n \subseteq 1..n+1 /\ n + 1 \in 1..n+1
    BY <1>1
  <2>3. CallsOf(t, th, y) = {i \in 1..n+1 : t[i].th = th /\ t[i].k = "call" /\ t[i].y = y}
    BY <1>2 DEF CallsOf
  <2>4. CallsOf(s, th, y) = {i \in 1..n : s[i].th = th /\ s[i].k = "call" /\ s[i].y = y}
    BY DEF CallsOf, n
  <2> QED BY <1>2, <2>1, <2>2, <2>3, <2>4
<1>7. Cardinality(Nested(s) \cup {n + 1}) = Cardinality(Nested(s)) + 1
  BY <1>3, <1>4, FS_AddElement
<1>8. Cardinality(CallsOf(s, th, y) \cup {n + 1}) = Cardinality(CallsOf(s, th, y)) + 1
  BY <1>3, <1>4, FS_AddElement
<1>9. Cardinality(Nested(t)) = Cardinality(Nested(s)) + IF r.k \in {"call", "resume"} THEN 1 ELSE 0
  BY <1>3, <1>5, <1>7
<1>10. Cardinality(CallsOf(t, th, y)) = Cardinality(CallsOf(s, th, y))
           + IF r.k = "call" /\ r.th = th /\ r.y = y THEN 1 ELSE 0
  BY <1>3, <1>6, <1>8
<1> QED BY <1>9, <1>10 DEF t

\* Fewer records, smaller counts.
LEMMA CountsOfUnder ==
  ASSUME NEW s \in Seq(Record), NEW j \in 0..Len(s), NEW th, NEW y
  PROVE  /\ Cardinality(Nested(Under(s, j))) <= Cardinality(Nested(s))
         /\ Cardinality(CallsOf(Under(s, j), th, y)) <= Cardinality(CallsOf(s, th, y))
<1>1. Len(s) \in Nat
  BY LenProperties
<1>2. Len(Under(s, j)) = j /\ \A i \in 1..j : Under(s, j)[i] = s[i]
  BY UnderFacts
<1>3. Nested(Under(s, j)) \subseteq Nested(s) /\ CallsOf(Under(s, j), th, y) \subseteq CallsOf(s, th, y)
  BY <1>1, <1>2 DEF Nested, CallsOf
<1>4. IsFiniteSet(Nested(s)) /\ IsFiniteSet(CallsOf(s, th, y))
  BY CountTypes
<1> QED BY <1>3, <1>4, FS_Subset

\* A stack is what is under its top, and the top.
LEMMA TopApart ==
  ASSUME NEW S, NEW s \in Seq(S), s # <<>>
  PROVE  /\ s = Append(Under(s, Len(s) - 1), Last(s))
         /\ Len(s) \in Nat /\ Len(s) > 0 /\ Len(s) - 1 \in 0..Len(s)
         /\ Under(s, Len(s) - 1) \in Seq(S) /\ Last(s) \in S
         /\ Front(s) = Under(s, Len(s) - 1)
<1>1. Len(s) \in Nat /\ Len(s) > 0 /\ Len(s) - 1 \in 0..Len(s)
  BY EmptySeq
<1>2. Last(s) \in S
  BY <1>1, ElementOfSeq DEF Last
<1> DEFINE p == Under(s, Len(s) - 1)
           t == Append(p, Last(s))
<1>3. p \in Seq(S) /\ Len(p) = Len(s) - 1 /\ \A i \in 1..Len(s)-1 : p[i] = s[i]
  BY <1>1, UnderFacts
<1> HIDE DEF p
<1>4. t \in Seq(S) /\ Len(t) = Len(s) /\ t[Len(s)] = Last(s) /\ \A i \in 1..Len(s)-1 : t[i] = p[i]
  BY <1>1, <1>2, <1>3, PushFacts
<1> HIDE DEF t
<1>5. \A i \in 1..Len(s) : t[i] = s[i]
  BY <1>1, <1>3, <1>4 DEF Last
<1>6. t = s
  BY <1>4, <1>5, SeqEqual
<1>7. Front(s) = p
  BY FrontIsUnder DEF p
<1> QED BY <1>1, <1>2, <1>3, <1>6, <1>7 DEF t, p

\* A record other than a call or a resume changes no count.
LEMMA CountsPush ==
  ASSUME NEW s \in Seq(Record), NEW r \in Record, r.k \notin {"call", "resume"},
         NEW th, NEW n \in Int, NEW base \in Int
  PROVE  /\ CountsCover(Append(s, r), th, n, base) <=> CountsCover(s, th, n, base)
         /\ CountsFit(s, th, n, base) => CountsFit(Append(s, r), th, n, base)
         /\ (r.k = "pcall" => r.pc # "errf") =>
              (CountsFit(Append(s, r), th, n, base) => CountsFit(s, th, n, base))
<1> DEFINE t == Append(s, r)
<1>1. Len(s) \in Nat
  BY LenProperties
<1>2. Len(t) = Len(s) + 1 /\ (\A i \in 1..Len(s) : t[i] = s[i]) /\ t[Len(s) + 1] = r
  BY PushFacts
<1>3. /\ Cardinality(Nested(t)) = Cardinality(Nested(s))
      /\ \A y : Cardinality(CallsOf(t, th, y)) = Cardinality(CallsOf(s, th, y))
      /\ Cardinality(Nested(s)) \in Nat
      /\ \A y : Cardinality(CallsOf(s, th, y)) \in Nat
  BY CountsOfPush, CountTypes
<1> HIDE DEF t
<1>4. \A i \in 1..Len(t) : i \in 1..Len(s) \/ i = Len(s) + 1
  BY <1>1, <1>2
<1>5. \A i \in 1..Len(s) : i \in 1..Len(t)
  BY <1>1, <1>2
<1>6. CountsCover(t, th, n, base) <=> CountsCover(s, th, n, base)
  BY <1>2, <1>3, <1>4, <1>5 DEF CountsCover
<1>7. Undisturbed(t, th) => Undisturbed(s, th)
  BY <1>2, <1>5 DEF Undisturbed
<1>8. (r.k = "pcall" => r.pc # "errf") => (Undisturbed(s, th) => Undisturbed(t, th))
  BY <1>2, <1>4 DEF Undisturbed
<1> QED BY <1>3, <1>6, <1>7, <1>8 DEF CountsFit, t

\* A call of the thread is counted.
LEMMA CountsPushCall ==
  ASSUME NEW s \in Seq(Record), NEW r \in Record, r.k = "call",
         NEW n \in Int, NEW base \in Int, NEW d \in Int, d = IF r.y THEN 1 ELSE 0
  PROVE  /\ CountsFit(s, r.th, n, base) => CountsFit(Append(s, r), r.th, n + 1, base + d)
         /\ CountsFit(Append(s, r), r.th, n + 1, base + d) => CountsFit(s, r.th, n, base)
         /\ CountsCover(s, r.th, n, base) => CountsCover(Append(s, r), r.th, n + 1, base + d)
<1> DEFINE t == Append(s, r)
           th == r.th
           N == Cardinality(Nested(s))
           T == Cardinality(CallsOf(s, th, TRUE))
           F == Cardinality(CallsOf(s, th, FALSE))
<1>1. Len(s) \in Nat
  BY LenProperties
<1>2. Len(t) = Len(s) + 1 /\ (\A i \in 1..Len(s) : t[i] = s[i]) /\ t[Len(s) + 1] = r
  BY PushFacts
<1>a. r.y \in BOOLEAN
  BY RecordKinds DEF CallRec
<1>b. N \in Nat /\ T \in Nat /\ F \in Nat
  BY CountTypes
<1>3. Cardinality(Nested(t)) = N + 1
  BY CountsOfPush
<1>c. Cardinality(CallsOf(t, th, TRUE)) = T + IF r.k = "call" /\ r.th = th /\ r.y = TRUE THEN 1 ELSE 0
  BY CountsOfPush
<1>d. Cardinality(CallsOf(t, th, FALSE)) = F + IF r.k = "call" /\ r.th = th /\ r.y = FALSE THEN 1 ELSE 0
  BY CountsOfPush
<1> DEFINE F2 == Cardinality(CallsOf(t, th, FALSE))
<1> HIDE DEF t, N, T, F, th, F2
<1>e. Cardinality(CallsOf(t, th, TRUE)) = T + d
  BY <1>a, <1>c DEF th
<1>f. F2 = F + (1 - d)
  <2>1. CASE r.y = TRUE
    <3>1. d = 1
      BY <2>1
    <3>2. F2 = F + 0
      BY <1>d, <2>1 DEF F2
    <3> QED BY <1>b, <3>1, <3>2
  <2>2. CASE r.y = FALSE
    <3>1. d = 0
      BY <2>2
    <3>2. F2 = F + 1
      BY <1>d, <2>2 DEF th, F2
    <3> QED BY <1>b, <3>1, <3>2
  <2> QED BY <1>a, <2>1, <2>2
<1>4. \A i \in 1..Len(t) : i \in 1..Len(s) \/ i = Len(s) + 1
  BY <1>1, <1>2
<1>5. \A i \in 1..Len(s) : i \in 1..Len(t)
  BY <1>1, <1>2
<1>6. \A i \in 1..Len(s) : s[i].k = "resume" => s[i].old \in Int
  BY ElementOfSeq, RecordKinds DEF ResumeRec
<1>7. CountsCover(t, th, n + 1, base + d) <=> CountsCover(s, th, n, base)
  <2>1. n + 1 >= N + 1 <=> n >= N
    BY <1>b
  <2>2. (n + 1) - (base + d) >= F + (1 - d) <=> n - base >= F
    BY <1>b
  <2>3. \A x \in Int : base + d >= x + (T + d) <=> base >= x + T
    BY <1>b
  <2>4. (\A i \in 1..Len(t) : t[i].th = th /\ t[i].k = "resume" => base + d >= t[i].old + (T + d))
          <=> (\A i \in 1..Len(s) : s[i].th = th /\ s[i].k = "resume" => base >= s[i].old + T)
    BY <1>2, <1>4, <1>5, <1>6, <2>3
  <2>5. CountsCover(t, th, n + 1, base + d) <=>
           /\ n + 1 >= N + 1
           /\ (n + 1) - (base + d) >= F + (1 - d)
           /\ \A i \in 1..Len(t) : t[i].th = th /\ t[i].k = "resume" => base + d >= t[i].old + (T + d)
    BY <1>3, <1>e, <1>f DEF CountsCover, F2
  <2>6. CountsCover(s, th, n, base) <=>
           /\ n >= N
           /\ n - base >= F
           /\ \A i \in 1..Len(s) : s[i].th = th /\ s[i].k = "resume" => base >= s[i].old + T
    BY DEF CountsCover, N, F, T
  <2> QED BY <2>1, <2>2, <2>4, <2>5, <2>6
<1>8. Undisturbed(t, th) <=> Undisturbed(s, th)
  BY <1>2, <1>4, <1>5 DEF Undisturbed
<1>9. (n + 1) - (base + d) = F + (1 - d) <=> n - base = F
  BY <1>b
<1>10. CountsFit(t, th, n + 1, base + d) <=> CountsFit(s, th, n, base)
  BY <1>f, <1>7, <1>8, <1>9 DEF CountsFit, F, F2
<1> QED BY <1>7, <1>10 DEF t, th

\* Fewer records need smaller counts.
LEMMA CountsCut ==
  ASSUME NEW s \in Seq(Record), NEW j \in 0..Len(s), NEW th, NEW n \in Int, NEW base \in Int,
         CountsCover(s, th, n, base)
  PROVE  /\ CountsCover(Under(s, j), th, n, base)
         /\ CountsCover(s, th, n + 1, base)
<1> DEFINE p == Under(s, j)
           N == Cardinality(Nested(s))
           T == Cardinality(CallsOf(s, th, TRUE))
           F == Cardinality(CallsOf(s, th, FALSE))
           N2 == Cardinality(Nested(p))
           T2 == Cardinality(CallsOf(p, th, TRUE))
           F2 == Cardinality(CallsOf(p, th, FALSE))
<1>1. Len(s) \in Nat /\ \A i \in 1..Len(s) : s[i].k = "resume" => s[i].old \in Int
  BY LenProperties, ElementOfSeq, RecordKinds DEF ResumeRec
<1>2. p \in Seq(Record) /\ Len(p) = j /\ \A i \in 1..j : p[i] = s[i]
  BY UnderFacts
<1>3. N \in Nat /\ T \in Nat /\ F \in Nat
  BY CountTypes
<1>4. N2 <= N /\ T2 <= T /\ F2 <= F
  BY CountsOfUnder
<1> HIDE DEF p
<1>5. N2 \in Nat /\ T2 \in Nat /\ F2 \in Nat
  BY <1>2, CountTypes
<1>6. /\ n >= N /\ n - base >= F
      /\ \A i \in 1..Len(s) : s[i].th = th /\ s[i].k = "resume" => base >= s[i].old + T
  BY DEF CountsCover
<1> HIDE DEF N, T, F, N2, T2, F2
<1>7. n >= N2 /\ n - base >= F2 /\ n + 1 >= N /\ n + 1 - base >= F
  BY <1>3, <1>4, <1>5, <1>6
<1>8. \A i \in 1..Len(p) : p[i].th = th /\ p[i].k = "resume" => base >= p[i].old + T2
  <2> TAKE i \in 1..Len(p)
  <2> HAVE p[i].th = th /\ p[i].k = "resume"
  <2>1. i \in 1..Len(s) /\ p[i] = s[i]
    BY <1>1, <1>2
  <2>2. base >= s[i].old + T /\ s[i].old \in Int
    BY <1>1, <1>6, <2>1
  <2> QED BY <1>3, <1>4, <1>5, <2>1, <2>2
<1>9. CountsCover(p, th, n, base)
  BY <1>7, <1>8 DEF CountsCover, N2, T2, F2
<1>10. CountsCover(s, th, n + 1, base)
  <2> DEFINE k == n + 1
  <2>1. k >= N /\ k - base >= F
    BY <1>7
  <2> HIDE DEF k
  <2>2. CountsCover(s, th, k, base)
    BY <1>6, <2>1 DEF CountsCover, N, T, F
  <2> QED BY <2>2 DEF k
<1> QED BY <1>9, <1>10 DEF p

\* The counters of the host on an empty stack.
LEMMA CountsNil ==
  ASSUME NEW th, NEW n \in Int, NEW base \in Int
  PROVE  CountsFit(<<>>, th, n, base) <=> n >= 0 /\ n = base
<1> DEFINE e == <<>>
<1>1. Len(e) = 0
  OBVIOUS
<1>2. Nested(e) = {} /\ CallsOf(e, th, TRUE) = {} /\ CallsOf(e, th, FALSE) = {} /\ 1..Len(e) = {}
  BY <1>1 DEF Nested, CallsOf
<1>3. Cardinality({}) = 0
  BY FS_EmptySet
<1> HIDE DEF e
<1>4. CountsFit(e, th, n, base) <=> n >= 0 /\ n - base >= 0 /\ n - base = 0
  BY <1>2, <1>3 DEF CountsFit, CountsCover, Undisturbed
<1>5. CountsFit(e, th, n, base) <=> n >= 0 /\ n = base
  BY <1>4
<1> QED BY <1>5 DEF e

\* A thread that was just entered has the counts of its resumer and one more.
LEMMA CountsBase ==
  ASSUME NEW p \in Seq(Record), NEW r \in Record, r.k = "resume",
         \A i \in 1..Len(p) : p[i].th # r.th,
         r.old >= Cardinality(Nested(p)) + 1,
         NEW n \in Int, NEW base \in Int, base >= r.old, n >= base,
         r.pc # "errf" => n = base
  PROVE  CountsFit(Append(p, r), r.th, n, base)
<1> DEFINE th == r.th
           t == Append(p, r)
           N == Cardinality(Nested(p))
<1>1. Len(p) \in Nat
  BY LenProperties
<1>2. Len(t) = Len(p) + 1 /\ (\A i \in 1..Len(p) : t[i] = p[i]) /\ t[Len(p) + 1] = r
  BY PushFacts
<1>3. r.old \in Int
  BY RecordKinds DEF ResumeRec
<1>4. N \in Nat
  BY CountTypes
<1>5. Cardinality(Nested(t)) = N + 1
  BY CountsOfPush
<1> HIDE DEF t, N
<1>6. \A i \in 1..Len(t) : i \in 1..Len(p) \/ i = Len(p) + 1
  BY <1>1, <1>2
<1>7. CallsOf(t, th, TRUE) = {} /\ CallsOf(t, th, FALSE) = {}
  BY <1>2, <1>6 DEF CallsOf
<1>8. Cardinality({}) = 0
  BY FS_EmptySet
<1>9. n >= N + 1 /\ n - base >= 0 /\ base >= r.old + 0 /\ (r.pc # "errf" => n - base = 0)
  BY <1>3, <1>4 DEF N
<1>10. \A i \in 1..Len(t) : t[i].th = th /\ t[i].k = "resume" => t[i] = r
  BY <1>2, <1>6
<1>11. CountsCover(t, th, n, base)
  BY <1>5, <1>7, <1>8, <1>9, <1>10 DEF CountsCover
<1>12. Undisturbed(t, th) => r.pc # "errf"
  <2>1. Len(p) + 1 \in 1..Len(t)
    BY <1>1, <1>2
  <2> QED BY <1>2, <2>1 DEF Undisturbed
<1>13. CountsFit(t, th, n, base)
  BY <1>7, <1>8, <1>9, <1>11, <1>12 DEF CountsFit
<1> QED BY <1>13 DEF t

\* A thread whose calls all have a continuation has its counts at the base, and
\* a call that is thrown away may keep its counts.
LEMMA CountsUnwind ==
  ASSUME NEW s \in Seq(Record), NEW th, NEW n \in Int, NEW base \in Int, CountsFit(s, th, n, base),
         CallsOf(s, th, FALSE) = {}, Undisturbed(s, th), NEW j \in 0..Len(s)
  PROVE  /\ n = base
         /\ CountsFit(Under(s, j), th, n, base)
         /\ CallsOf(Under(s, j), th, FALSE) = {} /\ Undisturbed(Under(s, j), th)
<1>1. Cardinality({}) = 0
  BY FS_EmptySet
<1>2. n - base = 0
  BY <1>1 DEF CountsFit
<1>3. CountsCover(Under(s, j), th, n, base)
  BY CountsCut DEF CountsFit
<1>4. Len(s) \in Nat
  BY LenProperties
<1>5. Len(Under(s, j)) = j /\ \A i \in 1..j : Under(s, j)[i] = s[i]
  BY UnderFacts
<1>6. CallsOf(Under(s, j), th, FALSE) = {}
  BY <1>4, <1>5 DEF CallsOf
<1>7. Undisturbed(Under(s, j), th)
  BY <1>4, <1>5 DEF Undisturbed
<1>8. n = base
  BY <1>2
<1>9. CountsFit(Under(s, j), th, n, base)
  BY <1>1, <1>2, <1>3, <1>6 DEF CountsFit
<1> QED BY <1>6, <1>7, <1>8, <1>9

-----------------------------------------------------------------------------
(* The frames.                                                               *)

\* Two states of a thread have the same functions in the frames up to h.
Alike(l, k, h) ==
  /\ h <= Len(l.ci) /\ h <= Len(k.ci)
  /\ \A m \in 1..h : FnOf(k, m) = FnOf(l, m) /\ k.ci[m].ret = l.ci[m].ret

\* The parts of a lua_State.
LEMMA FrameTypes ==
  ASSUME NEW l \in LuaState
  PROVE  /\ l.ci \in Seq(CallInfo) /\ Len(l.ci) \in Nat
         /\ l.nCcalls \in Int /\ l.baseCcalls \in Int /\ l.isactive \in BOOLEAN
         /\ \A m \in 1..Len(l.ci) : /\ l.ci[m] \in CallInfo
                                    /\ FnOf(l, m) \in CFunction \cup {"lua"}
                                    /\ l.ci[m].handle \in BOOLEAN /\ l.ci[m].ret \in BOOLEAN
<1>1. l.ci \in Seq(CallInfo)
  BY DEF LuaState
<1>2. \A m \in 1..Len(l.ci) : l.ci[m] \in CallInfo
  BY <1>1, ElementOfSeq
<1> QED BY <1>1, <1>2, LenProperties DEF LuaState, CallInfo, FnOf

\* The frame a record refers to, if any.
LEMMA ReachType ==
  ASSUME NEW r \in Record
  PROVE  /\ Reach(r) \in Nat
         /\ r.k \in {"c", "call", "pcall"} => r.ci \in Nat
         /\ r.k = "c" => r.ci > 0
         /\ r.k = "resume" => r.ch \in Nat
BY RecordKinds DEF CRec, CallRec, PcallRec, ResumeRec, Reach

\* What runs looks at the frames up to h only.
LEMMA RunsAlike ==
  ASSUME NEW p \in Seq(Record), NEW h \in Int, NEW l, NEW k, Len(k.ci) \in Nat,
         Runs(p, h, l), Alike(l, k, h)
  PROVE  Runs(p, h, k)
<1>1. Len(p) \in Nat /\ \A i \in 1..Len(p) : p[i] \in Record
  BY LenProperties, ElementOfSeq
<1>2. h \in 1..Len(k.ci) /\ FnOf(k, h) = "lua"
  BY DEF Runs, Alike
<1>3. Accounted(p, h, k)
  BY DEF Runs, Alike, Accounted, Continuable
<1>4. ASSUME Len(p) > 1, p[Len(p)-1].k = "call"
      PROVE  /\ h > p[Len(p)-1].ci
             /\ k.ci[p[Len(p)-1].ci + 1].ret
             /\ \A m \in p[Len(p)-1].ci + 2..h : ~k.ci[m].ret
  <2> DEFINE c == p[Len(p)-1].ci
  <2>1. c \in Nat
    BY <1>1, <1>4, ReachType
  <2>2. h > c /\ l.ci[c + 1].ret /\ \A m \in c + 2..h : ~l.ci[m].ret
    BY <1>4 DEF Runs
  <2> HIDE DEF c
  <2>3. \A m \in 1..h : k.ci[m].ret = l.ci[m].ret
    BY DEF Alike
  <2>4. c + 1 \in 1..h /\ \A m \in c + 2..h : m \in 1..h
    BY <2>1, <2>2
  <2>5. h > c /\ k.ci[c + 1].ret /\ \A m \in c + 2..h : ~k.ci[m].ret
    BY <2>2, <2>3, <2>4
  <2> QED BY <2>5 DEF c
<1> QED BY <1>2, <1>3, <1>4 DEF Runs

\* What a record says of the frames stays true as long as the frames it reaches
\* stay.
LEMMA SitsAlike ==
  ASSUME NEW p \in Seq(Record), NEW r \in Record, Lands(p, r),
         NEW l, NEW k, Len(l.ci) \in Nat, Len(k.ci) \in Nat,
         Sits(p, r, l), Alike(l, k, Reach(r))
  PROVE  Sits(p, r, k)
<1>1. /\ Reach(r) \in Nat
      /\ r.k \in {"c", "call", "pcall"} => r.ci \in Nat /\ Reach(r) = r.ci
      /\ r.k = "c" => r.ci > 0
      /\ r.k = "resume" => r.ch \in Nat /\ (r.pc = "errf" => Reach(r) = r.ch)
  BY ReachType DEF Reach
<1>2. \A m \in 1..Reach(r) : FnOf(k, m) = FnOf(l, m)
  BY DEF Alike
<1>3. Reach(r) <= Len(k.ci)
  BY DEF Alike
<1>4. \A h \in Nat : h <= Reach(r) => Alike(l, k, h)
  BY <1>1 DEF Alike
<1>5. \A h \in Nat : h <= Reach(r) /\ Accounted(p, h, l) => Accounted(p, h, k)
  <2> TAKE h \in Nat
  <2> HAVE h <= Reach(r) /\ Accounted(p, h, l)
  <2>1. \A m \in 1..h : m \in 1..Reach(r)
    BY <1>1
  <2> QED BY <1>2, <2>1 DEF Accounted, Continuable
<1>6. \A h \in Nat : h <= Reach(r) /\ Runs(p, h, l) => Runs(p, h, k)
  BY <1>4, RunsAlike
<1>7. CASE r.k = "c"
  <2>1. r.ci - 1 \in Nat /\ r.ci - 1 <= Reach(r) /\ r.ci \in 1..Reach(r)
    BY <1>1, <1>7
  <2> QED BY <1>2, <1>3, <1>5, <1>6, <1>7, <2>1 DEF Sits
<1>8. CASE r.k = "call"
  <2>1. r.ci \in Nat /\ r.ci <= Reach(r)
    BY <1>1, <1>8
  <2>2. r.ci > 0 => r.ci \in 1..Reach(r)
    BY <2>1
  <2>3. p # <<>> /\ Last(p).k = "c" => r.ci > 0
    <3> HAVE p # <<>> /\ Last(p).k = "c"
    <3>1. Last(p) \in Record
      BY ElementOfSeq, EmptySeq DEF Last
    <3> QED BY <1>8, <3>1, ReachType DEF Lands, Follows
  <2>4. p # <<>>
    BY <1>8 DEF Lands, Bottom
  <2> QED BY <1>2, <1>3, <1>5, <1>6, <1>8, <2>1, <2>2, <2>3, <2>4 DEF Sits
<1>9. CASE r.k = "pcall"
  <2>1. ASSUME p # <<>>
        PROVE  Last(p).ci \in 1..Reach(r)
    <3>1. Last(p) \in Record /\ Len(p) \in Nat /\ Len(p) > 0 /\ Last(p) = p[Len(p)]
      BY <2>1, ElementOfSeq, EmptySeq DEF Last
    <3>2. Last(p).k = "c" /\ Last(p).th = r.th
      BY <1>9, <2>1, <3>1, RecordKinds DEF Lands, Follows
    <3>3. Reach(Last(p)) <= r.ci /\ Last(p).ci \in Nat /\ Last(p).ci > 0
      BY <1>9, <3>1, <3>2, ReachType DEF Lands
    <3> QED BY <1>1, <1>9, <3>2, <3>3 DEF Reach
  <2> QED BY <1>2, <1>3, <1>9, <2>1 DEF Sits
<1>10. CASE r.k = "resume"
  BY <1>1, <1>2, <1>3, <1>10 DEF Sits, Continuable
<1>11. CASE r.k = "execute"
  BY <1>3, <1>11 DEF Sits
<1> QED BY <1>7, <1>8, <1>9, <1>10, <1>11, RecordKinds

\* The records of the thread on top, up to j, when its frames change above those
\* they reach.
LEMMA SitsUnder ==
  ASSUME NEW s, Shape(s), NEW j \in 1..Len(s), s[j].th = Last(s).th,
         NEW l \in LuaState, NEW k \in LuaState, NEW h \in Int,
         SitsAll(s, l), Alike(l, k, h),
         \A i \in 1..j : s[i].th = Last(s).th => Reach(s[i]) <= h
  PROVE  SitsAll(Under(s, j), k)
<1> DEFINE t == Under(s, j)
<1>1. s \in Seq(Record) /\ Len(s) \in Nat /\ j \in 0..Len(s)
  BY LenProperties DEF Shape
<1>2. /\ Len(t) = j /\ Last(t) = s[j]
      /\ \A i \in 1..j : t[i] = s[i]
      /\ \A i \in 0..j : Under(t, i) = Under(s, i)
  BY <1>1, UnderFacts, UnderUnder
<1>3. Len(l.ci) \in Nat /\ Len(k.ci) \in Nat
  BY FrameTypes
<1> HIDE DEF t
<1>4. SUFFICES ASSUME NEW i \in 1..j, s[i].th = Last(s).th
               PROVE  Sits(Under(s, i - 1), s[i], k)
  <2>1. \A i \in 1..j : i - 1 \in 0..j
    BY <1>1
  <2> QED BY <1>2, <2>1 DEF SitsAll, In, t
<1>5. i \in 1..Len(s) /\ i - 1 \in 0..Len(s)
  BY <1>1
<1>6. s[i] \in Record /\ Under(s, i - 1) \in Seq(Record) /\ Lands(Under(s, i - 1), s[i])
  BY <1>1, <1>5, ElementOfSeq, UnderFacts DEF Shape
<1>7. Sits(Under(s, i - 1), s[i], l)
  BY <1>4, <1>5 DEF SitsAll, In
<1>8. Alike(l, k, Reach(s[i]))
  <2>1. Reach(s[i]) \in Nat /\ Reach(s[i]) <= h
    BY <1>4, <1>6, ReachType
  <2> QED BY <1>3, <2>1 DEF Alike
<1> QED BY <1>3, <1>6, <1>7, <1>8, SitsAlike

\* A record that sits on the frames of its thread joins those that do.
LEMMA SitsPush ==
  ASSUME NEW s, Shape(s), s # <<>>, NEW r \in Record, r.th = Last(s).th, NEW k,
         SitsAll(s, k), Sits(s, r, k)
  PROVE  SitsAll(Append(s, r), k)
<1> DEFINE t == Append(s, r)
<1>1. s \in Seq(Record) /\ Len(s) \in Nat
  BY LenProperties DEF Shape
<1>2. /\ t \in Seq(Record) /\ Len(t) = Len(s) + 1 /\ \A i \in 1..Len(s) : t[i] = s[i]
      /\ t[Len(s) + 1] = r /\ Last(t) = r /\ Under(t, Len(s)) = s
  BY <1>1, PushFacts
<1> HIDE DEF t
<1>3. \A i \in 0..Len(s) : Under(t, i) = Under(s, i)
  <2> TAKE i \in 0..Len(s)
  <2>1. i <= Len(t) /\ \A m \in 1..i : t[m] = s[m]
    BY <1>1, <1>2
  <2> QED BY <1>1, <1>2, <2>1, UnderAgree
<1>4. \A i \in 1..Len(t) : t[i].th = Last(t).th => Sits(Under(t, i - 1), t[i], k)
  <2> TAKE i \in 1..Len(t)
  <2> HAVE t[i].th = Last(t).th
  <2>1. CASE i = Len(s) + 1
    BY <1>1, <1>2, <2>1
  <2>2. CASE i # Len(s) + 1
    <3>1. i \in 1..Len(s) /\ i - 1 \in 0..Len(s)
      BY <1>1, <1>2, <2>2
    <3> QED BY <1>2, <1>3, <3>1 DEF SitsAll, In
  <2> QED BY <2>1, <2>2
<1>5. SitsAll(t, k)
  BY <1>4 DEF SitsAll, In
<1> QED BY <1>5 DEF t

\* One more record on top.
LEMMA FramesPush ==
  ASSUME NEW s, Shape(s), s # <<>>, NEW r \in Record, Lands(s, r), r.k # "resume",
         NEW k, FramesFit(s, k), Sits(s, r, k), r.k = "execute" => k.isactive
  PROVE  FramesFit(Append(s, r), k) /\ Shape(Append(s, r)) /\ r.th = Last(s).th
<1> DEFINE t == Append(s, r)
<1>1. s \in Seq(Record) /\ Len(s) \in Nat /\ Len(s) > 0
  BY EmptySeq, LenProperties DEF Shape
<1>2. r.th = Last(s).th
  BY DEF Lands, Follows
<1>3. /\ Len(t) = Len(s) + 1 /\ \A i \in 1..Len(s) : t[i] = s[i]
      /\ t[Len(s) + 1] = r /\ Last(t) = r
  BY <1>1, PushFacts
<1>4. SitsAll(t, k)
  BY <1>2, SitsPush DEF FramesFit
<1>5. Shape(t)
  BY ShapePush
<1> HIDE DEF t
<1>6. \A i \in 1..Len(s) : i \in 1..Len(t)
  BY <1>1, <1>3
<1>7. \A i \in 1..Len(t) : i \in 1..Len(s) \/ i = Len(s) + 1
  BY <1>1, <1>3
<1>8. Handles(t, k)
  <2>1. \A i : In(s, i) => In(t, i) /\ t[i] = s[i]
    BY <1>2, <1>3, <1>6 DEF In
  <2>2. Handles(s, k)
    BY DEF FramesFit
  <2> QED BY <1>6, <2>1, <2>2 DEF Handles
<1>9. ActiveFits(t, k)
  <2>1. ActiveFits(s, k)
    BY DEF FramesFit
  <2>2. ASSUME NEW i \in 1..Len(t), In(t, i), t[i].k \in {"execute", "resume"}
        PROVE  k.isactive
    <3>1. CASE i = Len(s) + 1
      BY <1>3, <2>2, <3>1
    <3>2. CASE i \in 1..Len(s)
      BY <1>2, <1>3, <2>1, <2>2, <3>2 DEF ActiveFits, In
    <3> QED BY <1>7, <3>1, <3>2
  <2>3. Len(t) # 1
    BY <1>1, <1>3
  <2> QED BY <2>2, <2>3 DEF ActiveFits
<1> QED BY <1>2, <1>4, <1>5, <1>8, <1>9 DEF FramesFit, t

\* The records up to j, with other frames above those that they reach.
LEMMA FramesUnder ==
  ASSUME NEW s, Shape(s), NEW j \in 1..Len(s), s[j].th = Last(s).th,
         NEW l \in LuaState, NEW k \in LuaState, NEW h \in Int,
         FramesFit(s, l), Alike(l, k, h),
         \A i \in 1..j : s[i].th = Last(s).th => Reach(s[i]) <= h,
         \A m \in 1..Len(k.ci) : k.ci[m].handle =>
           \/ Continuable(k, m)
           \/ s[j].k = "c" /\ s[j].pc = "wait" /\ s[j].ci = m
           \/ /\ m <= h /\ l.ci[m].handle
              /\ \A i \in j+1..Len(s) : ~(s[i].k = "c" /\ s[i].pc = "wait" /\ s[i].ci = m),
         \A i \in 1..j : s[i].th = Last(s).th /\ s[i].k \in {"execute", "resume"} => k.isactive,
         j = 1 /\ s[1].k = "pcall" => ~k.isactive
  PROVE  FramesFit(Under(s, j), k) /\ Shape(Under(s, j)) /\ Last(Under(s, j)) = s[j]
<1> DEFINE t == Under(s, j)
<1>1. s \in Seq(Record) /\ Len(s) \in Nat /\ j \in 0..Len(s)
  BY LenProperties DEF Shape
<1>2. Len(t) = j /\ Last(t) = s[j] /\ \A i \in 1..j : t[i] = s[i]
  BY <1>1, UnderFacts
<1>3. SitsAll(t, k)
  BY SitsUnder DEF FramesFit
<1>4. Shape(t)
  BY <1>1, ShapeUnder
<1> HIDE DEF t
<1>5. \A i \in 1..j : In(t, i) <=> s[i].th = Last(s).th
  BY <1>2 DEF In
<1>6. ActiveFits(t, k)
  <2>1. Len(t) = 1 /\ t[1].k = "pcall" => ~k.isactive
    BY <1>2
  <2> QED BY <1>2, <1>5, <2>1 DEF ActiveFits
<1>7. Handles(t, k)
  <2>1. SUFFICES ASSUME NEW m \in 1..Len(k.ci), k.ci[m].handle, ~Continuable(k, m)
                 PROVE  \E i \in 1..Len(t) : In(t, i) /\ t[i].k = "c" /\ t[i].pc = "wait" /\ t[i].ci = m
    BY DEF Handles
  <2>2. CASE s[j].k = "c" /\ s[j].pc = "wait" /\ s[j].ci = m
    BY <1>2, <1>5, <2>2
  <2>3. CASE /\ m <= h /\ l.ci[m].handle
             /\ \A i \in j+1..Len(s) : ~(s[i].k = "c" /\ s[i].pc = "wait" /\ s[i].ci = m)
    <3>1. Len(l.ci) \in Nat /\ Len(k.ci) \in Nat
      BY FrameTypes
    <3>2. m \in 1..Len(l.ci)
      BY <2>3, <3>1 DEF Alike
    <3>3. ~Continuable(l, m)
      BY <2>1, <2>3, <3>1 DEF Continuable, Alike
    <3>4. PICK i \in 1..Len(s) : In(s, i) /\ s[i].k = "c" /\ s[i].pc = "wait" /\ s[i].ci = m
      BY <2>3, <3>2, <3>3 DEF FramesFit, Handles
    <3>5. i \in 1..j
      BY <1>1, <2>3, <3>4
    <3> QED BY <1>2, <1>5, <3>4, <3>5 DEF In
  <2> QED BY <2>1, <2>2, <2>3
<1> QED BY <1>2, <1>3, <1>4, <1>6, <1>7 DEF FramesFit, t

\* A C function on top goes from one of its points to another.
LEMMA FramesSet ==
  ASSUME NEW s, Shape(s), s # <<>>, Last(s).k = "c", NEW r \in Record,
         r.k = "c" /\ r.th = Last(s).th /\ r.ci = Last(s).ci,
         NEW l \in LuaState, NEW k \in LuaState, FramesFit(s, l),
         Len(k.ci) = Len(l.ci), k.isactive = l.isactive, Alike(l, k, Len(l.ci)),
         r.pc = "error" => FnOf(l, r.ci) \in {"pcall", "xpcall"},
         \A m \in 1..Len(l.ci) : k.ci[m].handle => l.ci[m].handle \/ m = r.ci,
         k.ci[r.ci].handle => r.pc = "wait"
  PROVE  FramesFit(Append(Front(s), r), k) /\ Shape(Append(Front(s), r))
<1> DEFINE n == Len(s) - 1
           p == Under(s, n)
           t == Append(p, r)
<1>1. s \in Seq(Record)
  BY DEF Shape
<1>2. /\ s = Append(p, Last(s)) /\ n \in 0..Len(s) /\ Len(s) \in Nat /\ Len(s) > 0
      /\ p \in Seq(Record) /\ Last(s) \in Record /\ Front(s) = p
  BY <1>1, TopApart
<1>3. Len(l.ci) \in Nat
  BY FrameTypes
<1>4. Lands(p, Last(s)) /\ Last(s) = s[Len(s)] /\ Len(s) \in 1..Len(s)
  BY <1>2 DEF Shape, Last
<1>5. p # <<>> /\ n > 0
  <2>1. p # <<>>
    BY <1>4 DEF Lands, Bottom
  <2> QED BY <1>1, <1>2, <2>1, UnderFacts
<1>6. /\ Len(p) = n /\ Last(p) = s[n] /\ \A i \in 1..n : p[i] = s[i]
  BY <1>1, <1>2, <1>5, UnderFacts
<1>7. Last(p).th = r.th /\ Lands(p, r)
  <2>1. Follows(Last(p), Last(s))
    BY <1>4, <1>5 DEF Lands
  <2>2. Last(p).th = r.th /\ Follows(Last(p), r)
    BY <2>1 DEF Follows
  <2>3. ~(Len(p) = 1 /\ p[1].k = "pcall")
    BY <1>6, <2>1 DEF Follows, Last
  <2> QED BY <1>4, <1>5, <2>2, <2>3 DEF Lands
<1>8. Shape(p) /\ Shape(t)
  <2>1. Shape(p)
    BY <1>2, ShapeUnder
  <2> QED BY <1>7, <2>1, ShapePush
<1>9. SitsAll(s, k)
  <2>1. \A i \in 1..Len(s) : s[i].th = Last(s).th => Reach(s[i]) <= Len(l.ci)
    BY DEF FramesFit, SitsAll, Sits, In
  <2>2. Last(s) = s[Len(s)] /\ Len(s) \in 1..Len(s)
    BY <1>4
  <2>3. Len(l.ci) \in Int /\ SitsAll(s, l)
    BY <1>3 DEF FramesFit
  <2>4. SitsAll(Under(s, Len(s)), k)
    BY <2>1, <2>2, <2>3, SitsUnder
  <2> QED BY <1>1, <2>4, UnderAll
<1>10. Sits(p, Last(s), k) /\ SitsAll(p, k)
  <2>1. Sits(p, Last(s), k)
    BY <1>4, <1>9 DEF SitsAll, In
  <2>2. Len(k.ci) \in Int /\ Alike(k, k, Len(k.ci)) /\ n \in 1..Len(s) /\ s[n].th = Last(s).th
    BY <1>2, <1>3, <1>5, <1>6, <1>7 DEF Alike
  <2>3. \A i \in 1..n : s[i].th = Last(s).th => Reach(s[i]) <= Len(k.ci)
    BY <1>2, <1>9 DEF SitsAll, Sits, In
  <2>4. SitsAll(p, k)
    BY <1>9, <2>2, <2>3, SitsUnder
  <2> QED BY <2>1, <2>4
<1>11. Sits(p, r, k)
  <2>1. r.ci \in 1..Len(l.ci)
    <3>1. r.ci \in Nat /\ r.ci > 0
      BY ReachType
    <3>2. Reach(Last(s)) <= Len(k.ci)
      BY <1>10 DEF Sits
    <3> QED BY <1>3, <3>1, <3>2 DEF Reach
  <2>2. FnOf(k, r.ci) = FnOf(l, r.ci)
    BY <2>1 DEF Alike
  <2>3. Reach(r) = Reach(Last(s))
    BY DEF Reach
  <2> QED BY <1>10, <2>2, <2>3 DEF Sits
<1>12. SitsAll(t, k)
  BY <1>5, <1>7, <1>8, <1>10, <1>11, SitsPush
<1>13. Len(t) = n + 1 /\ t[n + 1] = r /\ Last(t) = r /\ \A i \in 1..n : t[i] = s[i]
  BY <1>2, <1>6, PushFacts
<1> HIDE DEF p, t
<1>14. ActiveFits(t, k)
  <2>1. ASSUME NEW i \in 1..Len(t), In(t, i), t[i].k \in {"execute", "resume"}
        PROVE  k.isactive
    <3>1. i \in 1..n
      BY <1>2, <1>13, <2>1
    <3>2. i \in 1..Len(s) /\ In(s, i) /\ s[i].k \in {"execute", "resume"}
      BY <1>2, <1>13, <2>1, <3>1 DEF In
    <3> QED BY <3>2 DEF FramesFit, ActiveFits
  <2>2. Len(t) # 1
    BY <1>2, <1>5, <1>13
  <2> QED BY <2>1, <2>2 DEF ActiveFits
<1>15. Handles(t, k)
  <2>1. SUFFICES ASSUME NEW m \in 1..Len(k.ci), k.ci[m].handle, ~Continuable(k, m)
                 PROVE  \E i \in 1..Len(t) : In(t, i) /\ t[i].k = "c" /\ t[i].pc = "wait" /\ t[i].ci = m
    BY DEF Handles
  <2>2. n + 1 \in 1..Len(t) /\ In(t, n + 1)
    BY <1>2, <1>13 DEF In
  <2>3. CASE m = r.ci
    BY <1>13, <2>1, <2>2, <2>3
  <2>4. CASE m # r.ci
    <3>1. l.ci[m].handle /\ ~Continuable(l, m) /\ m \in 1..Len(l.ci)
      BY <1>3, <2>1, <2>4 DEF Continuable, Alike
    <3>2. PICK i \in 1..Len(s) : In(s, i) /\ s[i].k = "c" /\ s[i].pc = "wait" /\ s[i].ci = m
      BY <3>1 DEF FramesFit, Handles
    <3>3. i # Len(s)
      BY <1>4, <2>4, <3>2
    <3>4. i \in 1..n /\ i \in 1..Len(t)
      BY <1>2, <1>13, <3>2, <3>3
    <3> QED BY <1>13, <3>2, <3>4 DEF In
  <2> QED BY <2>3, <2>4
<1> QED BY <1>2, <1>8, <1>12, <1>14, <1>15 DEF FramesFit, t

-----------------------------------------------------------------------------
(* Calls.                                                                    *)

\* The thread on top of stack s, whatever it does next.
Okay(s, l) == Shape(s) /\ s # <<>> /\ l \in LuaState /\ FramesOK(l) /\ FramesFit(s, l)

\* What is known of the record on top.
LEMMA OkayFacts ==
  ASSUME NEW s, NEW l, Okay(s, l)
  PROVE  /\ s \in Seq(Record) /\ Len(s) \in Nat /\ Len(s) > 0
         /\ Last(s) = s[Len(s)] /\ Last(s) \in Record /\ Last(s).th \in Thread
         /\ Under(s, Len(s)) = s
         /\ \A i \in 1..Len(s) : s[i].th = Last(s).th => Reach(s[i]) <= Len(l.ci)
         /\ Sits(Under(s, Len(s) - 1), Last(s), l)
         /\ Lands(Under(s, Len(s) - 1), Last(s))
<1>1. s \in Seq(Record) /\ Len(s) \in Nat /\ Len(s) > 0
  BY EmptySeq, LenProperties DEF Okay, Shape
<1>2. Last(s) = s[Len(s)] /\ Last(s) \in Record
  BY <1>1, ElementOfSeq DEF Last
<1>3. \A i \in 1..Len(s) : s[i].th = Last(s).th => Sits(Under(s, i - 1), s[i], l)
  BY DEF Okay, FramesFit, SitsAll, In
<1>4. \A i \in 1..Len(s) : s[i].th = Last(s).th => Reach(s[i]) <= Len(l.ci)
  BY <1>3 DEF Sits
<1>5. Len(s) \in 1..Len(s)
  BY <1>1
<1>6. Lands(Under(s, Len(s) - 1), Last(s))
  BY <1>2, <1>5 DEF Okay, Shape
<1> QED BY <1>1, <1>2, <1>3, <1>4, <1>5, <1>6, RecordKinds, UnderAll

\* A new frame.
LEMMA ExtendFrames ==
  ASSUME NEW s, NEW l, Okay(s, l), Last(s).k # "pcall",
         NEW f \in CallInfo, ~f.handle,
         f.fn = "lua" /\ ~f.ret => Len(l.ci) > 0 /\ FnOf(l, Len(l.ci)) = "lua",
         NEW k \in LuaState, k.ci = Append(l.ci, f), l.isactive => k.isactive
  PROVE  /\ Okay(s, k) /\ Len(k.ci) = Len(l.ci) + 1 /\ Len(l.ci) \in Nat
         /\ Alike(l, k, Len(l.ci))
         /\ k.ci[Len(l.ci) + 1] = f /\ FnOf(k, Len(l.ci) + 1) = f.fn
         /\ \A h \in 0..Len(l.ci) : Accounted(s, h, l) => Accounted(s, h, k)
<1> DEFINE n == Len(l.ci)
<1>1. /\ l \in LuaState /\ Shape(s) /\ s # <<>> /\ FramesFit(s, l)
      /\ l.ci \in Seq(CallInfo) /\ n \in Nat
  BY FrameTypes DEF Okay
<1>2. /\ Len(k.ci) = n + 1 /\ (\A m \in 1..n : k.ci[m] = l.ci[m]) /\ k.ci[n + 1] = f
  BY <1>1, AppendProperties
<1>3. /\ s \in Seq(Record) /\ Len(s) \in Nat /\ Len(s) > 0
      /\ Last(s) = s[Len(s)] /\ Under(s, Len(s)) = s
      /\ \A i \in 1..Len(s) : s[i].th = Last(s).th => Reach(s[i]) <= n
  BY OkayFacts
<1> HIDE DEF n
<1>4. Alike(l, k, n)
  BY <1>1, <1>2 DEF Alike, FnOf, n
<1>5. FramesOK(k)
  <2>1. \A m \in 1..n : FnOf(k, m) = FnOf(l, m)
    BY <1>2 DEF FnOf
  <2> SUFFICES ASSUME NEW m \in 1..n + 1
               PROVE  /\ FnOf(k, m) = "lua" /\ ~k.ci[m].ret => m > 1 /\ FnOf(k, m - 1) = "lua"
                      /\ k.ci[m].handle => FnOf(k, m) \in {"pcall", "xpcall"}
    BY <1>2 DEF FramesOK
  <2>2. CASE m = n + 1
    <3>1. k.ci[m] = f /\ FnOf(k, m) = f.fn /\ m - 1 = n
      BY <1>1, <1>2, <2>2 DEF FnOf
    <3>2. f.fn = "lua" /\ ~f.ret => n > 0 /\ FnOf(k, n) = "lua"
      BY <1>1, <2>1 DEF n
    <3> QED BY <1>1, <2>2, <3>1, <3>2
  <2>3. CASE m # n + 1
    <3>1. m \in 1..n /\ (m > 1 => m - 1 \in 1..n)
      BY <1>1, <2>3
    <3> QED BY <1>2, <2>1, <3>1 DEF Okay, FramesOK, n
  <2> QED BY <2>2, <2>3
<1>6. FramesFit(Under(s, Len(s)), k)
  <2>1. Len(s) \in 1..Len(s) /\ s[Len(s)].th = Last(s).th /\ n \in Int
    BY <1>1, <1>3
  <2>2. \A m \in 1..Len(k.ci) : k.ci[m].handle =>
           \/ Continuable(k, m)
           \/ s[Len(s)].k = "c" /\ s[Len(s)].pc = "wait" /\ s[Len(s)].ci = m
           \/ /\ m <= n /\ l.ci[m].handle
              /\ \A i \in Len(s)+1..Len(s) : ~(s[i].k = "c" /\ s[i].pc = "wait" /\ s[i].ci = m)
    <3> TAKE m \in 1..Len(k.ci)
    <3> HAVE k.ci[m].handle
    <3>1. m # n + 1
      BY <1>2
    <3>2. m <= n /\ m \in 1..n
      BY <1>1, <1>2, <3>1
    <3> QED BY <1>2, <1>3, <3>2
  <2>3. \A i \in 1..Len(s) : s[i].th = Last(s).th /\ s[i].k \in {"execute", "resume"} => k.isactive
    BY <1>1 DEF FramesFit, ActiveFits, In
  <2>4. ~(Len(s) = 1 /\ s[1].k = "pcall")
    BY <1>3
  <2> QED BY <1>1, <1>3, <1>4, <2>1, <2>2, <2>3, <2>4, FramesUnder
<1>7. Okay(s, k)
  BY <1>1, <1>3, <1>5, <1>6 DEF Okay
<1>8. \A h \in 0..n : Accounted(s, h, l) => Accounted(s, h, k)
  <2> TAKE h \in 0..n
  <2>1. \A m \in 1..h : FnOf(k, m) = FnOf(l, m)
    BY <1>1, <1>2 DEF FnOf
  <2> QED BY <2>1 DEF Accounted, Continuable
<1> QED BY <1>1, <1>2, <1>4, <1>7, <1>8 DEF n, FnOf

\* The newest record waits for, or is, code that may call.
LEMMA TopAccounted ==
  ASSUME NEW s, NEW l, Okay(s, l), TopFits(s, l),
         \/ Last(s).k \in {"execute", "call"}
         \/ Last(s).k = "resume" /\ Last(s).pc = "loop"
  PROVE  Accounted(s, Len(l.ci), l)
<1>1. CASE Last(s).k = "execute"
  BY <1>1 DEF TopFits, Runs
<1>2. CASE Last(s).k = "resume"
  BY <1>2 DEF TopFits, Accounted
<1>3. CASE Last(s).k = "call"
  <2> DEFINE p == Under(s, Len(s) - 1)
             r == Last(s)
  <2>1. /\ s \in Seq(Record) /\ Len(s) \in Nat /\ Len(s) > 0 /\ r = s[Len(s)]
        /\ r \in Record /\ Sits(p, r, l) /\ Lands(p, r)
    BY OkayFacts
  <2>2. Len(l.ci) = r.ci
    BY <1>3 DEF TopFits
  <2>3. r.y \in BOOLEAN
    BY <1>3, <2>1, RecordKinds DEF CallRec
  <2>4. CASE r.y = FALSE
    <3>1. Len(s) \in CallsOf(s, r.th, FALSE)
      BY <1>3, <2>1, <2>4 DEF CallsOf
    <3> QED BY <3>1 DEF Accounted
  <2>5. CASE r.y = TRUE
    <3>1. Accounted(p, Len(l.ci), l)
      BY <1>3, <2>1, <2>2, <2>5 DEF Sits
    <3>2. p # <<>>
      BY <1>3, <2>1 DEF Lands, Bottom
    <3>3. Last(p).th = r.th
      BY <1>3, <2>1, <3>2 DEF Lands, Follows
    <3>4. CallsOf(p, r.th, FALSE) \subseteq CallsOf(s, r.th, FALSE)
      <4>1. Len(s) - 1 \in 0..Len(s)
        BY <2>1
      <4>2. Len(p) = Len(s) - 1 /\ \A i \in 1..Len(s)-1 : p[i] = s[i]
        BY <2>1, <4>1, UnderFacts
      <4> QED BY <2>1, <4>2 DEF CallsOf
    <3> QED BY <3>1, <3>3, <3>4 DEF Accounted
  <2> QED BY <2>3, <2>4, <2>5
<1> QED BY <1>1, <1>2, <1>3

\* The precall of a C function: from the interpreter, from a call, or as the
\* start of a coroutine.
LEMMA PushC ==
  ASSUME NEW s, NEW l, Okay(s, l), TopFits(s, l),
         \/ Last(s).k \in {"execute", "call"}
         \/ Last(s).k = "resume" /\ Last(s).pc = "loop",
         NEW f \in CallInfo, f.fn \in CFunction, ~f.handle,
         NEW k \in LuaState, k.ci = Append(l.ci, f), l.isactive => k.isactive, k.status = "OK",
         CountsFit(s, Last(s).th, k.nCcalls, k.baseCcalls)
  PROVE  LET t == Append(s, CBody(Last(s).th, Len(l.ci) + 1, "run"))
         IN Okay(t, k) /\ Fits(t, k)
<1> DEFINE n == Len(l.ci)
           th == Last(s).th
           r == CBody(th, n + 1, "run")
           t == Append(s, r)
<1>1. /\ s \in Seq(Record) /\ Len(s) \in Nat /\ Len(s) > 0 /\ Last(s) = s[Len(s)]
      /\ Last(s) \in Record /\ th \in Thread /\ Shape(s) /\ s # <<>>
      /\ \A i \in 1..Len(s) : s[i].th = th => Reach(s[i]) <= n
  BY OkayFacts DEF Okay
<1>2. f.fn # "lua" /\ Last(s).k # "pcall"
  BY DEF CFunction
<1>3. /\ Okay(s, k) /\ Len(k.ci) = n + 1 /\ n \in Nat /\ Alike(l, k, n)
      /\ FnOf(k, n + 1) = f.fn
      /\ \A h \in 0..n : Accounted(s, h, l) => Accounted(s, h, k)
  BY <1>2, ExtendFrames
<1>4. r \in Record /\ r.k = "c" /\ r.th = th /\ r.ci = n + 1 /\ r.pc = "run" /\ Reach(r) = n + 1
  BY <1>1, <1>3 DEF CBody, Record, CRec, Reach
<1>5. Accounted(s, n, k)
  BY <1>3, TopAccounted
<1> HIDE DEF r, n
<1>6. Lands(s, r)
  <2>1. Follows(Last(s), r)
    BY <1>4 DEF Follows, TopFits, n
  <2>2. ~(Len(s) = 1 /\ s[1].k = "pcall")
    BY <1>1, <1>2
  <2>3. \A m \in 1..Len(s) : s[m].th = r.th => Reach(s[m]) <= r.ci /\ Reach(s[m]) < r.ci
    BY <1>1, <1>3, <1>4, ElementOfSeq, ReachType
  <2> QED BY <1>1, <1>4, <2>1, <2>2, <2>3 DEF Lands
<1>7. Last(s).k = "execute" => Runs(s, n, k)
  <2>1. Last(s).k = "execute" => Runs(s, n, l)
    BY DEF TopFits, n
  <2>2. n \in Int /\ Len(k.ci) \in Nat
    BY <1>3
  <2> QED BY <1>1, <1>3, <2>1, <2>2, RunsAlike
<1>8. Sits(s, r, k)
  <2>1. r.ci - 1 = n /\ Reach(r) <= Len(k.ci)
    BY <1>3, <1>4
  <2>2. FnOf(k, r.ci) # "lua"
    BY <1>2, <1>3, <1>4
  <2> QED BY <1>4, <1>5, <1>7, <2>1, <2>2 DEF Sits
<1>9. FramesFit(t, k) /\ Shape(t)
  BY <1>1, <1>3, <1>4, <1>6, <1>8, FramesPush DEF Okay
<1>10. Last(t) = r /\ t # <<>>
  BY <1>1, <1>4, PushFacts
<1>11. TopFits(t, k)
  BY <1>3, <1>4, <1>10 DEF TopFits
<1>12. CountsFit(t, th, k.nCcalls, k.baseCcalls)
  BY <1>1, <1>4, CountsPush, FrameTypes
<1>13. Fits(t, k)
  BY <1>4, <1>9, <1>10, <1>11, <1>12 DEF Fits
<1>14. Okay(t, k)
  BY <1>3, <1>9, <1>10 DEF Okay
<1> QED BY <1>13, <1>14 DEF t, r, n, th

\* The same for a Lua function that luau_execute runs.
LEMMA PushExecute ==
  ASSUME NEW s, NEW l, Okay(s, l), TopFits(s, l),
         \/ Last(s).k = "call"
         \/ Last(s).k = "resume" /\ Last(s).pc = "loop",
         NEW f \in CallInfo, f.fn = "lua", f.ret, ~f.handle,
         NEW k \in LuaState, k.ci = Append(l.ci, f), k.isactive, k.status = "OK",
         CountsFit(s, Last(s).th, k.nCcalls, k.baseCcalls)
  PROVE  LET t == Append(s, Execute(Last(s).th)) IN Okay(t, k) /\ Fits(t, k)
<1> DEFINE n == Len(l.ci)
           th == Last(s).th
           r == Execute(th)
           t == Append(s, r)
<1>1. /\ s \in Seq(Record) /\ Len(s) \in Nat /\ Len(s) > 0 /\ Last(s) = s[Len(s)]
      /\ Last(s) \in Record /\ th \in Thread /\ Shape(s) /\ s # <<>>
  BY OkayFacts DEF Okay
<1>2. Last(s).k # "pcall"
  OBVIOUS
<1>3. /\ Okay(s, k) /\ Len(k.ci) = n + 1 /\ n \in Nat /\ Alike(l, k, n)
      /\ k.ci[n + 1] = f /\ FnOf(k, n + 1) = f.fn
      /\ \A h \in 0..n : Accounted(s, h, l) => Accounted(s, h, k)
  BY <1>2, ExtendFrames
<1>4. r \in Record /\ r.k = "execute" /\ r.th = th /\ Reach(r) = 0
  BY <1>1 DEF Execute, Record, ExecuteRec, Reach
<1>5. Accounted(s, n, k)
  BY <1>3, TopAccounted
<1> HIDE DEF r, n
<1>6. Lands(s, r)
  <2>1. Follows(Last(s), r)
    BY <1>4 DEF Follows
  <2>2. ~(Len(s) = 1 /\ s[1].k = "pcall")
    BY <1>1, <1>2
  <2> QED BY <1>1, <1>4, <2>1, <2>2 DEF Lands
<1>8. Sits(s, r, k)
  BY <1>3, <1>4 DEF Sits
<1>9. FramesFit(t, k) /\ Shape(t)
  BY <1>1, <1>3, <1>4, <1>6, <1>8, FramesPush DEF Okay
<1>10. /\ Last(t) = r /\ t # <<>> /\ Len(t) = Len(s) + 1
       /\ \A i \in 1..Len(s) : t[i] = s[i]
  BY <1>1, <1>4, PushFacts
<1>a. CountsFit(t, th, k.nCcalls, k.baseCcalls)
  BY <1>1, <1>4, CountsPush, FrameTypes
<1> HIDE DEF t
<1>11. Accounted(t, n + 1, k)
  <2>1. CallsOf(s, th, FALSE) \subseteq CallsOf(t, th, FALSE)
    BY <1>1, <1>10 DEF CallsOf
  <2>2. Continuable(k, n) => Continuable(k, n + 1)
    BY <1>3 DEF Continuable
  <2> QED BY <1>4, <1>5, <1>10, <2>1, <2>2 DEF Accounted
<1>12. Runs(t, n + 1, k)
  <2>1. t[Len(t) - 1] = Last(s)
    BY <1>1, <1>10
  <2>2. Last(s).k = "call" => Last(s).ci = n
    BY DEF TopFits, n
  <2>3. n + 1 \in 1..Len(k.ci) /\ n + 1 > n /\ \A m \in n + 2..n + 1 : ~k.ci[m].ret
    BY <1>3
  <2> QED BY <1>3, <1>11, <2>1, <2>2, <2>3 DEF Runs
<1>13. TopFits(t, k)
  BY <1>3, <1>4, <1>10, <1>12 DEF TopFits
<1>14. Fits(t, k)
  BY <1>4, <1>9, <1>10, <1>13, <1>a DEF Fits
<1>15. Okay(t, k)
  BY <1>3, <1>9, <1>10 DEF Okay
<1> QED BY <1>14, <1>15 DEF t, r, th

\* The counts and the status do not matter to the frames.
LEMMA OkaySame ==
  ASSUME NEW s, NEW l, Okay(s, l), NEW k \in LuaState, k.ci = l.ci, k.isactive = l.isactive
  PROVE  /\ Okay(s, k)
         /\ TopFits(s, l) => TopFits(s, k)
         /\ \A p, h : Accounted(p, h, l) => Accounted(p, h, k)
         /\ \A p, h : Runs(p, h, l) => Runs(p, h, k)
         /\ \A h : FnOf(k, h) = FnOf(l, h)
<1>1. \A h : FnOf(k, h) = FnOf(l, h)
  BY DEF FnOf
<1>2. \A h : Continuable(k, h) <=> Continuable(l, h)
  BY <1>1 DEF Continuable
<1>3. \A p, h : Accounted(p, h, k) <=> Accounted(p, h, l)
  BY <1>2 DEF Accounted
<1>4. \A p, h : Runs(p, h, k) <=> Runs(p, h, l)
  BY <1>1, <1>3 DEF Runs
<1>5. \A p, r : Sits(p, r, l) => Sits(p, r, k)
  BY <1>1, <1>2, <1>3, <1>4 DEF Sits
<1>6. FramesFit(s, k)
  BY <1>2, <1>5 DEF Okay, FramesFit, SitsAll, ActiveFits, Handles
<1>7. FramesOK(k)
  BY <1>1 DEF Okay, FramesOK
<1>8. TopFits(s, l) => TopFits(s, k)
  BY <1>1, <1>2, <1>4 DEF TopFits
<1> QED BY <1>1, <1>3, <1>4, <1>6, <1>7, <1>8 DEF Okay

\* A call through the native stack.
LEMMA PushCall ==
  ASSUME NEW s, NEW l, Okay(s, l), CountsFit(s, Last(s).th, l.nCcalls, l.baseCcalls),
         NEW kind \in {"int", "iter", "ny"}, NEW y \in BOOLEAN, kind = "ny" => ~y,
         y => Accounted(s, Len(l.ci), l),
         \/ Last(s).k = "execute" /\ Runs(s, Len(l.ci), l)
         \/ /\ Last(s).k = "c" /\ Last(s).pc = "wait" /\ Last(s).ci = Len(l.ci)
            /\ FnOf(l, Len(l.ci)) = IF y THEN "k" ELSE "c"
         \/ /\ Last(s).k = "pcall" /\ Last(s).pc = "run" /\ Last(s).ci = Len(l.ci)
            /\ y => Len(l.ci) > 0 /\ FnOf(l, Len(l.ci)) # "c"
         \/ Last(s).k \in {"pcall", "resume"} /\ Last(s).pc = "errf" /\ ~y,
         Len(s) = 1 /\ s[1].k = "pcall" => ~y,
         NEW k \in LuaState, k.ci = l.ci, k.isactive = l.isactive, k.status = "OK",
         k.nCcalls = l.nCcalls + 1, k.baseCcalls = l.baseCcalls + IF y THEN 1 ELSE 0
  PROVE  LET t == Append(s, CallRecord(Last(s).th, l, kind, y)) IN Okay(t, k) /\ Fits(t, k)
<1> DEFINE n == Len(l.ci)
           th == Last(s).th
           r == CallRecord(th, l, kind, y)
           t == Append(s, r)
<1>1. /\ s \in Seq(Record) /\ Len(s) \in Nat /\ Len(s) > 0 /\ Last(s) = s[Len(s)]
      /\ Last(s) \in Record /\ th \in Thread /\ Shape(s) /\ s # <<>>
      /\ \A i \in 1..Len(s) : s[i].th = th => Reach(s[i]) <= n
      /\ l \in LuaState
  BY OkayFacts DEF Okay
<1>2. n \in Nat /\ l.isactive \in BOOLEAN /\ l.nCcalls \in Int /\ l.baseCcalls \in Int
  BY <1>1, FrameTypes
<1>3. /\ r \in Record /\ r.k = "call" /\ r.th = th /\ r.ci = n /\ r.y = y
      /\ r.act = l.isactive /\ r.kind = kind /\ Reach(r) = n
  BY <1>1, <1>2 DEF CallRecord, Record, CallRec, Reach
<1> HIDE DEF r, n
<1>4. Lands(s, r)
  <2>1. Follows(Last(s), r)
    <3>1. r.k # "resume" /\ r.k \in {"c", "call"} /\ r.th = Last(s).th
      BY <1>3
    <3>2. CASE Last(s).k = "execute"
      BY <3>1, <3>2 DEF Follows
    <3>3. CASE Last(s).k = "c"
      BY <1>3, <3>1, <3>3 DEF Follows, n
    <3>4. CASE Last(s).k = "pcall"
      BY <1>3, <3>1, <3>4 DEF Follows, n
    <3>5. CASE Last(s).k = "resume"
      BY <1>3, <3>1, <3>5 DEF Follows
    <3> QED BY <3>2, <3>3, <3>4, <3>5
  <2>2. Len(s) = 1 /\ s[1].k = "pcall" => ~r.y /\ ~r.act
    BY <1>3 DEF Okay, FramesFit, ActiveFits
  <2>3. \A m \in 1..Len(s) : s[m].th = r.th /\ s[m].k \in {"execute", "resume"} => r.act
    BY <1>3 DEF Okay, FramesFit, ActiveFits, In
  <2>4. \A m \in 1..Len(s) : s[m].th = r.th => Reach(s[m]) <= r.ci
    BY <1>1, <1>3
  <2> QED BY <1>1, <1>3, <2>1, <2>2, <2>3, <2>4 DEF Lands
<1>5. /\ Okay(s, k)
      /\ \A p, h : Accounted(p, h, l) => Accounted(p, h, k)
      /\ \A p, h : Runs(p, h, l) => Runs(p, h, k)
      /\ \A h : FnOf(k, h) = FnOf(l, h)
  BY OkaySame
<1>6. Sits(s, r, k)
  <2>1. Reach(r) <= Len(k.ci)
    BY <1>2, <1>3 DEF n
  <2>2. r.y => Accounted(s, r.ci, k)
    BY <1>3, <1>5 DEF n
  <2>3. Last(s).k = "execute" => Runs(s, r.ci, k)
    BY <1>3, <1>5 DEF n
  <2>4. Last(s).k = "c" => FnOf(k, r.ci) = IF r.y THEN "k" ELSE "c"
    BY <1>3, <1>5 DEF n
  <2>5. Last(s).k = "pcall" /\ r.y => r.ci > 0 /\ FnOf(k, r.ci) # "c"
    BY <1>3, <1>5 DEF n
  <2> QED BY <1>3, <2>1, <2>2, <2>3, <2>4, <2>5 DEF Sits
<1>7. FramesFit(t, k) /\ Shape(t)
  BY <1>1, <1>3, <1>4, <1>5, <1>6, FramesPush DEF Okay
<1>8. Last(t) = r /\ t # <<>>
  BY <1>1, <1>3, PushFacts
<1>9. TopFits(t, k)
  BY <1>3, <1>8 DEF TopFits, n
<1>10. CountsFit(t, th, k.nCcalls, k.baseCcalls)
  <2> DEFINE d == IF y THEN 1 ELSE 0
  <2>1. d \in Int /\ d = IF r.y THEN 1 ELSE 0
    BY <1>3
  <2>2. k.baseCcalls = l.baseCcalls + d
    OBVIOUS
  <2> HIDE DEF d
  <2>3. CountsFit(t, th, l.nCcalls + 1, l.baseCcalls + d)
    BY <1>1, <1>2, <1>3, <2>1, CountsPushCall
  <2> QED BY <2>2, <2>3
<1>11. Okay(t, k) /\ Fits(t, k)
  BY <1>3, <1>5, <1>7, <1>8, <1>9, <1>10 DEF Fits, Okay
<1> QED BY <1>11 DEF t, r, th

\* The thread on top may call through the native stack, y with a continuation.
Caller(s, l, y) ==
  /\ y => Accounted(s, Len(l.ci), l)
  /\ \/ Last(s).k = "execute" /\ Runs(s, Len(l.ci), l)
     \/ /\ Last(s).k = "c" /\ Last(s).pc = "wait" /\ Last(s).ci = Len(l.ci)
        /\ FnOf(l, Len(l.ci)) = IF y THEN "k" ELSE "c"
     \/ /\ Last(s).k = "pcall" /\ Last(s).pc = "run" /\ Last(s).ci = Len(l.ci)
        /\ y => Len(l.ci) > 0 /\ FnOf(l, Len(l.ci)) # "c"
     \/ Last(s).k \in {"pcall", "resume"} /\ Last(s).pc = "errf" /\ ~y
  /\ Len(s) = 1 /\ s[1].k = "pcall" => ~y

\* A call counted (luaD_callint).
LEMMA CountedFacts ==
  ASSUME NEW l \in LuaState, NEW y \in BOOLEAN
  PROVE  LET k == Counted(l, y) IN
         /\ k \in LuaState /\ k.ci = l.ci /\ k.isactive = l.isactive /\ k.status = l.status
         /\ k.nCcalls = l.nCcalls + 1 /\ k.baseCcalls = l.baseCcalls + IF y THEN 1 ELSE 0
<1> DEFINE b == IF y THEN l.baseCcalls + 1 ELSE l.baseCcalls
           k == Counted(l, y)
<1>1. l.nCcalls \in Int /\ l.baseCcalls \in Int
  BY DEF LuaState
<1>2. b \in Int /\ b = l.baseCcalls + IF y THEN 1 ELSE 0
  BY <1>1
<1>3. k = [l EXCEPT !.nCcalls = l.nCcalls + 1, !.baseCcalls = b]
  BY DEF Counted, LuaState
<1> HIDE DEF b, k
<1> DEFINE a == l.nCcalls + 1
<1>4. a \in Int /\ b \in Int /\ k = [l EXCEPT !.nCcalls = a, !.baseCcalls = b]
  BY <1>1, <1>2, <1>3
<1> HIDE DEF a
<1>5. /\ k \in LuaState /\ k.ci = l.ci /\ k.isactive = l.isactive /\ k.status = l.status
      /\ k.nCcalls = a /\ k.baseCcalls = b
  BY <1>4 DEF LuaState
<1> QED BY <1>2, <1>5 DEF k, a

\* A frame entered (luau_precall).
LEMMA EnteredFacts ==
  ASSUME NEW l \in LuaState, NEW fn \in CFunction \cup {"lua"}, NEW co \in Thread
  PROVE  LET f == Frame(fn, co, fn = "lua")
             k == Entered(l, fn, co)
         IN /\ f \in CallInfo /\ f.fn = fn /\ ~f.handle /\ (fn = "lua" => f.ret)
            /\ k \in LuaState /\ k.ci = Append(l.ci, f) /\ k.status = l.status
            /\ k.nCcalls = l.nCcalls /\ k.baseCcalls = l.baseCcalls /\ k.hasfn = l.hasfn
            /\ (l.isactive => k.isactive) /\ (fn = "lua" => k.isactive)
<1> DEFINE f == Frame(fn, co, fn = "lua")
           k == Entered(l, fn, co)
<1>1. f \in CallInfo /\ f.fn = fn /\ ~f.handle /\ (fn = "lua" => f.ret)
  BY DEF Frame, CallInfo
<1>2. l.ci \in Seq(CallInfo) /\ l.isactive \in BOOLEAN
  BY DEF LuaState
<1>3. Append(l.ci, f) \in Seq(CallInfo)
  BY <1>1, <1>2, AppendProperties
<1>4. k = [l EXCEPT !.ci = Append(l.ci, f), !.isactive = l.isactive \/ fn = "lua"]
  BY DEF Entered, LuaState
<1> HIDE DEF f, k
<1>5. (l.isactive \/ fn = "lua") \in BOOLEAN
  OBVIOUS
<1> DEFINE a == l.isactive \/ fn = "lua"
<1>6. a \in BOOLEAN /\ k = [l EXCEPT !.ci = Append(l.ci, f), !.isactive = a]
  BY <1>4, <1>5
<1>7. (l.isactive => a) /\ (fn = "lua" => a)
  OBVIOUS
<1> HIDE DEF a
<1>8. /\ k \in LuaState /\ k.ci = Append(l.ci, f) /\ k.status = l.status
      /\ k.nCcalls = l.nCcalls /\ k.baseCcalls = l.baseCcalls /\ k.isactive = a /\ k.hasfn = l.hasfn
  BY <1>3, <1>6 DEF LuaState
<1> QED BY <1>1, <1>7, <1>8 DEF f, k

\* luaD_callint, luaD_callny, luaD_performcally and the precall of what they call.
LEMMA Calls ==
  ASSUME NEW s, NEW l, Okay(s, l), CountsFit(s, Last(s).th, l.nCcalls, l.baseCcalls),
         l.status = "OK", NEW kind \in {"int", "iter", "ny"}, NEW y \in BOOLEAN,
         kind = "ny" => ~y, Caller(s, l, y), NEW fn \in Callee
  PROVE  LET th == Last(s).th
             r == CallRecord(th, l, kind, y)
             a == Activation(th, l, fn)
             t == Append(Append(s, r), a)
             k == Entered(Counted(l, y), fn, th)
         IN /\ Okay(t, k) /\ Fits(t, k) /\ s \o <<r, a>> = t
            /\ r \in Record /\ a \in Record /\ k \in LuaState
            /\ r.k = "call" /\ r.th = th /\ a.k \in {"execute", "c"} /\ a.th = th
<1> DEFINE th == Last(s).th
           r == CallRecord(th, l, kind, y)
           a == Activation(th, l, fn)
           s1 == Append(s, r)
           t == Append(s1, a)
           c == Counted(l, y)
           k == Entered(c, fn, th)
           f == Frame(fn, th, fn = "lua")
<1>1. s \in Seq(Record) /\ th \in Thread /\ l \in LuaState /\ Len(l.ci) \in Nat
      /\ l.isactive \in BOOLEAN
  BY OkayFacts, FrameTypes DEF Okay
<1>2. /\ c \in LuaState /\ c.ci = l.ci /\ c.isactive = l.isactive /\ c.status = l.status
      /\ c.nCcalls = l.nCcalls + 1 /\ c.baseCcalls = l.baseCcalls + IF y THEN 1 ELSE 0
  BY <1>1, CountedFacts
<1>3. r \in Record /\ r.k = "call" /\ r.th = th
  BY <1>1 DEF CallRecord, Record, CallRec
<1>4. Okay(s1, c) /\ Fits(s1, c)
  BY <1>2, PushCall DEF Caller
<1>5. Last(s1) = r
  BY <1>1, <1>3, PushFacts
<1>6. TopFits(s1, c) /\ CountsFit(s1, th, c.nCcalls, c.baseCcalls)
  BY <1>2, <1>3, <1>4, <1>5 DEF Fits
<1>7. fn \in CFunction \cup {"lua"} /\ (fn # "lua" => fn \in CFunction)
  BY DEF Callee, CFunction
<1> HIDE DEF c
<1>8. /\ f \in CallInfo /\ f.fn = fn /\ ~f.handle /\ (fn = "lua" => f.ret)
      /\ k \in LuaState /\ k.ci = Append(c.ci, f) /\ k.status = c.status
      /\ k.nCcalls = c.nCcalls /\ k.baseCcalls = c.baseCcalls
      /\ (c.isactive => k.isactive) /\ (fn = "lua" => k.isactive)
  <2>1. c \in LuaState /\ fn \in CFunction \cup {"lua"} /\ th \in Thread
    BY <1>1, <1>2, <1>7
  <2> HIDE DEF th
  <2> QED BY <2>1, EnteredFacts
<1>9. a \in Record /\ a.k \in {"execute", "c"} /\ a.th = th
  BY <1>1 DEF Activation, Execute, CBody, Record, ExecuteRec, CRec
<1>10. s \o <<r, a>> = t
  BY <1>1, <1>3, <1>9, PushTwo
<1> HIDE DEF s1, k, c, r, f
<1>11. Okay(t, k) /\ Fits(t, k)
  <2>1. CASE fn = "lua"
    <3>1. a = Execute(Last(s1).th)
      BY <1>3, <1>5, <2>1 DEF Activation
    <3> HIDE DEF a
    <3>2. k.status = "OK" /\ CountsFit(s1, Last(s1).th, k.nCcalls, k.baseCcalls)
      BY <1>2, <1>3, <1>5, <1>6, <1>8
    <3> QED BY <1>3, <1>4, <1>5, <1>6, <1>8, <2>1, <3>1, <3>2, PushExecute
  <2>2. CASE fn # "lua"
    <3>1. a = CBody(Last(s1).th, Len(c.ci) + 1, "run")
      BY <1>2, <1>3, <1>5, <2>2 DEF Activation
    <3> HIDE DEF a
    <3>2. k.status = "OK" /\ CountsFit(s1, Last(s1).th, k.nCcalls, k.baseCcalls)
      BY <1>2, <1>3, <1>5, <1>6, <1>8
    <3>3. f.fn \in CFunction
      BY <1>7, <1>8, <2>2
    <3> QED BY <1>3, <1>4, <1>5, <1>6, <1>8, <3>1, <3>2, <3>3, PushC
  <2> QED BY <2>1, <2>2
<1> QED BY <1>3, <1>8, <1>9, <1>10, <1>11 DEF s1, k, c, r, t, th

\* A Lua function called from a Lua function goes on in the same luau_execute.
LEMMA CallLua ==
  ASSUME NEW s, NEW l, Okay(s, l), TopFits(s, l), Last(s).k = "execute",
         NEW f \in CallInfo, f.fn = "lua", ~f.ret, ~f.handle,
         NEW k \in LuaState, k.ci = Append(l.ci, f), k.isactive = l.isactive, k.status = "OK",
         CountsFit(s, Last(s).th, k.nCcalls, k.baseCcalls)
  PROVE  Okay(s, k) /\ Fits(s, k)
<1> DEFINE n == Len(l.ci)
<1>1. Runs(s, n, l)
  BY DEF TopFits
<1>2. n \in Nat /\ n > 0 /\ FnOf(l, n) = "lua"
  BY <1>1, FrameTypes DEF Runs, Okay
<1>3. /\ Okay(s, k) /\ Len(k.ci) = n + 1 /\ Alike(l, k, n)
      /\ k.ci[n + 1] = f /\ FnOf(k, n + 1) = f.fn
      /\ \A h \in 0..n : Accounted(s, h, l) => Accounted(s, h, k)
  BY <1>2, ExtendFrames
<1>4. s \in Seq(Record) /\ Len(s) \in Nat
  BY OkayFacts
<1> HIDE DEF n
<1>5. Runs(s, n, k)
  <2>1. n \in Int /\ Len(k.ci) \in Nat
    BY <1>2, <1>3
  <2> QED BY <1>1, <1>3, <1>4, <2>1, RunsAlike
<1>6. Accounted(s, n + 1, k)
  <2>1. Continuable(k, n) => Continuable(k, n + 1)
    BY <1>2, <1>3 DEF Continuable
  <2> QED BY <1>5, <2>1 DEF Runs, Accounted
<1>7. ASSUME Len(s) > 1, s[Len(s)-1].k = "call"
      PROVE  /\ n + 1 > s[Len(s)-1].ci
             /\ k.ci[s[Len(s)-1].ci + 1].ret
             /\ \A m \in s[Len(s)-1].ci + 2..n + 1 : ~k.ci[m].ret
  <2> DEFINE c == s[Len(s)-1].ci
  <2>1. c \in Nat
    BY <1>4, <1>7, ReachType, ElementOfSeq
  <2>2. n > c /\ k.ci[c + 1].ret /\ \A m \in c + 2..n : ~k.ci[m].ret
    BY <1>5, <1>7 DEF Runs
  <2> HIDE DEF c
  <2>3. \A m \in c + 2..n + 1 : m \in c + 2..n \/ m = n + 1
    BY <1>2, <2>1
  <2>4. n + 1 > c /\ k.ci[c + 1].ret /\ \A m \in c + 2..n + 1 : ~k.ci[m].ret
    BY <1>2, <1>3, <2>1, <2>2, <2>3
  <2> QED BY <2>4 DEF c
<1>8. n + 1 \in 1..Len(k.ci)
  BY <1>2, <1>3
<1>9. Runs(s, n + 1, k)
  BY <1>3, <1>6, <1>7, <1>8 DEF Runs
<1>10. TopFits(s, k)
  BY <1>3, <1>9 DEF TopFits
<1> QED BY <1>3, <1>10 DEF Fits, Okay

-----------------------------------------------------------------------------
(* Returns.                                                                  *)

\* The record below the newest one.
LEMMA Below ==
  ASSUME NEW s, Shape(s), s # <<>>, Last(s).k # "resume",
         ~(Len(s) = 1 /\ Last(s).k = "pcall")
  PROVE  LET p == Under(s, Len(s) - 1) IN
         /\ s \in Seq(Record) /\ Len(s) \in Nat /\ Len(s) > 1 /\ Len(s) - 1 \in 1..Len(s)
         /\ p # <<>> /\ p \in Seq(Record) /\ Len(p) = Len(s) - 1 /\ Shape(p)
         /\ Last(p) = s[Len(s) - 1] /\ Last(p) \in Record /\ Last(p).th = Last(s).th
         /\ \A i \in 1..Len(s)-1 : p[i] = s[i]
         /\ Follows(Last(p), Last(s)) /\ Last(s) \in Record
         /\ Last(s) = s[Len(s)]
<1>1. s \in Seq(Record) /\ Len(s) \in Nat /\ Len(s) > 0 /\ Len(s) \in 1..Len(s)
  BY EmptySeq, LenProperties DEF Shape
<1>2. Last(s) = s[Len(s)] /\ Last(s) \in Record
  BY <1>1, ElementOfSeq DEF Last
<1>3. Len(s) > 1
  <2>1. Len(s) = 1 => Bottom(Last(s))
    BY <1>1, <1>2, ShapeAt
  <2>2. Bottom(Last(s)) => Last(s).k \in {"resume", "pcall"}
    BY DEF Bottom
  <2>3. Len(s) # 1
    BY <2>1, <2>2
  <2> QED BY <1>1, <2>3
<1>4. Len(s) - 1 \in 1..Len(s) /\ Len(s) - 1 \in 0..Len(s)
  BY <1>1, <1>3
<1> DEFINE p == Under(s, Len(s) - 1)
<1>5. /\ p \in Seq(Record) /\ Len(p) = Len(s) - 1 /\ Last(p) = s[Len(s) - 1]
      /\ \A i \in 1..Len(s)-1 : p[i] = s[i]
  BY <1>1, <1>3, <1>4, UnderFacts
<1>6. Shape(p)
  BY <1>4, ShapeUnder
<1>7. Lands(p, Last(s))
  BY <1>1, <1>2 DEF Shape
<1> HIDE DEF p
<1>8. p # <<>>
  BY <1>1, <1>3, <1>5, EmptySeq
<1>9. Follows(Last(p), Last(s))
  BY <1>7, <1>8 DEF Lands
<1>10. Last(p) \in Record /\ Last(p).th = Last(s).th
  BY <1>1, <1>4, <1>5, <1>9, ElementOfSeq DEF Follows
<1> QED BY <1>1, <1>2, <1>3, <1>4, <1>5, <1>6, <1>8, <1>9, <1>10 DEF p

\* A thread that was resumed and has made no call since.
LEMMA NoCalls ==
  ASSUME NEW s, Shape(s), NEW i \in 1..Len(s), s[i].k = "resume",
         \A m \in i+1..Len(s) : s[m].k # "call", NEW y
  PROVE  CallsOf(s, s[i].th, y) = {}
<1>1. Len(s) \in Nat /\ \A m \in 1..i-1 : s[m].th # s[i].th
  BY ShapeAt
<1>2. \A m \in 1..Len(s) : m \in 1..i-1 \/ m = i \/ m \in i+1..Len(s)
  BY <1>1
<1> QED BY <1>1, <1>2 DEF CallsOf

\* Fewer frames.
LEMMA Prefix ==
  ASSUME NEW l \in LuaState, FramesOK(l), NEW k \in LuaState, Len(k.ci) <= Len(l.ci),
         \A m \in 1..Len(k.ci) : k.ci[m] = l.ci[m]
  PROVE  /\ FramesOK(k) /\ Alike(l, k, Len(k.ci)) /\ Len(k.ci) \in Nat /\ Len(l.ci) \in Nat
         /\ \A h \in 0..Len(k.ci) : Continuable(k, h) <=> Continuable(l, h)
<1>1. Len(k.ci) \in Nat /\ Len(l.ci) \in Nat
  BY FrameTypes
<1>2. \A m \in 1..Len(k.ci) : FnOf(k, m) = FnOf(l, m) /\ m \in 1..Len(l.ci)
  BY <1>1 DEF FnOf
<1>3. \A m \in 1..Len(k.ci) : m > 1 => m - 1 \in 1..Len(k.ci)
  BY <1>1
<1>4. FramesOK(k)
  BY <1>2, <1>3 DEF FramesOK
<1>5. \A h \in 0..Len(k.ci) : Continuable(k, h) <=> Continuable(l, h)
  <2> TAKE h \in 0..Len(k.ci)
  <2>1. \A m \in 1..h : m \in 1..Len(k.ci)
    BY <1>1
  <2> QED BY <1>2, <2>1 DEF Continuable
<1> QED BY <1>1, <1>2, <1>4, <1>5 DEF Alike

\* A function returns to the record below: from luau_execute, from a C function,
\* from a call or from luaD_pcall.
LEMMA Pop ==
  ASSUME NEW s, NEW l, Okay(s, l), TopFits(s, l),
         \/ Last(s).k \in {"execute", "c", "call"}
         \/ Last(s).k = "pcall" /\ Last(s).pc = "run" /\ Len(s) # 1,
         NEW k \in LuaState, Len(k.ci) <= Len(l.ci), \A m \in 1..Len(k.ci) : k.ci[m] = l.ci[m],
         Last(s).k = "execute" => Len(k.ci) = Len(l.ci) - 1 /\ l.ci[Len(l.ci)].ret,
         Last(s).k = "c" => Len(k.ci) = Last(s).ci - 1,
         Last(s).k \in {"call", "pcall"} => Len(k.ci) = Len(l.ci),
         Last(s).k # "call" => k.isactive = l.isactive,
         Last(s).k = "call" => k.isactive = (l.isactive /\ Last(s).act)
  PROVE  LET p == Under(s, Len(s) - 1) IN Okay(p, k) /\ TopFits(p, k)
<1> DEFINE p == Under(s, Len(s) - 1)
           r == Last(s)
           n == Len(l.ci)
           h == Len(k.ci)
<1>1. Shape(s) /\ s # <<>> /\ l \in LuaState /\ FramesOK(l) /\ FramesFit(s, l)
  BY DEF Okay
<1>2. /\ s \in Seq(Record) /\ Len(s) \in Nat /\ Len(s) > 1 /\ Len(s) - 1 \in 1..Len(s)
      /\ p # <<>> /\ p \in Seq(Record) /\ Len(p) = Len(s) - 1 /\ Shape(p)
      /\ Last(p) = s[Len(s) - 1] /\ Last(p) \in Record /\ Last(p).th = r.th
      /\ \A i \in 1..Len(s)-1 : p[i] = s[i]
      /\ Follows(Last(p), r) /\ r \in Record /\ r = s[Len(s)]
  BY <1>1, Below
<1>3. Sits(p, r, l) /\ \A i \in 1..Len(s) : s[i].th = r.th => Reach(s[i]) <= n
  BY OkayFacts
<1>4. /\ FramesOK(k) /\ Alike(l, k, h) /\ h \in Nat /\ n \in Nat
      /\ \A x \in 0..h : Continuable(k, x) <=> Continuable(l, x)
  BY <1>1, Prefix
<1> HIDE DEF p, r, n, h
<1>5. r.k = "execute" => /\ Runs(s, n, l)
                         /\ Last(p).k = "call" \/ (Last(p).k = "resume" /\ Last(p).pc = "loop")
  <2>1. r.k = "execute" => Runs(s, n, l)
    BY DEF TopFits, r, n
  <2>2. Last(p).k = "resume" => Last(p).pc \in {"loop", "errf"}
    BY <1>2, RecordKinds DEF ResumeRec
  <2> QED BY <1>2, <2>1, <2>2, RecordKinds DEF Follows
<1>6. r.k = "execute" /\ Last(p).k = "call" => n = Last(p).ci + 1 /\ h = Last(p).ci
  <2> HAVE r.k = "execute" /\ Last(p).k = "call"
  <2> DEFINE c == Last(p).ci
  <2>1. c \in Nat
    BY <1>2, ReachType
  <2>2. n > c /\ \A m \in c + 2..n : ~l.ci[m].ret
    BY <1>2, <1>5 DEF Runs
  <2>3. l.ci[n].ret /\ h = n - 1
    BY DEF r, n, h
  <2> HIDE DEF c
  <2>4. n \notin c + 2..n
    BY <2>2, <2>3
  <2>5. n = c + 1 /\ h = c
    BY <1>4, <2>1, <2>2, <2>3, <2>4
  <2> QED BY <2>5 DEF c
<1>7. \A i \in 1..Len(s)-1 : s[i].th = r.th => Reach(s[i]) <= h
  <2> TAKE i \in 1..Len(s)-1
  <2> HAVE s[i].th = r.th
  <2>a. i \in 1..Len(s)
    BY <1>2
  <2>1. Reach(s[i]) <= n /\ s[i] \in Record /\ Reach(s[i]) \in Nat
    BY <1>2, <1>3, <2>a, ElementOfSeq, ReachType
  <2>2. CASE r.k \in {"call", "pcall"}
    BY <2>1, <2>2 DEF r, n, h
  <2>3. CASE r.k = "c"
    <3>1. Reach(s[i]) < r.ci /\ r.ci \in Nat
      <4>1. Len(s) \in 1..Len(s)
        BY <1>2
      <4> QED BY <1>1, <1>2, <2>3, <4>1, ShapeAt, ReachType
    <3> QED BY <1>4, <2>1, <2>3, <3>1 DEF r, h
  <2>4. CASE r.k = "execute" /\ Last(p).k = "call"
    <3>1. CASE i = Len(s) - 1
      BY <1>2, <1>6, <2>1, <2>4, <3>1 DEF Reach
    <3>2. CASE i # Len(s) - 1
      <4>1. i \in 1..(Len(s) - 1) - 1
        BY <1>2, <3>2
      <4>2. /\ Len(s) - 1 \in 1..Len(s)
            /\ s[Len(s)-1].k = "call" /\ s[i].th = s[Len(s)-1].th
        BY <1>2, <2>4
      <4>3. Reach(s[i]) <= s[Len(s)-1].ci
        BY <1>1, <4>1, <4>2, ShapeAt
      <4> QED BY <1>2, <1>6, <2>4, <4>3
    <3> QED BY <3>1, <3>2
  <2>5. CASE r.k = "execute" /\ Last(p).k = "resume"
    <3>1. i = Len(s) - 1
      <4>1. s[Len(s)-1].k = "resume"
        BY <1>2, <2>5
      <4>2. \A m \in 1..(Len(s) - 1) - 1 : s[m].th # s[Len(s)-1].th
        BY <1>1, <1>2, <4>1, ShapeAt
      <4> QED BY <1>2, <4>2
    <3>2. Reach(s[i]) = 0
      BY <1>2, <1>5, <2>5, <3>1 DEF Reach
    <3> QED BY <1>4, <3>2
  <2> QED BY <1>5, <2>2, <2>3, <2>4, <2>5 DEF r
<1>8. Okay(p, k)
  <2>1. \A m \in 1..h : k.ci[m].handle =>
           /\ m <= h /\ l.ci[m].handle
           /\ \A i \in (Len(s)-1)+1..Len(s) : ~(s[i].k = "c" /\ s[i].pc = "wait" /\ s[i].ci = m)
    <3> TAKE m \in 1..h
    <3> HAVE k.ci[m].handle
    <3>1. m <= h /\ l.ci[m].handle
      BY <1>4 DEF h
    <3>2. ~(r.k = "c" /\ r.ci = m)
      <4>1. r.k = "c" => r.ci \in Nat /\ h = r.ci - 1
        BY <1>2, ReachType DEF r, h
      <4> QED BY <1>4, <4>1
    <3>3. \A i \in (Len(s)-1)+1..Len(s) : s[i] = r
      BY <1>2
    <3> QED BY <3>1, <3>2, <3>3
  <2>2. \A i \in 1..Len(s)-1 : s[i].th = r.th /\ s[i].k \in {"execute", "resume"} => k.isactive
    <3> TAKE i \in 1..Len(s)-1
    <3> HAVE s[i].th = r.th /\ s[i].k \in {"execute", "resume"}
    <3>1. i \in 1..Len(s) /\ i \in 1..Len(s)-1 /\ Len(s) \in 1..Len(s)
      BY <1>2
    <3>2. l.isactive
      BY <1>1, <3>1 DEF FramesFit, ActiveFits, In, r
    <3>3. r.k = "call" => r.act
      BY <1>1, <1>2, <3>1, ShapeAt
    <3> QED BY <3>2, <3>3 DEF r
  <2>3. Len(s)-1 = 1 /\ s[1].k = "pcall" => ~k.isactive
    <3> HAVE Len(s)-1 = 1 /\ s[1].k = "pcall"
    <3>1. Len(s) = 2 /\ 2 \in 1..Len(s)
      BY <1>2
    <3>2. r.k = "call"
      BY <1>2, <3>1 DEF Follows
    <3>3. ~r.act
      BY <1>1, <1>2, <3>1, ShapeAt
    <3> QED BY <3>2, <3>3 DEF r
  <2>4. s[Len(s)-1].th = Last(s).th /\ h \in Int
    BY <1>2, <1>4 DEF r
  <2>5. FramesFit(p, k)
    BY <1>1, <1>2, <1>4, <1>7, <2>1, <2>2, <2>3, <2>4, FramesUnder DEF p, r, h
  <2> QED BY <1>2, <1>4, <2>5 DEF Okay
<1>9. TopFits(p, k)
  <2>1. Last(p).k \in {"execute", "c", "call", "pcall", "resume"}
    BY <1>2, RecordKinds
  <2>2. CASE Last(p).k = "execute"
    <3>1. Runs(p, h, l)
      <4>1. CASE r.k = "c"
        BY <1>3, <2>2, <4>1 DEF Sits, r, h
      <4>2. CASE r.k = "call"
        BY <1>3, <2>2, <4>2 DEF Sits, TopFits, r, h, n
      <4> QED BY <1>2, <2>2, <4>1, <4>2 DEF Follows, r
    <3>2. h \in Int /\ Len(k.ci) \in Nat
      BY <1>4 DEF h
    <3>3. Runs(p, h, k)
      BY <1>2, <1>4, <3>1, <3>2, RunsAlike
    <3> QED BY <2>2, <3>3 DEF TopFits, h
  <2>3. CASE Last(p).k = "c"
    <3>1. r.k = "call" => h = Last(p).ci
      BY <1>2, <2>3 DEF Follows, TopFits, r, h, n
    <3>2. r.k = "pcall" => n = r.ci /\ (FnOf(l, Last(p).ci) = "c" => r.ci = Last(p).ci)
                           /\ FnOf(l, Last(p).ci) \in {"c", "pcall", "xpcall"}
      BY <1>2, <1>3 DEF TopFits, Sits, r, n
    <3>3. r.k \in {"call", "pcall"} /\ Last(p).pc = "wait" /\ h = n
      BY <1>2, <2>3 DEF Follows, r, h, n
    <3>4. Last(p).ci \in 1..h
      <4>1. Reach(Last(p)) <= h
        BY <1>2, <1>7
      <4> QED BY <1>2, <1>4, <2>3, <4>1, ReachType DEF Reach
    <3>5. FnOf(k, Last(p).ci) = FnOf(l, Last(p).ci)
      BY <1>4, <3>4 DEF Alike
    <3> QED BY <2>3, <3>1, <3>2, <3>3, <3>5 DEF TopFits, h
  <2>4. CASE Last(p).k = "call"
    <3>1. r.k = "c" => h = Last(p).ci
      <4> HAVE r.k = "c"
      <4>1. r.ci = Last(p).ci + 1 /\ Last(p).ci \in Nat /\ h = r.ci - 1
        BY <1>2, <2>4, ReachType DEF Follows, r, h
      <4> QED BY <4>1
    <3>2. r.k = "execute" => h = Last(p).ci
      BY <1>6, <2>4
    <3> QED BY <1>2, <2>4, <3>1, <3>2 DEF TopFits, Follows, h
  <2>5. CASE Last(p).k = "pcall"
    <3>1. r.k = "call" /\ (Last(p).pc = "run" => r.ci = Last(p).ci)
      BY <1>2, <2>5 DEF Follows
    <3>2. h = r.ci
      BY <3>1 DEF TopFits, r, h
    <3> QED BY <2>5, <3>1, <3>2 DEF TopFits, h
  <2>6. CASE Last(p).k = "resume"
    <3>1. SUFFICES ASSUME Last(p).pc = "loop" PROVE Continuable(k, h)
      BY <2>6 DEF TopFits, h
    <3>2. r.k \in {"execute", "c"}
      BY <1>2, <2>6, <3>1 DEF Follows, r
    <3>3. CallsOf(s, r.th, FALSE) = {} /\ CallsOf(p, r.th, FALSE) = {}
      <4>1. \A m \in (Len(s)-1)+1..Len(s) : s[m].k # "call"
        BY <1>2, <3>2
      <4>2. CallsOf(s, r.th, FALSE) = {}
        BY <1>1, <1>2, <2>6, <4>1, NoCalls
      <4>3. \A m \in 1..Len(p) : m \in 1..Len(s) /\ p[m] = s[m]
        <5> TAKE m \in 1..Len(p)
        <5>1. m \in 1..Len(s)-1
          BY <1>2
        <5>2. m \in 1..Len(s)
          BY <1>2, <5>1
        <5> QED BY <1>2, <5>1, <5>2
      <4> QED BY <4>2, <4>3 DEF CallsOf
    <3>4. CASE r.k = "c"
      <4>1. Accounted(p, h, l)
        BY <1>3, <3>4 DEF Sits, r, h
      <4>a. CallsOf(p, Last(p).th, FALSE) = {}
        BY <1>2, <3>3
      <4>2. Continuable(l, h)
        BY <4>1, <4>a DEF Accounted
      <4>3. h \in 0..h
        BY <1>4
      <4> QED BY <1>4, <4>2, <4>3
    <3>5. CASE r.k = "execute"
      <4>1. Continuable(l, n) /\ h = n - 1
        BY <1>5, <3>3, <3>5 DEF Runs, Accounted, r, h, n
      <4>2. Continuable(l, h)
        BY <1>4, <4>1 DEF Continuable
      <4> QED BY <1>4, <4>2
    <3> QED BY <3>2, <3>4, <3>5
  <2> QED BY <2>1, <2>2, <2>3, <2>4, <2>5, <2>6
<1> QED BY <1>8, <1>9 DEF p

\* A Lua function returns to the Lua function below it in the same luau_execute.
LEMMA ReturnLua ==
  ASSUME NEW s, NEW l, Okay(s, l), TopFits(s, l), Last(s).k = "execute",
         ~l.ci[Len(l.ci)].ret,
         NEW k \in LuaState, Len(k.ci) = Len(l.ci) - 1, \A m \in 1..Len(k.ci) : k.ci[m] = l.ci[m],
         k.isactive = l.isactive
  PROVE  Okay(s, k) /\ TopFits(s, k)
<1> DEFINE p == Under(s, Len(s) - 1)
           n == Len(l.ci)
           h == Len(k.ci)
<1>1. Shape(s) /\ s # <<>> /\ l \in LuaState /\ FramesOK(l) /\ FramesFit(s, l)
  BY DEF Okay
<1>2. /\ s \in Seq(Record) /\ Len(s) \in Nat /\ Len(s) > 1 /\ Len(s) - 1 \in 1..Len(s)
      /\ Last(p) = s[Len(s) - 1] /\ Last(p) \in Record
      /\ Follows(Last(p), Last(s)) /\ Last(s) = s[Len(s)] /\ Last(p).th = Last(s).th
  BY <1>1, Below
<1>3. \A i \in 1..Len(s) : s[i].th = Last(s).th => Reach(s[i]) <= n
  BY OkayFacts
<1>4. Runs(s, n, l)
  BY DEF TopFits
<1>a. Len(k.ci) <= Len(l.ci)
  BY <1>1, FrameTypes
<1>5. /\ FramesOK(k) /\ Alike(l, k, h) /\ h \in Nat /\ n \in Nat
      /\ \A x \in 0..h : Continuable(k, x) <=> Continuable(l, x)
  BY <1>1, <1>a, Prefix
<1> HIDE DEF p, n, h
<1>6. n \in 1..n /\ FnOf(l, n) = "lua" /\ h = n - 1
  BY <1>4 DEF Runs, n, h
<1>7. n > 1 /\ FnOf(l, n - 1) = "lua"
  BY <1>1, <1>6 DEF FramesOK, n
<1>8. FnOf(k, h) = "lua" /\ h \in 1..h
  BY <1>5, <1>6, <1>7 DEF Alike
<1>9. Last(p).k = "call" => n - 1 > Last(p).ci
  <2> HAVE Last(p).k = "call"
  <2> DEFINE c == Last(p).ci
  <2>1. c \in Nat
    BY <1>2, ReachType
  <2>2. n > c /\ l.ci[c + 1].ret
    BY <1>2, <1>4 DEF Runs
  <2>3. ~l.ci[n].ret
    BY DEF n
  <2> HIDE DEF c
  <2>4. n # c + 1
    BY <2>2, <2>3
  <2>5. n - 1 > c
    BY <1>5, <2>1, <2>2, <2>4
  <2> QED BY <2>5 DEF c
<1>10. \A i \in 1..Len(s) : s[i].th = Last(s).th => Reach(s[i]) <= h
  <2> TAKE i \in 1..Len(s)
  <2> HAVE s[i].th = Last(s).th
  <2>1. s[i] \in Record /\ Reach(s[i]) \in Nat
    BY <1>2, ElementOfSeq, ReachType
  <2>2. CASE i = Len(s)
    BY <1>2, <1>5, <2>2 DEF Reach
  <2>3. CASE i = Len(s) - 1 /\ Last(p).k = "call"
    BY <1>2, <1>6, <1>9, <2>1, <2>3 DEF Reach
  <2>4. CASE i = Len(s) - 1 /\ Last(p).k = "resume"
    BY <1>2, <1>5, <2>4 DEF Reach, Follows
  <2>5. CASE i < Len(s) - 1
    <3>1. i \in 1..(Len(s) - 1) - 1
      BY <1>2, <2>5
    <3>2. CASE Last(p).k = "call"
      <4>1. Reach(s[i]) <= s[Len(s)-1].ci /\ Last(p).ci \in Nat
        BY <1>1, <1>2, <3>1, <3>2, ShapeAt, ReachType
      <4> QED BY <1>2, <1>5, <1>6, <1>9, <2>1, <3>2, <4>1
    <3>3. CASE Last(p).k = "resume"
      BY <1>1, <1>2, <3>1, <3>3, ShapeAt
    <3> QED BY <1>2, <3>2, <3>3, RecordKinds DEF Follows
  <2>6. Last(p).k \in {"call", "resume"}
    BY <1>2, RecordKinds DEF Follows
  <2>7. i = Len(s) \/ i = Len(s) - 1 \/ i < Len(s) - 1
    BY <1>2
  <2> QED BY <2>2, <2>3, <2>4, <2>5, <2>6, <2>7
<1>11. Okay(s, k)
  <2>1. Len(s) \in 1..Len(s) /\ s[Len(s)].th = Last(s).th /\ h \in Int
    BY <1>2, <1>5
  <2>2. \A m \in 1..h : k.ci[m].handle =>
           /\ m <= h /\ l.ci[m].handle
           /\ \A i \in Len(s)+1..Len(s) : ~(s[i].k = "c" /\ s[i].pc = "wait" /\ s[i].ci = m)
    <3>1. \A m \in 1..h : k.ci[m] = l.ci[m]
      BY ONLY \A m \in 1..Len(k.ci) : k.ci[m] = l.ci[m] DEF h
    <3>2. \A m \in 1..h : m <= h
      BY <1>5
    <3>3. \A i \in Len(s)+1..Len(s) : FALSE
      BY <1>2
    <3> QED BY <3>1, <3>2, <3>3
  <2>3. \A i \in 1..Len(s) : s[i].th = Last(s).th /\ s[i].k \in {"execute", "resume"} => k.isactive
    BY <1>1 DEF FramesFit, ActiveFits, In
  <2>4. ~(Len(s) = 1 /\ s[1].k = "pcall")
    BY <1>2
  <2>5. FramesFit(Under(s, Len(s)), k)
    BY <1>1, <1>5, <1>10, <2>1, <2>2, <2>3, <2>4, FramesUnder DEF h
  <2> QED BY <1>1, <1>2, <1>5, <2>5, UnderAll DEF Okay
<1>12. Runs(s, h, k)
  <2>1. Runs(s, h, l)
    <3>1. Accounted(s, h, l)
      <4>1. Continuable(l, n) => Continuable(l, h)
        BY <1>5, <1>6 DEF Continuable
      <4> QED BY <1>4, <4>1 DEF Runs, Accounted
    <3>2. h \in 1..Len(l.ci) /\ FnOf(l, h) = "lua"
      BY <1>5, <1>6, <1>7 DEF n
    <3>3. ASSUME Last(p).k = "call"
          PROVE  /\ h > Last(p).ci
                 /\ l.ci[Last(p).ci + 1].ret
                 /\ \A m \in Last(p).ci + 2..h : ~l.ci[m].ret
      <4>1. l.ci[Last(p).ci + 1].ret /\ \A m \in Last(p).ci + 2..n : ~l.ci[m].ret
        BY <1>2, <1>4, <3>3 DEF Runs
      <4>2. Last(p).ci \in Nat
        BY <1>2, <3>3, ReachType
      <4>3. \A m \in Last(p).ci + 2..h : m \in Last(p).ci + 2..n
        BY <1>5, <1>6, <4>2
      <4> QED BY <1>6, <1>9, <3>3, <4>1, <4>3
    <3> QED BY <1>2, <3>1, <3>2, <3>3 DEF Runs
  <2>2. h \in Int /\ Len(k.ci) \in Nat
    BY <1>5 DEF h
  <2> QED BY <1>2, <1>5, <2>1, <2>2, RunsAlike
<1>13. TopFits(s, k)
  BY <1>12 DEF TopFits, h
<1> QED BY <1>11, <1>13

-----------------------------------------------------------------------------
(* Steps of one thread on top of what waits for it.                          *)

\* Part of a block is a block.
LEMMA BlockUnder ==
  ASSUME NEW q \in Seq(Record), NEW th, NEW t, Block(q, th, t), NEW j \in Len(q)+1..Len(t)
  PROVE  Block(q, th, Under(t, j))
<1> DEFINE u == Under(t, j)
<1>1. Len(q) \in Nat /\ t \in Seq(Record) /\ Len(t) \in Nat /\ Len(t) > Len(q)
  BY LenProperties DEF Block
<1>2. j \in 0..Len(t)
  BY <1>1
<1>3. u \in Seq(Record) /\ Len(u) = j /\ \A i \in 1..j : u[i] = t[i]
  BY <1>1, <1>2, UnderFacts
<1> HIDE DEF u
<1>a. j \in Nat /\ j > Len(q) /\ j <= Len(t)
  BY <1>1
<1>b. \A i \in 1..Len(q) : u[i] = q[i] /\ q[i].th # th
  <2> TAKE i \in 1..Len(q)
  <2>1. i \in 1..j
    BY <1>1, <1>a
  <2>2. t[i] = q[i] /\ q[i].th # th
    BY DEF Block
  <2> QED BY <1>3, <2>1, <2>2
<1>c. q # <<>> => u[Len(q) + 1].k = "resume"
  <2>1. Len(q) + 1 \in 1..j
    BY <1>1, <1>a
  <2>2. u[Len(q) + 1] = t[Len(q) + 1]
    BY <1>3, <2>1
  <2> QED BY <2>2 DEF Block
<1>d. \A i \in Len(q)+1..Len(u) : u[i].th = th
  BY <1>1, <1>3, <1>a DEF Block
<1>e. \A i \in Len(q)+2..Len(u) : u[i].k # "resume"
  BY <1>1, <1>3, <1>a DEF Block
<1>4. Block(q, th, u)
  BY <1>3, <1>a, <1>b, <1>c, <1>d, <1>e DEF Block
<1> QED BY <1>4 DEF u

\* The records from the base on are the block of the newest thread.
LEMMA BlockOfBase ==
  ASSUME NEW s, Shape(s), NEW b, Base(s, b)
  PROVE  /\ Block(Under(s, b - 1), Last(s).th, s)
         /\ Len(Under(s, b - 1)) = b - 1 /\ Shape(Under(s, b - 1))
<1> DEFINE q == Under(s, b - 1)
<1>1. s \in Seq(Record) /\ Len(s) \in Nat /\ b \in 1..Len(s) /\ b - 1 \in 0..Len(s)
  BY LenProperties DEF Shape, Base
<1>2. q \in Seq(Record) /\ Len(q) = b - 1 /\ \A i \in 1..b-1 : q[i] = s[i]
  BY <1>1, UnderFacts
<1>3. q # <<>> => b > 1
  BY <1>1, UnderFacts
<1>4. Shape(q)
  BY <1>1, ShapeUnder
<1> HIDE DEF q
<1>5. Block(q, Last(s).th, s)
  BY <1>1, <1>2, <1>3 DEF Block, Base
<1> QED BY <1>2, <1>4, <1>5 DEF q

\* Whatever thread th does on top of stack q, or when it leaves, the invariant
\* holds again if the state of the thread fits.
Context(q, th) ==
  /\ Shape(q) /\ th \in Thread /\ \A i \in 1..Len(q) : q[i].th # th
  /\ \A k \in LuaState : \A t :
       /\ FramesOK(k) /\ Shape(t) /\ Fits(t, k) /\ Block(q, th, t)
       /\ t[Len(q) + 1].k = "resume" /\ t[Len(q) + 1].pc = "errf" => flags.LuauCustomYieldablePcalls
       => Good([L EXCEPT ![th] = k], t, flags)
  /\ \A k \in LuaState : FramesOK(k) /\ Off(th, k) => Good([L EXCEPT ![th] = k], q, flags)

\* What a thread runs on, from the invariant of the states before and below.
LEMMA ContextOf ==
  ASSUME NEW q, NEW th \in Thread, NEW x, L \in [Thread -> LuaState],
         Good([L EXCEPT ![th] = x], q, flags),
         \A i \in 1..Len(q) : q[i].th # th,
         q # <<>> => L[Last(q).th].status = "OK"
  PROVE  Context(q, th)
<1> DEFINE G == [L EXCEPT ![th] = x]
<1>1. Shape(q) /\ q \in Seq(Record) /\ Len(q) \in Nat
  BY LenProperties DEF Good, Shape
<1>2. q # <<>> => Last(q).th # th /\ Last(q).th \in Thread
  <2> HAVE q # <<>>
  <2>1. Len(q) \in 1..Len(q)
    BY <1>1, EmptySeq
  <2>2. q[Len(q)] \in Record
    BY <1>1, <2>1, ElementOfSeq
  <2> QED BY <2>1, <2>2, RecordKinds DEF Last
<1>a. \A y \in Thread \ {th} : G[y] = L[y]
  OBVIOUS
<1>3. q # <<>> => G[Last(q).th].status = "OK"
  <2> HIDE DEF G
  <2> QED BY <1>2, <1>a
<1>4. \A k : [G EXCEPT ![th] = k] = [L EXCEPT ![th] = k]
  OBVIOUS
<1>5. Good(G, q, flags)
  OBVIOUS
<1> HIDE DEF G
<1>6. ASSUME NEW k \in LuaState, NEW t, FramesOK(k), Shape(t), Fits(t, k), Block(q, th, t),
             t[Len(q) + 1].k = "resume" /\ t[Len(q) + 1].pc = "errf" => flags.LuauCustomYieldablePcalls
      PROVE  Good([L EXCEPT ![th] = k], t, flags)
  <2>1. Good([G EXCEPT ![th] = k], t, flags)
    BY <1>3, <1>5, <1>6, GoodEnters
  <2> QED BY <1>4, <2>1
<1>7. ASSUME NEW k \in LuaState, FramesOK(k), Off(th, k)
      PROVE  Good([L EXCEPT ![th] = k], q, flags)
  <2>1. Good([G EXCEPT ![th] = k], q, flags)
    BY <1>5, <1>7, GoodOff
  <2> QED BY <1>4, <2>1
<1> QED BY <1>1, <1>6, <1>7 DEF Context

\* The state of a new thread (luaE_newthread).
LEMMA FreshFacts ==
  ASSUME NEW th
  PROVE  Fresh \in LuaState /\ FramesOK(Fresh) /\ Off(th, Fresh)
<1>1. Fresh.ci = <<>> /\ Fresh.ci \in Seq(CallInfo) /\ Len(Fresh.ci) = 0
  BY DEF Fresh
<1>2. Fresh \in LuaState
  BY <1>1 DEF LuaState, Fresh
<1>3. FramesOK(Fresh)
  BY <1>1 DEF FramesOK
<1>4. Off(th, Fresh)
  BY <1>1 DEF Off, Fresh, Yielded
<1> QED BY <1>2, <1>3, <1>4

\* The thread on top runs on what is below its base.
LEMMA ContextTop ==
  ASSUME Good(L, cs, flags), cs # <<>>
  PROVE  \E b : /\ Base(cs, b)
                /\ Context(Under(cs, b - 1), Last(cs).th)
                /\ Block(Under(cs, b - 1), Last(cs).th, cs)
                /\ Len(Under(cs, b - 1)) = b - 1
<1>1. Shape(cs) /\ L \in [Thread -> LuaState]
  BY DEF Good
<1>2. PICK b : Base(cs, b)
  BY <1>1, BaseExists
<1> DEFINE q == Under(cs, b - 1)
           th == Last(cs).th
<1>3. Block(q, th, cs) /\ Len(q) = b - 1 /\ Shape(q)
  BY <1>1, <1>2, BlockOfBase
<1>4. cs \in Seq(Record) /\ Len(cs) \in Nat /\ b \in 1..Len(cs) /\ b - 1 \in 0..Len(cs)
  BY <1>1, <1>2, LenProperties DEF Shape, Base
<1>5. th \in Thread
  BY <1>4, ElementOfSeq, RecordKinds DEF Last
<1>6. Good([L EXCEPT ![th] = Fresh], q, flags)
  BY <1>2, FreshFacts, GoodLeaves
<1>7. \A i \in 1..Len(q) : q[i].th # th
  BY <1>3 DEF Block
<1>8. q # <<>> => L[Last(q).th].status = "OK"
  <2> HAVE q # <<>>
  <2>1. b - 1 > 0 /\ Last(q) = cs[b-1]
    BY <1>4, UnderFacts
  <2>2. b - 1 \in 1..Len(cs)-1 /\ (b - 1) + 1 = b
    BY <1>4, <2>1
  <2>3. cs[b].k = "resume"
    BY <1>2, <2>1, <1>4 DEF Base
  <2> QED BY <2>1, <2>2, <2>3 DEF Good
<1>9. Context(q, th)
  BY <1>1, <1>5, <1>6, <1>7, <1>8, ContextOf
<1> QED BY <1>2, <1>3, <1>9

-----------------------------------------------------------------------------
(* Errors.                                                                   *)

\* luaD_pcall puts back what it saved.
LEMMA FailToPcall ==
  ASSUME NEW s, NEW l, Okay(s, l), NEW j \in 1..Len(s), j > 1,
         s[j].k = "pcall", s[j].th = Last(s).th,
         NEW k \in LuaState, Len(k.ci) = s[j].ci, \A m \in 1..Len(k.ci) : k.ci[m] = l.ci[m],
         k.isactive = (l.isactive /\ s[j].act), k.status = "OK",
         k.nCcalls = s[j].n, k.baseCcalls = s[j].base
  PROVE  Okay(Under(s, j - 1), k) /\ Fits(Under(s, j - 1), k)
<1> DEFINE p == Under(s, j - 1)
           r == s[j]
           h == Len(k.ci)
<1>1. /\ Shape(s) /\ s # <<>> /\ l \in LuaState /\ FramesOK(l) /\ FramesFit(s, l)
      /\ s \in Seq(Record) /\ Len(s) \in Nat /\ r \in Record
      /\ Reach(r) <= Len(l.ci)
  BY OkayFacts, ElementOfSeq DEF Okay
<1>2. j - 1 \in 0..Len(s) /\ j - 1 \in 1..Len(s) /\ j - 1 > 0
  BY <1>1
<1>3. /\ p \in Seq(Record) /\ Len(p) = j - 1 /\ Last(p) = s[j-1]
      /\ \A i \in 1..j-1 : p[i] = s[i]
  BY <1>1, <1>2, UnderFacts
<1>4. p # <<>>
  BY <1>2, <1>3, EmptySeq
<1>5. Lands(p, r) /\ Sits(p, r, l)
  BY <1>1 DEF Shape, FramesFit, SitsAll, In
<1>6. h <= Len(l.ci) /\ h = r.ci /\ h \in Nat
  BY <1>1, ReachType DEF Reach
<1>7. /\ FramesOK(k) /\ Alike(l, k, h)
  BY <1>1, <1>6, Prefix
<1> HIDE DEF p, r, h
<1>8. Last(p) \in Record /\ Last(p).k = "c" /\ Last(p).th = r.th /\ Last(p).pc = "wait"
  <2>1. Last(p) \in Record
    BY <1>1, <1>2, <1>3, ElementOfSeq
  <2>2. Follows(Last(p), r) /\ r.k = "pcall"
    BY <1>4, <1>5 DEF Lands, r
  <2> QED BY <2>1, <2>2, RecordKinds DEF Follows
<1>9. \A i \in 1..j-1 : s[i].th = Last(s).th => Reach(s[i]) <= h
  BY <1>1, <1>6, ShapeAt DEF r
<1>10. FramesFit(p, k)
  <2>1. \A m \in 1..h : k.ci[m].handle =>
           /\ m <= h /\ l.ci[m].handle
           /\ \A i \in (j-1)+1..Len(s) : ~(s[i].k = "c" /\ s[i].pc = "wait" /\ s[i].ci = m)
    <3> TAKE m \in 1..h
    <3> HAVE k.ci[m].handle
    <3>1. m <= h /\ l.ci[m].handle
      BY <1>6 DEF h
    <3>2. ASSUME NEW i \in (j-1)+1..Len(s), s[i].k = "c", s[i].ci = m
          PROVE  FALSE
      <4>1. i # j
        BY <3>2
      <4>2. i \in 1..Len(s) /\ j \in 1..i-1
        BY <1>1, <1>2, <4>1
      <4>3. Reach(s[j]) < s[i].ci \/ s[i].th # s[j].th
        BY <1>1, <3>2, <4>2, ShapeAt
      <4>4. s[i].th = s[j].th
        <5>1. PICK b : Base(s, b)
          BY <1>1, BaseExists
        <5>2. b <= j /\ b \in Nat
          BY <1>1, <5>1 DEF Base
        <5>3. i \in b..Len(s)
          BY <1>1, <4>2, <5>2
        <5> QED BY <5>1, <5>3 DEF Base
      <4>5. Reach(s[j]) = h
        BY <1>6 DEF Reach, r
      <4> QED BY <1>6, <3>2, <4>3, <4>4, <4>5
    <3> QED BY <3>1, <3>2
  <2>2. \A i \in 1..j-1 : s[i].th = Last(s).th /\ s[i].k \in {"execute", "resume"} => k.isactive
    <3> TAKE i \in 1..j-1
    <3> HAVE s[i].th = Last(s).th /\ s[i].k \in {"execute", "resume"}
    <3>1. i \in 1..Len(s)
      BY <1>1
    <3>2. l.isactive
      BY <1>1, <3>1 DEF FramesFit, ActiveFits, In
    <3>3. r.act
      BY <1>1, ShapeAt DEF r
    <3> QED BY <3>2, <3>3 DEF r
  <2>3. ~(j-1 = 1 /\ s[1].k = "pcall")
    BY <1>3, <1>8
  <2>4. s[j-1].th = Last(s).th /\ h \in Int
    BY <1>3, <1>6, <1>8 DEF r
  <2> QED BY <1>1, <1>2, <1>7, <1>9, <2>1, <2>2, <2>3, <2>4, FramesUnder DEF p, h
<1>11. TopFits(p, k)
  <2>1. FnOf(l, Last(p).ci) \in {"c", "pcall", "xpcall"} /\ (FnOf(l, Last(p).ci) = "c" => r.ci = Last(p).ci)
    BY <1>4, <1>5 DEF Sits, r
  <2>2. Last(p).ci \in 1..h
    <3>1. j - 1 \in 1..j-1 /\ s[j-1].th = Last(s).th
      BY <1>2, <1>3, <1>8 DEF r
    <3>2. Reach(Last(p)) <= h
      BY <1>3, <1>9, <3>1
    <3> QED BY <1>6, <1>8, <3>2, ReachType DEF Reach
  <2>3. FnOf(k, Last(p).ci) = FnOf(l, Last(p).ci)
    BY <1>7, <2>2 DEF Alike
  <2> QED BY <1>6, <1>8, <2>1, <2>3 DEF TopFits, h
<1>12. CountsFit(p, Last(p).th, k.nCcalls, k.baseCcalls)
  BY <1>5, <1>8 DEF Lands, r
<1>13. Shape(p)
  BY <1>1, <1>2, ShapeUnder DEF p
<1>14. Okay(p, k) /\ Fits(p, k)
  BY <1>4, <1>7, <1>10, <1>11, <1>12, <1>13 DEF Okay, Fits
<1> QED BY <1>14 DEF p

\* What a step of thread th, whose records lie on stack q, leads to: the thread goes
\* on there, or it has left; it dies only if nothing protected it.
Exposed(s, th, l) ==
  /\ \A m \in 1..Len(l.ci) : ~l.ci[m].handle
  /\ \A i \in 1..Len(s) : s[i].th = th => s[i].k # "pcall"

Heads(q, a, t) ==
  /\ t[Len(q) + 1].k = a
  /\ a = "resume" /\ t[Len(q) + 1].pc = "errf" => flags.LuauCustomYieldablePcalls

Outcome(q, th, a, k, t) ==
  \/ Okay(t, k) /\ Fits(t, k) /\ Block(q, th, t) /\ Heads(q, a, t)
  \/ /\ t = q /\ k \in LuaState /\ FramesOK(k) /\ Off(th, k)
     /\ k.status = "ERR" => Exposed(cs, th, L[th])

Ends(q, th, a) == \E k, t : Become(th, k, t) /\ Outcome(q, th, a, k, t)

\* A thread that ends a step as Ends says keeps the invariant: this is where each
\* action's proof leads.
LEMMA Settled ==
  ASSUME flags \in Flags, NEW q, NEW th, Context(q, th), NEW a, Ends(q, th, a)
  PROVE  CoroutineInv'
<1>1. PICK k, t : Become(th, k, t) /\ Outcome(q, th, a, k, t)
  BY DEF Ends
<1>2. L' = [L EXCEPT ![th] = k] /\ cs' = t /\ flags' = flags
  BY <1>1 DEF Become
<1>3. Good([L EXCEPT ![th] = k], t, flags)
  <2>1. CASE Okay(t, k) /\ Fits(t, k) /\ Block(q, th, t) /\ Heads(q, a, t)
    BY <2>1 DEF Context, Okay, Heads
  <2>2. CASE t = q /\ k \in LuaState /\ FramesOK(k) /\ Off(th, k)
    BY <2>2 DEF Context
  <2> QED BY <1>1, <2>1, <2>2 DEF Outcome
<1> QED BY <1>2, <1>3 DEF CoroutineInv

\* Above the newest protected call nothing waits for one.
LEMMA Unguarded ==
  ASSUME NEW s, NEW l, Okay(s, l), NEW j \in 1..Len(s), s[j].k \in {"pcall", "resume"},
         \A i \in j+1..Len(s) : s[i].k \notin {"pcall", "resume"}, s[j].th = Last(s).th,
         Last(s).k = "c" /\ Last(s).pc = "wait" => FnOf(l, Last(s).ci) \notin {"pcall", "xpcall"}
  PROVE  \A i \in j..Len(s) : s[i].k = "c" /\ s[i].pc = "wait" => ~l.ci[s[i].ci].handle
<1>1. /\ Shape(s) /\ l \in LuaState /\ FramesOK(l) /\ FramesFit(s, l)
      /\ s \in Seq(Record) /\ Len(s) \in Nat /\ Last(s) = s[Len(s)]
      /\ \A i \in 1..Len(s) : s[i].th = Last(s).th => Reach(s[i]) <= Len(l.ci)
  BY OkayFacts DEF Okay
<1>2. \A i \in j..Len(s) : s[i].th = Last(s).th
  <2>1. PICK b : Base(s, b)
    BY <1>1, BaseExists DEF Okay
  <2>2. b <= j /\ b \in Nat
    BY <1>1, <2>1 DEF Base
  <2> QED BY <1>1, <2>1, <2>2 DEF Base
<1> TAKE i \in j..Len(s)
<1> HAVE s[i].k = "c" /\ s[i].pc = "wait"
<1>3. i \in 1..Len(s) /\ i # j /\ s[i] \in Record
  <2>1. i \in 1..Len(s)
    BY <1>1
  <2> QED BY <1>1, <2>1, ElementOfSeq
<1>4. s[i].ci \in 1..Len(l.ci)
  BY <1>1, <1>2, <1>3, ReachType, FrameTypes DEF Reach
<1>5. FnOf(l, s[i].ci) \notin {"pcall", "xpcall"}
  <2>1. CASE i = Len(s)
    BY <1>1, <2>1
  <2>2. CASE i # Len(s)
    <3>1. i + 1 \in 1..Len(s) /\ i + 1 \in j..Len(s) /\ i + 1 \in j+1..Len(s) /\ i + 1 - 1 = i
          /\ i \in 0..Len(s) /\ i > 0 /\ i + 1 > 1
      BY <1>1, <1>3, <2>2
    <3>2. Follows(s[i], s[i+1]) /\ s[i+1] \in Record
      BY <1>1, <3>1, ShapeAt
    <3>3. s[i+1].k \notin {"pcall", "resume"}
      BY <3>1
    <3>4. s[i+1].k = "call" /\ s[i+1].ci = s[i].ci
      BY <3>2, <3>3 DEF Follows
    <3>5. Sits(Under(s, i), s[i+1], l)
      BY <1>1, <1>2, <3>1 DEF FramesFit, SitsAll, In
    <3>6. Last(Under(s, i)) = s[i]
      BY <1>1, <3>1, UnderFacts
    <3> HIDE DEF FnOf
    <3> QED BY <3>4, <3>5, <3>6 DEF Sits
  <2> QED BY <2>1, <2>2
<1> QED BY <1>1, <1>4, <1>5 DEF FramesOK

\* A thread whose only record is that of its resume.
LEMMA ResumeAlone ==
  ASSUME NEW q, Shape(q), NEW r \in Record, r.k = "resume", Lands(q, r),
         NEW k \in LuaState, FramesOK(k), k.isactive,
         \A m \in 1..Len(k.ci) : k.ci[m].handle => Continuable(k, m),
         r.pc = "errf" => /\ r.ch \in 1..Len(k.ci) /\ FnOf(k, r.ch) \in {"pcall", "xpcall"}
                          /\ Continuable(k, r.ch),
         k.baseCcalls >= r.old, k.nCcalls >= k.baseCcalls,
         r.pc # "errf" => k.nCcalls = k.baseCcalls
  PROVE  LET s == Append(q, r)
         IN Okay(s, k) /\ CountsFit(s, r.th, k.nCcalls, k.baseCcalls) /\ Last(s) = r
<1> DEFINE s == Append(q, r)
<1>1. q \in Seq(Record) /\ Len(q) \in Nat
  BY LenProperties DEF Shape
<1>2. /\ s \in Seq(Record) /\ s # <<>> /\ Len(s) = Len(q) + 1 /\ Last(s) = r
      /\ \A i \in 1..Len(q) : s[i] = q[i]
      /\ s[Len(q) + 1] = r /\ Under(s, Len(q)) = q
  BY <1>1, PushFacts
<1>3. Shape(s)
  BY ShapePush
<1> HIDE DEF s
<1>4. /\ \A m \in 1..Len(q) : q[m].th # r.th
      /\ r.old >= Cardinality(Nested(q)) + 1
  BY DEF Lands
<1>5. \A i \in 1..Len(s) : In(s, i) => i = Len(s)
  BY <1>1, <1>2, <1>4 DEF In
<1>6. Len(s) - 1 = Len(q) /\ s[Len(s)] = r
  BY <1>1, <1>2
<1>7. Sits(q, r, k)
  BY FrameTypes, ReachType DEF Sits, Reach
<1>8. SitsAll(s, k)
  BY <1>2, <1>5, <1>6, <1>7 DEF SitsAll
<1>9. ActiveFits(s, k)
  <2>1. ~(Len(s) = 1 /\ s[1].k = "pcall")
    BY <1>6
  <2> QED BY <2>1 DEF ActiveFits
<1>10. Handles(s, k)
  BY DEF Handles
<1>11. CountsFit(s, r.th, k.nCcalls, k.baseCcalls)
  <2>1. k.nCcalls \in Int /\ k.baseCcalls \in Int
    BY FrameTypes
  <2> QED BY <1>1, <1>4, <2>1, CountsBase DEF s
<1>12. Okay(s, k)
  BY <1>2, <1>3, <1>8, <1>9, <1>10 DEF Okay, FramesFit
<1> QED BY <1>2, <1>11, <1>12 DEF s

\* A resume that changes only its own progress lands where it did.
LEMMA LandsResume ==
  ASSUME NEW q, Shape(q), NEW r, r.k = "resume", Lands(q, r),
         NEW e, e.k = "resume", e.th = r.th, e.old = r.old
  PROVE  Lands(q, e)
<1>1. q # <<>> => Last(q).k = "c" /\ Last(q).pc = "wait"
  BY DEF Lands, Follows
<1>2. ~(Len(q) = 1 /\ q[1].k = "pcall")
  BY <1>1, EmptySeq DEF Last
<1> QED BY <1>1, <1>2 DEF Lands, Follows, Bottom

\* resume_handle runs the continuation of the handler.
LEMMA HandleContEnds ==
  ASSUME NEW q, NEW th \in Thread, Shape(q), NEW r \in Record, r.k = "resume", r.th = th, Lands(q, r),
         \A i \in 1..Len(q) : q[i].th # th,
         NEW l \in LuaState, FramesOK(l), l.isactive, l.status = "OK",
         \A m \in 1..Len(l.ci) : l.ci[m].handle => Continuable(l, m),
         r.ch \in 1..Len(l.ci), FnOf(l, r.ch) \in {"pcall", "xpcall"}, Continuable(l, r.ch),
         l.baseCcalls >= r.old,
         ~flags.LuauCustomYieldablePcalls => l.nCcalls = l.baseCcalls,
         HandleCont(th, l, q, r)
  PROVE  Ends(q, th, "resume")
<1> DEFINE k == IF flags.LuauCustomYieldablePcalls
                THEN [l EXCEPT !.nCcalls = l.baseCcalls, !.ci = SubSeq(@, 1, r.ch)] ELSE l
           e == [r EXCEPT !.pc = "loop"]
           a == CBody(th, r.ch, "error")
           s == Append(q, e)
           t == Append(s, a)
<1>1. /\ e \in Record /\ e.k = "resume" /\ e.pc = "loop" /\ e.th = th /\ e.old = r.old
      /\ e.old \in Int
  BY RecordKinds DEF ResumeRec, Record
<1>2. r.ch \in Nat /\ r.ch > 0 /\ a \in Record /\ a.k = "c" /\ a.th = th /\ a.ci = r.ch /\ a.pc = "error"
  BY FrameTypes DEF CBody, Record, CRec
<1>3. /\ k \in LuaState /\ Len(k.ci) <= Len(l.ci) /\ (\A m \in 1..Len(k.ci) : k.ci[m] = l.ci[m])
      /\ r.ch \in 1..Len(k.ci) /\ k.isactive /\ k.status = "OK"
      /\ k.nCcalls = k.baseCcalls /\ k.baseCcalls = l.baseCcalls
  <2>1. CASE flags.LuauCustomYieldablePcalls
    <3> DEFINE c == SubSeq(l.ci, 1, r.ch)
    <3>1. c \in Seq(CallInfo) /\ Len(c) = r.ch /\ \A m \in 1..r.ch : c[m] = l.ci[m]
      <4>1. l.ci \in Seq(CallInfo) /\ r.ch \in 0..Len(l.ci)
        BY FrameTypes
      <4> QED BY <4>1, UnderFacts DEF Under
    <3> HIDE DEF c
    <3>2. k = [l EXCEPT !.nCcalls = l.baseCcalls, !.ci = c]
      BY <2>1 DEF c
    <3> HIDE DEF k
    <3>3. k \in LuaState /\ k.ci = c /\ k.isactive = l.isactive /\ k.status = l.status
          /\ k.nCcalls = l.baseCcalls /\ k.baseCcalls = l.baseCcalls
      BY <3>1, <3>2 DEF LuaState
    <3>4. r.ch <= Len(l.ci) /\ r.ch \in 1..r.ch
      BY <1>2, FrameTypes
    <3> QED BY <3>1, <3>3, <3>4
  <2>2. CASE ~flags.LuauCustomYieldablePcalls
    <3>1. k = l
      BY <2>2
    <3> QED BY <2>2, <3>1, FrameTypes
  <2> QED BY <2>1, <2>2
<1>4. Become(th, k, t)
  <2>1. q \in Seq(Record)
    BY DEF Shape
  <2>2. q \o <<e, a>> = t
    BY <1>1, <1>2, <2>1, PushTwo
  <2>3. Become(th, k, q \o <<e, a>>)
    BY DEF HandleCont
  <2> QED BY <2>2, <2>3
<1>5. Lands(q, e)
  BY <1>1, LandsResume
<1>6. q \in Seq(Record) /\ Len(q) \in Nat
  BY LenProperties DEF Shape
<1>7. s[Len(q) + 1] = e /\ t[Len(q) + 1] = e /\ Len(s) = Len(q) + 1 /\ s \in Seq(Record) /\ Last(t) = a
      /\ Last(s) = e
  <2>1. s[Len(q) + 1] = e /\ Len(s) = Len(q) + 1 /\ s \in Seq(Record) /\ Last(s) = e
    BY <1>1, <1>6, PushFacts
  <2> HIDE DEF s
  <2>2. Len(q) + 1 \in 1..Len(s)
    BY <1>6, <2>1
  <2> QED BY <1>2, <2>1, <2>2, PushFacts
<1> HIDE DEF k, e, a
<1>8. /\ FramesOK(k) /\ Alike(l, k, Len(k.ci)) /\ Len(k.ci) \in Nat
      /\ \A h \in 0..Len(k.ci) : Continuable(k, h) <=> Continuable(l, h)
  BY <1>3, Prefix
<1>9. \A m \in 1..Len(k.ci) : k.ci[m].handle => Continuable(k, m)
  <2> TAKE m \in 1..Len(k.ci)
  <2>1. m \in 1..Len(l.ci) /\ m \in 0..Len(k.ci) /\ k.ci[m] = l.ci[m]
    BY <1>3, <1>8, FrameTypes
  <2> QED BY <1>8, <2>1
<1>10. Continuable(k, r.ch) /\ FnOf(k, r.ch) \in {"pcall", "xpcall"}
  <2>1. r.ch \in 0..Len(k.ci)
    BY <1>2, <1>3, <1>8
  <2> QED BY <1>3, <1>8, <2>1 DEF FnOf
<1>11. Okay(s, k) /\ CountsFit(s, th, k.nCcalls, k.baseCcalls)
  <2>1. k.nCcalls >= k.baseCcalls
    BY <1>3, FrameTypes
  <2> QED BY <1>1, <1>3, <1>5, <1>8, <1>9, <2>1, ResumeAlone
<1>12. Block(q, th, t)
  <2>1. Block(q, th, s)
    BY <1>1, <1>6, BlockFirst
  <2> QED BY <1>1, <1>2, <1>6, <2>1, BlockPush
<1> HIDE DEF s
<1>13. Lands(s, a)
  <2>1. Follows(Last(s), a) /\ s # <<>>
    BY <1>1, <1>2, <1>7, <1>11 DEF Follows, Okay
  <2>2. ~(Len(s) = 1 /\ s[1].k = "pcall")
    BY <1>1, <1>6, <1>7
  <2>3. \A m \in 1..Len(s) : s[m].th = a.th => Reach(s[m]) <= a.ci /\ Reach(s[m]) < a.ci
    <3> TAKE m \in 1..Len(s)
    <3> HAVE s[m].th = a.th
    <3>1. CASE m = Len(q) + 1
      <4>1. Reach(s[m]) = 0
        BY <1>1, <1>7, <3>1 DEF Reach
      <4> QED BY <1>2, <4>1
    <3>2. CASE m # Len(q) + 1
      <4>1. m \in 1..Len(q) /\ s[m] = q[m]
        BY <1>1, <1>6, <1>7, <3>2, PushFacts DEF s
      <4> QED BY <1>2, <4>1
    <3> QED BY <3>1, <3>2
  <2> QED BY <1>2, <2>1, <2>2, <2>3 DEF Lands
<1>14. Sits(s, a, k)
  <2>1. Accounted(s, a.ci - 1, k)
    <3>1. Continuable(k, a.ci - 1)
      BY <1>2, <1>10 DEF Continuable
    <3> QED BY <3>1 DEF Accounted
  <2>2. Reach(a) <= Len(k.ci)
    BY <1>2, <1>3, <1>8 DEF Reach
  <2> HIDE DEF FnOf
  <2> QED BY <1>1, <1>2, <1>7, <1>10, <2>1, <2>2 DEF Sits
<1>15. FramesFit(t, k) /\ Shape(t)
  BY <1>2, <1>11, <1>13, <1>14, FramesPush DEF Okay
<1>16. TopFits(t, k)
  <2> HIDE DEF FnOf, t
  <2> QED BY <1>2, <1>7, <1>10 DEF TopFits
<1>17. CountsFit(t, th, k.nCcalls, k.baseCcalls)
  <2>1. k.nCcalls \in Int /\ k.baseCcalls \in Int
    BY <1>3, FrameTypes
  <2> QED BY <1>2, <1>7, <1>11, <2>1, CountsPush
<1>18. t # <<>>
  BY <1>2, <1>7, PushFacts
<1> HIDE DEF t
<1>19. Okay(t, k) /\ Fits(t, k)
  BY <1>2, <1>3, <1>7, <1>8, <1>15, <1>16, <1>17, <1>18 DEF Okay, Fits
<1>20. Outcome(q, th, "resume", k, t)
  BY <1>1, <1>7, <1>12, <1>19 DEF Outcome, Heads
<1> QED BY <1>4, <1>20 DEF Ends

\* luaD_pcall ends with an error.
LEMMA PcallFailsEnds ==
  ASSUME NEW q \in Seq(Record), NEW th \in Thread, NEW s, Block(q, th, s), NEW l, Okay(s, l), l.status = "OK",
         NEW a, Heads(q, a, s),
         NEW j \in Len(q)+1..Len(s), s[j].k = "pcall",
         PcallFails(th, l, Under(s, j - 1), s[j])
  PROVE  Ends(q, th, a)
<1> DEFINE r == s[j]
           c == SubSeq(l.ci, 1, r.ci)
           v == l.isactive /\ r.act
           k == [l EXCEPT !.nCcalls = r.n, !.baseCcalls = r.base, !.isactive = v, !.ci = c]
           t == Under(s, j - 1)
<1>1. /\ Shape(s) /\ l \in LuaState /\ FramesOK(l)
      /\ s \in Seq(Record) /\ Len(s) \in Nat /\ Last(s) = s[Len(s)] /\ Len(q) \in Nat
      /\ \A i \in 1..Len(s) : s[i].th = Last(s).th => Reach(s[i]) <= Len(l.ci)
  BY OkayFacts, LenProperties DEF Okay
<1>2. j \in 1..Len(s) /\ r \in Record /\ r.th = th /\ Last(s).th = th
  <2>1. j \in 1..Len(s) /\ Len(s) \in Len(q)+1..Len(s)
    BY <1>1
  <2> QED BY <1>1, <2>1, ElementOfSeq DEF Block
<1>3. r.n \in Int /\ r.base \in Int /\ r.ci \in Nat /\ r.act \in BOOLEAN
  BY <1>2, RecordKinds DEF PcallRec
<1>4. Become(th, k, t)
  BY DEF PcallFails
<1>5. r.ci <= Len(l.ci)
  BY <1>1, <1>2 DEF Reach
<1>6. c \in Seq(CallInfo) /\ Len(c) = r.ci /\ \A m \in 1..Len(c) : c[m] = l.ci[m]
  <2>1. l.ci \in Seq(CallInfo) /\ r.ci \in 0..Len(l.ci)
    BY <1>1, <1>3, <1>5, FrameTypes
  <2> QED BY <2>1, UnderFacts DEF Under
<1>7. v \in BOOLEAN
  OBVIOUS
<1> HIDE DEF c, v
<1>8. /\ k \in LuaState /\ k.ci = c /\ k.isactive = v /\ k.status = "OK"
      /\ k.nCcalls = r.n /\ k.baseCcalls = r.base
  BY <1>1, <1>3, <1>6, <1>7 DEF LuaState
<1> HIDE DEF k
<1>9. FramesOK(k)
  BY <1>1, <1>5, <1>6, <1>8, Prefix
<1>10. CASE j = Len(q) + 1
  <2>1. q = <<>>
    BY <1>10 DEF Block
  <2>2. j = 1
    BY <1>10, <2>1
  <2>3. Under(s, 0) = <<>>
    <3>1. 0 \in 0..Len(s)
      BY <1>1
    <3> QED BY <1>1, <3>1, UnderFacts
  <2>4. t = q
    BY <2>1, <2>2, <2>3
  <2>5. Lands(<<>>, r)
    BY <1>1, <1>2, <2>2, <2>3 DEF Shape
  <2>6. r.th = MainThread /\ ~r.act /\ r.ci = 0
    BY <2>5 DEF Lands, Bottom
  <2>7. r.n >= 0 /\ r.n = r.base
    BY <1>3, <2>5, CountsNil DEF Lands
  <2>8. k.ci = <<>>
    BY <1>6, <1>8, <2>6, EmptySeq
  <2>9. ~k.isactive
    BY <1>8, <2>6 DEF v
  <2>10. Off(th, k)
    BY <1>8, <2>7, <2>8, <2>9 DEF Off, Yielded
  <2>11. Outcome(q, th, a, k, t)
    BY <1>8, <1>9, <2>4, <2>10 DEF Outcome
  <2> QED BY <1>4, <2>11 DEF Ends
<1>11. CASE j # Len(q) + 1
  <2>1. j > 1 /\ j - 1 \in Len(q)+1..Len(s)
    BY <1>1, <1>11
  <2>2. Okay(t, k) /\ Fits(t, k)
    <3>1. \A m \in 1..Len(k.ci) : k.ci[m] = l.ci[m]
      BY <1>6, <1>8
    <3> QED BY <1>2, <1>6, <1>8, <2>1, <3>1, FailToPcall DEF v
  <2>3. Block(q, th, t)
    BY <2>1, BlockUnder
  <2>4. t[Len(q) + 1] = s[Len(q) + 1]
    <3>1. j - 1 \in 0..Len(s) /\ Len(q) + 1 \in 1..j-1
      BY <1>1, <2>1
    <3> QED BY <1>1, <3>1, UnderFacts
  <2>5. Outcome(q, th, a, k, t)
    BY <2>2, <2>3, <2>4 DEF Outcome, Heads
  <2> QED BY <1>4, <2>5 DEF Ends
<1> QED BY <1>10, <1>11

\* A push keeps the block and its head.
LEMMA BlockGrows ==
  ASSUME NEW q \in Seq(Record), NEW th, NEW p, Block(q, th, p),
         NEW r \in Record, r.th = th, r.k # "resume"
  PROVE  Block(q, th, Append(p, r)) /\ \A a : Heads(q, a, p) => Heads(q, a, Append(p, r))
<1>1. p \in Seq(Record) /\ Len(p) \in Nat /\ Len(q) \in Nat /\ Len(q) + 1 \in 1..Len(p)
  BY LenProperties DEF Block
<1>2. Append(p, r)[Len(q) + 1] = p[Len(q) + 1]
  BY <1>1, PushFacts
<1> QED BY <1>2, BlockPush DEF Heads

\* A call by thread th, on its records.
LEMMA CallsOn ==
  ASSUME NEW q \in Seq(Record), NEW th, NEW s, Block(q, th, s),
         NEW l, Okay(s, l), CountsFit(s, th, l.nCcalls, l.baseCcalls),
         l.status = "OK", NEW kind \in {"int", "iter", "ny"}, NEW y \in BOOLEAN,
         kind = "ny" => ~y, Caller(s, l, y), NEW fn \in Callee,
         NEW r, r = CallRecord(th, l, kind, y),
         NEW a, a = Activation(th, l, fn),
         NEW k, k = Entered(Counted(l, y), fn, th),
         NEW t, t = s \o <<r, a>>, NEW b, Heads(q, b, s)
  PROVE  Outcome(q, th, b, k, t)
<1>1. Last(s).th = th /\ s \in Seq(Record)
  <2>1. s \in Seq(Record) /\ Len(s) \in Nat /\ Len(q) \in Nat /\ Len(s) \in Len(q)+1..Len(s)
    BY LenProperties DEF Block
  <2> QED BY <2>1 DEF Block, Last
<1>2. CountsFit(s, Last(s).th, l.nCcalls, l.baseCcalls)
  BY <1>1
<1> DEFINE O == Last(s).th
           rr == CallRecord(O, l, kind, y)
           aa == Activation(O, l, fn)
           tt == Append(Append(s, rr), aa)
           kk == Entered(Counted(l, y), fn, O)
<1>3. /\ Okay(tt, kk) /\ Fits(tt, kk) /\ s \o <<rr, aa>> = tt
      /\ rr \in Record /\ aa \in Record
      /\ rr.k = "call" /\ rr.th = O /\ aa.k \in {"execute", "c"} /\ aa.th = O
  BY <1>2, Calls
<1>4. rr = r /\ aa = a /\ kk = k /\ O = th
  BY <1>1
<1> HIDE DEF rr, aa, kk, O
<1>5. tt = t /\ t = Append(Append(s, r), a)
  BY <1>3, <1>4
<1> HIDE DEF tt
<1>6. /\ Okay(t, k) /\ Fits(t, k)
      /\ r \in Record /\ a \in Record
      /\ r.k = "call" /\ r.th = th /\ a.k \in {"execute", "c"} /\ a.th = th
  BY <1>3, <1>4, <1>5
<1> DEFINE u == Append(s, r)
<1>7. Block(q, th, u) /\ Heads(q, b, u) /\ t = Append(u, a)
  BY <1>5, <1>6, BlockGrows
<1> HIDE DEF u
<1>8. Block(q, th, t) /\ Heads(q, b, t)
  BY <1>6, <1>7, BlockGrows
<1> QED BY <1>6, <1>8 DEF Outcome

\* The records of a call.
LEMMA CallTypes ==
  ASSUME NEW th \in Thread, NEW l \in LuaState
  PROVE  /\ Execute(th) \in Record
         /\ \A kind \in {"int", "iter", "ny"}, y \in BOOLEAN : CallRecord(th, l, kind, y) \in Record
<1>1. Len(l.ci) \in Nat /\ l.isactive \in BOOLEAN
  BY FrameTypes
<1>2. Execute(th) \in Record
  BY DEF Execute, Record, ExecuteRec
<1>3. \A kind \in {"int", "iter", "ny"}, y \in BOOLEAN : CallRecord(th, l, kind, y) \in CallRec
  BY <1>1 DEF CallRecord, CallRec
<1> QED BY <1>2, <1>3 DEF Record

\* callerrfunc, for luaD_pcall.
LEMMA ErrfuncOfPcall ==
  ASSUME CoroutineAssumption,
         NEW q \in Seq(Record), NEW th \in Thread, NEW s, Block(q, th, s), NEW l, Okay(s, l), l.status = "OK",
         CountsCover(s, th, l.nCcalls, l.baseCcalls),
         NEW a, Heads(q, a, s),
         NEW j \in Len(q)+1..Len(s), s[j].k = "pcall", s[j].ef,
         \A i \in j..Len(s) : s[i].k = "c" /\ s[i].pc = "wait" => ~l.ci[s[i].ci].handle,
         callerrfunc(th, l, Under(s, j - 1), s[j])
  PROVE  Ends(q, th, a)
<1> DEFINE r == s[j]
           p == Under(s, j - 1)
           e == [r EXCEPT !.pc = "errf"]
           u == Append(p, e)
           c == Counted(l, FALSE)
           x == CallRecord(th, l, "ny", FALSE)
           k == Entered(c, "lua", th)
<1>1. /\ Shape(s) /\ l \in LuaState /\ FramesOK(l) /\ FramesFit(s, l)
      /\ s \in Seq(Record) /\ Len(s) \in Nat /\ Last(s) = s[Len(s)] /\ Len(q) \in Nat
      /\ \A i \in 1..Len(s) : s[i].th = Last(s).th => Reach(s[i]) <= Len(l.ci)
  BY OkayFacts, LenProperties DEF Okay
<1>2. j \in 1..Len(s) /\ r \in Record /\ r.th = th /\ Last(s).th = th
  <2>1. j \in 1..Len(s) /\ Len(s) \in Len(q)+1..Len(s)
    BY <1>1
  <2> QED BY <1>1, <2>1, ElementOfSeq DEF Block
<1>3. c \in LuaState /\ c.ci = l.ci /\ c.isactive = l.isactive /\ c.status = l.status
  BY <1>1, CountedFacts
<1>4. CASE Overflow(c.nCcalls)
  <2>1. PcallFails(th, c, Under(s, j - 1), s[j])
    BY <1>4 DEF callerrfunc, AfterErrfunc
  <2> HIDE DEF c
  <2>2. Okay(s, c)
    BY <1>3, OkaySame
  <2> QED BY <1>3, <2>1, <2>2, PcallFailsEnds
<1>5. CASE ~Overflow(c.nCcalls)
  <2>1. Become(th, k, p \o <<e, x, Execute(th)>>)
    BY <1>5 DEF callerrfunc
  <2>2. /\ e \in Record /\ e.k = "pcall" /\ e.th = th /\ e.ci = r.ci /\ e.act = r.act
        /\ e.n = r.n /\ e.base = r.base /\ e.pc = "errf"
    BY <1>2, RecordKinds DEF PcallRec, Record
  <2>3. j # Len(q) + 1
    <3> SUFFICES ASSUME j = Len(q) + 1 PROVE FALSE
      OBVIOUS
    <3>1. q = <<>>
      BY DEF Block
    <3>2. j = 1
      BY <3>1
    <3> QED BY <1>1, <1>2, <3>2, ShapeAt DEF Bottom
  <2>4. /\ j - 1 \in Len(q)+1..Len(s) /\ j - 1 \in 1..Len(s) /\ j - 1 \in 0..Len(s) /\ j - 1 > 0 /\ j > 1
    BY <1>1, <2>3
  <2>5. s[j-1].th = th /\ s[j-1].k = "c" /\ s[j-1] \in Record
    <3>1. s[j-1].th = th /\ s[j-1] \in Record
      BY <1>1, <2>4, ElementOfSeq DEF Block
    <3>2. Follows(s[j-1], s[j])
      BY <1>1, <1>2, <2>4, ShapeAt
    <3> QED BY <3>1, <3>2, RecordKinds DEF Follows
  <2>6. p \in Seq(Record) /\ Len(p) = j - 1 /\ Last(p) = s[j-1] /\ (\A i \in 1..j-1 : p[i] = s[i])
        /\ p # <<>>
    <3>1. p \in Seq(Record) /\ Len(p) = j - 1 /\ Last(p) = s[j-1] /\ (\A i \in 1..j-1 : p[i] = s[i])
      BY <1>1, <2>4, UnderFacts
    <3> QED BY <2>4, <3>1, EmptySeq
  <2>7. Lands(p, r) /\ Sits(p, r, l)
    BY <1>1, <1>2 DEF Shape, FramesFit, SitsAll, In
  <2> HIDE DEF p, e
  <2>8. Lands(p, e)
    <3>1. Follows(Last(p), r)
      BY <2>6, <2>7 DEF Lands
    <3>2. Follows(Last(p), e)
      BY <2>2, <2>5, <2>6, <3>1 DEF Follows
    <3>3. ~(Len(p) = 1 /\ p[1].k = "pcall")
      BY <2>5, <2>6 DEF Last
    <3> HIDE DEF r
    <3> QED BY <1>2, <2>2, <2>6, <2>7, <3>2, <3>3 DEF Lands, r
  <2>9. Sits(p, e, l)
    <3> HIDE DEF FnOf
    <3> QED BY <2>2, <2>6, <2>7 DEF Sits, Reach
  <2>10. FramesFit(p, l) /\ Shape(p)
    <3>1. Alike(l, l, Len(l.ci)) /\ Len(l.ci) \in Int
      BY <1>1, FrameTypes DEF Alike
    <3>2. \A i \in 1..j-1 : s[i].th = Last(s).th => Reach(s[i]) <= Len(l.ci)
      BY <1>1
    <3>3. \A m \in 1..Len(l.ci) : l.ci[m].handle =>
            /\ m <= Len(l.ci) /\ l.ci[m].handle
            /\ \A i \in (j-1)+1..Len(s) : ~(s[i].k = "c" /\ s[i].pc = "wait" /\ s[i].ci = m)
      <4> TAKE m \in 1..Len(l.ci)
      <4> HAVE l.ci[m].handle
      <4>1. m <= Len(l.ci)
        BY <3>1
      <4>2. \A i \in (j-1)+1..Len(s) : i \in j..Len(s)
        BY <2>4
      <4> QED BY <4>1, <4>2
    <3>4. \A i \in 1..j-1 : s[i].th = Last(s).th /\ s[i].k \in {"execute", "resume"} => l.isactive
      <4> TAKE i \in 1..j-1
      <4>1. i \in 1..Len(s)
        BY <1>1
      <4> QED BY <1>1, <4>1 DEF FramesFit, ActiveFits, In
    <3>5. ~(j-1 = 1 /\ s[1].k = "pcall")
      BY <2>5
    <3>6. s[j-1].th = Last(s).th
      BY <1>2, <2>5
    <3> QED BY <1>1, <2>4, <3>1, <3>2, <3>3, <3>4, <3>5, <3>6, FramesUnder DEF p
  <2>11. FramesFit(u, l) /\ Shape(u)
    BY <2>2, <2>6, <2>8, <2>9, <2>10, FramesPush
  <2>12. u \in Seq(Record) /\ u # <<>> /\ Len(u) = Len(p) + 1 /\ Last(u) = e /\ u[Len(p) + 1] = e
    BY <2>2, <2>6, PushFacts
  <2>13. Okay(u, l)
    BY <1>1, <2>11, <2>12 DEF Okay
  <2>14. CountsFit(u, th, l.nCcalls, l.baseCcalls)
    <3>1. l.nCcalls \in Int /\ l.baseCcalls \in Int
      BY <1>1, FrameTypes
    <3>2. CountsCover(p, th, l.nCcalls, l.baseCcalls)
      BY <1>1, <2>4, <3>1, CountsCut DEF p
    <3>3. CountsCover(u, th, l.nCcalls, l.baseCcalls)
      BY <2>2, <2>6, <3>1, <3>2, CountsPush
    <3>4. Len(p) + 1 \in 1..Len(u)
      BY <2>4, <2>6, <2>12
    <3>5. ~Undisturbed(u, th)
      BY <2>2, <2>12, <3>4 DEF Undisturbed
    <3> QED BY <3>3, <3>5 DEF CountsFit
  <2>15. Caller(u, l, FALSE)
    BY <2>2, <2>12 DEF Caller
  <2>16. Block(q, th, u) /\ Heads(q, a, u)
    <3>1. Block(q, th, p) /\ Heads(q, a, p)
      <4>1. Len(q) + 1 \in 1..j-1
        BY <1>1, <2>4
      <4> QED BY <2>4, <2>6, <4>1, BlockUnder DEF p, Heads
    <3> QED BY <2>2, <3>1, BlockGrows
  <2> HIDE DEF u
  <2>17. Activation(th, l, "lua") = Execute(th) /\ "lua" \in Callee
    BY DEF Activation, Callee
  <2> DEFINE w == u \o <<x, Execute(th)>>
  <2>18. Outcome(q, th, a, k, w)
    <3>1. PICK y \in BOOLEAN, kind \in {"int", "iter", "ny"}, fn \in Callee :
             y = FALSE /\ kind = "ny" /\ fn = "lua"
      BY <2>17
    <3>2. Caller(u, l, y) /\ (kind = "ny" => ~y)
      BY <2>15, <3>1
    <3>3. /\ x = CallRecord(th, l, kind, y) /\ Execute(th) = Activation(th, l, fn)
          /\ k = Entered(Counted(l, y), fn, th)
      BY <2>17, <3>1
    <3> HIDE DEF x, k
    <3> QED BY <2>13, <2>14, <2>16, <3>2, <3>3, CallsOn
  <2>19. p \o <<e, x, Execute(th)>> = w
    <3>1. x \in Record /\ Execute(th) \in Record
      BY <1>1, CallTypes
    <3> HIDE DEF x
    <3>2. u \in Seq(Record)
      BY <2>12
    <3>3. w = Append(Append(u, x), Execute(th))
      BY <3>1, <3>2, PushTwo
    <3>4. p \o <<e, x, Execute(th)>> = Append(Append(u, x), Execute(th))
      <4> HIDE DEF w
      <4> QED BY <2>2, <2>6, <3>1, PushThree DEF u
    <3> QED BY <3>3, <3>4
  <2> HIDE DEF w
  <2> QED BY <2>1, <2>18, <2>19 DEF Ends
<1> QED BY <1>4, <1>5

\* callerrfunc, for resume_handle.
LEMMA ErrfuncOfResume ==
  ASSUME NEW q, NEW th \in Thread, Shape(q), NEW r \in Record, r.k = "resume", r.th = th, Lands(q, r),
         \A i \in 1..Len(q) : q[i].th # th,
         NEW l \in LuaState, FramesOK(l), l.isactive, l.status = "OK",
         \A m \in 1..Len(l.ci) : l.ci[m].handle => Continuable(l, m),
         r.ch \in 1..Len(l.ci), FnOf(l, r.ch) \in {"pcall", "xpcall"}, Continuable(l, r.ch),
         l.baseCcalls >= r.old, l.nCcalls >= l.baseCcalls,
         flags.LuauCustomYieldablePcalls,
         callerrfunc(th, l, q, r)
  PROVE  Ends(q, th, "resume")
<1> DEFINE c == Counted(l, FALSE)
           e == [r EXCEPT !.pc = "errf"]
           u == Append(q, e)
           x == CallRecord(th, l, "ny", FALSE)
           k == Entered(c, "lua", th)
<1>1. /\ c \in LuaState /\ c.ci = l.ci /\ c.isactive = l.isactive /\ c.status = l.status
      /\ c.baseCcalls = l.baseCcalls
  <2>1. l.baseCcalls + 0 = l.baseCcalls
    BY FrameTypes
  <2> QED BY <2>1, CountedFacts
<1>2. q \in Seq(Record) /\ Len(q) \in Nat
  BY LenProperties DEF Shape
<1>3. CASE Overflow(c.nCcalls)
  <2>1. HandleCont(th, c, q, r)
    BY <1>3 DEF callerrfunc, AfterErrfunc
  <2> HIDE DEF c
  <2>2. FramesOK(c) /\ (\A m : FnOf(c, m) = FnOf(l, m)) /\ \A m : Continuable(c, m) <=> Continuable(l, m)
    BY <1>1 DEF FramesOK, FnOf, Continuable
  <2>3. \A m \in 1..Len(c.ci) : c.ci[m].handle => Continuable(c, m)
    BY <1>1, <2>2
  <2>4. r.ch \in 1..Len(c.ci) /\ FnOf(c, r.ch) \in {"pcall", "xpcall"} /\ Continuable(c, r.ch)
    BY <1>1, <2>2
  <2>5. c.isactive /\ c.status = "OK" /\ c.baseCcalls >= r.old
    BY <1>1
  <2> QED BY <1>1, <2>1, <2>2, <2>3, <2>4, <2>5, HandleContEnds
<1>4. CASE ~Overflow(c.nCcalls)
  <2>1. Become(th, k, q \o <<e, x, Execute(th)>>)
    BY <1>4 DEF callerrfunc
  <2>2. /\ e \in Record /\ e.k = "resume" /\ e.th = th /\ e.old = r.old /\ e.ch = r.ch
        /\ e.pc = "errf"
    BY RecordKinds DEF ResumeRec, Record
  <2> HIDE DEF e
  <2>3. Lands(q, e)
    BY <2>2, LandsResume
  <2>4. Okay(u, l) /\ CountsFit(u, th, l.nCcalls, l.baseCcalls) /\ Last(u) = e
    BY <2>2, <2>3, ResumeAlone
  <2>5. Block(q, th, u) /\ Heads(q, "resume", u) /\ u \in Seq(Record)
    BY <1>2, <2>2, BlockFirst, PushFacts DEF Heads
  <2>6. Caller(u, l, FALSE)
    <3>1. ~(Len(u) = 1 /\ u[1].k = "pcall")
      <4>1. u[Len(u)].k = "resume"
        BY <2>2, <2>4 DEF Last
      <4> QED BY <4>1
    <3> QED BY <2>2, <2>4, <3>1 DEF Caller
  <2> HIDE DEF u
  <2>7. Activation(th, l, "lua") = Execute(th) /\ "lua" \in Callee
    BY DEF Activation, Callee
  <2> DEFINE w == u \o <<x, Execute(th)>>
  <2>8. Outcome(q, th, "resume", k, w)
    <3>1. PICK y \in BOOLEAN, kind \in {"int", "iter", "ny"}, fn \in Callee :
             y = FALSE /\ kind = "ny" /\ fn = "lua"
      BY <2>7
    <3>a. PICK b : b = "resume"
      OBVIOUS
    <3>b. Heads(q, b, u)
      BY <2>5, <3>a
    <3>2. Caller(u, l, y) /\ (kind = "ny" => ~y)
      BY <2>6, <3>1
    <3>3. /\ x = CallRecord(th, l, kind, y) /\ Execute(th) = Activation(th, l, fn)
          /\ k = Entered(Counted(l, y), fn, th)
      BY <2>7, <3>1
    <3> HIDE DEF x, k
    <3>4. Outcome(q, th, b, k, w)
      <4>1. w = u \o <<x, Execute(th)>> /\ Block(q, th, u) /\ q \in Seq(Record)
        BY <1>2, <2>5
      <4> HIDE DEF w
      <4> QED BY <2>4, <3>2, <3>3, <3>b, <4>1, CallsOn
    <3> QED BY <3>4, <3>a
  <2>9. q \o <<e, x, Execute(th)>> = w
    <3>1. x \in Record /\ Execute(th) \in Record
      BY CallTypes
    <3> HIDE DEF x
    <3>2. w = Append(Append(u, x), Execute(th))
      BY <2>5, <3>1, PushTwo
    <3>3. q \o <<e, x, Execute(th)>> = Append(Append(u, x), Execute(th))
      <4> HIDE DEF w
      <4> QED BY <1>2, <2>2, <3>1, PushThree DEF u
    <3> QED BY <3>2, <3>3
  <2> HIDE DEF w
  <2> QED BY <2>1, <2>8, <2>9 DEF Ends
<1> QED BY <1>3, <1>4

\* A bounded set of numbers has a greatest.
LEMMA Greatest ==
  ASSUME NEW n \in Nat, NEW H, H \subseteq 1..n, H # {}
  PROVE  \E i \in H : \A j \in H : j <= i
<1> DEFINE T == {k \in 0..n : n - k \in H}
           R == OpToRel(<, Nat)
<1>1. T \subseteq Nat /\ T # {}
  <2>1. PICK i \in H : TRUE
    OBVIOUS
  <2>2. i \in H /\ i \in 1..n
    BY <2>1
  <2>3. n - i \in 0..n /\ n - (n - i) = i
    BY <2>2
  <2>4. n - i \in T
    BY <2>2, <2>3
  <2>5. T \subseteq Nat
    OBVIOUS
  <2> QED BY <2>4, <2>5
<1>2. IsWellFoundedOn(R, Nat)
  BY NatLessThanWellFounded
<1>3. \A k, m \in Nat : k < m => <<k, m>> \in R
  BY DEF OpToRel
<1> HIDE DEF R, T
<1>4. \E x \in T : \A y \in T : ~ (<<y, x>> \in R)
  BY <1>1, <1>2, WFMin
<1>5. PICK x \in T : \A y \in T : ~ (<<y, x>> \in R)
  BY <1>4
<1>6. x \in Nat /\ \A y \in T : y \in Nat /\ ~(y < x)
  BY <1>1, <1>3, <1>5
<1>7. x \in 0..n /\ n - x \in H
  BY DEF T
<1>8. \A j \in H : j \in 1..n /\ n - j \in T
  <2> TAKE j \in H
  <2>1. j \in 1..n /\ n - j \in 0..n /\ n - (n - j) = j
    OBVIOUS
  <2> QED BY <2>1 DEF T
<1>9. \A j \in H : j <= n - x
  <2> TAKE j \in H
  <2>1. j \in 1..n /\ ~(n - j < x)
    BY <1>6, <1>8
  <2> QED BY <1>7, <2>1
<1>10. PICK i \in H : i = n - x
  BY <1>7
<1>11. \A j \in H : j <= i
  BY <1>9, <1>10
<1> QED BY <1>11

\* resume_findhandler finds the newest frame that handles errors.
LEMMA FindHandler ==
  ASSUME NEW l \in LuaState
  PROVE  LET ch == resume_findhandler(l)
         IN \/ ch = 0 /\ \A m \in 1..Len(l.ci) : ~l.ci[m].handle
            \/ ch \in 1..Len(l.ci) /\ l.ci[ch].handle
<1> DEFINE H == {i \in DOMAIN l.ci : l.ci[i].handle}
<1>1. DOMAIN l.ci = 1..Len(l.ci) /\ Len(l.ci) \in Nat
  BY FrameTypes, LenProperties
<1>2. CASE H = {}
  <2>1. resume_findhandler(l) = 0
    BY <1>2 DEF resume_findhandler
  <2> QED BY <1>1, <1>2, <2>1
<1>3. CASE H # {}
  <2>1. \E i \in H : \A j \in H : j <= i
    <3>1. H \subseteq 1..Len(l.ci)
      BY <1>1
    <3> HIDE DEF H
    <3> QED BY <1>1, <1>3, <3>1, Greatest
  <2>2. resume_findhandler(l) = CHOOSE i \in H : \A j \in H : j <= i
    BY <1>3 DEF resume_findhandler
  <2>3. (CHOOSE i \in H : \A j \in H : j <= i) \in H
    BY <2>1
  <2> QED BY <1>1, <2>2, <2>3
<1> QED BY <1>2, <1>3

\* One frame loses its handler.
LEMMA HandleOff ==
  ASSUME NEW l \in LuaState, FramesOK(l), NEW ch \in 1..Len(l.ci),
         NEW c, c = [l.ci EXCEPT ![ch].handle = FALSE],
         NEW k \in LuaState, k.ci = c
  PROVE  /\ FramesOK(k) /\ Len(k.ci) = Len(l.ci)
         /\ \A m \in 1..Len(l.ci) : /\ FnOf(k, m) = FnOf(l, m) /\ k.ci[m].ret = l.ci[m].ret
                                    /\ k.ci[m].handle => l.ci[m].handle /\ m # ch
         /\ \A m \in 0..Len(l.ci) : Continuable(k, m) <=> Continuable(l, m)
<1>1. l.ci \in Seq(CallInfo) /\ Len(l.ci) \in Nat /\ c \in Seq(CallInfo) /\ Len(c) = Len(l.ci)
  <2>1. l.ci \in Seq(CallInfo) /\ Len(l.ci) \in Nat /\ k.ci \in Seq(CallInfo)
    BY FrameTypes
  <2>2. DOMAIN c = DOMAIN l.ci /\ DOMAIN l.ci = 1..Len(l.ci) /\ DOMAIN c = 1..Len(c) /\ Len(c) \in Nat
    BY <2>1, LenProperties
  <2> QED BY <2>1, <2>2
<1>2. \A m \in 1..Len(l.ci) : c[m] = IF m = ch THEN [l.ci[m] EXCEPT !.handle = FALSE] ELSE l.ci[m]
  <2>1. DOMAIN l.ci = 1..Len(l.ci)
    BY <1>1, LenProperties
  <2> QED BY <2>1
<1>3. \A m \in 1..Len(l.ci) : /\ FnOf(k, m) = FnOf(l, m) /\ k.ci[m].ret = l.ci[m].ret
                              /\ k.ci[m].handle => l.ci[m].handle /\ m # ch
  <2> TAKE m \in 1..Len(l.ci)
  <2>1. l.ci[m] \in CallInfo
    BY FrameTypes
  <2>2. CASE m = ch
    <3>1. k.ci[m] = [l.ci[m] EXCEPT !.handle = FALSE]
      BY <1>2, <2>2
    <3> QED BY <2>1, <3>1 DEF FnOf, CallInfo
  <2>3. CASE m # ch
    <3>1. k.ci[m] = l.ci[m]
      BY <1>2, <2>3
    <3> QED BY <2>3, <3>1 DEF FnOf
  <2> QED BY <2>2, <2>3
<1>4. FramesOK(k)
  <2> SUFFICES ASSUME NEW m \in 1..Len(l.ci)
               PROVE  /\ FnOf(k, m) = "lua" /\ ~k.ci[m].ret => m > 1 /\ FnOf(k, m - 1) = "lua"
                      /\ k.ci[m].handle => FnOf(k, m) \in {"pcall", "xpcall"}
    BY <1>1 DEF FramesOK
  <2>1. /\ FnOf(l, m) = "lua" /\ ~l.ci[m].ret => m > 1 /\ FnOf(l, m - 1) = "lua"
        /\ l.ci[m].handle => FnOf(l, m) \in {"pcall", "xpcall"}
    BY DEF FramesOK
  <2>2. m > 1 => FnOf(k, m - 1) = FnOf(l, m - 1)
    BY <1>1, <1>3
  <2> QED BY <1>3, <2>1, <2>2
<1>5. \A m \in 0..Len(l.ci) : Continuable(k, m) <=> Continuable(l, m)
  <2> TAKE m \in 0..Len(l.ci)
  <2>1. \A i \in 1..m : FnOf(k, i) = FnOf(l, i)
    BY <1>1, <1>3
  <2> QED BY <2>1 DEF Continuable
<1> QED BY <1>1, <1>3, <1>4, <1>5

\* What resume_finish leaves.
LEMMA FinishedFacts ==
  ASSUME NEW l \in LuaState, NEW r, r.old \in Int, NEW status \in {"OK", "ERR"} \cup Yielded
  PROVE  LET k == Finished(l, r, status)
         IN k \in LuaState /\ k.ci = l.ci /\ ~k.isactive /\ k.status = status
<1> DEFINE n == r.old - 1
           k == [l EXCEPT !.nCcalls = n, !.baseCcalls = n, !.isactive = FALSE, !.status = status]
<1>1. n \in Int
  OBVIOUS
<1>2. Finished(l, r, status) = k
  BY DEF Finished
<1> HIDE DEF n
<1>3. k \in LuaState /\ k.ci = l.ci /\ k.isactive = FALSE /\ k.status = status
  BY <1>1 DEF LuaState
<1> HIDE DEF k
<1> QED BY <1>2, <1>3

\* The loop of resume_finish after an error.
LEMMA ResumeHandleEnds ==
  ASSUME flags \in Flags, NEW q, NEW th \in Thread, Shape(q),
         NEW r \in Record, r.k = "resume", r.th = th, r.pc = "loop", Lands(q, r),
         \A i \in 1..Len(q) : q[i].th # th,
         NEW l \in LuaState, FramesOK(l), l.isactive,
         \A m \in 1..Len(l.ci) : l.ci[m].handle => Continuable(l, m),
         l.baseCcalls >= r.old, l.nCcalls >= l.baseCcalls,
         (\A m \in 1..Len(l.ci) : ~l.ci[m].handle) => Exposed(cs, th, L[th]),
         resume_handle(th, l, q, r)
  PROVE  Ends(q, th, "resume")
<1> DEFINE ch == resume_findhandler(l)
           custom == flags.LuauCustomYieldablePcalls
           keep == flags.LuauCustomYieldablePcalls /\ flags.LuauXpcallFixMessageYieldPath
           v == IF keep THEN l.nCcalls ELSE r.old
           c == [l.ci EXCEPT ![ch].handle = FALSE]
           h == [l EXCEPT !.baseCcalls = r.old, !.nCcalls = v, !.ci = c, !.status = "OK"]
           e == [r EXCEPT !.ch = ch]
<1>1. r.old \in Int /\ l.nCcalls \in Int /\ l.baseCcalls \in Int /\ Len(l.ci) \in Nat
      /\ l.ci \in Seq(CallInfo)
  BY RecordKinds, FrameTypes DEF ResumeRec
<1>2. custom \in BOOLEAN /\ keep \in BOOLEAN /\ (keep => custom)
  BY CoroutineAssumption
<1>3. CASE ch = 0
  <2> DEFINE k == Finished(l, r, "ERR")
  <2>1. Become(th, k, q)
    BY <1>3 DEF resume_handle
  <2>2. k \in LuaState /\ k.ci = l.ci /\ ~k.isactive /\ k.status = "ERR"
    <3>1. "ERR" \in {"OK", "ERR"} \cup Yielded
      OBVIOUS
    <3> QED BY <1>1, <3>1, FinishedFacts
  <2> HIDE DEF k
  <2>3. FramesOK(k)
    BY <2>2 DEF FramesOK, FnOf
  <2>4. th # MainThread
    BY DEF Lands
  <2>5. Off(th, k)
    BY <2>2, <2>4 DEF Off, Yielded
  <2>6. \A m \in 1..Len(l.ci) : ~l.ci[m].handle
    BY <1>3, FindHandler
  <2>7. Outcome(q, th, "resume", k, q)
    BY <2>2, <2>3, <2>5, <2>6 DEF Outcome
  <2> QED BY <2>1, <2>7 DEF Ends
<1>4. CASE ch # 0
  <2>1. ch \in 1..Len(l.ci) /\ l.ci[ch].handle
    BY <1>4, FindHandler
  <2>2. FnOf(l, ch) \in {"pcall", "xpcall"} /\ Continuable(l, ch)
    BY <2>1 DEF FramesOK
  <2>3. IF custom /\ l.ci[ch].fn = "xpcall" THEN callerrfunc(th, h, q, e) ELSE HandleCont(th, h, q, e)
    <3>1. IF custom /\ l.ci[ch].fn = "xpcall"
          THEN callerrfunc(th, [l EXCEPT !.baseCcalls = r.old, !.nCcalls = v,
                                          !.ci[ch].handle = FALSE, !.status = "OK"], q, e)
          ELSE HandleCont(th, [l EXCEPT !.baseCcalls = r.old, !.nCcalls = v,
                                         !.ci[ch].handle = FALSE, !.status = "OK"], q, e)
      BY <1>4 DEF resume_handle
    <3>2. [l EXCEPT !.baseCcalls = r.old, !.nCcalls = v, !.ci[ch].handle = FALSE, !.status = "OK"] = h
      BY DEF LuaState
    <3> QED BY <3>1, <3>2
  <2>4. v \in Int /\ v >= r.old /\ (~custom => v = r.old)
    <3>1. CASE keep
      BY <1>1, <1>2, <3>1
    <3>2. CASE ~keep
      BY <1>1, <1>2, <3>2
    <3> QED BY <3>1, <3>2
  <2>5. c \in Seq(CallInfo)
    <3>1. DOMAIN l.ci = 1..Len(l.ci) /\ l.ci[ch] \in CallInfo
      BY <1>1, <2>1, LenProperties, ElementOfSeq
    <3>2. [l.ci[ch] EXCEPT !.handle = FALSE] \in CallInfo
      BY <3>1 DEF CallInfo
    <3>3. c = [l.ci EXCEPT ![ch] = [l.ci[ch] EXCEPT !.handle = FALSE]]
      OBVIOUS
    <3> QED BY <1>1, <2>1, <3>2, <3>3, ExceptSeq
  <2> HIDE DEF ch, v, c
  <2>6. /\ h \in LuaState /\ h.ci = c /\ h.isactive /\ h.status = "OK"
        /\ h.nCcalls = v /\ h.baseCcalls = r.old
    BY <1>1, <2>4, <2>5 DEF LuaState
  <2>7. e \in Record /\ e.k = "resume" /\ e.th = th /\ e.old = r.old /\ e.ch = ch
    BY <1>1, <2>1, RecordKinds DEF ResumeRec, Record
  <2> HIDE DEF h, e
  <2>8. /\ FramesOK(h) /\ Len(h.ci) = Len(l.ci)
        /\ \A m \in 1..Len(l.ci) : FnOf(h, m) = FnOf(l, m) /\ (h.ci[m].handle => l.ci[m].handle)
        /\ \A m \in 0..Len(l.ci) : Continuable(h, m) <=> Continuable(l, m)
    BY <2>1, <2>6, HandleOff DEF c
  <2>9. \A m \in 1..Len(h.ci) : h.ci[m].handle => Continuable(h, m)
    <3> TAKE m \in 1..Len(h.ci)
    <3>1. m \in 1..Len(l.ci) /\ m \in 0..Len(l.ci)
      BY <1>1, <2>8
    <3> QED BY <2>8, <3>1
  <2>10. e.ch \in 1..Len(h.ci) /\ FnOf(h, e.ch) \in {"pcall", "xpcall"} /\ Continuable(h, e.ch)
    <3>1. ch \in 0..Len(l.ci)
      BY <1>1, <2>1
    <3> QED BY <2>1, <2>2, <2>7, <2>8, <3>1
  <2>11. Lands(q, e)
    BY <2>7, LandsResume
  <2>12. h.baseCcalls >= e.old /\ h.nCcalls >= h.baseCcalls /\ (~custom => h.nCcalls = h.baseCcalls)
    BY <1>1, <2>4, <2>6, <2>7
  <2>13. CASE custom /\ l.ci[ch].fn = "xpcall"
    <3>1. callerrfunc(th, h, q, e) /\ flags.LuauCustomYieldablePcalls
      BY <2>3, <2>13
    <3> QED BY <2>6, <2>7, <2>8, <2>9, <2>10, <2>11, <2>12, <3>1, ErrfuncOfResume
  <2>14. CASE ~(custom /\ l.ci[ch].fn = "xpcall")
    <3>1. HandleCont(th, h, q, e)
      BY <2>3, <2>14
    <3> QED BY <2>6, <2>7, <2>8, <2>9, <2>10, <2>11, <2>12, <3>1, HandleContEnds
  <2> QED BY <2>13, <2>14
<1> QED BY <1>3, <1>4

\* luaD_throw finds a protected call of the thread, or its resume.
LEMMA ThrowTarget ==
  ASSUME NEW q \in Seq(Record), NEW th, NEW s, Shape(s), Block(q, th, s), NEW l, luaD_throw(th, l, s)
  PROVE  \E j \in Len(q)+1..Len(s) :
           /\ s[j].k \in {"pcall", "resume"} /\ \A i \in j+1..Len(s) : s[i].k \notin {"pcall", "resume"}
           /\ IF s[j].pc = "errf" THEN AfterErrfunc(th, l, Under(s, j - 1), s[j])
              ELSE IF s[j].k = "resume" THEN resume_handle(th, l, Under(s, j - 1), s[j])
              ELSE IF s[j].ef THEN callerrfunc(th, l, Under(s, j - 1), s[j])
              ELSE PcallFails(th, l, Under(s, j - 1), s[j])
<1> DEFINE C == {i \in DOMAIN s : s[i].k \in {"pcall", "resume"}}
           j == CHOOSE i \in C : \A m \in C : m <= i
<1>1. s \in Seq(Record) /\ Len(s) \in Nat /\ DOMAIN s = 1..Len(s) /\ Len(q) \in Nat
      /\ Len(q) + 1 \in 1..Len(s)
  BY LenProperties DEF Shape, Block
<1>2. Len(q) + 1 \in C
  <2>1. CASE q = <<>>
    <3>1. Len(q) = 0 /\ 1 \in 1..Len(s)
      BY <1>1, <2>1
    <3>2. Bottom(s[1])
      BY <3>1, ShapeAt
    <3> QED BY <1>1, <3>1, <3>2 DEF Bottom
  <2>2. CASE q # <<>>
    BY <1>1, <2>2 DEF Block
  <2> QED BY <2>1, <2>2
<1>3. \E i \in C : \A m \in C : m <= i
  <2>1. C \subseteq 1..Len(s) /\ C # {}
    BY <1>1, <1>2
  <2> HIDE DEF C
  <2> QED BY <1>1, <2>1, Greatest
<1>4. j \in C /\ \A m \in C : m <= j
  <2> HIDE DEF C
  <2> QED BY <1>3
<1>5. IF s[j].pc = "errf" THEN AfterErrfunc(th, l, Under(s, j - 1), s[j])
      ELSE IF s[j].k = "resume" THEN resume_handle(th, l, Under(s, j - 1), s[j])
      ELSE IF s[j].ef THEN callerrfunc(th, l, Under(s, j - 1), s[j])
      ELSE PcallFails(th, l, Under(s, j - 1), s[j])
  BY DEF luaD_throw, Under
<1> HIDE DEF j
<1>6. j \in 1..Len(s) /\ s[j].k \in {"pcall", "resume"} /\ j \in Len(q)+1..Len(s)
  BY <1>1, <1>2, <1>4
<1>7. \A i \in j+1..Len(s) : s[i].k \notin {"pcall", "resume"}
  <2> TAKE i \in j+1..Len(s)
  <2>1. i \in 1..Len(s) /\ ~(i <= j)
    BY <1>1, <1>6
  <2> QED BY <1>1, <1>4, <2>1
<1> QED BY <1>5, <1>6, <1>7

\* luaD_throw: the newest protected call or resume takes the error, with its own handler
\* or with one a yield left in a frame, or the thread dies with neither.
LEMMA Throw ==
  ASSUME flags \in Flags, NEW q, NEW th, Context(q, th), NEW s, Block(q, th, s), NEW a, Heads(q, a, s),
         NEW l, Okay(s, l), l.status = "OK", CountsCover(s, th, l.nCcalls, l.baseCcalls),
         Last(s).k = "c" /\ Last(s).pc = "wait" => FnOf(l, Last(s).ci) \notin {"pcall", "xpcall"},
         Exposed(s, th, l) => Exposed(cs, th, L[th]),
         luaD_throw(th, l, s)
  PROVE  Ends(q, th, a)
<1>1. /\ Shape(s) /\ l \in LuaState /\ FramesOK(l) /\ FramesFit(s, l)
      /\ s \in Seq(Record) /\ Len(s) \in Nat /\ Last(s) = s[Len(s)]
  BY OkayFacts DEF Okay
<1>2. Shape(q) /\ q \in Seq(Record) /\ Len(q) \in Nat /\ th \in Thread /\ \A i \in 1..Len(q) : q[i].th # th
  BY LenProperties DEF Context, Shape
<1>3. PICK j \in Len(q)+1..Len(s) :
           /\ s[j].k \in {"pcall", "resume"} /\ \A i \in j+1..Len(s) : s[i].k \notin {"pcall", "resume"}
           /\ IF s[j].pc = "errf" THEN AfterErrfunc(th, l, Under(s, j - 1), s[j])
              ELSE IF s[j].k = "resume" THEN resume_handle(th, l, Under(s, j - 1), s[j])
              ELSE IF s[j].ef THEN callerrfunc(th, l, Under(s, j - 1), s[j])
              ELSE PcallFails(th, l, Under(s, j - 1), s[j])
  BY <1>1, <1>2, ThrowTarget
<1>4. j \in 1..Len(s) /\ s[j].th = th /\ Last(s).th = th /\ s[j] \in Record
  <2>1. j \in 1..Len(s) /\ Len(s) \in Len(q)+1..Len(s)
    BY <1>1, <1>2
  <2> QED BY <1>1, <2>1, ElementOfSeq DEF Block
<1>5. \A i \in j..Len(s) : s[i].k = "c" /\ s[i].pc = "wait" => ~l.ci[s[i].ci].handle
  BY <1>3, <1>4, Unguarded
<1>6. CASE s[j].k = "pcall"
  <2>1. CASE s[j].pc # "errf" /\ s[j].ef
    <3>1. callerrfunc(th, l, Under(s, j - 1), s[j])
      BY <1>3, <1>6, <2>1
    <3> QED BY <1>2, <1>5, <1>6, <2>1, <3>1, CoroutineAssumption, ErrfuncOfPcall
  <2>2. CASE ~(s[j].pc # "errf" /\ s[j].ef)
    <3>1. PcallFails(th, l, Under(s, j - 1), s[j])
      BY <1>3, <1>6, <2>2 DEF AfterErrfunc
    <3> QED BY <1>2, <1>6, <3>1, PcallFailsEnds
  <2> QED BY <2>1, <2>2
<1>7. CASE s[j].k = "resume"
  <2> DEFINE r == s[j]
  <2>1. j = Len(q) + 1 /\ Under(s, j - 1) = q
    <3>1. j = Len(q) + 1
      BY <1>1, <1>2, <1>7 DEF Block
    <3>2. Len(q) \in 0..Len(s) /\ Len(q) \in 0..Len(q) /\ Len(q) <= Len(s) /\ j - 1 = Len(q)
      BY <1>1, <1>2, <3>1
    <3>3. \A i \in 1..Len(q) : s[i] = q[i]
      BY DEF Block
    <3>4. Under(s, Len(q)) = Under(q, Len(q))
      BY <1>1, <1>2, <3>2, <3>3, UnderAgree
    <3> QED BY <1>2, <3>1, <3>2, <3>4, UnderAll
  <2>2. Lands(q, r) /\ Sits(q, r, l)
    BY <1>1, <1>4, <2>1 DEF Shape, FramesFit, SitsAll, In
  <2>3. l.isactive
    BY <1>1, <1>4, <1>7 DEF FramesFit, ActiveFits, In
  <2>4. \A m \in 1..Len(l.ci) : l.ci[m].handle => Continuable(l, m)
    <3> SUFFICES ASSUME NEW m \in 1..Len(l.ci), l.ci[m].handle, ~Continuable(l, m)
                 PROVE  FALSE
      OBVIOUS
    <3>1. PICK i \in 1..Len(s) : In(s, i) /\ s[i].k = "c" /\ s[i].pc = "wait" /\ s[i].ci = m
      BY <1>1 DEF FramesFit, Handles
    <3>2. ~(i \in 1..Len(q))
      BY <1>4, <3>1 DEF Block, In
    <3>3. i \in j..Len(s)
      BY <1>1, <1>2, <2>1, <3>2
    <3> QED BY <1>5, <3>1, <3>3
  <2>5. l.baseCcalls >= r.old /\ l.nCcalls >= l.baseCcalls
    <3> DEFINE A == Cardinality(CallsOf(s, th, TRUE))
               B == Cardinality(CallsOf(s, th, FALSE))
    <3>1. A \in Nat /\ B \in Nat
      BY <1>1, CountTypes
    <3>2. l.nCcalls \in Int /\ l.baseCcalls \in Int /\ r.old \in Int
      BY <1>1, <1>4, <1>7, FrameTypes, RecordKinds DEF ResumeRec
    <3>3. l.baseCcalls >= r.old + A /\ l.nCcalls - l.baseCcalls >= B
      BY <1>4, <1>7 DEF CountsCover
    <3> HIDE DEF A, B
    <3> QED BY <3>1, <3>2, <3>3
  <2>6. r.pc \in {"loop", "errf"} /\ a = "resume"
    BY <1>4, <1>7, <2>1, RecordKinds DEF ResumeRec, Heads
  <2>7. CASE r.pc = "errf"
    <3>1. HandleCont(th, l, q, r)
      BY <1>3, <1>7, <2>1, <2>7 DEF AfterErrfunc
    <3>2. flags.LuauCustomYieldablePcalls
      BY <2>1, <2>6, <2>7 DEF Heads
    <3>3. r.ch \in 1..Len(l.ci) /\ FnOf(l, r.ch) \in {"pcall", "xpcall"} /\ Continuable(l, r.ch)
      <4>1. r.ch \in Nat /\ Len(l.ci) \in Nat /\ Reach(r) = r.ch
        BY <1>1, <1>4, <1>7, <2>7, ReachType, FrameTypes DEF Reach
      <4>2. r.ch <= Len(l.ci) /\ r.ch > 0 /\ FnOf(l, r.ch) \in {"pcall", "xpcall"} /\ Continuable(l, r.ch)
        BY <1>7, <2>2, <2>7, <4>1 DEF Sits
      <4> QED BY <4>1, <4>2
    <3> HIDE DEF r
    <3>4. r \in Record /\ r.k = "resume" /\ r.th = th
      BY <1>4, <1>7 DEF r
    <3> QED BY <1>1, <1>2, <2>2, <2>3, <2>4, <2>5, <2>6, <3>1, <3>2, <3>3, <3>4, HandleContEnds
  <2>8. CASE r.pc = "loop"
    <3>1. resume_handle(th, l, q, r)
      BY <1>3, <1>7, <2>1, <2>8
    <3>2. (\A m \in 1..Len(l.ci) : ~l.ci[m].handle) => Exposed(cs, th, L[th])
      <4>1. \A i \in 1..Len(s) : s[i].th = th => s[i].k # "pcall"
        <5> TAKE i \in 1..Len(s)
        <5> HAVE s[i].th = th
        <5>1. ~(i \in 1..Len(q))
          BY DEF Block
        <5>2. i = j \/ i \in j+1..Len(s)
          BY <1>1, <1>2, <2>1, <5>1
        <5> QED BY <1>3, <1>7, <5>2
      <4> QED BY <4>1 DEF Exposed
    <3> HIDE DEF r
    <3>3. r \in Record /\ r.k = "resume" /\ r.th = th
      BY <1>4, <1>7 DEF r
    <3> QED BY <1>1, <1>2, <2>2, <2>3, <2>4, <2>5, <2>6, <2>8, <3>1, <3>2, <3>3, ResumeHandleEnds
  <2> QED BY <2>6, <2>7, <2>8
<1> QED BY <1>3, <1>6, <1>7

=============================================================================
