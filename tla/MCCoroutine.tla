----------------------------- MODULE MCCoroutine -----------------------------
(* An instance of Coroutine for TLC.                                          *)
EXTENDS Coroutine, TLC

\* The defaults, each of two flags alone, and all three; the third flag is read
\* only together with the first.
Setting(custom, fix, iter) ==
  [LuauCustomYieldablePcalls |-> custom, LuauXpcallFixMessageYieldPath |-> fix,
   LuauYieldIter2 |-> iter]
FourSettings ==
  {Setting(FALSE, FALSE, FALSE), Setting(TRUE, FALSE, FALSE),
   Setting(FALSE, FALSE, TRUE), Setting(TRUE, TRUE, TRUE)}

\* All coroutines are alike.
CoroutineSymmetry == Permutations(Thread \ {MainThread})
=============================================================================
