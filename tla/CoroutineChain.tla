--------------------------- MODULE CoroutineChain ---------------------------
(* What the language promises of coroutines: those that were entered and not  *)
(* left form one chain, of which only the newest runs; a coroutine is entered *)
(* while it is suspended or broken, and never again once it is dead.          *)
EXTENDS Sequences, SequencesExt

CONSTANTS Thread, MainThread
VARIABLES
  chain,     \* the threads entered, in the order of their resumes
  state      \* of a coroutine that is not in the chain

State == {"suspended", "broken", "dead", "entered"}
Coroutines == Thread \ {MainThread}

Init ==
  /\ chain = <<>>
  /\ state = [co \in Coroutines |-> "suspended"]

\* The host calls into the main thread.
Start ==
  /\ chain = <<>>
  /\ chain' = <<MainThread>>
  /\ UNCHANGED state

Enter(co) ==
  /\ state[co] \in {"suspended", "broken"}
  /\ chain' = Append(chain, co)
  /\ state' = [state EXCEPT ![co] = "entered"]

\* The thread that runs yields, breaks, returns or dies.
Leave ==
  /\ chain # <<>>
  /\ chain' = Front(chain)
  /\ state' \in [Coroutines -> State]
  /\ \A co \in Coroutines :
       IF co = Last(chain) THEN state'[co] # "entered" ELSE state'[co] = state[co]

\* A coroutine that waits is closed, or is resumed with an error it does not
\* handle.
End(co) ==
  /\ state[co] \in {"suspended", "broken"}
  /\ state' = [state EXCEPT ![co] = "dead"]
  /\ UNCHANGED chain

Next ==
  \/ Start \/ Leave
  \/ \E co \in Coroutines : Enter(co) \/ End(co)

Spec == Init /\ [][Next]_<<chain, state>>
=============================================================================
