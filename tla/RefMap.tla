------------------------------- MODULE RefMap -------------------------------
(* What lua_ref and lua_refpool promise the host: a reference is a number     *)
(* that no other reference in use has, and it stands for one value from the   *)
(* call that made it until the call that gives it back.                       *)
EXTENDS Integers

CONSTANTS Val, RefNumber
VARIABLE refs     \* the value of each reference in use

Init == refs = [r \in {} |-> r]

Make(r, v) ==
  /\ r \notin DOMAIN refs
  /\ refs' = [x \in DOMAIN refs \cup {r} |-> IF x = r THEN v ELSE refs[x]]

GiveBack(r) ==
  /\ r \in DOMAIN refs
  /\ refs' = [x \in DOMAIN refs \ {r} |-> refs[x]]

Next == \E r \in RefNumber : GiveBack(r) \/ \E v \in Val : Make(r, v)

Spec == Init /\ [][Next]_refs
=============================================================================
