---------------------------- MODULE MCSharedCode ----------------------------
(* Instances of SharedCode for TLC.                                           *)
EXTENDS SharedCode, TLC

\* Machines, functions and places in memory are interchangeable.
SharedCodeSymmetry == Permutations(VM) \cup Permutations(Module) \cup Permutations(Proto)
=============================================================================
