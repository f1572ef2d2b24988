------------------------------ MODULE MCMemory ------------------------------
(* An instance of Memory for TLC.                                             *)
EXTENDS Memory, TLC
CONSTANTS short1, short2, long1
\* Two of the contents fall into one bucket of a table of two.
Hashes == short1 :> 0 @@ short2 :> 2 @@ long1 :> 1
PageSymmetry == Permutations(Page)
=============================================================================
