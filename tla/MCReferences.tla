----------------------------- MODULE MCReferences -----------------------------
(* An instance of References for TLC.                                         *)
EXTENDS References

CONSTANTS Object

\* Numbers are values too, and look like the links of the registry's list.
Values == {Object, 1}
=============================================================================
