---------------------------- MODULE MCBuildQueue ----------------------------
(* An instance of BuildQueue for TLC.                                         *)
EXTENDS BuildQueue
=============================================================================
