------------------------- MODULE MCGarbageCollection -------------------------
(* Instances of GarbageCollection for TLC.                                    *)
EXTENDS GarbageCollection, TLC

\* One page for each kind of object, as blocks of one size share a page.
Kind(o) == CASE o \in Thread -> "thread" [] o \in Table -> "table"
             [] o \in Closure \cup UpVal -> "function" [] OTHER -> "leaf"
PagePerKind == [o \in Obj \ {MainThread} |-> Kind(o)]
EachKind == {"thread", "table", "function", "leaf"}

\* The two whites are interchangeable.
WhiteSymmetry == Permutations(White)
=============================================================================
