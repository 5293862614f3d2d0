----------------------------- MODULE ByteLists -----------------------------
(* Lists of bus addresses and of positions, ascending as sort.Slice leaves *)
(* them; the scan and the service projection share them.                   *)
EXTENDS Integers, FiniteSets

(* A finite set of numbers from the least to the greatest. *)
InOrder(S) ==
    [k \in 1 .. Cardinality(S) |->
        CHOOSE i \in S : Cardinality({j \in S : j < i}) = k - 1]
=============================================================================
