------------------------------ MODULE Ordering ------------------------------
(***************************************************************************)
(* Sorting numbers: what sorted() returns and what a service lists.        *)
(***************************************************************************)
EXTENDS Integers, FiniteSets

\* Numbers in their order.
Ordered(S) ==
    CHOOSE s \in [1..Cardinality(S) -> S] : \A i, j \in DOMAIN s : i < j => s[i] < s[j]
=============================================================================
