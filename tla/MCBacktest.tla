------------------------------ MODULE MCBacktest ------------------------------
(***************************************************************************)
(* Instances of BacktestService for TLC: two artifacts of different sizes, *)
(* of which the limits let one stay.                                       *)
(***************************************************************************)
EXTENDS BacktestProperties, TLC

CONSTANTS A, B

Sizes == A :> 1 @@ B :> 2

\* Requests differ in nothing but their keys.
Symmetry == Permutations(Request)
=============================================================================
