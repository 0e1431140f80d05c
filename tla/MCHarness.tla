------------------------------ MODULE MCHarness ------------------------------
(***************************************************************************)
(* An instance of Harness for TLC: candles two ticks long, pages of two,   *)
(* a window of two identities, and trades up to one tick late.             *)
(***************************************************************************)
EXTENDS HarnessProperties
=============================================================================
