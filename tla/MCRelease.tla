------------------------------ MODULE MCRelease ------------------------------
(***************************************************************************)
(* Instances of ReleaseChain for TLC.  Two releases of the hub, of which   *)
(* the second may come at any step of the first, and a chain that has both *)
(* already, where a rollback to the first makes a third version.           *)
(***************************************************************************)
EXTENDS ReleaseProperties
=============================================================================
