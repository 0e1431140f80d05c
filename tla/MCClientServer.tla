---------------------------- MODULE MCClientServer ----------------------------
(***************************************************************************)
(* Instances of ClientServer for TLC.                                      *)
(***************************************************************************)
EXTENDS ClientServerProperties, TLC

\* Consumers differ in nothing.
Symmetry == Permutations(Client)
=============================================================================
