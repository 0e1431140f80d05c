--------------------------- MODULE MCFxMacroData ---------------------------
(***************************************************************************)
(* An instance of FxMacroData for TLC: two periods on pages of one or two  *)
(* records, and two values, so that a value can come back.                 *)
(***************************************************************************)
EXTENDS FxMacroDataProperties
=============================================================================
