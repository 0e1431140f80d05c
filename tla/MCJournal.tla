------------------------------ MODULE MCJournal ------------------------------
(***************************************************************************)
(* Instances of Journal for TLC.  Two positions to a minute give ticks of  *)
(* one minute two timestamps; segments of one line and a replay budget of  *)
(* two make every commit seal and the third message expire something.      *)
(***************************************************************************)
EXTENDS JournalProperties
=============================================================================
