---------------------------- MODULE MC_AsyncSave ----------------------------
(***************************************************************************)
(* Instances of AsyncSave for TLC.  Every bound is a constant of the       *)
(* module; the configurations give them their values.                      *)
(***************************************************************************)
EXTENDS AsyncSave
=============================================================================
