---------------------------- MODULE MC_Subagents ----------------------------
(* Instances of Subagents for TLC; its bounds are its constants. *)
EXTENDS Subagents
=============================================================================
