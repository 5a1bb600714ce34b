---------------------------- MODULE MC_AgentTurns ----------------------------
(* Instances of AgentTurns for TLC. *)
EXTENDS AgentTurns

CONSTANTS s1, s2

OneSession  == {s1}
TwoSessions == {s1, s2}
==============================================================================
