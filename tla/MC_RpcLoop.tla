---------------------------- MODULE MC_RpcLoop ----------------------------
(***************************************************************************)
(* Instances of RpcLoop for TLC.                                           *)
(***************************************************************************)
EXTENDS RpcLoop

CONSTANTS c1, c2, t1, t2

OneClient  == {c1}
TwoClients == {c1, c2}
NoTokens   == {}
TwoTokens  == {t1, t2}

RequestOps == {"sync", "timed", "async", "cancel", "shutdown"}
IdleOps    == {"idle", "timer", "cancelTimer"}
=============================================================================
