---------------------------- MODULE MC_WholeScan ----------------------------
(* WholeScan for TLC: texts are short or long. *)
EXTENDS WholeScan

ShortOrLong == {1, 2}

=============================================================================
