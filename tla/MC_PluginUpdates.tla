------------------------- MODULE MC_PluginUpdates -------------------------
(***************************************************************************)
(* Instances of PluginUpdates for TLC.                                     *)
(***************************************************************************)
EXTENDS PluginUpdates

CONSTANTS b1, b2, p1, p2

OneBuffer  == {b1}
TwoBuffers == {b1, b2}
OnePlugin  == {p1}
TwoPlugins == {p1, p2}
=============================================================================
