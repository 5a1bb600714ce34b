--------------------------- MODULE MC_PluginHost ---------------------------
(* PluginHost for TLC: one plugin, of every kind its manifest can give it. *)
EXTENDS PluginHost

CONSTANT n1

OnePlugin == {n1}

============================================================================
