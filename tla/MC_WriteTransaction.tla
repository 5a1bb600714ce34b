------------------------ MODULE MC_WriteTransaction ------------------------
(* Two planned paths and one outside the transaction. *)
EXTENDS WriteTransaction

CONSTANTS a, b, x

TwoPaths == {a, b}
OneOther == {x}
=============================================================================
