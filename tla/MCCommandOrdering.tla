------------------------- MODULE MCCommandOrdering -------------------------
(* CommandOrdering on a small instance: two versions of every command. *)
EXTENDS CommandOrdering

CONSTANTS a, b

Versions == {a, b}
=============================================================================
