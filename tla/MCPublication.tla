--------------------------- MODULE MCPublication ---------------------------
(* TLC instances of Publication. *)
EXTENDS Publication
=============================================================================
