--------------------------- MODULE MCObjectStream ---------------------------
(* ObjectStream with the bounds of its configurations. *)
EXTENDS ObjectStream
=============================================================================
