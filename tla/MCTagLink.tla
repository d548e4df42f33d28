----------------------------- MODULE MCTagLink ------------------------------
(* Instances of TagLink for TLC. *)
EXTENDS TagLink
=============================================================================
