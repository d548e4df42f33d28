---------------------------- MODULE MCTagFacade -----------------------------
(* TagFacade with the bounds of its configuration. *)
EXTENDS TagFacade
=============================================================================
