---------------------------- MODULE MCLinkSetup -----------------------------
(* LinkSetup with the masters and bounds of its configurations. *)
EXTENDS LinkSetup
=============================================================================
