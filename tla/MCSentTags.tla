----------------------------- MODULE MCSentTags -----------------------------
(* Instances of SentTags for TLC. *)
EXTENDS SentTags
=============================================================================
