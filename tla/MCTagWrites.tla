---------------------------- MODULE MCTagWrites -----------------------------
(* An instance of TagWrites for TLC: three calls on one link, of a tag and  *)
(* two acknowledgements, and one on another link of the same front end.     *)
EXTENDS TagWrites

MCWrites == {"tag", "ack1", "ack2", "other"}
MCLink == [w \in MCWrites |-> IF w = "other" THEN 2 ELSE 1]
MCSize == [w \in MCWrites |-> IF w = "tag" THEN 3 ELSE 2]
=============================================================================
