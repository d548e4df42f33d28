---------------------------- MODULE MCTagReceive ----------------------------
(* An instance of TagReceive for TLC: items as short as an item can be,     *)
(* ":!00", and one byte longer, of every kind.                              *)
EXTENDS TagReceive

MCEnd == [k \in 0 .. 5 |-> <<0, 4, 8, 13, 17, 21>>[k + 1]]

MCKind == <<"tag", "XX", "ack", "tag", "tag">>
=============================================================================
