---------------------------- MODULE TagExchange -----------------------------
(***************************************************************************)
(* What the tag system promises for the tags of one end of a link: the     *)
(* other end gets them in the order they were sent, and what is confirmed  *)
(* are tags that it got, each of them once.                                *)
(***************************************************************************)
EXTENDS Naturals

VARIABLES
  sent,      \* the number of tags sent
  parsed,    \* how many of them the other end has got
  confirmed  \* those whose acknowledgement has come back

vars == <<sent, parsed, confirmed>>

Init ==
  /\ sent = 0
  /\ parsed = 0
  /\ confirmed = {}

Send ==
  /\ sent' = sent + 1
  /\ UNCHANGED <<parsed, confirmed>>

Parse ==
  /\ parsed < sent
  /\ parsed' = parsed + 1
  /\ UNCHANGED <<sent, confirmed>>

Confirm ==
  /\ \E n \in (1 .. parsed) \ confirmed : confirmed' = confirmed \cup {n}
  /\ UNCHANGED <<sent, parsed>>

Next == Send \/ Parse \/ Confirm

Spec == Init /\ [][Next]_vars
=============================================================================
