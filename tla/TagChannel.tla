----------------------------- MODULE TagChannel -----------------------------
(***************************************************************************)
(* What one direction of the tag system promises: the tags and             *)
(* acknowledgements one end wrote are told apart by the other end as they  *)
(* were written, in their order, each once and none in between left out.   *)
(***************************************************************************)
EXTENDS Naturals, Sequences

CONSTANT Items  \* the number of items the writer writes

VARIABLES
  complete,  \* the items that have arrived to their last byte
  parsed     \* the items the reader has found, in its order

Init ==
  /\ complete = {}
  /\ parsed = <<>>

(* The stream brings the items in their order. *)
InOrder(items) == \A k \in items : 1 .. k \subseteq items

Arrive ==
  /\ complete' \in SUBSET (1 .. Items)
  /\ complete \subseteq complete'
  /\ InOrder(complete')
  /\ UNCHANGED parsed

Parse ==
  /\ Len(parsed) + 1 \in complete
  /\ parsed' = Append(parsed, Len(parsed) + 1)
  /\ UNCHANGED complete

Next == Arrive \/ Parse

Spec == Init /\ [][Next]_<<complete, parsed>>
=============================================================================
