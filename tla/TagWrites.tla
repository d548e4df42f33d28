----------------------------- MODULE TagWrites ------------------------------
(***************************************************************************)
(* How the items of tag systems get onto the wire.  The application thread *)
(* in SendTag and the TCPSendAck threads each call async_write, with the   *)
(* buffer of a temporary string and no strand (TagSystem.cpp); the         *)
(* handlers, and what async_write has still to write, are left to the      *)
(* io_service, which all the links of a front end share and whose run()    *)
(* Start has put on a thread of its own (FE_TCP.cpp, Master_TCP.cpp).      *)
(* Nothing keeps run() from returning as soon as it has no work.           *)
(*                                                                         *)
(* The calls are made on links that are connected; setup stands for the    *)
(* links that are still being set up.  The wire of a link is the bytes     *)
(* given to its socket.                                                    *)
(***************************************************************************)
EXTENDS Naturals, Sequences, SequencesExt

CONSTANTS
  Writes,  \* the async_write calls
  Link,    \* the link each of them is made on
  Size     \* the number of bytes of the item it writes

Links == {Link[w] : w \in Writes}

ASSUME TagWritesAssumption ==
  /\ Link \in [Writes -> Links]
  /\ Size \in [Writes -> Nat \ {0}]

VARIABLES
  setup,    \* a link is still being set up, which is work for the io_service
  run,      \* "running", and "returned" once run() has found no work
  order,    \* for each link, the calls made on it so far, in their order
  taken,    \* how many bytes of each write the socket has taken
  wire,     \* for each link, the bytes it has taken, unless it is torn
  handled,  \* the writes whose handler has been run
  late,     \* history: the calls made when run() had returned
  torn      \* history: the links on which a write was begun inside another,
            \* or took bytes that were no longer those of the item

vars == <<setup, run, order, taken, wire, handled, late, torn>>

Begun(w) == \E i \in 1 .. Len(order[Link[w]]) : order[Link[w]][i] = w

(* Mutant of Finished: async_write_some in the place of async_write. *)
FinishedAtOnce(w) == taken[w] > 0

(* The tag system calls async_write, which is over when all is written. *)
Finished(w) == taken[w] = Size[w]
Pending == {w \in Writes : Begun(w) /\ w \notin handled}

Byte(w, i) == [of |-> w, i |-> i]
Item(w) == [i \in 1 .. Size[w] |-> Byte(w, i)]

Init ==
  /\ setup = TRUE
  /\ run = "running"
  /\ order = [l \in Links |-> <<>>]
  /\ taken = [w \in Writes |-> 0]
  /\ wire = [l \in Links |-> <<>>]
  /\ handled = {}
  /\ late = {}
  /\ torn = {}

(* The bytes go onto the wire; of a torn link they are not looked at.       *)
Put(l, bytes) ==
  wire' = [wire EXCEPT ![l] = IF l \in torn' THEN <<>> ELSE @ \o bytes]

(* The write of another thread is not finished on the same link. *)
Inside(w) == \E v \in Writes : Link[v] = Link[w] /\ Begun(v) /\ ~Finished(v)

(* WriteTagOnSocket and TCPSendAck: the socket takes at once as much as it  *)
(* has room for.  The string is destroyed when the call is over.            *)
AsyncWrite(w) ==
  /\ ~Begun(w)
  /\ order' = [order EXCEPT ![Link[w]] = Append(@, w)]
  /\ torn' = IF Inside(w) THEN torn \cup {Link[w]} ELSE torn
  /\ \E k \in 0 .. Size[w] :
       /\ taken' = [taken EXCEPT ![w] = k]
       /\ Put(Link[w], SubSeq(Item(w), 1, k))
  /\ late' = IF run = "returned" THEN late \cup {w} ELSE late
  /\ UNCHANGED <<setup, run, handled>>

(* The socket has room again, and takes what is now in the memory that was  *)
(* the string.                                                              *)
WriteSome(w) ==
  /\ run = "running"
  /\ Begun(w) /\ ~Finished(w)
  /\ taken' = [taken EXCEPT ![w] = @ + 1]
  /\ \E good \in BOOLEAN :
       /\ torn' = IF good THEN torn ELSE torn \cup {Link[w]}
       /\ Put(Link[w], <<Byte(w, taken[w] + 1)>>)
  /\ UNCHANGED <<setup, run, order, handled, late>>

(* HandleWrite and HandleAckWrite. *)
HandleWrite(w) ==
  /\ run = "running"
  /\ w \in Pending
  /\ Finished(w)
  /\ handled' = handled \cup {w}
  /\ UNCHANGED <<setup, run, order, taken, wire, late, torn>>

(* The last link has been connected. *)
SetupEnds ==
  /\ run = "running"
  /\ setup
  /\ setup' = FALSE
  /\ UNCHANGED <<run, order, taken, wire, handled, late, torn>>

(* Mutant of NoWork: the writes do not count as work. *)
NoWorkOfSetup == ~setup

(* run() is called with no work object to keep it from returning. *)
NoWork == ~setup /\ Pending = {}

RunReturns ==
  /\ run = "running"
  /\ NoWork
  /\ run' = "returned"
  /\ UNCHANGED <<setup, order, taken, wire, handled, late, torn>>

Next ==
  \/ \E w \in Writes : AsyncWrite(w) \/ WriteSome(w) \/ HandleWrite(w)
  \/ SetupEnds
  \/ RunReturns

Spec == Init /\ [][Next]_vars

(* run() goes on as long as it has work, and sockets get room again: the    *)
(* peer's receiver thread reads for ever.                                   *)
FairSpec == Spec /\ \A w \in Writes : WF_vars(WriteSome(w) \/ HandleWrite(w))

-----------------------------------------------------------------------------
(* The types of the variables; the wire holds as many bytes as were taken   *)
(* for the calls on it, and a handler runs after its write (TagSystem.cpp:  *)
(* 95-103).                                                                 *)
TypeOK ==
  /\ setup \in BOOLEAN
  /\ run \in {"running", "returned"}
  /\ \A l \in Links : order[l] \in Seq(Writes) /\ IsInjective(order[l])
  /\ \A w \in Writes : taken[w] \in 0 .. Size[w]
  /\ \A w \in handled : Begun(w) /\ taken[w] = Size[w]
  /\ late \subseteq Writes
  /\ torn \subseteq Links

(* What the peer's receiver relies on, that its stream is a sequence of     *)
(* items, holds on a link that was not torn, even if items were taken in    *)
(* parts: it is the items in the order of the calls, up to the last byte    *)
(* that a call has got taken (TagSystem.cpp:49, 100).                       *)
WholeItemsUnlessTorn ==
  \A l \in Links \ torn :
    LET items == FlattenSeq([i \in 1 .. Len(order[l]) |-> Item(order[l][i])])
    IN  /\ IsPrefix(wire[l], items)
        /\ (\A w \in Writes : Link[w] = l /\ Begun(w) => Finished(w)) => wire[l] = items

(* A write gets all its bytes taken and its handler run if it was called    *)
(* while run() was running, although nothing else may be left to do for the *)
(* io_service; what is called later is not promised that (FE_TCP.cpp:39,    *)
(* Master_TCP.cpp:51).                                                      *)
HandledIfInTime ==
  \A w \in Writes : (Begun(w) /\ w \notin late) ~> w \in handled
=============================================================================
