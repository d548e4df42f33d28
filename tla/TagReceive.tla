----------------------------- MODULE TagReceive -----------------------------
(***************************************************************************)
(* The receiving half of one TagSystem (TagSystem.cpp) and the list from   *)
(* which the application takes the tags (NetLink::GetReceivedTags).        *)
(*                                                                         *)
(* The peer writes items, tags and acknowledgements, one after the other   *)
(* into the byte stream.  Item k ends at byte End[k]; its last three bytes *)
(* are the '!' and the two digits of the identity, and it has no other     *)
(* '!'.  The bytes arrive in any portions.  The receiver thread takes them *)
(* from the socket with read_until, cuts them into items behind every '!'  *)
(* and the two digits, and keeps the rest for the next time.               *)
(*                                                                         *)
(* The list of received tags is shared by the receiver thread, which adds  *)
(* to it, and the application thread, which copies and then clears it;     *)
(* nothing is locked.                                                      *)
(***************************************************************************)
EXTENDS Naturals, Sequences, FiniteSets

CONSTANTS
  Items,  \* bound: the number of items the peer writes
  End,    \* the last byte of every item, and End[0] = 0
  Kind    \* what an item is: a tag, an acknowledgement, or a tag named XX

ASSUME TagReceiveAssumption ==
  /\ Items \in Nat
  /\ End \in [0 .. Items -> Nat]
  /\ End[0] = 0
  /\ \A j, k \in 0 .. Items : j < k => End[j] + 4 <= End[k]
  /\ Kind \in [1 .. Items -> {"tag", "ack", "XX"}]

VARIABLES
  arrived,    \* bytes that have arrived at the socket
  mark,       \* bytes read from the socket
  lo,         \* bytes cut into items; those from lo to mark are _unparsed_buf
              \* or, in ParseTags, tagMessage
  parsed,     \* history: the items found, 0 for a string that is none
  rcvPc,      \* where the receiver thread is: poll, parse or push
  tagVector,  \* the tags found by this call of ParseTags, not yet in the list
  received,   \* _receivedTags_list
  ackJobs,    \* the threads that run TCPSendAck, by item
  acked,      \* the items whose acknowledgement has been sent
  appPc,      \* where the application thread is: idle or in GetReceivedTags
  limit,      \* the size of the list when the copy began
  stale,      \* whether the list has been moved away under the copy
  copied,     \* received_tags, what the copy has got; 0 for a broken tag
  delivered,  \* history: what GetReceivedTags has returned
  overlapped, \* history: the tags in the list when one was added to it during a copy
  alive       \* FALSE once the process has terminated

rcvVars == <<mark, lo, parsed, rcvPc, tagVector>>
appVars == <<appPc, limit, stale, copied, delivered>>
vars == <<arrived, rcvVars, received, ackJobs, acked, appVars, overlapped, alive>>

Item == 1 .. Items

Bang(k) == End[k] - 2

Elems(s) == {s[i] : i \in 1 .. Len(s)}

Init ==
  /\ arrived = 0
  /\ mark = 0
  /\ lo = 0
  /\ parsed = <<>>
  /\ rcvPc = "poll"
  /\ tagVector = <<>>
  /\ received = <<>>
  /\ ackJobs = {}
  /\ acked = {}
  /\ appPc = "idle"
  /\ limit = 0
  /\ stale = FALSE
  /\ copied = <<>>
  /\ delivered = <<>>
  /\ overlapped = {}
  /\ alive = TRUE

(* The network: a portion of any size arrives. *)
Arrive ==
  /\ \E n \in arrived + 1 .. End[Items] : arrived' = n
  /\ UNCHANGED <<rcvVars, received, ackJobs, acked, appVars, overlapped, alive>>

-----------------------------------------------------------------------------
(* The receiver thread. *)

(* Mutant of TextStart: what was not parsed is forgotten. *)
TextStartAtMark == mark

(* ParseTags puts _unparsed_buf in front of the bytes just read. *)
TextStart == lo

(* ReceiveTags and ReadTagsFromSocket: read_until comes back when the bytes  *)
(* of this read hold a '!', with all the bytes it has got by then.           *)
ReadTagsFromSocket ==
  /\ alive
  /\ rcvPc = "poll"
  /\ \E n \in mark + 1 .. arrived :
       /\ \E k \in Item : mark < Bang(k) /\ Bang(k) <= n
       /\ mark' = n
  /\ lo' = TextStart
  /\ rcvPc' = "parse"
  /\ UNCHANGED <<arrived, parsed, tagVector, received, ackJobs, acked, appVars,
                 overlapped, alive>>

(* find('!'): the first one in the text is that of item k. *)
FirstBang(k) ==
  /\ lo < Bang(k)
  /\ Bang(k) <= mark
  /\ \A j \in Item : lo < Bang(j) => k <= j

(* Mutant of TagEnd: one byte of the identity is left to the next item. *)
TagEndShort(k) == Bang(k) + 1

(* singleTagSize: two bytes behind the '!'. *)
TagEnd(k) == Bang(k) + 2

(* The string cut off the text is item k, or not an item at all. *)
Piece(k) == IF lo = End[k - 1] /\ TagEnd(k) = End[k] THEN k ELSE 0

AfterParse(tags) == IF tags = <<>> THEN "poll" ELSE "push"

(* Mutant of Acknowledged: acknowledgements are acknowledged as well. *)
AcknowledgedAlways(k) == {k}

(* The item ClassifyAndGetTag starts a TCPSendAck for, if any. *)
Acknowledged(k) == IF Kind[k] = "ack" THEN {} ELSE {k}

(* One round of the loop of ParseTags with a complete item: it is classified *)
(* and, if it is a tag, acknowledged by a thread of its own and collected,   *)
(* unless its command is XX.                                                 *)
ParseFirstTag ==
  /\ alive
  /\ rcvPc = "parse"
  /\ \E k \in Item :
       /\ FirstBang(k)
       /\ TagEnd(k) <= mark
       /\ parsed' = Append(parsed, Piece(k))
       /\ ackJobs' = ackJobs \cup Acknowledged(k)
       /\ tagVector' = IF Kind[k] = "tag" THEN Append(tagVector, Piece(k)) ELSE tagVector
       /\ lo' = TagEnd(k)
       /\ rcvPc' = IF TagEnd(k) = mark THEN AfterParse(tagVector') ELSE "parse"
  /\ UNCHANGED <<arrived, mark, received, acked, appVars, overlapped, alive>>

(* The last round, without a complete item: the rest is kept. *)
KeepUnparsed ==
  /\ alive
  /\ rcvPc = "parse"
  /\ \A k \in Item : FirstBang(k) => TagEnd(k) > mark
  /\ rcvPc' = AfterParse(tagVector)
  /\ UNCHANGED <<arrived, mark, lo, parsed, tagVector, received, ackJobs, acked,
                 appVars, overlapped, alive>>

(* _receivedTags_list.push_back, which may move the list. *)
PushReceived ==
  /\ alive
  /\ rcvPc = "push"
  /\ received' = Append(received, Head(tagVector))
  /\ tagVector' = Tail(tagVector)
  /\ rcvPc' = AfterParse(tagVector')
  /\ IF appPc = "copy"
     THEN /\ overlapped' = overlapped \cup Elems(received')
          /\ stale' \in {stale, TRUE}
     ELSE UNCHANGED <<overlapped, stale>>
  /\ UNCHANGED <<arrived, mark, lo, parsed, ackJobs, acked, appPc, limit, copied,
                 delivered, alive>>

(* A TCPSendAck thread. *)
TCPSendAck(k) ==
  /\ alive
  /\ k \in ackJobs
  /\ ackJobs' = ackJobs \ {k}
  /\ acked' = acked \cup {k}
  /\ UNCHANGED <<arrived, rcvVars, received, appVars, overlapped, alive>>

-----------------------------------------------------------------------------
(* The application thread: GetReceivedTags. *)

(* Mutant of CopyEnd: the last tag of the list is not copied. *)
CopyEndShort == Len(received) - 1

(* Mutant of CopyEnd: the copy runs one tag past the end. *)
CopyEndPast == Len(received) + 1

(* The range the copy visits is fixed when it begins. *)
CopyEnd == Len(received)

BeginCopy ==
  /\ alive
  /\ appPc = "idle"
  /\ received # <<>>
  /\ appPc' = "copy"
  /\ limit' = CopyEnd
  /\ stale' = FALSE
  /\ UNCHANGED <<arrived, rcvVars, received, ackJobs, acked, copied, delivered,
                 overlapped, alive>>

CopyTag ==
  /\ alive
  /\ appPc = "copy"
  /\ Len(copied) < limit
  /\ ~stale
  /\ copied' = Append(copied, received[Len(copied) + 1])
  /\ UNCHANGED <<arrived, rcvVars, received, ackJobs, acked, appPc, limit, stale,
                 delivered, overlapped, alive>>

(* From storage given back: the old tag, a broken one, or the end of the     *)
(* process.                                                                  *)
CopyDeadMemory ==
  /\ alive
  /\ appPc = "copy"
  /\ Len(copied) < limit
  /\ stale
  /\ \E t \in {received[Len(copied) + 1], 0} : copied' = Append(copied, t)
  /\ alive' \in BOOLEAN
  /\ UNCHANGED <<arrived, rcvVars, received, ackJobs, acked, appPc, limit, stale,
                 delivered, overlapped>>

(* Mutant of Remaining: the list is not cleared. *)
RemainingAll == received

(* clear() leaves nothing, whether it was copied or not. *)
Remaining == <<>>

ClearReceived ==
  /\ alive
  /\ appPc = "copy"
  /\ Len(copied) = limit
  /\ received' = Remaining
  /\ delivered' = delivered \o copied
  /\ copied' = <<>>
  /\ appPc' = "idle"
  /\ UNCHANGED <<arrived, rcvVars, ackJobs, acked, limit, stale, overlapped, alive>>

-----------------------------------------------------------------------------
ReceiveTags ==
  ReadTagsFromSocket \/ ParseFirstTag \/ KeepUnparsed \/ PushReceived

GetReceivedTags ==
  BeginCopy \/ CopyTag \/ CopyDeadMemory \/ ClearReceived

Next ==
  \/ Arrive
  \/ ReceiveTags
  \/ \E k \in Item : TCPSendAck(k)
  \/ GetReceivedTags

Spec == Init /\ [][Next]_vars

(* The receiver thread loops for ever.  Nothing is assumed of the network,   *)
(* nor of when the application asks for its tags.                            *)
FairSpec == Spec /\ WF_vars(ReceiveTags)

-----------------------------------------------------------------------------
TypeOK ==
  /\ arrived \in 0 .. End[Items]
  /\ mark \in 0 .. arrived
  /\ lo \in 0 .. mark
  /\ parsed \in Seq(0 .. Items)
  /\ rcvPc \in {"poll", "parse", "push"}
  /\ tagVector \in Seq(0 .. Items)
  /\ rcvPc = "push" => tagVector # <<>>
  /\ received \in Seq(0 .. Items)
  /\ ackJobs \subseteq Item
  /\ acked \subseteq Item
  /\ appPc \in {"idle", "copy"}
  /\ limit \in Nat
  /\ appPc = "copy" => Len(copied) <= limit /\ limit <= Len(received)
  /\ stale \in BOOLEAN
  /\ copied \in Seq(0 .. Items)
  /\ delivered \in Seq(0 .. Items)
  /\ overlapped \subseteq 0 .. Items
  /\ alive \in BOOLEAN

Complete == {k \in Item : End[k] <= arrived}

Channel == INSTANCE TagChannel WITH complete <- Complete

(* However the network cuts the stream into portions, ReadTagsFromSocket and *)
(* ParseTags recover the items the peer wrote: whole, in order, each once.   *)
ParsesTheStream == Channel!Spec

(* Where the tags are between being parsed and being returned. *)
Pipeline ==
  delivered \o copied \o SubSeq(received, Len(copied) + 1, Len(received)) \o tagVector

(* The application gets tags in the order they were sent and none twice,     *)
(* over the batches of GetReceivedTags and whatever the receiver thread adds *)
(* while one of them is copied and cleared; a tag read from dead memory (0)  *)
(* has lost its place.                                                       *)
DeliveredInOrder ==
  \A i, j \in 1 .. Len(Pipeline) :
    i < j /\ Pipeline[i] # 0 /\ Pipeline[j] # 0 => Pipeline[i] < Pipeline[j]

(* A tag can only be missing from what GetReceivedTags returns if the        *)
(* receiver thread added a tag to the list while it held that one and was    *)
(* being copied; a copy that nothing is added under loses nothing.           *)
OnlyOverlappedLost ==
  \A k \in Elems(parsed) \cap Item :
    Kind[k] = "tag" => k \in Elems(Pipeline) \cup overlapped

(* A TCPSendAck thread is started for every parsed item that is not an       *)
(* acknowledgement, an XX one included, and for nothing else; so the ends    *)
(* never acknowledge acknowledgements to each other.                         *)
AcksExact ==
  ackJobs \cup acked = {k \in Elems(parsed) \cap Item : Kind[k] # "ack"}

(* Once the '!' of the next item has arrived too, an item is parsed, in      *)
(* whatever portions its bytes and those of its neighbours came.             *)
FollowedItemParsed ==
  \A k \in 1 .. Items - 1 :
    arrived >= Bang(k + 1) ~> Len(parsed) >= k \/ ~alive

-----------------------------------------------------------------------------
(* What a header says and the code does not do; refuted by a run.            *)

(* NetLink.h:146: GetReceivedTags gets all received tags. *)
NoTagLost ==
  \A k \in Elems(parsed) \cap Item : Kind[k] = "tag" => k \in Elems(Pipeline)
=============================================================================
