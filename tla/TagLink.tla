------------------------------ MODULE TagLink -------------------------------
(***************************************************************************)
(* Two TagSystems joined by their two streams: the sending half of one end, *)
(* with all the threads of SentTags, and the other end answering its tags. *)
(* Both ends run the same code, so one direction stands for both; the tags *)
(* of the other end and their acknowledgements are on the same streams and *)
(* take part as items of which only the order matters.  The bytes of a     *)
(* stream are the subject of TagReceive: from there the rule is taken that *)
(* an item need not be parsed before another one follows it.               *)
(*                                                                         *)
(* A process may end at any time.  The system then closes its socket, and  *)
(* what it wrote last may get lost, also in the middle of an item.         *)
(***************************************************************************)
EXTENDS SentTags

CONSTANT
  MaxOthers    \* bound: the number of tags the other end sends

(* Every acknowledgement may arrive; which of them do, the link decides.    *)
ASSUME TagLinkAssumption ==
  /\ MaxOthers \in Nat
  /\ PeerAnswers = 1 .. MaxTags

VARIABLES
  peerAlive,   \* FALSE once the process of the other end has ended
  out,         \* the items this end wrote and the other has not parsed
  in,          \* the items the other end wrote and this one has not parsed
  parsed,      \* the number of tags of this end the other has parsed
  answers,     \* its TCPSendAck threads, by the tag they answer
  others,      \* the number of tags it has sent itself
  replies      \* the number of TCPSendAck threads of this end

peerVars == <<peerAlive, parsed, answers, others>>
linkVars == <<peerVars, out, in, replies>>
allVars == <<vars, linkVars>>

TagItem(n) == [kind |-> "tag", n |-> n]
AckItem(n) == [kind |-> "ack", n |-> n]
(* On the stream in a tag of the other end, on the stream out the           *)
(* acknowledgement of one.                                                  *)
OtherItem == [kind |-> "other", n |-> 0]
(* The beginning of an item, behind which the stream ends. *)
CutItem == [kind |-> "cut", n |-> 0]

LinkInit ==
  /\ Init
  /\ peerAlive = TRUE
  /\ out = <<>>
  /\ in = <<>>
  /\ parsed = 0
  /\ answers = {}
  /\ others = 0
  /\ replies = 0

-----------------------------------------------------------------------------
(* async_write: what is written to a peer that is gone gets lost, and the   *)
(* handlers, which take no arguments, do not see the error.                 *)
Write(item) == out' = IF peerAlive THEN Append(out, item) ELSE out
PeerWrite(item) == in' = IF alive THEN Append(in, item) ELSE in

(* What the reader of a stream may still get when its writer has ended.     *)
Remains(s) ==
  {s} \cup {SubSeq(s, 1, k) \o part : k \in 0 .. Len(s) - 1, part \in {<<>>, <<CutItem>>}}

(* This end stops: the other gets what remains of its stream, and nobody    *)
(* reads the stream of the other end any more.                              *)
End ==
  /\ out' \in Remains(out)
  /\ in' = <<>>
  /\ replies' = 0
  /\ UNCHANGED peerVars

(* The steps of the threads of this end that neither write to the socket    *)
(* nor take anything from it.                                               *)
Local ==
  \/ CreateTag \/ PushTag \/ StartTimer
  \/ TRY_Clear_SentTags_Queue
  \/ \E c \in checks : CheckAcknowledgement(c)
  \/ CheckTagList
  \/ \E n \in Expiring : Expire(n)
  \/ Quit

LocalStep ==
  /\ Local
  /\ \/ alive' /\ UNCHANGED linkVars
     \/ ~alive' /\ End

SendOverLink ==
  /\ WriteTag
  /\ Write(TagItem(sent))
  /\ UNCHANGED <<peerVars, in, replies>>

(* A round of ParseTags takes an acknowledgement off the stream ...         *)
ReceiveAck ==
  /\ in # <<>>
  /\ Head(in).kind = "ack"
  /\ ParseAck(Head(in).n)
  /\ in' = Tail(in)
  /\ UNCHANGED <<peerVars, out, replies>>

(* ... or a tag of the other end, which gets a TCPSendAck thread ...        *)
ReceiveOther ==
  /\ in # <<>>
  /\ Head(in) = OtherItem
  /\ ParseOther
  /\ in' = Tail(in)
  /\ replies' = replies + 1
  /\ UNCHANGED <<peerVars, out>>

(* ... or there is a part of the next item only, which is kept. *)
ReceivePart ==
  /\ in # <<>>
  /\ ParseOther
  /\ UNCHANGED linkVars

TCPSendAck ==
  /\ alive
  /\ replies > 0
  /\ replies' = replies - 1
  /\ Write(OtherItem)
  /\ UNCHANGED <<vars, peerVars, in>>

-----------------------------------------------------------------------------
(* The other end. *)

(* Mutants of Answered: the tag behind is answered too, or every tag is     *)
(* answered but the first.                                                  *)
AnsweredTwice(item) == IF item.kind = "tag" THEN {item.n, item.n + 1} ELSE {}
AnsweredLate(item) == IF item.kind = "tag" /\ item.n > 1 THEN {item.n} ELSE {}

(* ClassifyAndGetTag: the tag that gets a TCPSendAck thread. *)
Answered(item) == IF item.kind = "tag" THEN {item.n} ELSE {}

(* A round of its ParseTags. *)
PeerReceive ==
  /\ peerAlive
  /\ out # <<>>
  /\ Head(out) # CutItem
  /\ out' = Tail(out)
  /\ parsed' = IF Head(out).kind = "tag" THEN parsed + 1 ELSE parsed
  /\ answers' = answers \cup Answered(Head(out))
  /\ UNCHANGED <<vars, peerAlive, in, others, replies>>

PeerSendAck(n) ==
  /\ peerAlive
  /\ n \in answers
  /\ answers' = answers \ {n}
  /\ PeerWrite(AckItem(n))
  /\ UNCHANGED <<vars, peerAlive, out, parsed, others, replies>>

PeerSendTag ==
  /\ peerAlive
  /\ others < MaxOthers
  /\ others' = others + 1
  /\ PeerWrite(OtherItem)
  /\ UNCHANGED <<vars, peerAlive, out, parsed, answers, replies>>

(* It ends for one of the reasons for which this end does. *)
PeerEnd ==
  /\ MayEnd
  /\ peerAlive
  /\ peerAlive' = FALSE
  /\ answers' = {}
  /\ out' = <<>>
  /\ in' \in Remains(in)
  /\ UNCHANGED <<vars, parsed, others, replies>>

ReceiveItem == ReceiveAck \/ ReceiveOther

Peer == PeerReceive \/ (\E n \in Tags : PeerSendAck(n)) \/ PeerSendTag \/ PeerEnd

LinkNext ==
  \/ LocalStep
  \/ SendOverLink
  \/ ReceiveItem
  \/ ReceivePart
  \/ TCPSendAck
  \/ Peer

LinkSpec == LinkInit /\ [][LinkNext]_allVars

(* The threads of SentTags go on as they do there.  The receiver threads    *)
(* poll for ever and parse an item at the latest when there is another      *)
(* behind it or the stream has ended, after a few rounds that saw a part of *)
(* it only; threads that were started go on.                                *)
LinkFairSpec ==
  /\ LinkSpec
  /\ Fairness
  /\ WF_vars(\E c \in checks : CheckAcknowledgement(c))
  /\ SF_allVars(ReceiveItem /\ (Len(in) > 1 \/ ~peerAlive))
  /\ WF_allVars(TCPSendAck)
  /\ WF_allVars(PeerReceive /\ (Len(out) > 1 \/ ~alive))
  /\ WF_allVars(\E n \in Tags : PeerSendAck(n))

-----------------------------------------------------------------------------
(* The number of tags written to the socket. *)
written == IF appPc = "idle" THEN sent ELSE sent - 1

Items == [kind : {"tag", "ack", "other", "cut"}, n : Nat]

(* The types of the variables; the other end answers only what it has       *)
(* parsed, parses only what was written, an acknowledgement on its way is   *)
(* one that is waited for, and an end that has ended has no threads         *)
(* (TagSystem.cpp:157-173).                                                 *)
LinkTypeOK ==
  /\ peerAlive \in BOOLEAN
  /\ out \in Seq(Items) /\ in \in Seq(Items)
  /\ parsed \in 0 .. written
  /\ answers \subseteq 1 .. parsed
  /\ others \in 0 .. MaxOthers
  /\ replies \in Nat
  /\ \A i \in DOMAIN in : in[i].kind = "ack" => in[i].n \in unanswered
  /\ ~peerAlive => answers = {}
  /\ ~alive => replies = 0

(* As long as no identity has been used twice. *)
FreshIds == ~erased /\ sent <= AckIds

(* What the flag _ack_rcvd tells the sender is true (TagSystem.h:92): while *)
(* the identities are fresh, a tag that is marked was delivered, even if    *)
(* its acknowledgement was overtaken, a walk was caught by a reallocation,  *)
(* or one of the processes has ended.                                       *)
AckedWasDelivered ==
  FreshIds => \A i \in DOMAIN queue :
                Started(queue[i]) /\ queue[i].acked => queue[i].n \in 1 .. parsed

(* Nothing gets lost between two running ends: when no call is under way,    *)
(* both streams are empty and no thread is left, every tag has been parsed  *)
(* and its acknowledgement read; and while the identities are fresh it is   *)
(* marked, unless a reallocation caught a walk (TagSystem.cpp:75, 165, 170, *)
(* 192).                                                                    *)
Drained ==
  appPc = "idle" /\ out = <<>> /\ in = <<>> /\ answers = {} /\ checks = {}

AllAckedWhenDrained ==
  alive /\ peerAlive /\ Drained =>
    /\ parsed = sent /\ answered = 1 .. sent
    /\ FreshIds /\ ~torn => \A i \in DOMAIN queue : queue[i].acked

(* The link implements the exchange of tags: whatever order acknowledgement  *)
(* threads run in and wherever a stream breaks off, tags are parsed in the  *)
(* order they were written in, and the acknowledgements that come back are  *)
(* of parsed tags, each at most once (TagSystem.cpp:165, 170).              *)
Exchange == INSTANCE TagExchange WITH sent <- written, confirmed <- answered

ImplementsExchange == Exchange!Spec

(* All but the last: between running ends all tags but the last one are     *)
(* parsed, and all acknowledgements but the last one to arrive are looked   *)
(* up, although an item can wait for the next one (TagSystem.cpp:118).      *)
LookedUp == answered \ {c.n : c \in checks}

AllButTheLast ==
  \A n \in 1 .. MaxTags - 1 :
    /\ sent > n ~> parsed >= n \/ ~alive \/ ~peerAlive
    /\ parsed > n ~> Cardinality(LookedUp) >= n \/ ~alive \/ ~peerAlive
=============================================================================
