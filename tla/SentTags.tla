------------------------------ MODULE SentTags ------------------------------
(***************************************************************************)
(* The sending half of one TagSystem (TagSystem.cpp, Tag.cpp,              *)
(* HeartBeatTimer.cpp): the queue of sent tags and the four kinds of       *)
(* thread that share it without a lock,                                    *)
(*                                                                         *)
(*   - the application thread, inside SendTag;                             *)
(*   - the receiver thread, which parses what the peer wrote and tries to  *)
(*     clear the queue after every item (ParseTags);                       *)
(*   - one thread per received acknowledgement (CheckAcknowledgement);     *)
(*   - the detached heartbeat thread (CheckTagList).                       *)
(*                                                                         *)
(* A tag is known by the serial number of the SendTag call that made it;   *)
(* queue is the vector of Tag objects, each the object of some call with   *)
(* flags of its own.  While it is cleared, two objects may be copies of    *)
(* one tag.  A thread that walks the vector holds a position and, as       *)
(* find_if and remove_if do, the end of the vector when it started.  The   *)
(* vector may be moved by a push_back and shortened by an erase under such *)
(* a walk: what the thread then reaches is either another object or dead   *)
(* memory, and a step on dead memory may end the process or be lost.       *)
(***************************************************************************)
EXTENDS Naturals, Sequences, FiniteSets

CONSTANTS
  AckIds,      \* number of acknowledgement identities, 100 in the code
  QueueLimit,  \* length at which the queue is cleared, 100 in the code
  MaxTags,     \* bound: the number of SendTag calls
  BlockingTags,\* the calls that ask for a blocking tag
  Expiring,    \* bound: the calls whose time-out passes
  PeerAnswers, \* bound: the tags whose acknowledgement arrives
  MayEnd       \* bound: whether the process may end by itself

ASSUME SentTagsAssumption ==
  /\ AckIds \in Nat \ {0}
  /\ QueueLimit \in Nat \ {0}
  /\ MaxTags \in Nat
  /\ BlockingTags \subseteq 1 .. MaxTags
  /\ Expiring \subseteq 1 .. MaxTags
  /\ PeerAnswers \subseteq 1 .. MaxTags
  /\ MayEnd \in BOOLEAN

VARIABLES
  queue,       \* _SentTags_Queue, oldest tag first
  id,          \* Tag::_ack_ID, which no copy of a tag changes
  sent,        \* number of SendTag calls made
  appPc,       \* where the application thread is in SendTag
  unanswered,  \* tags written to the socket whose acknowledgement has not been read
  answered,    \* history: tags whose acknowledgement has been read
  checks,      \* the CheckAcknowledgement threads
  rcvPc,       \* where the receiver thread is in the loop of ParseTags
  clear,       \* where it is in the erase(remove_if(...)) of a clearing
  hb,          \* the heartbeat thread
  alive,       \* FALSE once the process has ended or its queue is no vector any more
  erased,      \* history: a clearing has begun
  torn,        \* history: a step of a CheckAcknowledgement hit dead memory
  marked,      \* history: tags marked as acknowledged since their timer was started
  lapsed,      \* history: tags marked as timed out since then
  overlapped   \* history: tags pushed or started while the queue was being cleared,
               \* and tags whose timer was started in place of another's

queueVars == <<queue, marked, lapsed, overlapped>>
appVars == <<id, sent, appPc>>
ackVars == <<unanswered, answered, checks, torn>>
rcvVars == <<rcvPc, clear, erased>>
vars == <<queueVars, appVars, ackVars, rcvVars, hb, alive>>

Tags == 1 .. MaxTags

(* A tag in the queue: _ack_rcvd, _timed_OUT, and _expiry_time, which is     *)
(* not set, in the future, or past.                                         *)
NewObject(n, garbage) ==
  [n |-> n, acked |-> garbage, timedOut |-> FALSE, timer |-> "unset"]

(* A walk over the queue: a thread at element pos of the range that ended   *)
(* at last, stale once the vector has been moved away under it.             *)
NewCheck(n) == [n |-> n, pos |-> 0, last |-> 0, hit |-> FALSE, stale |-> FALSE]
Asleep == [pc |-> "sleep", pos |-> 0, last |-> 0, stale |-> FALSE]

(* The walk of remove_if: kept tags are at the front so far; end is the     *)
(* second argument of erase, 0 before it is evaluated.                      *)
NoClearing == [pos |-> 0, kept |-> 0, last |-> 0, end |-> 0, stale |-> FALSE]

(* Whether the element a walk points to is a tag of the present queue. *)
Live(w) == ~w.stale /\ w.pos <= Len(queue)

(* TAG_Q_CheckTag, negated: neither acknowledged nor timed out. *)
Unresolved(t) == ~t.acked /\ ~t.timedOut

Places(n) == {i \in DOMAIN queue : queue[i].n = n}
InQueue(n) == Places(n) # {}

Started(t) == t.timer # "unset"

Clearing == rcvPc \in {"walk", "move", "erase"}

Init ==
  /\ queue = <<>>
  /\ id = [n \in Tags |-> 0]
  /\ sent = 0
  /\ appPc = "idle"
  /\ unanswered = {}
  /\ answered = {}
  /\ checks = {}
  /\ rcvPc = "parse"
  /\ clear = NoClearing
  /\ hb = Asleep
  /\ alive = TRUE
  /\ erased = FALSE
  /\ torn = FALSE
  /\ marked = {}
  /\ lapsed = {}
  /\ overlapped = {}

-----------------------------------------------------------------------------
(* The application thread: TagSystem::SendTag.                              *)

(* Mutant of SetAckID: the identity is not reduced. *)
SetAckIDUnreduced(n, ackid) == id' = [id EXCEPT ![n] = ackid]

(* Tag::SetAckID: the identity is a two digit number. *)
SetAckID(n, ackid) == id' = [id EXCEPT ![n] = ackid % AckIds]

(* The tag is made with the present size of the queue as identity. *)
CreateTag ==
  /\ alive
  /\ appPc = "idle"
  /\ sent < MaxTags
  /\ sent' = sent + 1
  /\ SetAckID(sent + 1, Len(queue))
  /\ appPc' = "push"
  /\ UNCHANGED <<queueVars, ackVars, rcvVars, hb, alive>>

(* What a push_back that moves the vector does to the walks under way.      *)
Moved(yes) ==
  /\ checks' = {[c EXCEPT !.stale = @ \/ (yes /\ c.pos > 0)] : c \in checks}
  /\ hb' = [hb EXCEPT !.stale = @ \/ (yes /\ hb.pc # "sleep")]
  /\ clear' = [clear EXCEPT !.stale = @ \/ (yes /\ Clearing)]

(* push_back.  No constructor of Tag sets _ack_rcvd, so the object in the   *)
(* queue starts with any value of it; the vector may have to move.  An      *)
(* erase at the same time changes the size of the vector too: the tag may   *)
(* be lost, or destroyed ones become part of the vector.                    *)
PushTag ==
  /\ alive
  /\ appPc = "push"
  /\ \/ \E garbage \in BOOLEAN : queue' = Append(queue, NewObject(sent, garbage))
     \/ rcvPc = "erase" /\ UNCHANGED queue
  /\ \E yes \in BOOLEAN : Moved(yes)
  /\ overlapped' = IF Clearing THEN overlapped \cup {sent} ELSE overlapped
  /\ alive' \in {TRUE, rcvPc # "erase"}
  /\ appPc' = "start"
  /\ UNCHANGED <<marked, lapsed, id, sent, unanswered, answered, torn, rcvPc, erased>>

(* _SentTags_Queue.back().StartTimer(): the tag at the back need not be     *)
(* the one this call pushed, nor the object that is kept of it, and there   *)
(* need not be one.                                                         *)
StartTimer ==
  /\ alive
  /\ appPc = "start"
  /\ appPc' = "write"
  /\ \/ /\ queue # <<>>
        /\ LET last == Len(queue)
               back == queue[last].n
           IN  /\ queue' = [queue EXCEPT ![last] =
                     [n |-> back, acked |-> FALSE, timedOut |-> FALSE, timer |-> "running"]]
               /\ marked' = marked \ {back}
               /\ lapsed' = lapsed \ {back}
               /\ overlapped' = overlapped \cup
                     IF Clearing \/ back # sent THEN {back, sent} ELSE {}
        /\ UNCHANGED alive
     \/ /\ queue = <<>>
        /\ alive' \in BOOLEAN
        /\ UNCHANGED queueVars
  /\ UNCHANGED <<id, sent, ackVars, rcvVars, hb>>

(* SendIfSocketOpen: nothing in the code closes the socket, so it is open. *)
WriteTag ==
  /\ alive
  /\ appPc = "write"
  /\ unanswered' = unanswered \cup {sent}
  /\ appPc' = "idle"
  /\ UNCHANGED <<queueVars, id, sent, answered, checks, torn, rcvVars, hb, alive>>

(* The application ends, the process is killed, or its receiver throws at    *)
(* the end of the stream.                                                   *)
Quit ==
  /\ MayEnd
  /\ alive
  /\ alive' = FALSE
  /\ UNCHANGED <<queueVars, appVars, ackVars, rcvVars, hb>>

-----------------------------------------------------------------------------
(* The receiver thread: one round of the loop of ParseTags.  The peer sends *)
(* its acknowledgements from a thread of their own each, so they arrive in  *)
(* any order.                                                               *)

(* An acknowledgement: ClassifyAndGetTag starts a CheckAcknowledgement.     *)
ParseAck(n) ==
  /\ alive
  /\ rcvPc = "parse"
  /\ n \in unanswered
  /\ unanswered' = unanswered \ {n}
  /\ answered' = answered \cup {n}
  /\ checks' = checks \cup {NewCheck(n)}
  /\ rcvPc' = "test"
  /\ UNCHANGED <<queueVars, appVars, torn, clear, erased, hb, alive>>

(* A tag of the peer, or an incomplete one: the queue is looked at too.     *)
ParseOther ==
  /\ alive
  /\ rcvPc = "parse"
  /\ rcvPc' = "test"
  /\ UNCHANGED <<queueVars, appVars, ackVars, clear, erased, hb, alive>>

(* TRY_Clear_SentTags_Queue: the test of the size ... *)
TestSize ==
  /\ alive
  /\ rcvPc = "test"
  /\ rcvPc' = IF Len(queue) = QueueLimit THEN "begin" ELSE "parse"
  /\ UNCHANGED <<queueVars, appVars, ackVars, clear, erased, hb, alive>>

(* ... the range of remove_if; the end that is passed to erase may be read   *)
(* now or after remove_if ...                                               *)
BeginErase ==
  /\ alive
  /\ rcvPc = "begin"
  /\ \E end \in {0, Len(queue)} :
       clear' = [pos |-> 1, kept |-> 0, last |-> Len(queue), end |-> end, stale |-> FALSE]
  /\ rcvPc' = "walk"
  /\ erased' = TRUE
  /\ overlapped' = IF appPc = "start" THEN overlapped \cup {sent} ELSE overlapped
  /\ UNCHANGED <<queue, marked, lapsed, appVars, ackVars, hb, alive>>

(* Mutant of Keeps: an expired tag is dropped before the heartbeat marks it. *)
KeepsUntilExpiry(t) == Unresolved(t) /\ t.timer # "past"

(* What remove_if(TAG_Q_CheckTag) keeps: neither acknowledged nor timed out. *)
Keeps(t) == Unresolved(t)

(* ... the predicate of remove_if for the next tag; one to be kept stays    *)
(* where it is as long as none was dropped ...                              *)
TestTag ==
  /\ alive
  /\ rcvPc = "walk"
  /\ ~clear.stale
  /\ clear.pos <= clear.last
  /\ \/ /\ ~Keeps(queue[clear.pos])
        /\ clear' = [clear EXCEPT !.pos = @ + 1]
        /\ UNCHANGED rcvPc
     \/ /\ Keeps(queue[clear.pos])
        /\ clear.kept + 1 = clear.pos
        /\ clear' = [clear EXCEPT !.pos = @ + 1, !.kept = @ + 1]
        /\ UNCHANGED rcvPc
     \/ /\ Keeps(queue[clear.pos])
        /\ clear.kept + 1 # clear.pos
        /\ rcvPc' = "move"
        /\ UNCHANGED clear
  /\ UNCHANGED <<queueVars, appVars, ackVars, erased, hb, alive>>

(* ... and is assigned to the next place at the front otherwise ...         *)
MoveTag ==
  /\ alive
  /\ rcvPc = "move"
  /\ ~clear.stale
  /\ queue' = [queue EXCEPT ![clear.kept + 1] = queue[clear.pos]]
  /\ clear' = [clear EXCEPT !.pos = @ + 1, !.kept = @ + 1]
  /\ rcvPc' = "walk"
  /\ UNCHANGED <<marked, lapsed, overlapped, appVars, ackVars, erased, hb, alive>>

ReadEnd ==
  /\ alive
  /\ rcvPc = "walk"
  /\ ~clear.stale
  /\ clear.pos > clear.last
  /\ clear' = [clear EXCEPT !.end = IF @ = 0 THEN Len(queue) ELSE @]
  /\ rcvPc' = "erase"
  /\ UNCHANGED <<queueVars, appVars, ackVars, erased, hb, alive>>

(* ... and erase: what is behind the end it was given moves up behind the   *)
(* tags kept, in the same storage.                                          *)
EraseTail ==
  /\ alive
  /\ rcvPc = "erase"
  /\ ~clear.stale
  /\ queue' = SubSeq(queue, 1, clear.kept) \o SubSeq(queue, clear.end + 1, Len(queue))
  /\ clear' = NoClearing
  /\ rcvPc' = "parse"
  /\ UNCHANGED <<marked, lapsed, overlapped, appVars, ackVars, erased, hb, alive>>

(* The vector was moved: what is cleared is the storage given back, and     *)
(* unless nothing is to be dropped erase gets the ends of two vectors.      *)
ClearDeadMemory ==
  /\ alive
  /\ Clearing
  /\ clear.stale
  /\ alive' \in {FALSE, clear.kept + 1 = clear.pos}
  /\ clear' = NoClearing
  /\ rcvPc' = "parse"
  /\ UNCHANGED <<queueVars, appVars, ackVars, erased, hb>>

-----------------------------------------------------------------------------
(* A CheckAcknowledgement thread: find_if with TAG_Q_CheckAck.              *)

BeginCheck(c) ==
  /\ alive
  /\ c.pos = 0
  /\ checks' = (checks \ {c}) \cup
       IF queue = <<>> THEN {} ELSE {[c EXCEPT !.pos = 1, !.last = Len(queue)]}
  /\ UNCHANGED <<queueVars, appVars, unanswered, answered, torn, rcvVars, hb, alive>>

(* Mutant of Matches: any tag of the queue is taken for the one meant. *)
MatchesAny(c) == Live(c)

(* TAG_Q_CheckAck: the tag has the identity of the acknowledgement. *)
Matches(c) == id[queue[c.pos].n] = id[c.n]

(* The walk with c at the next tag of its range, or over. *)
Advance(c) ==
  checks' = (checks \ {c}) \cup
    IF c.pos = c.last THEN {} ELSE {[c EXCEPT !.pos = @ + 1, !.hit = FALSE]}

CompareTag(c) ==
  /\ alive
  /\ c.pos > 0
  /\ ~c.hit
  /\ Live(c)
  /\ \/ /\ Matches(c)
        /\ checks' = (checks \ {c}) \cup {[c EXCEPT !.hit = TRUE]}
     \/ /\ ~Matches(c)
        /\ Advance(c)
  /\ UNCHANGED <<queueVars, appVars, unanswered, answered, torn, rcvVars, hb, alive>>

(* Mutant of EndWalk: the walk goes on behind the tag it matched. *)
KeepWalking(c) == Advance(c)

EndWalk(c) == checks' = checks \ {c}

(* The first tag with the identity of the acknowledgement ends the walk; by *)
(* now another one may have been moved to its place.                        *)
MarkAcked(c) ==
  /\ alive
  /\ c.hit
  /\ Live(c)
  /\ queue' = [queue EXCEPT ![c.pos].acked = TRUE]
  /\ marked' = marked \cup {queue[c.pos].n}
  /\ EndWalk(c)
  /\ UNCHANGED <<lapsed, overlapped, appVars, unanswered, answered, torn, rcvVars, hb, alive>>

CheckDeadMemory(c) ==
  /\ alive
  /\ c.pos > 0
  /\ ~Live(c)
  /\ alive' \in BOOLEAN
  /\ torn' = TRUE
  /\ EndWalk(c)
  /\ UNCHANGED <<queueVars, appVars, unanswered, answered, rcvVars, hb>>

-----------------------------------------------------------------------------
(* The heartbeat thread: CheckTagList, find_if with Tag_TimeOutCheck.       *)

(* Time passes: the expiry time of a started tag is reached, in each copy.  *)
Expire(n) ==
  /\ alive
  /\ \E i \in Places(n) : queue[i].timer = "running"
  /\ queue' = [i \in DOMAIN queue |->
                 IF queue[i].n = n /\ queue[i].timer = "running"
                 THEN [queue[i] EXCEPT !.timer = "past"] ELSE queue[i]]
  /\ UNCHANGED <<marked, lapsed, overlapped, appVars, ackVars, rcvVars, hb, alive>>

Beat ==
  /\ alive
  /\ hb.pc = "sleep"
  /\ queue # <<>>
  /\ hb' = [pc |-> "scan", pos |-> 1, last |-> Len(queue), stale |-> FALSE]
  /\ UNCHANGED <<queueVars, appVars, ackVars, rcvVars, alive>>

(* Mutant of Overdue: the clock is not looked at. *)
OverdueAtOnce(t) == Unresolved(t) /\ Started(t)

(* Tag_TimeOutCheck of one tag, up to the call of TimeOutHandler.           *)
Overdue(t) == Unresolved(t) /\ t.timer = "past"

(* Mutant of AfterTag: the last tag of the range is not visited. *)
AfterTagShort(w) ==
  IF w.pos + 1 >= w.last THEN Asleep ELSE [w EXCEPT !.pos = @ + 1]

AfterTag(w) == IF w.pos = w.last THEN Asleep ELSE [w EXCEPT !.pos = @ + 1]

VisitTag ==
  /\ alive
  /\ hb.pc = "scan"
  /\ Live(hb)
  /\ hb' = IF Overdue(queue[hb.pos]) THEN [hb EXCEPT !.pc = "handle"]
           ELSE AfterTag(hb)
  /\ UNCHANGED <<queueVars, appVars, ackVars, rcvVars, alive>>

(* TimeOutHandler looks again; for a blocking tag it throws, and nothing in *)
(* the detached thread catches it.                                          *)
HandleTimeOut ==
  /\ alive
  /\ hb.pc = "handle"
  /\ Live(hb)
  /\ LET t == queue[hb.pos]
     IN  \/ /\ Unresolved(t) /\ t.n \in BlockingTags
            /\ alive' = FALSE
            /\ UNCHANGED hb
         \/ /\ Unresolved(t) /\ t.n \notin BlockingTags
            /\ hb' = [hb EXCEPT !.pc = "mark"]
            /\ UNCHANGED alive
         \/ /\ ~Unresolved(t)
            /\ hb' = Asleep
            /\ UNCHANGED alive
  /\ UNCHANGED <<queueVars, appVars, ackVars, rcvVars>>

(* The tag is marked, and a tag found ends the walk and the beat.           *)
MarkTimedOut ==
  /\ alive
  /\ hb.pc = "mark"
  /\ Live(hb)
  /\ queue' = [queue EXCEPT ![hb.pos].timedOut = TRUE]
  /\ lapsed' = lapsed \cup {queue[hb.pos].n}
  /\ hb' = Asleep
  /\ UNCHANGED <<marked, overlapped, appVars, ackVars, rcvVars, alive>>

BeatDeadMemory ==
  /\ alive
  /\ hb.pc # "sleep"
  /\ ~Live(hb)
  /\ alive' \in BOOLEAN
  /\ hb' = Asleep
  /\ UNCHANGED <<queueVars, appVars, ackVars, rcvVars>>
-----------------------------------------------------------------------------
SendTag == CreateTag \/ PushTag \/ StartTimer \/ WriteTag

TRY_Clear_SentTags_Queue ==
  TestSize \/ BeginErase \/ TestTag \/ MoveTag \/ ReadEnd \/ EraseTail \/ ClearDeadMemory

ParseItem == (\E n \in PeerAnswers : ParseAck(n)) \/ ParseOther

CheckAcknowledgement(c) ==
  BeginCheck(c) \/ CompareTag(c) \/ MarkAcked(c) \/ CheckDeadMemory(c)

CheckTagList ==
  Beat \/ VisitTag \/ HandleTimeOut \/ MarkTimedOut \/ BeatDeadMemory

Next ==
  \/ SendTag
  \/ ParseItem
  \/ TRY_Clear_SentTags_Queue
  \/ \E c \in checks : CheckAcknowledgement(c)
  \/ CheckTagList
  \/ \E n \in Expiring : Expire(n)
  \/ Quit

Spec == Init /\ [][Next]_vars

(* Every thread that is inside a function goes on, the heartbeat thread is  *)
(* scheduled for ever, and time passes.  Nothing is assumed of the callers  *)
(* of SendTag or of the peer.                                               *)
Fairness ==
  /\ WF_vars(PushTag \/ StartTimer \/ WriteTag)
  /\ WF_vars(TRY_Clear_SentTags_Queue)
  /\ WF_vars(CheckTagList)
  /\ \A n \in Expiring : WF_vars(Expire(n))

FairSpec == Spec /\ Fairness

-----------------------------------------------------------------------------
(* The type of the state, and the positions the threads may hold. *)
Objects ==
  [n : Tags, acked : BOOLEAN, timedOut : BOOLEAN, timer : {"unset", "running", "past"}]

QueueTypes ==
  /\ queue \in Seq(Objects)
  /\ Len(queue) <= sent
  /\ marked \cup lapsed \cup overlapped \subseteq 1 .. sent

AppTypes ==
  /\ id \in [Tags -> 0 .. AckIds - 1]
  /\ sent \in 0 .. MaxTags
  /\ appPc \in {"idle", "push", "start", "write"}

Checks ==
  [n : Tags, pos : 0 .. MaxTags, last : 0 .. MaxTags, hit : BOOLEAN, stale : BOOLEAN]

AckTypes ==
  /\ unanswered \subseteq Tags
  /\ answered \subseteq Tags
  /\ checks \subseteq Checks
  /\ torn \in BOOLEAN

Clearings ==
  [pos : 0 .. MaxTags + 1, kept : 0 .. MaxTags, last : 0 .. MaxTags, end : 0 .. MaxTags,
   stale : BOOLEAN]

ReceiverTypes ==
  /\ rcvPc \in {"parse", "test", "begin", "walk", "move", "erase"}
  /\ clear \in Clearings
  /\ Clearing => clear.last <= Len(queue) /\ clear.end <= Len(queue)
  /\ erased \in BOOLEAN

Beats ==
  [pc : {"sleep", "scan", "handle", "mark"},
   pos : 0 .. MaxTags, last : 0 .. MaxTags, stale : BOOLEAN]

TypeOK ==
  /\ QueueTypes
  /\ AppTypes
  /\ AckTypes
  /\ ReceiverTypes
  /\ hb \in Beats
  /\ alive \in BOOLEAN

(* What SendTag, CheckAcknowledgement and ParseTags promise together, as     *)
(* long as the queue has not been cleared, no more tags were sent than there *)
(* are identities and no walk was caught by a reallocation: a tag whose      *)
(* timer was started is marked as acknowledged exactly when its own          *)
(* acknowledgement has been read and the thread that looks for it is done.   *)
FreshAckExact ==
  ~erased /\ ~torn /\ sent <= AckIds =>
    \A i \in DOMAIN queue :
      LET t == queue[i]
      IN  Started(t) => (t.acked <=> t.n \in answered /\ \A c \in checks : c.n # t.n)

(* CheckTagList marks a tag as timed out only when its expiry time has       *)
(* passed, whatever was sent and acknowledged between the steps of the walk, *)
(* as long as the queue has not been cleared.                                *)
DueTimeouts ==
  ~erased => \A i \in DOMAIN queue : queue[i].timedOut => queue[i].timer = "past"

(* One acknowledgement settles at most one tag, over clearings of the queue, *)
(* identities used again and walks cut short: there are never more tags      *)
(* marked as acknowledged than acknowledgements that have been read, and     *)
(* the flag of a tag tells of such a mark, unless the sending of the tag     *)
(* overlapped a clearing (TagSystem.cpp:75).                                 *)
AckCount ==
  /\ Cardinality(marked) <= Cardinality(answered)
  /\ \A i \in DOMAIN queue :
       Started(queue[i]) /\ queue[i].acked => queue[i].n \in marked \cup overlapped

(* A clearing drops settled tags only, whatever the other threads do between *)
(* its steps, with one exception: the tags whose SendTag it overlaps, and    *)
(* those whose timer such a call starts in place of its own.  Any other tag  *)
(* that is not in the queue has been marked as acknowledged or timed out     *)
(* since its timer was started (TagSystem.cpp:36, 192, 198).                 *)
OnlyOverlappedForgotten ==
  \A n \in 1 .. sent :
    (n = sent => appPc \notin {"push", "start"}) /\ ~InQueue(n) =>
      n \in marked \cup lapsed \cup overlapped

(* The heartbeat settles every tag that nobody acknowledges, even though a   *)
(* beat ends at the first tag it times out and tags move under it; only the  *)
(* end of the process stops it, and a clearing that overlaps the sending of  *)
(* the tag.                                                                  *)
Settled(n) == \A i \in Places(n) : ~Unresolved(queue[i])

EveryTagResolved ==
  \A n \in Expiring : InQueue(n) ~> (Settled(n) \/ n \in overlapped \/ ~alive)

-----------------------------------------------------------------------------
(* What a header says and the code does not do; refuted by a run.           *)

(* TagSystem.h:92: the system finds out whose acknowledgement it is, so a    *)
(* tag is marked when it is the one that was answered.                       *)
AckOfTheTag ==
  \A i \in DOMAIN queue : Started(queue[i]) /\ queue[i].acked => queue[i].n \in answered
=============================================================================
