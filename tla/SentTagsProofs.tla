--------------------------- MODULE SentTagsProofs ---------------------------
(***************************************************************************)
(* Theorems about SentTags for every number of tags and identities, every  *)
(* limit of the queue and every environment: which time-outs pass, which   *)
(* acknowledgements arrive and whether the process may end.                *)
(***************************************************************************)
EXTENDS SentTags, SequenceLemmas, FiniteSetTheorems, TLAPS

-----------------------------------------------------------------------------
(* The type invariant is not inductive: that a position is at most MaxTags  *)
(* follows from its walk being inside its range, that the queue is no       *)
(* longer than the number of calls from each call pushing one object.       *)
AppOK ==
  /\ appPc = "push" => Len(queue) < sent
  /\ appPc # "idle" => sent > 0
  /\ \A i \in DOMAIN queue :
       queue[i].n <= sent /\ (appPc = "push" => queue[i].n < sent)

ChecksOK == \A c \in checks : c.pos <= c.last /\ (c.hit => c.pos > 0)

BeatOK ==
  /\ hb.pos <= hb.last
  /\ hb.pc # "sleep" => hb.pos > 0

(* A clearing is behind the tags it kept and before the end of its range;   *)
(* the queue gets no shorter meanwhile, even if it is moved.                *)
ClearOK ==
  Clearing =>
    /\ clear.kept < clear.pos
    /\ clear.pos <= clear.last + 1
    /\ clear.last <= Len(queue)
    /\ clear.end = 0 \/ clear.last <= clear.end
    /\ clear.end <= Len(queue)
    /\ rcvPc = "move" => clear.pos <= clear.last
    /\ rcvPc = "erase" => clear.pos = clear.last + 1 /\ clear.last <= clear.end

QueuePart == QueueTypes /\ AppOK
AckPart == AckTypes /\ ChecksOK
ReceiverPart == ReceiverTypes /\ ClearOK
BeatPart == hb \in Beats /\ BeatOK

TypeInv ==
  /\ QueuePart
  /\ AppTypes
  /\ AckPart
  /\ ReceiverPart
  /\ BeatPart
  /\ alive \in BOOLEAN

-----------------------------------------------------------------------------
(* As long as the queue has not been cleared, tag n is at position n of it   *)
(* and has the identity n - 1.                                               *)
FreshQueue ==
  /\ ~Clearing
  /\ Len(queue) = IF appPc = "push" THEN sent - 1 ELSE sent
  /\ \A i \in 1 .. Len(queue) : queue[i].n = i
  /\ \A n \in 1 .. sent : id[n] = (n - 1) % AckIds

FreshTimers ==
  \A i \in 1 .. Len(queue) :
    /\ Started(queue[i]) => i < sent \/ appPc \in {"write", "idle"}
    /\ queue[i].timedOut => queue[i].timer = "past"

(* The heartbeat stays inside the queue, and the tag that it found overdue   *)
(* is still the one at its position when it marks it.                        *)
FreshBeat ==
  /\ hb.pc # "sleep" => hb.last <= Len(queue)
  /\ hb.pc \in {"handle", "mark"} => queue[hb.pos].timer = "past"

(* An acknowledgement belongs to a tag that has been started ... *)
FreshAcks ==
  /\ appPc = "write" => Started(queue[sent]) /\ sent \notin unanswered \cup answered
  /\ \A n \in unanswered \cup answered : n \in 1 .. Len(queue) /\ Started(queue[n])
  /\ unanswered \cap answered = {}

(* ... and a single thread looks for it. *)
FreshChecks ==
  /\ \A c \in checks : c.n \in answered
  /\ \A c, d \in checks : c.n = d.n => c = d

Fresh == FreshQueue /\ FreshTimers /\ FreshBeat /\ FreshAcks /\ FreshChecks

FreshInv == ~erased => Fresh

(* With no more tags than identities a walk ends at its own tag, so it has   *)
(* not gone past it.                                                         *)
ExactWalks ==
  \A c \in checks : c.pos > 0 => c.pos <= c.n /\ c.n <= c.last /\ (c.hit => c.pos = c.n)

ExactAcks ==
  \A i \in 1 .. Len(queue) :
    Started(queue[i]) => (queue[i].acked <=> i \in answered /\ \A c \in checks : c.n # i)

ExactInv == ~erased /\ ~torn /\ sent <= AckIds => ExactWalks /\ ExactAcks

-----------------------------------------------------------------------------
(* A tag whose SendTag is under way when a clearing begins, or is pushed    *)
(* during one, is among the overlapped; otherwise it is at the back.        *)
StartInv ==
  appPc = "start" /\ sent \notin overlapped =>
    /\ ~Clearing
    /\ queue # <<>>
    /\ \A i \in DOMAIN queue : queue[i].n = sent => i = Len(queue)

(* What was pushed behind the range of a clearing is overlapped too. *)
BehindInv ==
  Clearing => \A i \in DOMAIN queue : i > clear.last => queue[i].n \in overlapped

(* The flags of a tag tell of a mark that was made since its timer was      *)
(* started, but for the overlapped and the one that is being sent.          *)
Honest(t) ==
  /\ Started(t)
  /\ t.acked => t.n \in marked
  /\ t.timedOut => t.n \in lapsed

FlagInv ==
  \A i \in DOMAIN queue :
    \/ queue[i].n \in overlapped
    \/ queue[i].n = sent /\ appPc = "start" /\ ~Started(queue[i])
    \/ Honest(queue[i])

(* The tags of the queue that a clearing has kept or has still to look at. *)
Spared(i) == Clearing => i <= clear.kept \/ clear.pos <= i

HeldInv ==
  \A n \in 1 .. sent :
    (n = sent => appPc \notin {"push", "start"}) =>
      \/ n \in marked \cup lapsed \cup overlapped
      \/ \E i \in DOMAIN queue : queue[i].n = n /\ Spared(i)

ForgetInv == StartInv /\ BehindInv /\ FlagInv /\ HeldInv

-----------------------------------------------------------------------------
(* AckCount is not inductive: the walks that have still to mark a tag count  *)
(* as well, and the acknowledgement of a tag is read once only, since a tag  *)
(* is written once.                                                          *)
ReadOnce ==
  /\ \A n \in unanswered \cup answered : n <= sent /\ (appPc # "idle" => n < sent)
  /\ unanswered \cap answered = {}

CountInv ==
  /\ ReadOnce
  /\ IsFiniteSet(checks)
  /\ Cardinality(marked) + Cardinality(checks) <= Cardinality(answered)

-----------------------------------------------------------------------------
(* A push_back that moves the vector makes walks stale and does nothing     *)
(* else to them.                                                            *)
SameWalk(c, d) ==
  d \in Checks /\ d.n = c.n /\ d.pos = c.pos /\ d.last = c.last /\ d.hit = c.hit

LEMMA MovedWalks ==
  ASSUME checks \subseteq Checks, NEW yes \in BOOLEAN, Moved(yes)
  PROVE  \E f \in Surjection(checks, checks') : \A c \in checks : SameWalk(c, f[c])
<1> DEFINE g(c) == [c EXCEPT !.stale = @ \/ (yes /\ c.pos > 0)]
<1> DEFINE f == [c \in checks |-> g(c)]
<1>1. checks' = {g(c) : c \in checks}
  BY DEF Moved
<1>2. \A c \in checks : SameWalk(c, g(c))
  BY DEF SameWalk, Checks
<1> HIDE DEF g
<1>3. f \in Surjection(checks, checks')
  BY <1>1 DEF Surjection
<1>4. \A c \in checks : SameWalk(c, f[c])
  BY <1>2
<1> QED
  BY <1>3, <1>4

LEMMA MovedRest ==
  ASSUME hb \in Beats, clear \in Clearings, NEW yes \in BOOLEAN, Moved(yes)
  PROVE  /\ hb' \in Beats /\ hb'.pc = hb.pc /\ hb'.pos = hb.pos /\ hb'.last = hb.last
         /\ clear' \in Clearings /\ clear'.pos = clear.pos /\ clear'.kept = clear.kept
         /\ clear'.last = clear.last /\ clear'.end = clear.end
BY DEF Moved, Beats, Clearings

(* The inductive type invariant holds before the first SendTag. *)
LEMMA InitTypeInv == Init => TypeInv
<1> SUFFICES ASSUME Init
             PROVE  TypeInv
  OBVIOUS
<1> USE SentTagsAssumption DEF Init
<1>1. QueuePart
  BY DEF QueuePart, QueueTypes, AppOK
<1>2. AppTypes
  BY DEF AppTypes
<1>3. AckPart
  BY DEF AckPart, AckTypes, ChecksOK
<1>4. ReceiverPart
  <2>1. NoClearing \in Clearings
    BY DEF NoClearing, Clearings
  <2>2. ~Clearing
    BY DEF Clearing
  <2> QED
    BY <2>1, <2>2 DEF ReceiverPart, ReceiverTypes, ClearOK
<1>5. BeatPart
  BY DEF BeatPart, Beats, BeatOK, Asleep
<1> QED
  BY <1>1, <1>2, <1>3, <1>4, <1>5 DEF TypeInv

(* What no step of an action touches keeps its part of the invariant.       *)
LEMMA PartsKept ==
  /\ QueuePart /\ UNCHANGED <<queueVars, sent, appPc>> => QueuePart'
  /\ AppTypes /\ UNCHANGED appVars => AppTypes'
  /\ AckPart /\ UNCHANGED ackVars => AckPart'
  /\ ReceiverPart /\ UNCHANGED <<rcvVars, queue>> => ReceiverPart'
  /\ BeatPart /\ UNCHANGED hb => BeatPart'
<1>1. QueuePart /\ UNCHANGED <<queueVars, sent, appPc>> => QueuePart'
  BY DEF QueuePart, QueueTypes, AppOK, queueVars
<1>2. AppTypes /\ UNCHANGED appVars => AppTypes'
  BY DEF AppTypes, appVars
<1>3. AckPart /\ UNCHANGED ackVars => AckPart'
  BY DEF AckPart, AckTypes, ChecksOK, ackVars
<1>4. ReceiverPart /\ UNCHANGED <<rcvVars, queue>> => ReceiverPart'
  BY DEF ReceiverPart, ReceiverTypes, ClearOK, Clearing, rcvVars
<1>5. BeatPart /\ UNCHANGED hb => BeatPart'
  BY DEF BeatPart, BeatOK
<1> QED
  BY <1>1, <1>2, <1>3, <1>4, <1>5

(* A change of the flags of objects in their places. *)
LEMMA FlagsChanged ==
  ASSUME TypeInv, queue' \in Seq(Objects), Len(queue') = Len(queue),
         \A i \in 1 .. Len(queue) : queue'[i].n = queue[i].n,
         marked' \cup lapsed' \cup overlapped' \subseteq 1 .. sent,
         UNCHANGED sent, appPc' # "push", appPc' # "idle" => sent > 0
  PROVE  /\ QueuePart'
         /\ UNCHANGED rcvVars => ReceiverPart'
<1>1. \A i \in 1 .. Len(queue) : queue[i].n <= sent
  BY DEF TypeInv, QueuePart, AppOK
<1>2. QueuePart'
  BY <1>1 DEF TypeInv, QueuePart, QueueTypes, AppOK
<1>3. UNCHANGED rcvVars => ReceiverPart'
  BY DEF TypeInv, ReceiverPart, ReceiverTypes, ClearOK, Clearing, rcvVars
<1> QED
  BY <1>2, <1>3

(* What the parts of the invariant say of the objects and of the numbers.   *)
LEMMA QueueFacts ==
  ASSUME TypeInv
  PROVE  /\ queue \in Seq(Objects) /\ Len(queue) \in Nat
         /\ sent \in 0 .. MaxTags /\ Len(queue) <= sent
         /\ \A i \in 1 .. Len(queue) : queue[i] \in Objects /\ queue[i].n \in 1 .. sent
         /\ marked \cup lapsed \cup overlapped \subseteq 1 .. sent
         /\ appPc # "idle" => sent \in 1 .. MaxTags
<1>1. queue \in Seq(Objects) /\ Len(queue) <= sent /\ sent \in 0 .. MaxTags
  BY DEF TypeInv, QueuePart, QueueTypes, AppTypes
<1>2. Len(queue) \in Nat /\ DOMAIN queue = 1 .. Len(queue)
  BY <1>1
<1>3. \A i \in 1 .. Len(queue) : queue[i] \in Objects
  BY <1>1
<1>4. \A i \in 1 .. Len(queue) : queue[i].n \in 1 .. sent
  BY <1>1, <1>2, <1>3, SentTagsAssumption DEF TypeInv, QueuePart, AppOK, Objects, Tags
<1>5. /\ marked \cup lapsed \cup overlapped \subseteq 1 .. sent
      /\ appPc # "idle" => sent > 0
  BY DEF TypeInv, QueuePart, QueueTypes, AppOK
<1> QED
  BY <1>1, <1>2, <1>3, <1>4, <1>5

(* An object put in the place of another. *)
LEMMA ObjectPut ==
  ASSUME queue \in Seq(Objects), NEW p \in 1 .. Len(queue), NEW o \in Objects,
         queue' = [queue EXCEPT ![p] = o]
  PROVE  /\ queue' \in Seq(Objects) /\ Len(queue') = Len(queue)
         /\ \A i \in 1 .. Len(queue) : queue'[i] = IF i = p THEN o ELSE queue[i]
OBVIOUS

(* The three steps that set a flag or a timer change nothing else. *)
LEMMA AckedSet ==
  ASSUME queue \in Seq(Objects), NEW p \in 1 .. Len(queue),
         queue' = [queue EXCEPT ![p].acked = TRUE]
  PROVE  /\ queue' \in Seq(Objects) /\ Len(queue') = Len(queue)
         /\ \A i \in 1 .. Len(queue) :
              /\ queue'[i].n = queue[i].n /\ queue'[i].timer = queue[i].timer
              /\ queue'[i].timedOut = queue[i].timedOut
              /\ queue'[i].acked <=> queue[i].acked \/ i = p
<1> DEFINE o == [queue[p] EXCEPT !.acked = TRUE]
<1>1. queue[p] \in Objects
  OBVIOUS
<1>2. /\ o \in Objects /\ o.n = queue[p].n /\ o.timer = queue[p].timer
      /\ o.timedOut = queue[p].timedOut /\ o.acked = TRUE
  BY <1>1 DEF Objects
<1>3. queue' = [queue EXCEPT ![p] = o]
  OBVIOUS
<1> HIDE DEF o
<1>4. /\ queue' \in Seq(Objects) /\ Len(queue') = Len(queue)
      /\ \A i \in 1 .. Len(queue) : queue'[i] = IF i = p THEN o ELSE queue[i]
  BY <1>2, <1>3, ObjectPut
<1>5. ASSUME NEW i \in 1 .. Len(queue)
      PROVE  /\ queue'[i].n = queue[i].n /\ queue'[i].timer = queue[i].timer
             /\ queue'[i].timedOut = queue[i].timedOut
             /\ queue'[i].acked <=> queue[i].acked \/ i = p
  <2>1. CASE i = p
    <3>1. queue'[i] = o
      BY <1>4, <2>1
    <3> QED
      BY <1>2, <2>1, <3>1
  <2>2. CASE i # p
    <3>1. queue'[i] = queue[i]
      BY <1>4, <2>2
    <3> QED
      BY <2>2, <3>1
  <2> QED
    BY <2>1, <2>2
<1> QED
  BY <1>4, <1>5

LEMMA TimedOutSet ==
  ASSUME queue \in Seq(Objects), NEW p \in 1 .. Len(queue),
         queue' = [queue EXCEPT ![p].timedOut = TRUE]
  PROVE  /\ queue' \in Seq(Objects) /\ Len(queue') = Len(queue)
         /\ \A i \in 1 .. Len(queue) :
              /\ queue'[i].n = queue[i].n /\ queue'[i].timer = queue[i].timer
              /\ queue'[i].acked = queue[i].acked
              /\ queue'[i].timedOut <=> queue[i].timedOut \/ i = p
<1> DEFINE o == [queue[p] EXCEPT !.timedOut = TRUE]
<1>1. queue[p] \in Objects
  OBVIOUS
<1>2. /\ o \in Objects /\ o.n = queue[p].n /\ o.timer = queue[p].timer
      /\ o.acked = queue[p].acked /\ o.timedOut = TRUE
  BY <1>1 DEF Objects
<1>3. queue' = [queue EXCEPT ![p] = o]
  OBVIOUS
<1> HIDE DEF o
<1>4. /\ queue' \in Seq(Objects) /\ Len(queue') = Len(queue)
      /\ \A i \in 1 .. Len(queue) : queue'[i] = IF i = p THEN o ELSE queue[i]
  BY <1>2, <1>3, ObjectPut
<1>5. ASSUME NEW i \in 1 .. Len(queue)
      PROVE  /\ queue'[i].n = queue[i].n /\ queue'[i].timer = queue[i].timer
             /\ queue'[i].acked = queue[i].acked
             /\ queue'[i].timedOut <=> queue[i].timedOut \/ i = p
  <2>1. CASE i = p
    <3>1. queue'[i] = o
      BY <1>4, <2>1
    <3> QED
      BY <1>2, <2>1, <3>1
  <2>2. CASE i # p
    <3>1. queue'[i] = queue[i]
      BY <1>4, <2>2
    <3> QED
      BY <2>2, <3>1
  <2> QED
    BY <2>1, <2>2
<1> QED
  BY <1>4, <1>5

LEMMA TimerPassed ==
  ASSUME queue \in Seq(Objects), NEW n, Expire(n)
  PROVE  /\ queue' \in Seq(Objects) /\ Len(queue') = Len(queue)
         /\ \A i \in 1 .. Len(queue) :
              /\ queue'[i].n = queue[i].n
              /\ queue'[i].acked = queue[i].acked /\ queue'[i].timedOut = queue[i].timedOut
              /\ Started(queue'[i]) <=> Started(queue[i])
              /\ queue[i].timer = "past" => queue'[i].timer = "past"
<1> DEFINE past(t) == [t EXCEPT !.timer = "past"]
           new(t) == IF t.n = n /\ t.timer = "running" THEN past(t) ELSE t
<1>1. queue' = [i \in DOMAIN queue |-> new(queue[i])]
  BY DEF Expire
<1>2. \A t \in Objects : /\ past(t) \in Objects /\ past(t).n = t.n
                         /\ past(t).acked = t.acked /\ past(t).timedOut = t.timedOut
                         /\ past(t).timer = "past"
  BY DEF Objects
<1> HIDE DEF past
<1>3. \A t \in Objects : /\ new(t) \in Objects /\ new(t).n = t.n
                         /\ new(t).acked = t.acked /\ new(t).timedOut = t.timedOut
                         /\ Started(new(t)) <=> Started(t)
                         /\ t.timer = "past" => new(t).timer = "past"
  BY <1>2 DEF Started
<1> HIDE DEF new
<1>4. \A i \in 1 .. Len(queue) : queue[i] \in Objects
  OBVIOUS
<1>5. Len(queue') = Len(queue) /\ \A i \in 1 .. Len(queue) : queue'[i] = new(queue[i])
  BY <1>1
<1>6. queue' \in Seq(Objects)
  BY <1>1, <1>3, <1>4
<1> QED
  BY <1>3, <1>4, <1>5, <1>6

(* A walk that takes a step is over, or the same one at another place.      *)
LEMMA CheckGoesOn ==
  ASSUME TypeInv, NEW c \in checks, CheckAcknowledgement(c)
  PROVE  \E d \in Checks :
           /\ d.n = c.n /\ d.pos <= d.last /\ (d.hit => d.pos > 0)
           /\ checks' \subseteq (checks \ {c}) \cup {d}
<1>0. MaxTags \in Nat
  BY SentTagsAssumption
<1>1. c \in Checks /\ c.pos <= c.last /\ (c.hit => c.pos > 0)
  BY DEF TypeInv, AckPart, AckTypes, ChecksOK
<1>2. CASE BeginCheck(c)
  <2> DEFINE d == [c EXCEPT !.pos = 1, !.last = Len(queue)]
  <2>1. queue # <<>> => Len(queue) \in 1 .. MaxTags
    BY <1>0 DEF TypeInv, QueuePart, QueueTypes, AppTypes
  <2>2. queue # <<>> =>
          d \in Checks /\ d.n = c.n /\ d.pos <= d.last /\ (d.hit => d.pos > 0)
    <3>1. queue # <<>> => 1 \in 0 .. MaxTags /\ Len(queue) \in 0 .. MaxTags /\ 1 <= Len(queue)
      BY <1>0, <2>1
    <3>2. c \in Checks => d.n = c.n /\ d.pos = 1 /\ d.last = Len(queue)
      BY DEF Checks
    <3>3. queue # <<>> => d \in Checks
      BY <1>1, <3>1 DEF Checks
    <3> HIDE DEF d
    <3> QED
      BY <1>1, <3>1, <3>2, <3>3
  <2>3. checks' = (checks \ {c}) \cup IF queue = <<>> THEN {} ELSE {d}
    BY <1>2 DEF BeginCheck
  <2> HIDE DEF d
  <2>4. CASE queue = <<>>
    BY <1>1, <2>3, <2>4
  <2>5. CASE queue # <<>>
    BY <2>2, <2>3, <2>5
  <2> QED
    BY <2>4, <2>5
<1>3. CASE CompareTag(c)
  <2> DEFINE d == [c EXCEPT !.hit = TRUE]
             e == [c EXCEPT !.pos = @ + 1, !.hit = FALSE]
  <2>1. d \in Checks /\ d.n = c.n /\ d.pos = c.pos /\ d.last = c.last /\ c.pos > 0
    BY <1>1, <1>3 DEF CompareTag, Checks
  <2>2. c.pos # c.last => e \in Checks /\ e.n = c.n /\ e.pos <= e.last /\ ~e.hit
    <3>1. c.pos # c.last => c.pos + 1 \in 0 .. MaxTags /\ c.pos + 1 <= c.last
      BY <1>0, <1>1 DEF Checks
    <3>2. e.n = c.n /\ e.pos = c.pos + 1 /\ e.last = c.last /\ ~e.hit
      BY <1>1 DEF Checks
    <3>3. c.pos # c.last => e \in Checks
      BY <1>1, <3>1 DEF Checks
    <3> HIDE DEF e
    <3> QED
      BY <3>1, <3>2, <3>3
  <2>3. \/ checks' = (checks \ {c}) \cup {d}
        \/ checks' = (checks \ {c}) \cup IF c.pos = c.last THEN {} ELSE {e}
    BY <1>3 DEF CompareTag, Advance
  <2> HIDE DEF d, e
  <2>4. CASE checks' = (checks \ {c}) \cup {d}
    BY <1>1, <2>1, <2>4
  <2>5. CASE checks' = (checks \ {c}) \cup IF c.pos = c.last THEN {} ELSE {e}
    <3>1. CASE c.pos = c.last
      BY <1>1, <2>5, <3>1
    <3>2. CASE c.pos # c.last
      BY <2>2, <2>5, <3>2
    <3> QED
      BY <3>1, <3>2
  <2> QED
    BY <2>3, <2>4, <2>5
<1>4. CASE MarkAcked(c) \/ CheckDeadMemory(c)
  BY <1>1, <1>4 DEF MarkAcked, CheckDeadMemory, EndWalk
<1> QED
  BY <1>2, <1>3, <1>4 DEF CheckAcknowledgement

(* One step per action, and under it one per part that the action disturbs. *)
LEMMA NextTypeInv == TypeInv /\ [Next]_vars => TypeInv'
<1> SUFFICES ASSUME TypeInv, [Next]_vars
             PROVE  TypeInv'
  OBVIOUS
<1> USE SentTagsAssumption
<1>0. QueuePart /\ AppTypes /\ AckPart /\ ReceiverPart /\ BeatPart /\ alive \in BOOLEAN
  BY DEF TypeInv
<1>q. /\ queue \in Seq(Objects) /\ Len(queue) \in Nat
      /\ sent \in 0 .. MaxTags /\ Len(queue) <= sent
      /\ \A i \in 1 .. Len(queue) : queue[i] \in Objects /\ queue[i].n \in 1 .. sent
      /\ marked \cup lapsed \cup overlapped \subseteq 1 .. sent
      /\ appPc # "idle" => sent \in 1 .. MaxTags
  BY QueueFacts
<1>c. checks \subseteq Checks /\ clear \in Clearings /\ hb \in Beats
  BY DEF TypeInv, AckPart, AckTypes, ReceiverPart, ReceiverTypes, BeatPart
<1>1. CASE CreateTag
  <2>1. QueuePart'
    BY <1>1, <1>q DEF CreateTag, QueuePart, QueueTypes, AppOK, queueVars
  <2>2. AppTypes'
    BY <1>0, <1>1 DEF CreateTag, SetAckID, AppTypes, Tags
  <2> QED
    BY <1>0, <1>1, <2>1, <2>2, PartsKept DEF CreateTag, TypeInv, queueVars
<1>2. CASE PushTag
  <2>1. PICK yes \in BOOLEAN : Moved(yes)
    BY <1>2 DEF PushTag
  <2>2. /\ appPc = "push" /\ appPc' = "start" /\ sent \in 1 .. MaxTags /\ Len(queue) < sent
        /\ UNCHANGED <<id, sent, unanswered, answered, torn, rcvPc, erased, marked, lapsed>>
        /\ overlapped' \subseteq overlapped \cup {sent}
    BY <1>0, <1>2, <1>q DEF PushTag, QueuePart, AppOK
  <2>3. /\ queue' \in Seq(Objects) /\ Len(queue') \in {Len(queue), Len(queue) + 1}
        /\ \A i \in 1 .. Len(queue') : queue'[i].n <= sent
    <3>1. CASE UNCHANGED queue
      BY <3>1, <1>q
    <3>2. ASSUME NEW garbage \in BOOLEAN, queue' = Append(queue, NewObject(sent, garbage))
          PROVE  /\ queue' \in Seq(Objects) /\ Len(queue') = Len(queue) + 1
                 /\ \A i \in 1 .. Len(queue') : queue'[i].n <= sent
      <4>1. NewObject(sent, garbage) \in Objects /\ NewObject(sent, garbage).n = sent
        BY <2>2 DEF NewObject, Objects, Tags
      <4> QED
        BY <1>q, <3>2, <4>1
    <3> QED
      BY <1>2, <3>1, <3>2 DEF PushTag
  <2>4. QueuePart'
    BY <1>q, <2>2, <2>3 DEF QueuePart, QueueTypes, AppOK
  <2>5. AckPart'
    <3>1. PICK f \in Surjection(checks, checks') : \A c \in checks : SameWalk(c, f[c])
      BY <1>c, <2>1, MovedWalks
    <3>2. \A e \in checks' : e \in Checks /\ e.pos <= e.last /\ (e.hit => e.pos > 0)
      <4> SUFFICES ASSUME NEW e \in checks'
                   PROVE  e \in Checks /\ e.pos <= e.last /\ (e.hit => e.pos > 0)
        OBVIOUS
      <4>1. PICK c \in checks : f[c] = e
        BY <3>1 DEF Surjection
      <4> QED
        BY <1>0, <3>1, <4>1 DEF SameWalk, AckPart, ChecksOK
    <3> QED
      BY <1>0, <2>2, <3>2 DEF AckPart, AckTypes, ChecksOK
  <2>6. ReceiverPart' /\ BeatPart'
    BY <1>0, <1>c, <1>q, <2>1, <2>2, <2>3, MovedRest
    DEF ReceiverPart, ReceiverTypes, ClearOK, Clearing, BeatPart, BeatOK, Clearings
  <2>7. AppTypes' /\ alive' \in BOOLEAN
    BY <1>0, <1>2, <2>2 DEF PushTag, AppTypes
  <2> QED
    BY <2>4, <2>5, <2>6, <2>7 DEF TypeInv
<1>3. CASE StartTimer
  <2>1. appPc = "start" /\ appPc' = "write" /\ UNCHANGED <<id, sent, ackVars, rcvVars, hb>>
    BY <1>3 DEF StartTimer
  <2>2. AppTypes' /\ alive' \in BOOLEAN
    BY <1>0, <1>3, <2>1 DEF AppTypes, StartTimer
  <2>3. QueuePart' /\ ReceiverPart'
    <3>1. CASE queue = <<>>
      <4>1. UNCHANGED queueVars
        BY <1>3, <3>1 DEF StartTimer
      <4>2. QueuePart'
        BY <1>0, <1>q, <2>1, <4>1 DEF QueuePart, QueueTypes, AppOK, queueVars
      <4> QED
        BY <1>0, <2>1, <4>1, <4>2, PartsKept DEF queueVars
    <3>2. CASE queue # <<>>
      <4> DEFINE last == Len(queue)
                 back == queue[last].n
                 new == [n |-> back, acked |-> FALSE, timedOut |-> FALSE, timer |-> "running"]
      <4>1. /\ queue' = [queue EXCEPT ![last] = new]
            /\ marked' \subseteq marked /\ lapsed' \subseteq lapsed
            /\ overlapped' \subseteq overlapped \cup {back, sent}
        BY <1>3, <3>2 DEF StartTimer
      <4>2. last \in 1 .. Len(queue) /\ back \in 1 .. sent /\ back \in Tags
        BY <1>q, <3>2 DEF Objects
      <4>3. new \in Objects /\ new.n = back
        BY <4>2 DEF Objects
      <4> HIDE DEF new
      <4>4. /\ queue' \in Seq(Objects) /\ Len(queue') = Len(queue)
            /\ \A i \in 1 .. Len(queue) : queue'[i].n = queue[i].n
        BY <1>q, <4>1, <4>2, <4>3
      <4>5. marked' \cup lapsed' \cup overlapped' \subseteq 1 .. sent
        BY <1>q, <2>1, <4>1, <4>2
      <4> QED
        BY <1>q, <2>1, <4>4, <4>5, FlagsChanged
    <3> QED
      BY <3>1, <3>2
  <2> QED
    BY <1>0, <2>1, <2>2, <2>3, PartsKept DEF TypeInv
<1>4. CASE WriteTag
  <2>1. QueuePart' /\ AppTypes'
    BY <1>0, <1>4 DEF WriteTag, QueuePart, QueueTypes, AppOK, AppTypes, queueVars
  <2>2. AckPart'
    BY <1>0, <1>4, <1>q DEF WriteTag, AckPart, AckTypes, ChecksOK, Tags
  <2>3. ReceiverPart'
    BY <1>0, <1>4, PartsKept DEF WriteTag, queueVars
  <2> QED
    BY <1>0, <1>4, <2>1, <2>2, <2>3, PartsKept DEF WriteTag, TypeInv
<1>5. ASSUME NEW n \in PeerAnswers, ParseAck(n) PROVE TypeInv'
  <2>1. AckPart'
    <3>1. NewCheck(n) \in Checks /\ NewCheck(n).pos = 0 /\ NewCheck(n).last = 0
          /\ ~NewCheck(n).hit
      BY DEF NewCheck, Checks, Tags
    <3> QED
      BY <1>0, <1>5, <3>1 DEF ParseAck, AckPart, AckTypes, ChecksOK, Tags
  <2>2. ReceiverPart'
    BY <1>0, <1>5
    DEF ParseAck, ReceiverPart, ReceiverTypes, ClearOK, Clearing, rcvVars, queueVars
  <2> QED
    BY <1>0, <1>5, <2>1, <2>2, PartsKept DEF ParseAck, TypeInv, appVars
<1>6. CASE ParseOther \/ TestSize
  <2>1. ReceiverPart'
    BY <1>0, <1>6
    DEF ParseOther, TestSize, ReceiverPart, ReceiverTypes, ClearOK, Clearing, queueVars
  <2> QED
    BY <1>0, <1>6, <2>1, PartsKept DEF ParseOther, TestSize, TypeInv, appVars
<1>7. CASE BeginErase
  <2>1. QueuePart'
    BY <1>0, <1>7, <1>q DEF BeginErase, QueuePart, QueueTypes, AppOK, appVars
  <2>2. ReceiverPart'
    <3>1. PICK end \in {0, Len(queue)} :
            clear' = [pos |-> 1, kept |-> 0, last |-> Len(queue), end |-> end, stale |-> FALSE]
      BY <1>7 DEF BeginErase
    <3>2. clear' \in Clearings
      BY <1>q, <3>1 DEF Clearings
    <3>3. UNCHANGED queue /\ rcvPc' = "walk" /\ erased' \in BOOLEAN
      BY <1>7 DEF BeginErase
    <3> QED
      BY <1>q, <3>1, <3>2, <3>3 DEF ReceiverPart, ReceiverTypes, ClearOK, Clearing
  <2> QED
    BY <1>0, <1>7, <2>1, <2>2, PartsKept DEF BeginErase, TypeInv
<1>8. CASE TestTag \/ ReadEnd
  <2>1. ReceiverPart'
    <3>1. UNCHANGED <<queue, erased>> /\ Clearing /\ rcvPc = "walk"
      BY <1>8 DEF TestTag, ReadEnd, Clearing, queueVars
    <3>2. CASE TestTag
      <4>1. clear.pos <= clear.last
        BY <3>2 DEF TestTag
      <4>2. /\ clear' \in Clearings /\ clear'.last = clear.last /\ clear'.end = clear.end
            /\ \/ clear'.pos = clear.pos + 1 /\ clear'.kept = clear.kept /\ rcvPc' = "walk"
               \/ clear'.pos = clear.pos + 1 /\ clear'.kept = clear.kept + 1 /\ rcvPc' = "walk"
               \/ clear' = clear /\ rcvPc' = "move"
        <5>1. clear.pos + 1 \in 0 .. MaxTags + 1 /\ clear.kept + 1 \in 0 .. MaxTags
          BY <1>0, <1>c, <1>q, <3>1, <4>1 DEF ReceiverPart, ClearOK, Clearings
        <5>2. \/ clear' = [clear EXCEPT !.pos = @ + 1] /\ rcvPc' = "walk"
              \/ clear' = [clear EXCEPT !.pos = @ + 1, !.kept = @ + 1] /\ rcvPc' = "walk"
              \/ clear' = clear /\ rcvPc' = "move"
          BY <3>2 DEF TestTag
        <5> QED
          BY <1>c, <5>1, <5>2 DEF Clearings
      <4>3. clear \in Clearings => clear.pos \in Nat /\ clear.kept \in Nat /\ clear.last \in Nat
        BY DEF Clearings
      <4> QED
        BY <1>0, <1>c, <3>1, <4>1, <4>2, <4>3
        DEF ReceiverPart, ReceiverTypes, ClearOK, Clearing
    <3>3. CASE ReadEnd
      <4>1. /\ clear.pos > clear.last /\ rcvPc' = "erase"
            /\ clear' = [clear EXCEPT !.end = IF @ = 0 THEN Len(queue) ELSE @]
        BY <3>3 DEF ReadEnd
      <4> QED
        BY <1>0, <1>c, <1>q, <3>1, <4>1
        DEF ReceiverPart, ReceiverTypes, ClearOK, Clearing, Clearings
    <3> QED
      BY <1>8, <3>2, <3>3
  <2> QED
    BY <1>0, <1>8, <2>1, PartsKept DEF TestTag, ReadEnd, TypeInv, appVars
<1>9. CASE MoveTag
  <2>1. /\ rcvPc = "move" /\ rcvPc' = "walk" /\ Clearing
        /\ queue' = [queue EXCEPT ![clear.kept + 1] = queue[clear.pos]]
        /\ clear' = [clear EXCEPT !.pos = @ + 1, !.kept = @ + 1]
        /\ UNCHANGED <<marked, lapsed, overlapped, appVars, erased>>
    BY <1>9 DEF MoveTag, Clearing
  <2>2. /\ clear.pos \in 1 .. Len(queue) /\ clear.kept + 1 \in 1 .. Len(queue)
        /\ clear.pos <= clear.last /\ clear.kept < clear.pos
    BY <1>0, <1>c, <1>q, <2>1 DEF ReceiverPart, ClearOK, Clearings
  <2>3. /\ queue' \in Seq(Objects) /\ Len(queue') = Len(queue)
        /\ \A i \in 1 .. Len(queue') : queue'[i] = queue[i] \/ queue'[i] = queue[clear.pos]
    BY <1>q, <2>1, <2>2
  <2>4. QueuePart'
    BY <1>0, <1>q, <2>1, <2>2, <2>3 DEF QueuePart, QueueTypes, AppOK, appVars
  <2>5. ReceiverPart'
    <3>1. /\ clear' \in Clearings /\ clear'.last = clear.last /\ clear'.end = clear.end
          /\ clear'.pos = clear.pos + 1 /\ clear'.kept = clear.kept + 1
      <4>1. clear.pos + 1 \in 0 .. MaxTags + 1 /\ clear.kept + 1 \in 0 .. MaxTags
        BY <1>c, <1>q, <2>2 DEF Clearings
      <4> QED
        BY <1>c, <2>1, <4>1 DEF Clearings
    <3>2. clear.pos \in Nat /\ clear.kept \in Nat /\ clear.last \in Nat
      BY <1>c DEF Clearings
    <3> QED
      BY <1>0, <2>1, <2>2, <2>3, <3>1, <3>2
      DEF ReceiverPart, ReceiverTypes, ClearOK, Clearing
  <2> QED
    BY <1>0, <1>9, <2>4, <2>5, PartsKept DEF MoveTag, TypeInv
<1>10. CASE EraseTail
  <2>1. /\ rcvPc = "erase" /\ rcvPc' = "parse" /\ Clearing
        /\ queue' = SubSeq(queue, 1, clear.kept) \o SubSeq(queue, clear.end + 1, Len(queue))
        /\ clear' = NoClearing
        /\ UNCHANGED <<marked, lapsed, overlapped, appVars, erased>>
    BY <1>10 DEF EraseTail, Clearing
  <2>2. /\ clear.kept \in 0 .. clear.last /\ clear.last <= clear.end
        /\ clear.end \in 0 .. Len(queue)
    BY <1>0, <1>c, <1>q, <2>1 DEF ReceiverPart, ClearOK, Clearings
  <2>3. /\ queue' \in Seq(Objects) /\ Len(queue') = clear.kept + (Len(queue) - clear.end)
        /\ \A i \in 1 .. Len(queue') : \E j \in 1 .. Len(queue) : queue'[i] = queue[j]
    <3>1. clear.kept \in Nat /\ clear.end \in Nat /\ clear.kept <= clear.end
          /\ clear.end <= Len(queue)
      BY <1>c, <1>q, <2>2 DEF Clearings
    <3>2. queue' = Without(queue, clear.kept, clear.end)
      BY <2>1 DEF Without
    <3>3. queue' \in Seq(Objects) /\ IsWithout(queue', queue, clear.kept, clear.end)
      BY <1>q, <3>1, <3>2, ClosedUp
    <3> QED
      BY <3>3 DEF IsWithout
  <2>4. QueuePart'
    <3>1. \A i \in 1 .. Len(queue') :
            queue'[i].n <= sent /\ (appPc = "push" => queue'[i].n < sent)
      BY <1>0, <2>3 DEF QueuePart, AppOK
    <3>2. Len(queue') \in Nat /\ Len(queue') <= Len(queue)
      <4>1. \A a, b, c, d \in Nat : b <= a /\ c <= d /\ d <= a => c + (a - d) <= a
        OBVIOUS
      <4>2. clear.kept \in Nat /\ clear.end \in Nat /\ clear.kept <= clear.end
            /\ clear.end <= Len(queue) /\ Len(queue') \in Nat
        BY <1>c, <1>q, <2>2, <2>3 DEF Clearings
      <4> QED
        BY <1>q, <2>3, <4>2
    <3>3. appPc = "push" => Len(queue) < sent
      BY <1>0 DEF QueuePart, AppOK
    <3> HIDE <2>1
    <3>4. UNCHANGED <<marked, lapsed, overlapped, sent, appPc>>
      BY <2>1 DEF appVars
    <3> QED
      BY <1>q, <2>3, <3>1, <3>2, <3>3, <3>4 DEF QueuePart, QueueTypes, AppOK
  <2>5. ReceiverPart'
    BY <1>0, <2>1 DEF ReceiverPart, ReceiverTypes, ClearOK, Clearing, Clearings, NoClearing
  <2> QED
    BY <1>0, <1>10, <2>4, <2>5, PartsKept DEF EraseTail, TypeInv
<1>11. CASE ClearDeadMemory
  <2>1. ReceiverPart'
    BY <1>0, <1>11
    DEF ClearDeadMemory, ReceiverPart, ReceiverTypes, ClearOK, Clearing, Clearings, NoClearing,
        queueVars
  <2> QED
    BY <1>0, <1>11, <2>1, PartsKept DEF ClearDeadMemory, TypeInv, appVars
<1>12. ASSUME NEW c \in checks, CheckAcknowledgement(c) PROVE TypeInv'
  <2>1. c \in Checks /\ c.pos <= c.last
    BY <1>0, <1>c DEF AckPart, ChecksOK
  <2>2. AckPart'
    <3>1. UNCHANGED <<unanswered, answered>> /\ torn' \in BOOLEAN
      BY <1>0, <1>12
      DEF CheckAcknowledgement, BeginCheck, CompareTag, MarkAcked, CheckDeadMemory, AckPart,
          AckTypes
    <3>2. \E d \in Checks : /\ d.pos <= d.last /\ (d.hit => d.pos > 0)
                            /\ checks' \subseteq checks \cup {d}
      BY <1>12, CheckGoesOn
    <3> QED
      BY <1>0, <3>1, <3>2 DEF AckPart, AckTypes, ChecksOK
  <2>3. QueuePart' /\ ReceiverPart'
    <3>1. CASE UNCHANGED queueVars
      BY <1>0, <1>12, <3>1, PartsKept
      DEF CheckAcknowledgement, BeginCheck, CompareTag, MarkAcked, CheckDeadMemory, appVars,
          queueVars
    <3>2. CASE MarkAcked(c)
      <4>1. /\ queue' = [queue EXCEPT ![c.pos].acked = TRUE]
            /\ marked' = marked \cup {queue[c.pos].n}
            /\ UNCHANGED <<lapsed, overlapped, appVars, rcvVars>>
            /\ c.pos \in 1 .. Len(queue)
        BY <1>0, <1>q, <2>1, <3>2 DEF MarkAcked, Live, Checks, AckPart, ChecksOK
      <4>2. /\ queue' \in Seq(Objects) /\ Len(queue') = Len(queue)
            /\ \A i \in 1 .. Len(queue) : queue'[i].n = queue[i].n
        BY <1>q, <4>1, AckedSet
      <4>3. QueuePart'
        BY <1>0, <1>q, <4>1, <4>2 DEF QueuePart, QueueTypes, AppOK, appVars
      <4> QED
        BY <1>0, <4>1, <4>2, <4>3
        DEF ReceiverPart, ReceiverTypes, ClearOK, Clearing, rcvVars
    <3> QED
      BY <1>12, <3>1, <3>2
      DEF CheckAcknowledgement, BeginCheck, CompareTag, CheckDeadMemory
  <2>4. UNCHANGED <<appVars, hb>> /\ alive' \in BOOLEAN
    BY <1>0, <1>12
    DEF CheckAcknowledgement, BeginCheck, CompareTag, MarkAcked, CheckDeadMemory
  <2> QED
    BY <1>0, <2>2, <2>3, <2>4, PartsKept DEF TypeInv
<1>13. CASE CheckTagList
  <2>1. UNCHANGED <<appVars, ackVars, rcvVars>> /\ alive' \in BOOLEAN
    BY <1>0, <1>13
    DEF CheckTagList, Beat, VisitTag, HandleTimeOut, MarkTimedOut, BeatDeadMemory
  <2>2. BeatPart'
    <3>1. Asleep \in Beats /\ Asleep.pos <= Asleep.last /\ Asleep.pc = "sleep"
      BY DEF Asleep, Beats
    <3>2. CASE Beat
      <4>1. hb' = [pc |-> "scan", pos |-> 1, last |-> Len(queue), stale |-> FALSE]
            /\ Len(queue) \in 1 .. MaxTags
        BY <1>q, <3>2 DEF Beat
      <4> QED
        BY <4>1 DEF BeatPart, Beats, BeatOK
    <3>3. CASE VisitTag
      <4>1. \/ hb' = [hb EXCEPT !.pc = "handle"]
            \/ hb' = Asleep
            \/ hb' = [hb EXCEPT !.pos = @ + 1] /\ hb.pos # hb.last
        BY <3>3 DEF VisitTag, AfterTag
      <4> QED
        BY <1>0, <3>1, <3>3, <4>1 DEF VisitTag, BeatPart, Beats, BeatOK
    <3>4. CASE HandleTimeOut
      <4>1. \/ hb' = hb
            \/ hb' = [hb EXCEPT !.pc = "mark"] /\ hb.pc = "handle"
            \/ hb' = Asleep
        BY <3>4 DEF HandleTimeOut
      <4> QED
        BY <1>0, <3>1, <4>1 DEF BeatPart, Beats, BeatOK
    <3>5. CASE MarkTimedOut \/ BeatDeadMemory
      BY <3>1, <3>5 DEF MarkTimedOut, BeatDeadMemory, BeatPart, BeatOK
    <3> QED
      BY <1>13, <3>2, <3>3, <3>4, <3>5 DEF CheckTagList
  <2>3. QueuePart' /\ ReceiverPart'
    <3>1. CASE UNCHANGED queueVars
      BY <1>0, <2>1, <3>1, PartsKept DEF appVars, queueVars
    <3>2. CASE MarkTimedOut
      <4>1. /\ queue' = [queue EXCEPT ![hb.pos].timedOut = TRUE]
            /\ lapsed' = lapsed \cup {queue[hb.pos].n}
            /\ UNCHANGED <<marked, overlapped>>
            /\ hb.pos \in 1 .. Len(queue)
        BY <1>0, <1>q, <3>2 DEF MarkTimedOut, Live, BeatPart, BeatOK, Beats
      <4>2. /\ queue' \in Seq(Objects) /\ Len(queue') = Len(queue)
            /\ \A i \in 1 .. Len(queue) : queue'[i].n = queue[i].n
        BY <1>q, <4>1, TimedOutSet
      <4>3. QueuePart'
        BY <1>0, <1>q, <2>1, <4>1, <4>2 DEF QueuePart, QueueTypes, AppOK, appVars
      <4> QED
        BY <1>0, <2>1, <4>1, <4>2, <4>3
        DEF ReceiverPart, ReceiverTypes, ClearOK, Clearing, rcvVars
    <3> QED
      BY <1>13, <3>1, <3>2 DEF CheckTagList, Beat, VisitTag, HandleTimeOut, BeatDeadMemory
  <2> QED
    BY <1>0, <2>1, <2>2, <2>3, PartsKept DEF TypeInv
<1>14. ASSUME NEW n \in Expiring, Expire(n) PROVE TypeInv'
  <2>1. UNCHANGED <<marked, lapsed, overlapped, appVars, ackVars, rcvVars, hb, alive>>
    BY <1>14 DEF Expire
  <2>2. /\ queue' \in Seq(Objects) /\ Len(queue') = Len(queue)
        /\ \A i \in 1 .. Len(queue) : queue'[i].n = queue[i].n
    BY <1>q, <1>14, TimerPassed
  <2>3. QueuePart'
    BY <1>0, <1>q, <2>1, <2>2 DEF QueuePart, QueueTypes, AppOK, appVars
  <2>4. ReceiverPart'
    BY <1>0, <2>1, <2>2 DEF ReceiverPart, ReceiverTypes, ClearOK, Clearing, rcvVars
  <2> QED
    BY <1>0, <2>1, <2>3, <2>4, PartsKept DEF TypeInv
<1>15. CASE Quit \/ UNCHANGED vars
  BY <1>0, <1>15, PartsKept DEF Quit, vars, TypeInv, queueVars, appVars
<1> QED
  BY <1>1, <1>2, <1>3, <1>4, <1>5, <1>6, <1>7, <1>8, <1>9, <1>10, <1>11, <1>12, <1>13,
    <1>14, <1>15
  DEF Next, SendTag, ParseItem, TRY_Clear_SentTags_Queue

(* The type invariant of the sending half of the TagSystem. *)
THEOREM TypeCorrect == Spec => []TypeOK
<1>1. TypeInv => TypeOK
  BY DEF TypeInv, QueuePart, AckPart, ReceiverPart, BeatPart, TypeOK
<1> QED
  BY <1>1, InitTypeInv, NextTypeInv, PTL DEF Spec

-----------------------------------------------------------------------------
(* What sets flags and lets time pass, in the places of the queue, changes  *)
(* nothing of what is said of a queue that was never cleared.               *)
LEMMA FreshFlags ==
  ASSUME TypeInv, Fresh, Len(queue') = Len(queue),
         \A i \in 1 .. Len(queue) :
           /\ queue'[i].n = queue[i].n
           /\ Started(queue'[i]) <=> Started(queue[i])
           /\ queue[i].timer = "past" => queue'[i].timer = "past"
           /\ queue'[i].timedOut => queue'[i].timer = "past",
         UNCHANGED <<id, sent, appPc, unanswered, answered>>, ~Clearing'
  PROVE  /\ FreshQueue' /\ FreshTimers' /\ FreshAcks'
         /\ UNCHANGED hb => FreshBeat'
<1>q. Len(queue) \in Nat /\ sent \in Nat /\ (appPc # "idle" => sent > 0)
  BY QueueFacts, SentTagsAssumption
<1>1. FreshQueue'
  BY DEF Fresh, FreshQueue
<1>2. FreshTimers'
  BY DEF Fresh, FreshTimers
<1>3. FreshAcks'
  <2>1. appPc = "write" => sent \in 1 .. Len(queue)
    BY <1>q DEF Fresh, FreshQueue
  <2> QED
    BY <2>1 DEF Fresh, FreshAcks
<1>4. UNCHANGED hb => FreshBeat'
  <2>1. hb.pc # "sleep" => hb.pos \in 1 .. Len(queue)
    BY <1>q DEF Fresh, FreshBeat, TypeInv, BeatPart, BeatOK, Beats
  <2> QED
    BY <2>1 DEF Fresh, FreshBeat
<1> QED
  BY <1>1, <1>2, <1>3, <1>4

(* A walk that ends or goes on is still the only one for its tag. *)
LEMMA ChecksStayFresh ==
  ASSUME FreshChecks, NEW c \in checks, NEW d, d.n = c.n,
         checks' \subseteq (checks \ {c}) \cup {d}, answered' = answered
  PROVE  FreshChecks'
BY DEF FreshChecks

(* Only a clearing changes erased, and before it there are no other steps   *)
(* of a clearing than its first one.                                        *)
LEMMA NotErased ==
  ASSUME TypeInv, FreshInv, [Next]_vars, ~erased'
  PROVE  ~erased /\ Fresh /\ ~Clearing /\ ~Clearing'
         /\ ~(BeginErase \/ TestTag \/ MoveTag \/ ReadEnd \/ EraseTail \/ ClearDeadMemory)
<1>1. ~BeginErase
  BY DEF BeginErase
<1>2. ~erased
  BY <1>1
  DEF Next, SendTag, CreateTag, PushTag, StartTimer, WriteTag, ParseItem, ParseAck,
      ParseOther, TRY_Clear_SentTags_Queue, TestSize, TestTag, MoveTag, ReadEnd, EraseTail,
      ClearDeadMemory, CheckAcknowledgement, BeginCheck, CompareTag, MarkAcked,
      CheckDeadMemory, CheckTagList, Beat, VisitTag, HandleTimeOut, MarkTimedOut,
      BeatDeadMemory, Expire, Quit, vars, rcvVars
<1>3. Fresh /\ ~Clearing
  BY <1>2 DEF FreshInv, Fresh, FreshQueue
<1>4. ~(TestTag \/ MoveTag \/ ReadEnd \/ EraseTail \/ ClearDeadMemory)
  BY <1>3 DEF Clearing, TestTag, MoveTag, ReadEnd, EraseTail, ClearDeadMemory
<1>5. ~Clearing'
  BY <1>1, <1>3, <1>4
  DEF Clearing, Next, SendTag, CreateTag, PushTag, StartTimer, WriteTag, ParseItem, ParseAck,
      ParseOther, TRY_Clear_SentTags_Queue, TestSize, CheckAcknowledgement, BeginCheck,
      CompareTag, MarkAcked, CheckDeadMemory, CheckTagList, Beat, VisitTag, HandleTimeOut,
      MarkTimedOut, BeatDeadMemory, Expire, Quit, vars, rcvVars
<1> QED
  BY <1>1, <1>2, <1>3, <1>4, <1>5

(* One step keeps it, and no step but BeginErase ends its range. *)
LEMMA FreshStep ==
  ASSUME TypeInv, FreshInv, [Next]_vars
  PROVE  FreshInv'
<1> SUFFICES ASSUME ~erased'
             PROVE  Fresh'
  BY DEF FreshInv
<1>a. /\ Fresh /\ ~erased /\ ~Clearing /\ ~Clearing'
      /\ ~(BeginErase \/ TestTag \/ MoveTag \/ ReadEnd \/ EraseTail \/ ClearDeadMemory)
  BY NotErased
<1>0. FreshQueue /\ FreshTimers /\ FreshBeat /\ FreshAcks /\ FreshChecks
  BY <1>a DEF Fresh
<1>q. /\ queue \in Seq(Objects) /\ Len(queue) \in Nat
      /\ sent \in Nat /\ sent <= MaxTags /\ MaxTags \in Nat
      /\ appPc # "idle" => sent > 0
      /\ \A i \in 1 .. Len(queue) : queue[i] \in Objects
  BY QueueFacts, SentTagsAssumption
<1>b. /\ hb \in Beats /\ hb.pos \in Nat /\ hb.last \in Nat
      /\ hb.pos <= hb.last /\ (hb.pc # "sleep" => hb.pos > 0)
  BY DEF TypeInv, BeatPart, BeatOK, Beats
<1>h. hb.pc # "sleep" => hb.pos \in 1 .. Len(queue)
  BY <1>0, <1>q, <1>b DEF FreshBeat
<1>s. checks \subseteq Checks /\ id \in [Tags -> 0 .. AckIds - 1]
  BY DEF TypeInv, AckPart, AckTypes, AppTypes
<1>f. \A i \in 1 .. Len(queue) : queue[i].timedOut => queue[i].timer = "past"
  BY <1>0 DEF FreshTimers
<1>1. CASE CreateTag
  <2>1. /\ id' = [id EXCEPT ![sent + 1] = Len(queue) % AckIds]
        /\ appPc = "idle" /\ appPc' = "push" /\ sent' = sent + 1 /\ sent < MaxTags
        /\ UNCHANGED <<queue, ackVars, hb>>
    BY <1>1 DEF CreateTag, SetAckID, queueVars
  <2>2. Len(queue) = sent /\ sent + 1 \in Tags
    BY <1>0, <1>q, <2>1 DEF FreshQueue, Tags
  <2>3. \A n \in 1 .. sent + 1 : id'[n] = (n - 1) % AckIds
    <3>1. \A n \in 1 .. sent : id'[n] = id[n] /\ id[n] = (n - 1) % AckIds
      BY <1>0, <1>q, <1>s, <2>1 DEF FreshQueue, Tags
    <3>2. id'[sent + 1] = sent % AckIds /\ (sent + 1) - 1 = sent
      BY <1>q, <1>s, <2>1, <2>2
    <3> QED
      BY <1>q, <3>1, <3>2
  <2>4. FreshQueue'
    BY <1>0, <1>a, <1>q, <2>1, <2>2, <2>3 DEF FreshQueue
  <2>5. FreshTimers'
    BY <1>0, <1>q, <2>1, <2>2 DEF FreshTimers
  <2> QED
    BY <1>0, <2>1, <2>4, <2>5 DEF Fresh, FreshBeat, FreshAcks, FreshChecks, ackVars
<1>2. CASE PushTag
  <2>1. PICK yes \in BOOLEAN : Moved(yes)
    BY <1>2 DEF PushTag
  <2>2. PICK o : /\ queue' = Append(queue, o) /\ o.n = sent /\ ~Started(o) /\ ~o.timedOut
    <3>1. PICK garbage \in BOOLEAN : queue' = Append(queue, NewObject(sent, garbage))
      BY <1>2, <1>a DEF PushTag, Clearing
    <3>2. /\ NewObject(sent, garbage).n = sent /\ ~NewObject(sent, garbage).timedOut
          /\ ~Started(NewObject(sent, garbage))
      BY DEF NewObject, Started
    <3> QED
      BY <3>1, <3>2
  <2>3. /\ appPc = "push" /\ appPc' = "start"
        /\ UNCHANGED <<id, sent, unanswered, answered>>
    BY <1>2 DEF PushTag
  <2>4. /\ Len(queue) = sent - 1 /\ Len(queue') = sent
        /\ \A i \in 1 .. Len(queue) : queue'[i] = queue[i]
        /\ queue'[sent] = o
    BY <1>0, <1>q, <2>2, <2>3 DEF FreshQueue
  <2>5. FreshQueue'
    BY <1>0, <1>a, <1>q, <2>2, <2>3, <2>4 DEF FreshQueue
  <2>6. FreshTimers'
    BY <1>0, <1>q, <2>2, <2>3, <2>4 DEF FreshTimers
  <2>7. FreshBeat'
    <3>1. hb'.pc = hb.pc /\ hb'.pos = hb.pos /\ hb'.last = hb.last
      BY <1>b, <2>1, MovedRest DEF TypeInv, ReceiverPart, ReceiverTypes
    <3> QED
      BY <1>0, <1>h, <1>q, <1>b, <2>4, <3>1 DEF FreshBeat
  <2>8. FreshAcks'
    BY <1>0, <1>q, <2>3, <2>4 DEF FreshAcks
  <2>9. FreshChecks'
    <3>1. PICK f \in Surjection(checks, checks') : \A c \in checks : SameWalk(c, f[c])
      BY <1>s, <2>1, MovedWalks
    <3>2. \A e \in checks' : \E c \in checks : e = f[c] /\ e.n = c.n
      BY <3>1 DEF Surjection, SameWalk
    <3> QED
      BY <1>0, <2>3, <3>2 DEF FreshChecks
  <2> QED
    BY <2>5, <2>6, <2>7, <2>8, <2>9 DEF Fresh
<1>3. CASE StartTimer
  <2>1. Len(queue) = sent /\ sent \in 1 .. Len(queue) /\ queue[sent].n = sent
    BY <1>0, <1>3, <1>q DEF StartTimer, FreshQueue
  <2> DEFINE o == [n |-> sent, acked |-> FALSE, timedOut |-> FALSE, timer |-> "running"]
  <2>2. /\ queue' = [queue EXCEPT ![sent] = o]
        /\ appPc = "start" /\ appPc' = "write"
        /\ UNCHANGED <<sent, id, hb, unanswered, answered, checks>>
    <3>1. queue # <<>>
      BY <2>1
    <3> QED
      BY <1>3, <2>1, <3>1 DEF StartTimer, ackVars
  <2>3. ~Started(queue[sent])
    BY <1>0, <2>1, <2>2, <1>q DEF FreshTimers
  <2>4. o.n = sent /\ Started(o) /\ ~o.timedOut
    BY DEF Started
  <2> HIDE DEF o
  <2>5. /\ Len(queue') = Len(queue) /\ queue'[sent] = o
        /\ \A i \in 1 .. Len(queue) : i # sent => queue'[i] = queue[i]
    BY <1>q, <2>1, <2>2
  <2>6. FreshQueue'
    BY <1>0, <1>a, <1>q, <2>1, <2>2, <2>4, <2>5 DEF FreshQueue
  <2>7. FreshTimers'
    BY <1>0, <1>q, <2>1, <2>2, <2>4, <2>5 DEF FreshTimers
  <2>8. FreshBeat'
    BY <1>0, <1>h, <2>1, <2>2, <2>3, <2>5 DEF FreshBeat, Started
  <2>9. FreshAcks'
    BY <1>0, <2>1, <2>2, <2>3, <2>4, <2>5 DEF FreshAcks
  <2> QED
    BY <1>0, <2>2, <2>6, <2>7, <2>8, <2>9 DEF Fresh, FreshChecks
<1>4. CASE WriteTag
  <2>1. /\ appPc = "write" /\ appPc' = "idle"
        /\ unanswered' = unanswered \cup {sent}
        /\ UNCHANGED <<queue, sent, id, hb, answered, checks>>
    BY <1>4 DEF WriteTag, queueVars
  <2>2. FreshQueue' /\ FreshTimers' /\ sent \in 1 .. Len(queue)
    BY <1>0, <1>a, <1>q, <2>1 DEF FreshQueue, FreshTimers
  <2>3. FreshAcks'
    BY <1>0, <2>1, <2>2 DEF FreshAcks
  <2> QED
    BY <1>0, <2>1, <2>2, <2>3 DEF Fresh, FreshBeat, FreshChecks
<1>5. ASSUME NEW n \in PeerAnswers, ParseAck(n) PROVE Fresh'
  <2>1. /\ n \in unanswered /\ unanswered' = unanswered \ {n}
        /\ answered' = answered \cup {n}
        /\ checks' = checks \cup {NewCheck(n)} /\ NewCheck(n).n = n
        /\ UNCHANGED <<queue, sent, id, appPc, hb>>
    BY <1>5 DEF ParseAck, queueVars, appVars, NewCheck
  <2>2. FreshAcks'
    BY <1>0, <2>1 DEF FreshAcks
  <2>3. \A c \in checks : c.n # n
    BY <1>0, <2>1 DEF FreshAcks, FreshChecks
  <2>4. FreshChecks'
    BY <1>0, <2>1, <2>3 DEF FreshChecks
  <2> QED
    BY <1>0, <1>a, <2>1, <2>2, <2>4 DEF Fresh, FreshQueue, FreshTimers, FreshBeat
<1>6. CASE UNCHANGED <<queue, sent, id, appPc, hb, unanswered, answered, checks>>
  BY <1>0, <1>6, <1>a DEF Fresh, FreshQueue, FreshTimers, FreshBeat, FreshAcks, FreshChecks
<1>7. CASE ParseOther \/ TestSize \/ Quit \/ UNCHANGED vars
  BY <1>6, <1>7 DEF ParseOther, TestSize, Quit, vars, queueVars, appVars, ackVars
<1>8. ASSUME NEW c \in checks, CheckAcknowledgement(c) PROVE Fresh'
  <2>1. UNCHANGED <<sent, id, appPc, hb, answered, unanswered>>
    BY <1>8
    DEF CheckAcknowledgement, BeginCheck, CompareTag, MarkAcked, CheckDeadMemory, appVars
  <2>2. FreshChecks'
    BY <1>0, <1>8, <2>1, CheckGoesOn, ChecksStayFresh
  <2>3. FreshQueue' /\ FreshTimers' /\ FreshAcks' /\ FreshBeat'
    <3>1. CASE UNCHANGED queue
      BY <1>a, <1>f, <2>1, <3>1, FreshFlags
    <3>2. CASE MarkAcked(c)
      <4>1. c.pos \in 1 .. Len(queue) /\ queue' = [queue EXCEPT ![c.pos].acked = TRUE]
        BY <1>q, <1>s, <3>2 DEF MarkAcked, Live, Checks, TypeInv, AckPart, ChecksOK
      <4>2. /\ Len(queue') = Len(queue)
            /\ \A i \in 1 .. Len(queue) :
                 /\ queue'[i].n = queue[i].n /\ queue'[i].timer = queue[i].timer
                 /\ queue'[i].timedOut = queue[i].timedOut
        BY <1>q, <4>1, AckedSet
      <4> QED
        BY <1>a, <1>f, <2>1, <4>2, FreshFlags DEF Started
    <3> QED
      BY <1>8, <3>1, <3>2
      DEF CheckAcknowledgement, BeginCheck, CompareTag, CheckDeadMemory, queueVars
  <2> QED
    BY <2>2, <2>3 DEF Fresh
<1>9. CASE CheckTagList
  <2>1. UNCHANGED <<sent, id, appPc, answered, unanswered, checks>>
    BY <1>9
    DEF CheckTagList, Beat, VisitTag, HandleTimeOut, MarkTimedOut, BeatDeadMemory, appVars,
        ackVars
  <2>2. FreshChecks'
    BY <1>0, <2>1 DEF FreshChecks
  <2>3. FreshQueue' /\ FreshTimers' /\ FreshAcks'
    <3>1. CASE UNCHANGED queue
      BY <1>a, <1>f, <2>1, <3>1, FreshFlags
    <3>2. CASE MarkTimedOut
      <4>1. /\ hb.pos \in 1 .. Len(queue) /\ queue' = [queue EXCEPT ![hb.pos].timedOut = TRUE]
            /\ queue[hb.pos].timer = "past"
        BY <1>0, <1>h, <3>2 DEF MarkTimedOut, FreshBeat
      <4>2. /\ Len(queue') = Len(queue)
            /\ \A i \in 1 .. Len(queue) :
                 /\ queue'[i].n = queue[i].n /\ queue'[i].timer = queue[i].timer
                 /\ queue'[i].timedOut <=> queue[i].timedOut \/ i = hb.pos
        BY <1>q, <4>1, TimedOutSet
      <4> QED
        BY <1>a, <1>f, <2>1, <4>1, <4>2, FreshFlags DEF Started
    <3> QED
      BY <1>9, <3>1, <3>2
      DEF CheckTagList, Beat, VisitTag, HandleTimeOut, BeatDeadMemory, queueVars
  <2>4. FreshBeat'
    <3>0. Asleep.pc = "sleep"
      BY DEF Asleep
    <3>1. CASE Beat
      <4>1. hb'.pc = "scan" /\ hb'.last = Len(queue) /\ UNCHANGED queue
        BY <3>1 DEF Beat, queueVars
      <4> QED
        BY <1>q, <4>1 DEF FreshBeat
    <3>2. CASE VisitTag
      <4>1. \/ Overdue(queue[hb.pos]) /\ hb' = [hb EXCEPT !.pc = "handle"]
            \/ hb' = Asleep
            \/ hb' = [hb EXCEPT !.pos = @ + 1]
        BY <3>2 DEF VisitTag, AfterTag
      <4>2. hb.pc = "scan" /\ UNCHANGED queue
        BY <3>2 DEF VisitTag, queueVars
      <4> HIDE <3>2
      <4>3. CASE Overdue(queue[hb.pos]) /\ hb' = [hb EXCEPT !.pc = "handle"]
        <5>1. hb'.pc = "handle" /\ hb'.pos = hb.pos /\ hb'.last = hb.last
          BY <1>b, <4>3 DEF Beats
        <5> QED
          BY <1>0, <4>2, <4>3, <5>1 DEF FreshBeat, Overdue
      <4>4. CASE hb' = [hb EXCEPT !.pos = @ + 1]
        <5>1. hb'.pc = "scan" /\ hb'.last = hb.last
          BY <1>b, <4>2, <4>4 DEF Beats
        <5> QED
          BY <1>0, <4>2, <5>1 DEF FreshBeat
      <4>5. CASE hb' = Asleep
        BY <3>0, <4>5 DEF FreshBeat
      <4> QED
        BY <4>1, <4>3, <4>4, <4>5
    <3>3. CASE HandleTimeOut
      <4>1. \/ hb' = hb
            \/ hb' = Asleep
            \/ hb' = [hb EXCEPT !.pc = "mark"]
        BY <3>3 DEF HandleTimeOut
      <4>2. hb.pc = "handle" /\ UNCHANGED queue
        BY <3>3 DEF HandleTimeOut, queueVars
      <4> HIDE <3>3
      <4>3. CASE hb' = [hb EXCEPT !.pc = "mark"]
        <5>1. hb'.pc = "mark" /\ hb'.pos = hb.pos /\ hb'.last = hb.last
          BY <1>b, <4>3 DEF Beats
        <5> QED
          BY <1>0, <4>2, <5>1 DEF FreshBeat
      <4>4. CASE hb' = hb
        BY <1>0, <4>2, <4>4 DEF FreshBeat
      <4>5. CASE hb' = Asleep
        BY <3>0, <4>5 DEF FreshBeat
      <4> QED
        BY <4>1, <4>3, <4>4, <4>5
    <3>4. CASE MarkTimedOut \/ BeatDeadMemory
      BY <3>0, <3>4 DEF MarkTimedOut, BeatDeadMemory, FreshBeat
    <3> QED
      BY <1>9, <3>1, <3>2, <3>3, <3>4 DEF CheckTagList
  <2> QED
    BY <2>2, <2>3, <2>4 DEF Fresh
<1>10. ASSUME NEW n \in Expiring, Expire(n) PROVE Fresh'
  <2>1. UNCHANGED <<sent, id, appPc, hb, answered, unanswered, checks>>
    BY <1>10 DEF Expire, appVars, ackVars
  <2>2. /\ Len(queue') = Len(queue)
        /\ \A i \in 1 .. Len(queue) :
             /\ queue'[i].n = queue[i].n
             /\ queue'[i].timedOut = queue[i].timedOut
             /\ Started(queue'[i]) <=> Started(queue[i])
             /\ queue[i].timer = "past" => queue'[i].timer = "past"
    BY <1>q, <1>10, TimerPassed
  <2>3. FreshQueue' /\ FreshTimers' /\ FreshAcks' /\ FreshBeat'
    BY <1>a, <1>f, <2>1, <2>2, FreshFlags
  <2>4. FreshChecks'
    BY <1>0, <2>1 DEF FreshChecks
  <2> QED
    BY <2>3, <2>4 DEF Fresh
<1> QED
  BY <1>a, <1>1, <1>2, <1>3, <1>4, <1>5, <1>7, <1>8, <1>9, <1>10
  DEF Next, SendTag, ParseItem, TRY_Clear_SentTags_Queue

(* While there are no more tags than identities, one step keeps the walks   *)
(* and the flags exact.                                                      *)
LEMMA ExactStep ==
  ASSUME TypeInv, FreshInv, ExactInv, [Next]_vars
  PROVE  ExactInv'
<1> SUFFICES ASSUME ~erased', ~torn', sent' <= AckIds
             PROVE  ExactWalks' /\ ExactAcks'
  BY DEF ExactInv
<1>q. /\ queue \in Seq(Objects) /\ Len(queue) \in Nat
      /\ sent \in Nat /\ MaxTags \in Nat /\ AckIds \in Nat
      /\ appPc # "idle" => sent > 0
      /\ checks \subseteq Checks
      /\ answered \subseteq Tags
  BY QueueFacts, SentTagsAssumption DEF TypeInv, AckPart, AckTypes
<1>e. /\ Fresh /\ ~erased /\ ~Clearing /\ ~Clearing'
      /\ ~(BeginErase \/ TestTag \/ MoveTag \/ ReadEnd \/ EraseTail \/ ClearDeadMemory)
  BY NotErased
<1>a. ~torn /\ sent <= AckIds
  <2>1. torn' = torn \/ torn' = TRUE
    BY <1>e
    DEF Next, SendTag, CreateTag, PushTag, StartTimer, WriteTag, ParseItem, ParseAck,
        ParseOther, TRY_Clear_SentTags_Queue, TestSize, CheckAcknowledgement, BeginCheck,
        CompareTag, MarkAcked, CheckDeadMemory, CheckTagList, Beat, VisitTag, HandleTimeOut,
        MarkTimedOut, BeatDeadMemory, Expire, Quit, vars, ackVars
  <2>2. sent' = sent \/ sent' = sent + 1
    BY <1>e
    DEF Next, SendTag, CreateTag, PushTag, StartTimer, WriteTag, ParseItem, ParseAck,
        ParseOther, TRY_Clear_SentTags_Queue, TestSize, CheckAcknowledgement, BeginCheck,
        CompareTag, MarkAcked, CheckDeadMemory, CheckTagList, Beat, VisitTag, HandleTimeOut,
        MarkTimedOut, BeatDeadMemory, Expire, Quit, vars, appVars
  <2>3. sent <= AckIds
    BY <1>q, <2>2
  <2> QED
    BY <2>1, <2>3
<1>0. Fresh /\ ExactWalks /\ ExactAcks
  BY <1>a, <1>e DEF ExactInv
<1>s. \A n \in answered : Started(queue[n]) /\ n \in 1 .. Len(queue) /\ n \in 1 .. sent
  BY <1>0, <1>q DEF Fresh, FreshAcks, FreshQueue
<1>1. CASE UNCHANGED <<queue, answered, checks>>
  BY <1>0, <1>1 DEF ExactWalks, ExactAcks
<1>2. CASE PushTag
  <2>1. PICK yes \in BOOLEAN : Moved(yes)
    BY <1>2 DEF PushTag
  <2>2. PICK garbage \in BOOLEAN : queue' = Append(queue, NewObject(sent, garbage))
    BY <1>2, <1>e DEF PushTag, Clearing
  <2>3. ~Started(NewObject(sent, garbage)) /\ UNCHANGED answered
    BY <1>2 DEF NewObject, Started, PushTag
  <2>4. /\ Len(queue') = Len(queue) + 1 /\ ~Started(queue'[Len(queue) + 1])
        /\ \A i \in 1 .. Len(queue) : queue'[i] = queue[i]
    BY <1>q, <2>2, <2>3
  <2>5. PICK f \in Surjection(checks, checks') : \A c \in checks : SameWalk(c, f[c])
    BY <1>q, <2>1, MovedWalks
  <2>6. \A c \in checks : f[c] \in checks' /\ f[c].n = c.n
    BY <2>5 DEF Surjection, SameWalk
  <2>7. \A e \in checks' : \E c \in checks :
          e.n = c.n /\ e.pos = c.pos /\ e.last = c.last /\ e.hit = c.hit
    BY <2>5 DEF Surjection, SameWalk
  <2> HIDE <1>2
  <2>8. ExactWalks'
    BY <1>0, <2>7 DEF ExactWalks
  <2>9. \A n : (\A c \in checks : c.n # n) <=> (\A c \in checks' : c.n # n)
    BY <2>6, <2>7
  <2>10. ASSUME NEW i \in 1 .. Len(queue'), Started(queue'[i])
         PROVE  queue'[i].acked <=> i \in answered' /\ \A c \in checks' : c.n # i
    <3>1. i \in 1 .. Len(queue)
      BY <1>q, <2>4, <2>10
    <3>2. queue'[i] = queue[i]
      BY <2>4, <3>1
    <3>3. Started(queue[i])
      BY <2>10, <3>2
    <3>4. queue[i].acked <=> i \in answered /\ \A c \in checks : c.n # i
      BY <1>0, <3>1, <3>3 DEF ExactAcks
    <3> QED
      BY <2>3, <2>9, <3>2, <3>4
  <2> QED
    BY <2>8, <2>10 DEF ExactAcks
<1>3. CASE StartTimer
  <2>1. /\ appPc = "start" /\ Len(queue) = sent /\ sent \in 1 .. Len(queue)
        /\ queue[sent].n = sent /\ queue # <<>>
    BY <1>0, <1>3, <1>q DEF StartTimer, Fresh, FreshQueue
  <2> DEFINE o == [n |-> sent, acked |-> FALSE, timedOut |-> FALSE, timer |-> "running"]
  <2>2. queue' = [queue EXCEPT ![sent] = o] /\ UNCHANGED <<answered, checks>>
    BY <1>3, <2>1 DEF StartTimer, ackVars
  <2>3. ~o.acked
    OBVIOUS
  <2> HIDE DEF o
  <2>4. /\ Len(queue') = Len(queue) /\ queue'[sent] = o
        /\ \A i \in 1 .. Len(queue) : i # sent => queue'[i] = queue[i]
    BY <1>q, <2>1, <2>2
  <2>5. ~Started(queue[sent])
    BY <1>0, <1>q, <2>1 DEF Fresh, FreshTimers
  <2>6. sent \notin answered
    BY <1>s, <2>5
  <2> QED
    BY <1>0, <2>2, <2>3, <2>4, <2>6 DEF ExactWalks, ExactAcks
<1>4. ASSUME NEW n \in PeerAnswers, ParseAck(n) PROVE ExactWalks' /\ ExactAcks'
  <2>1. /\ n \in unanswered /\ answered' = answered \cup {n}
        /\ checks' = checks \cup {NewCheck(n)} /\ UNCHANGED queue
    BY <1>4 DEF ParseAck, queueVars
  <2>2. NewCheck(n).n = n /\ NewCheck(n).pos = 0
    BY DEF NewCheck
  <2>3. n \notin answered
    BY <1>0, <2>1 DEF Fresh, FreshAcks
  <2>4. n \in 1 .. Len(queue) => (Started(queue[n]) => ~queue[n].acked)
    BY <1>0, <2>3 DEF ExactAcks
  <2> HIDE <1>4
  <2>5. ExactWalks'
    BY <1>0, <2>1, <2>2 DEF ExactWalks
  <2>6. ExactAcks'
    BY <1>0, <2>1, <2>2, <2>4 DEF ExactAcks
  <2> QED
    BY <2>5, <2>6
<1>5. ASSUME NEW c \in checks, BeginCheck(c) PROVE ExactWalks' /\ ExactAcks'
  <2> DEFINE d == [c EXCEPT !.pos = 1, !.last = Len(queue)]
  <2>1. c \in Checks /\ c.n \in answered
    BY <1>0, <1>q DEF Fresh, FreshChecks
  <2>2. c.n \in 1 .. Len(queue) /\ queue # <<>> /\ ~c.hit
    BY <1>5, <1>q, <1>s, <2>1 DEF BeginCheck, TypeInv, AckPart, ChecksOK
  <2>3. checks' = (checks \ {c}) \cup {d} /\ UNCHANGED <<queue, answered>>
    BY <1>5, <2>2 DEF BeginCheck, queueVars
  <2>4. d.n = c.n /\ d.pos = 1 /\ d.last = Len(queue) /\ d.hit = c.hit
    BY <2>1 DEF Checks
  <2> HIDE DEF d
  <2>5. ExactWalks'
    BY <1>0, <1>q, <2>2, <2>3, <2>4 DEF ExactWalks
  <2>6. ExactAcks'
    BY <1>0, <2>3, <2>4 DEF ExactAcks
  <2> QED
    BY <2>5, <2>6
<1>6. ASSUME NEW c \in checks, CompareTag(c) PROVE ExactWalks' /\ ExactAcks'
  <2>1. c.n \in answered /\ c \in Checks /\ UNCHANGED <<queue, answered>>
    BY <1>0, <1>6, <1>q DEF Fresh, FreshChecks, CompareTag, queueVars
  <2>2. /\ c.pos \in 1 .. Len(queue) /\ queue[c.pos].n = c.pos
        /\ c.pos <= c.n /\ c.n <= c.last /\ c.n \in 1 .. sent
    <3>1. c.pos > 0 /\ c.pos <= Len(queue) /\ c.pos \in Nat
      BY <1>6, <2>1 DEF CompareTag, Live, Checks
    <3>2. c.pos \in 1 .. Len(queue)
      BY <1>q, <3>1
    <3> QED
      BY <1>0, <1>s, <2>1, <3>1, <3>2 DEF ExactWalks, Fresh, FreshQueue
  <2>3. Matches(c) <=> c.pos = c.n
    <3>1. \A i \in 1 .. sent : id[i] = (i - 1) % AckIds
      BY <1>0 DEF Fresh, FreshQueue
    <3>2. \A i \in 1 .. sent : (i - 1) % AckIds = i - 1
      BY <1>a, <1>q
    <3>3. Len(queue) <= sent
      BY QueueFacts
    <3>4. c.pos \in 1 .. sent
      BY <1>q, <2>2, <3>3
    <3>5. id[c.pos] = c.pos - 1 /\ id[c.n] = c.n - 1
      BY <2>2, <3>1, <3>2, <3>4
    <3> QED
      BY <2>2, <3>4, <3>5 DEF Matches
  <2>4. CASE Matches(c)
    <3> DEFINE d == [c EXCEPT !.hit = TRUE]
    <3>1. checks' = (checks \ {c}) \cup {d}
      BY <1>6, <2>4 DEF CompareTag
    <3>2. d.n = c.n /\ d.pos = c.pos /\ d.last = c.last
      BY <2>1 DEF Checks
    <3> HIDE DEF d
    <3>3. ExactWalks'
      BY <1>0, <2>2, <2>3, <2>4, <3>1, <3>2 DEF ExactWalks
    <3>4. ExactAcks'
      BY <1>0, <2>1, <3>1, <3>2 DEF ExactAcks
    <3> QED
      BY <3>3, <3>4
  <2>5. CASE ~Matches(c)
    <3> DEFINE d == [c EXCEPT !.pos = @ + 1, !.hit = FALSE]
    <3>1. c.pos < c.n /\ c.pos # c.last
      BY <2>1, <2>2, <2>3, <2>5 DEF Checks, Tags
    <3>2. checks' = (checks \ {c}) \cup {d}
      BY <1>6, <2>5, <3>1 DEF CompareTag, Advance
    <3>3. d.n = c.n /\ d.pos = c.pos + 1 /\ d.last = c.last /\ ~d.hit
      BY <2>1 DEF Checks
    <3>4. c.pos + 1 <= c.n
      BY <2>1, <3>1 DEF Checks, Tags
    <3> HIDE DEF d
    <3>5. ExactWalks'
      BY <1>0, <2>2, <3>2, <3>3, <3>4 DEF ExactWalks
    <3>6. ExactAcks'
      BY <1>0, <2>1, <3>2, <3>3 DEF ExactAcks
    <3> QED
      BY <3>5, <3>6
  <2> QED
    BY <2>4, <2>5
<1>7. ASSUME NEW c \in checks, MarkAcked(c) PROVE ExactWalks' /\ ExactAcks'
  <2>1. /\ c.hit /\ c.pos > 0 /\ c.pos <= Len(queue) /\ c.pos \in Nat
        /\ checks' = checks \ {c} /\ UNCHANGED answered
        /\ queue' = [queue EXCEPT ![c.pos].acked = TRUE]
    BY <1>7, <1>q DEF MarkAcked, Live, EndWalk, Checks, TypeInv, AckPart, ChecksOK
  <2>2. c.pos = c.n /\ c.n \in answered
    BY <1>0, <2>1 DEF ExactWalks, Fresh, FreshChecks
  <2>3. c.pos \in 1 .. Len(queue)
    BY <1>q, <2>1
  <2>4. /\ Len(queue') = Len(queue)
        /\ \A i \in 1 .. Len(queue) :
              /\ queue'[i].timer = queue[i].timer
              /\ queue'[i].acked <=> queue[i].acked \/ i = c.pos
    BY <1>q, <2>1, <2>3, AckedSet
  <2>5. \A d \in checks : d.n = c.n => d = c
    BY <1>0 DEF Fresh, FreshChecks
  <2> HIDE <1>7
  <2>6. ExactWalks'
    BY <1>0, <2>1 DEF ExactWalks
  <2>7. ExactAcks'
    BY <1>0, <2>1, <2>2, <2>4, <2>5 DEF ExactAcks, Started
  <2> QED
    BY <2>6, <2>7
<1>8. CASE CheckTagList
  <2>1. UNCHANGED <<answered, checks>>
    BY <1>8
    DEF CheckTagList, Beat, VisitTag, HandleTimeOut, MarkTimedOut, BeatDeadMemory, ackVars
  <2>2. CASE MarkTimedOut
    <3>1. hb.pos \in 1 .. Len(queue) /\ queue' = [queue EXCEPT ![hb.pos].timedOut = TRUE]
      BY <1>q, <2>2 DEF MarkTimedOut, Live, TypeInv, BeatPart, BeatOK, Beats
    <3>2. /\ Len(queue') = Len(queue)
          /\ \A i \in 1 .. Len(queue) :
               queue'[i].timer = queue[i].timer /\ queue'[i].acked = queue[i].acked
      BY <1>q, <3>1, TimedOutSet
    <3> QED
      BY <1>0, <2>1, <3>2 DEF ExactWalks, ExactAcks, Started
  <2> QED
    BY <1>1, <1>8, <2>1, <2>2
    DEF CheckTagList, Beat, VisitTag, HandleTimeOut, BeatDeadMemory, queueVars
<1>9. ASSUME NEW n \in Expiring, Expire(n) PROVE ExactWalks' /\ ExactAcks'
  <2>1. UNCHANGED <<answered, checks>>
    BY <1>9 DEF Expire, ackVars
  <2>2. /\ Len(queue') = Len(queue)
        /\ \A i \in 1 .. Len(queue) :
             /\ queue'[i].acked = queue[i].acked
             /\ Started(queue'[i]) <=> Started(queue[i])
    BY <1>q, <1>9, TimerPassed
  <2> QED
    BY <1>0, <2>1, <2>2 DEF ExactWalks, ExactAcks
<1>10. \A c \in checks : ~CheckDeadMemory(c)
  BY DEF CheckDeadMemory
<1>11. CASE CreateTag \/ WriteTag \/ ParseOther \/ TestSize \/ Quit \/ UNCHANGED vars
  BY <1>1, <1>11
  DEF CreateTag, WriteTag, ParseOther, TestSize, Quit, vars, queueVars, ackVars
<1> QED
  BY <1>e, <1>2, <1>3, <1>4, <1>5, <1>6, <1>7, <1>8, <1>9, <1>10, <1>11
  DEF Next, SendTag, ParseItem, TRY_Clear_SentTags_Queue, CheckAcknowledgement

(* Init makes both invariants hold, so they hold for ever.                  *)
LEMMA TypeInvariant == Spec => []TypeInv
BY InitTypeInv, NextTypeInv, PTL DEF Spec

LEMMA FreshInvariant == Spec => []FreshInv
<1>1. Init => FreshInv
  BY DEF Init, FreshInv, Fresh, FreshQueue, FreshTimers, FreshBeat, FreshAcks, FreshChecks,
      Asleep, Clearing
<1>2. TypeInv /\ FreshInv /\ [Next]_vars => FreshInv'
  BY FreshStep
<1> QED
  BY <1>1, <1>2, TypeInvariant, PTL DEF Spec

(* Before the first clearing CheckTagList marks overdue tags only.          *)
THEOREM DueTimeoutsHold == Spec => []DueTimeouts
<1>1. TypeInv /\ FreshInv => DueTimeouts
  BY QueueFacts DEF FreshInv, Fresh, FreshTimers, DueTimeouts
<1> QED
  BY <1>1, TypeInvariant, FreshInvariant, PTL

(* Within one round of identities a started tag is marked exactly when its  *)
(* own acknowledgement has been read and its thread is done.                *)
THEOREM FreshAckExactHolds == Spec => []FreshAckExact
<1>1. Init => ExactInv
  BY DEF Init, ExactInv, ExactWalks, ExactAcks
<1>2. TypeInv /\ FreshInv /\ ExactInv /\ [Next]_vars => ExactInv'
  BY ExactStep
<1>3. TypeInv /\ FreshInv /\ ExactInv => FreshAckExact
  <2> SUFFICES ASSUME TypeInv, FreshInv, ExactInv, ~erased, ~torn, sent <= AckIds
               PROVE  \A i \in DOMAIN queue :
                        LET t == queue[i]
                        IN  Started(t) => (t.acked <=> t.n \in answered
                                                       /\ \A c \in checks : c.n # t.n)
    BY DEF FreshAckExact
  <2>1. DOMAIN queue = 1 .. Len(queue)
    BY QueueFacts
  <2>2. \A i \in 1 .. Len(queue) : queue[i].n = i
    BY DEF FreshInv, Fresh, FreshQueue
  <2> QED
    BY <2>1, <2>2 DEF ExactInv, ExactAcks
<1> QED
  BY <1>1, <1>2, <1>3, TypeInvariant, FreshInvariant, PTL DEF Spec

-----------------------------------------------------------------------------
LEMMA TagSetsFinite ==
  ASSUME NEW S, S \subseteq Tags
  PROVE  /\ IsFiniteSet(S) /\ Cardinality(S) \in Nat
         /\ \A T : T \subseteq S => Cardinality(T) <= Cardinality(S)
<1>1. MaxTags \in Int /\ 1 \in Int
  BY SentTagsAssumption
<1>2. IsFiniteSet(Tags)
  BY <1>1, FS_Interval DEF Tags
<1>3. IsFiniteSet(S)
  BY <1>2, FS_Subset
<1> QED
  BY <1>3, FS_Subset, FS_CardinalityType

(* A walk that takes its next step is still one walk. *)
LEMMA WalkReplaced ==
  ASSUME IsFiniteSet(checks), NEW c \in checks, NEW d,
         checks' \subseteq (checks \ {c}) \cup {d}
  PROVE  IsFiniteSet(checks') /\ Cardinality(checks') <= Cardinality(checks)
<1> DEFINE T == checks \ {c}
<1>1. IsFiniteSet(T) /\ Cardinality(T) = Cardinality(checks) - 1
  BY FS_RemoveElement
<1>2. Cardinality(T) \in Nat /\ Cardinality(checks) \in Nat
  BY <1>1, FS_CardinalityType
<1>3. /\ IsFiniteSet(T \cup {d})
      /\ Cardinality(T \cup {d}) = IF d \in T THEN Cardinality(T) ELSE Cardinality(T) + 1
  BY <1>1, FS_AddElement
<1>4. checks' \in SUBSET (T \cup {d})
  OBVIOUS
<1>5. /\ IsFiniteSet(checks') /\ Cardinality(checks') \in Nat
      /\ Cardinality(checks') <= Cardinality(T \cup {d})
  BY <1>3, <1>4, FS_Subset, FS_CardinalityType
<1> HIDE DEF T
<1> QED
  BY <1>1, <1>2, <1>3, <1>5

(* The steps that neither mark a tag nor read an acknowledgement. *)
LEMMA CountKept ==
  ASSUME TypeInv, CountInv, UNCHANGED answered, marked' \subseteq marked, ReadOnce',
         IsFiniteSet(checks'), Cardinality(checks') <= Cardinality(checks)
  PROVE  CountInv'
<1>1. marked \subseteq Tags /\ answered \subseteq Tags
  BY QueueFacts, SentTagsAssumption DEF TypeInv, AckPart, AckTypes, Tags
<1>2. /\ Cardinality(marked) \in Nat /\ Cardinality(marked') \in Nat
      /\ Cardinality(answered) \in Nat
      /\ Cardinality(marked') <= Cardinality(marked)
  BY <1>1, TagSetsFinite
<1>3. Cardinality(checks) \in Nat /\ Cardinality(checks') \in Nat
  BY FS_CardinalityType DEF CountInv
<1> QED
  BY <1>2, <1>3 DEF CountInv

(* ParseAck adds one read acknowledgement and one walk; MarkAcked takes the  *)
(* walk away and marks one tag at most.                                      *)
LEMMA CountStep ==
  ASSUME TypeInv, CountInv, [Next]_vars
  PROVE  CountInv'
<1>q. /\ queue \in Seq(Objects) /\ Len(queue) \in Nat
      /\ sent \in 0 .. MaxTags /\ MaxTags \in Nat
      /\ \A i \in 1 .. Len(queue) : queue[i].n \in 1 .. sent
      /\ checks \subseteq Checks
      /\ marked \subseteq Tags /\ unanswered \subseteq Tags /\ answered \subseteq Tags
  BY QueueFacts, SentTagsAssumption DEF TypeInv, AckPart, AckTypes, Tags
<1>k. /\ ReadOnce /\ IsFiniteSet(checks)
      /\ Cardinality(marked) + Cardinality(checks) <= Cardinality(answered)
  BY DEF CountInv
<1>n. /\ Cardinality(marked) \in Nat /\ Cardinality(checks) \in Nat
      /\ Cardinality(answered) \in Nat
  BY <1>q, <1>k, TagSetsFinite, FS_CardinalityType
<1>1. CASE CreateTag
  <2>1. /\ appPc = "idle" /\ appPc' = "push" /\ sent' = sent + 1
        /\ UNCHANGED <<marked, unanswered, answered, checks>>
    BY <1>1 DEF CreateTag, queueVars, ackVars
  <2>2. ReadOnce'
    BY <1>q, <1>k, <2>1 DEF ReadOnce, Tags
  <2> QED
    BY <1>k, <1>n, <2>1, <2>2, CountKept
<1>2. CASE PushTag
  <2>1. /\ appPc = "push" /\ appPc' = "start"
        /\ UNCHANGED <<sent, marked, unanswered, answered>>
    BY <1>2 DEF PushTag
  <2>2. ReadOnce'
    BY <1>k, <2>1 DEF ReadOnce
  <2>3. PICK yes \in BOOLEAN : Moved(yes)
    BY <1>2 DEF PushTag
  <2>4. PICK f \in Surjection(checks, checks') : TRUE
    BY <1>q, <2>3, MovedWalks
  <2>5. IsFiniteSet(checks') /\ Cardinality(checks') <= Cardinality(checks)
    BY <1>k, <2>4, FS_Surjection
  <2> QED
    BY <2>1, <2>2, <2>5, CountKept
<1>3. CASE StartTimer
  <2>1. /\ appPc = "start" /\ appPc' = "write" /\ marked' \subseteq marked
        /\ UNCHANGED <<sent, unanswered, answered, checks>>
    BY <1>3 DEF StartTimer, ackVars, queueVars
  <2>2. ReadOnce'
    BY <1>k, <2>1 DEF ReadOnce
  <2> QED
    BY <1>k, <1>n, <2>1, <2>2, CountKept
<1>4. CASE WriteTag
  <2>1. /\ appPc = "write" /\ appPc' = "idle" /\ unanswered' = unanswered \cup {sent}
        /\ UNCHANGED <<sent, marked, answered, checks>>
    BY <1>4 DEF WriteTag, queueVars
  <2>2. sent \notin answered /\ sent \in Nat
    BY <1>q, <1>k, <2>1 DEF ReadOnce
  <2>3. ReadOnce'
    BY <1>k, <2>1, <2>2 DEF ReadOnce
  <2> QED
    BY <1>k, <1>n, <2>1, <2>3, CountKept
<1>5. ASSUME NEW n \in PeerAnswers, ParseAck(n) PROVE CountInv'
  <2>1. /\ n \in unanswered /\ unanswered' = unanswered \ {n}
        /\ answered' = answered \cup {n} /\ checks' = checks \cup {NewCheck(n)}
        /\ UNCHANGED <<sent, appPc, marked>>
    BY <1>5 DEF ParseAck, queueVars, appVars
  <2>2. ReadOnce'
    BY <1>k, <2>1 DEF ReadOnce
  <2>3. n \notin answered
    BY <1>k, <2>1 DEF ReadOnce
  <2>4. Cardinality(answered') = Cardinality(answered) + 1
    BY <1>q, <2>1, <2>3, TagSetsFinite, FS_AddElement
  <2>5. /\ IsFiniteSet(checks') /\ Cardinality(checks') \in Nat
        /\ Cardinality(checks') <= Cardinality(checks) + 1
    <3>1. /\ IsFiniteSet(checks')
          /\ Cardinality(checks') =
               IF NewCheck(n) \in checks THEN Cardinality(checks) ELSE Cardinality(checks) + 1
      BY <1>k, <2>1, FS_AddElement
    <3> QED
      BY <1>n, <3>1
  <2> QED
    BY <1>k, <1>n, <2>1, <2>2, <2>4, <2>5 DEF CountInv
<1>6. ASSUME NEW c \in checks, MarkAcked(c) PROVE CountInv'
  <2>1. /\ c.hit /\ c.pos <= Len(queue)
        /\ marked' = marked \cup {queue[c.pos].n}
        /\ checks' = checks \ {c}
        /\ UNCHANGED <<sent, appPc, unanswered, answered>>
    BY <1>6 DEF MarkAcked, Live, EndWalk, appVars
  <2>2. ReadOnce'
    BY <1>k, <2>1 DEF ReadOnce
  <2>3. c.pos \in 1 .. Len(queue)
    BY <1>q, <2>1 DEF Checks, TypeInv, AckPart, ChecksOK
  <2>4. marked' \subseteq Tags
    <3>1. queue[c.pos].n \in 1 .. sent
      BY <1>q, <2>3
    <3>2. queue[c.pos].n \in Tags
      BY <1>q, <3>1 DEF Tags
    <3> QED
      BY <1>q, <2>1, <3>2
  <2>5. IsFiniteSet(marked)
    BY <1>q, TagSetsFinite
  <2>6. Cardinality(marked') \in Nat /\ Cardinality(marked') <= Cardinality(marked) + 1
    <3>1. Cardinality(marked') \in Nat
      BY <2>4, TagSetsFinite
    <3>2. PICK t : marked' = marked \cup {t}
      BY <2>1
    <3>3. Cardinality(marked') = IF t \in marked THEN Cardinality(marked)
                                 ELSE Cardinality(marked) + 1
      BY <2>5, <3>2, FS_AddElement
    <3> QED
      BY <1>n, <3>1, <3>3
  <2>7. IsFiniteSet(checks') /\ Cardinality(checks') = Cardinality(checks) - 1
    BY <1>k, <2>1, FS_RemoveElement
  <2> QED
    BY <1>k, <1>n, <2>1, <2>2, <2>6, <2>7 DEF CountInv
<1>7. ASSUME NEW c \in checks, BeginCheck(c) \/ CompareTag(c) \/ CheckDeadMemory(c)
      PROVE  CountInv'
  <2>1. UNCHANGED <<sent, appPc, marked, unanswered, answered>>
    BY <1>7 DEF BeginCheck, CompareTag, CheckDeadMemory, queueVars, appVars
  <2>2. ReadOnce'
    BY <1>k, <2>1 DEF ReadOnce
  <2>3. \E d : checks' \subseteq (checks \ {c}) \cup {d}
    <3>1. \E d : BeginCheck(c) => checks' \subseteq (checks \ {c}) \cup {d}
      BY DEF BeginCheck
    <3>2. CASE CompareTag(c)
      <4>1. \/ checks' = (checks \ {c}) \cup {[c EXCEPT !.hit = TRUE]}
            \/ Advance(c)
        BY <3>2 DEF CompareTag
      <4>2. \E d : Advance(c) => checks' \subseteq (checks \ {c}) \cup {d}
        BY DEF Advance
      <4> QED
        BY <4>1, <4>2
    <3> QED
      BY <1>7, <3>1, <3>2 DEF CheckDeadMemory, EndWalk
  <2>4. IsFiniteSet(checks') /\ Cardinality(checks') <= Cardinality(checks)
    BY <1>k, <2>3, WalkReplaced
  <2> QED
    BY <2>1, <2>2, <2>4, CountKept
<1>8. CASE UNCHANGED <<sent, appPc, marked, unanswered, answered, checks>>
  <2>1. ReadOnce'
    BY <1>k, <1>8 DEF ReadOnce
  <2> QED
    BY <1>k, <1>n, <1>8, <2>1, CountKept
<1>9. CASE TRY_Clear_SentTags_Queue \/ CheckTagList \/ ParseOther \/ Quit \/ UNCHANGED vars
  BY <1>8, <1>9
  DEF TRY_Clear_SentTags_Queue, TestSize, BeginErase, TestTag, MoveTag, ReadEnd, EraseTail,
      ClearDeadMemory, CheckTagList, Beat, VisitTag, HandleTimeOut, MarkTimedOut,
      BeatDeadMemory, ParseOther, Quit, vars, queueVars, appVars, ackVars
<1>10. ASSUME NEW n \in Expiring, Expire(n) PROVE CountInv'
  BY <1>8, <1>10 DEF Expire, appVars, ackVars
<1> QED
  BY <1>1, <1>2, <1>3, <1>4, <1>5, <1>6, <1>7, <1>9, <1>10
  DEF Next, SendTag, ParseItem, CheckAcknowledgement

-----------------------------------------------------------------------------
(* What a step that moves no object does to the bookkeeping of clearings.   *)
LEMMA FlagsKeepForget ==
  ASSUME TypeInv, ForgetInv, UNCHANGED <<sent, appPc, rcvVars, overlapped>>,
         queue' \in Seq(Objects), Len(queue') = Len(queue),
         marked \subseteq marked', lapsed \subseteq lapsed',
         \A i \in 1 .. Len(queue) :
           /\ queue'[i].n = queue[i].n
           /\ Started(queue'[i]) <=> Started(queue[i])
           /\ queue'[i].acked => queue[i].acked \/ queue[i].n \in marked'
           /\ queue'[i].timedOut => queue[i].timedOut \/ queue[i].n \in lapsed'
  PROVE  ForgetInv'
<1>q. DOMAIN queue = 1 .. Len(queue) /\ DOMAIN queue' = 1 .. Len(queue) /\ Len(queue) \in Nat
  BY QueueFacts
<1>c. (Clearing' <=> Clearing) /\ UNCHANGED clear
  BY DEF Clearing, rcvVars
<1>1. StartInv'
  <2>1. (queue # <<>>) <=> (queue' # <<>>)
    BY <1>q
  <2> QED
    BY <1>q, <1>c, <2>1 DEF ForgetInv, StartInv
<1>2. BehindInv'
  BY <1>q, <1>c DEF ForgetInv, BehindInv
<1>3. FlagInv'
  BY <1>q DEF ForgetInv, FlagInv, Honest
<1>4. HeldInv'
  <2>1. \A i : Spared(i) => Spared(i)'
    BY <1>c DEF Spared
  <2> QED
    BY <1>q, <2>1 DEF ForgetInv, HeldInv
<1> QED
  BY <1>1, <1>2, <1>3, <1>4 DEF ForgetInv

(* Tags leave the queue in the steps of a clearing: a tag that TestTag drops *)
(* was settled, and EraseTail takes away what was dropped and, at the end of *)
(* the range it was given, what was pushed meanwhile.                        *)
LEMMA ForgetStep ==
  ASSUME TypeInv, ForgetInv, [Next]_vars
  PROVE  ForgetInv'
<1>q. /\ queue \in Seq(Objects) /\ Len(queue) \in Nat /\ DOMAIN queue = 1 .. Len(queue)
      /\ sent \in 0 .. MaxTags /\ MaxTags \in Nat /\ sent \in Nat
      /\ \A i \in 1 .. Len(queue) : queue[i] \in Objects /\ queue[i].n \in 1 .. sent
      /\ appPc # "idle" => sent \in 1 .. MaxTags
  BY QueueFacts, SentTagsAssumption
<1>f. StartInv /\ BehindInv /\ FlagInv /\ HeldInv
  BY DEF ForgetInv
<1>c. /\ clear.pos \in Nat /\ clear.kept \in Nat /\ clear.last \in Nat /\ clear.end \in Nat
      /\ clear \in Clearings
      /\ Clearing => clear.kept < clear.pos /\ clear.last <= Len(queue)
      /\ ClearOK
  BY DEF TypeInv, ReceiverPart, ReceiverTypes, ClearOK, Clearings
<1>1. CASE CreateTag
  <2>1. /\ appPc = "idle" /\ appPc' = "push" /\ sent' = sent + 1
        /\ UNCHANGED <<queueVars, rcvVars>>
    BY <1>1 DEF CreateTag
  <2>2. (Clearing' <=> Clearing) /\ \A i : Spared(i)' <=> Spared(i)
    BY <2>1 DEF Clearing, Spared, rcvVars
  <2>3. StartInv'
    BY <2>1 DEF StartInv
  <2>4. BehindInv'
    BY <1>f, <2>1, <2>2 DEF BehindInv, queueVars, rcvVars
  <2>5. FlagInv'
    BY <1>f, <2>1 DEF FlagInv, Honest, queueVars
  <2>6. HeldInv'
    BY <1>f, <1>q, <2>1, <2>2 DEF HeldInv, queueVars
  <2> QED
    BY <2>3, <2>4, <2>5, <2>6 DEF ForgetInv
<1>2. CASE PushTag
  <2>1. /\ appPc = "push" /\ appPc' = "start" /\ UNCHANGED <<marked, lapsed, sent, rcvPc>>
        /\ overlapped' = IF Clearing THEN overlapped \cup {sent} ELSE overlapped
        /\ \/ \E garbage \in BOOLEAN : queue' = Append(queue, NewObject(sent, garbage))
           \/ rcvPc = "erase" /\ UNCHANGED queue
    BY <1>2 DEF PushTag
  <2>2. PICK yes \in BOOLEAN : Moved(yes)
    BY <1>2 DEF PushTag
  <2>3. /\ clear'.pos = clear.pos /\ clear'.kept = clear.kept /\ clear'.last = clear.last
        /\ Clearing' <=> Clearing
        /\ \A i : Spared(i)' <=> Spared(i)
    BY <1>c, <2>1, <2>2, MovedRest DEF TypeInv, BeatPart, Clearing, Spared
  <2>4. \A i \in 1 .. Len(queue) : queue[i].n # sent
    BY <1>q, <2>1 DEF TypeInv, QueuePart, AppOK
  <2>5. sent \in 1 .. MaxTags
    BY <1>q, <2>1
  <2> HIDE <1>2
  <2>6. CASE UNCHANGED queue /\ rcvPc = "erase"
    <3>1. Clearing /\ sent \in overlapped'
      BY <2>1, <2>6 DEF Clearing
    <3>2. StartInv'
      BY <2>1, <3>1 DEF StartInv
    <3>3. BehindInv'
      BY <1>f, <2>1, <2>3, <2>6 DEF BehindInv
    <3>4. FlagInv'
      BY <1>f, <2>1, <2>6 DEF FlagInv, Honest
    <3>5. HeldInv'
      BY <1>f, <1>q, <2>1, <2>3, <2>6 DEF HeldInv
    <3> QED
      BY <3>2, <3>3, <3>4, <3>5 DEF ForgetInv
  <2>7. ASSUME NEW garbage \in BOOLEAN, queue' = Append(queue, NewObject(sent, garbage))
        PROVE  ForgetInv'
    <3>1. ~Started(NewObject(sent, garbage)) /\ NewObject(sent, garbage).n = sent
      BY DEF NewObject, Started
    <3>2. /\ Len(queue') = Len(queue) + 1 /\ DOMAIN queue' = 1 .. Len(queue) + 1
          /\ ~Started(queue'[Len(queue) + 1]) /\ queue'[Len(queue) + 1].n = sent
          /\ \A i \in 1 .. Len(queue) : queue'[i] = queue[i]
      BY <1>q, <2>7, <3>1
    <3>3. /\ queue' # <<>>
          /\ \A i \in DOMAIN queue' : i \in 1 .. Len(queue) \/ i = Len(queue) + 1
      BY <1>q, <2>7, <3>2
    <3>4. StartInv'
      BY <1>q, <2>1, <2>3, <2>4, <3>2, <3>3 DEF StartInv
    <3>5. BehindInv'
      BY <1>f, <1>q, <2>1, <2>3, <3>2, <3>3 DEF BehindInv
    <3>6. FlagInv'
      <4>1. ASSUME NEW i \in 1 .. Len(queue)
            PROVE  \/ queue'[i].n \in overlapped'
                   \/ queue'[i].n = sent' /\ appPc' = "start" /\ ~Started(queue'[i])
                   \/ Honest(queue[i])'
        BY <1>f, <1>q, <2>1, <3>2 DEF FlagInv, Honest
      <4> QED
        BY <2>1, <3>2, <3>3, <4>1 DEF FlagInv
    <3>7. HeldInv'
      <4>1. \A i \in 1 .. Len(queue) : i \in DOMAIN queue'
        BY <1>q, <3>2
      <4> QED
        BY <1>f, <1>q, <2>1, <2>3, <3>2, <4>1 DEF HeldInv
    <3> QED
      BY <3>4, <3>5, <3>6, <3>7 DEF ForgetInv
  <2> QED
    BY <2>1, <2>6, <2>7
<1>3. CASE StartTimer
  <2>1. /\ appPc = "start" /\ appPc' = "write" /\ UNCHANGED <<sent, rcvVars>>
    BY <1>3 DEF StartTimer
  <2>2. (Clearing' <=> Clearing) /\ \A i : Spared(i)' <=> Spared(i)
    BY <2>1 DEF Clearing, Spared, rcvVars
  <2>3. StartInv'
    BY <2>1 DEF StartInv
  <2>4. CASE queue = <<>>
    <3>1. UNCHANGED queueVars
      BY <1>3, <2>4 DEF StartTimer
    <3>2. sent \in overlapped
      BY <1>f, <2>1, <2>4 DEF StartInv
    <3>3. DOMAIN queue = {}
      BY <2>4
    <3>4. \A n \in 1 .. sent : n \in marked \cup lapsed \cup overlapped
      BY <1>f, <3>2, <3>3 DEF HeldInv
    <3> QED
      BY <2>1, <2>3, <3>1, <3>3, <3>4 DEF ForgetInv, BehindInv, FlagInv, HeldInv, queueVars
  <2>5. CASE queue # <<>>
    <3> DEFINE last == Len(queue)
               back == queue[last].n
               o == [n |-> back, acked |-> FALSE, timedOut |-> FALSE, timer |-> "running"]
    <3>1. /\ queue' = [queue EXCEPT ![last] = o]
          /\ marked' = marked \ {back} /\ lapsed' = lapsed \ {back}
          /\ overlapped' = overlapped \cup
                             IF Clearing \/ back # sent THEN {back, sent} ELSE {}
      BY <1>3, <2>5 DEF StartTimer
    <3>2. last \in 1 .. Len(queue) /\ back \in Tags
      <4>1. last \in 1 .. Len(queue)
        BY <1>q, <2>5
      <4>2. back \in 1 .. sent
        BY <1>q, <4>1
      <4> QED
        BY <1>q, <4>1, <4>2 DEF Tags
    <3>3. o \in Objects /\ o.n = back /\ Started(o) /\ ~o.acked /\ ~o.timedOut
      BY <3>2 DEF Objects, Started
    <3> HIDE DEF o
    <3>4. /\ Len(queue') = Len(queue) /\ DOMAIN queue' = 1 .. Len(queue)
          /\ \A i \in 1 .. Len(queue) : queue'[i] = IF i = last THEN o ELSE queue[i]
      BY <1>q, <3>1, <3>2, <3>3, ObjectPut
    <3>5. \A i \in 1 .. Len(queue) : queue'[i].n = queue[i].n
      BY <3>3, <3>4
    <3>6. \/ back \in overlapped' /\ sent \in overlapped'
          \/ /\ ~Clearing /\ back = sent
             /\ \A i \in 1 .. Len(queue) : queue[i].n = sent => i = last
      BY <1>f, <1>q, <2>1, <3>1 DEF StartInv
    <3>7. overlapped \subseteq overlapped'
      BY <3>1
    <3> HIDE DEF last
    <3>8. BehindInv'
      BY <1>f, <1>q, <2>1, <2>2, <3>4, <3>5, <3>7 DEF BehindInv, rcvVars
    <3>9. FlagInv'
      <4>1. ASSUME NEW i \in 1 .. Len(queue)
            PROVE  queue'[i].n \in overlapped' \/ Honest(queue[i])'
        <5>1. CASE i = last
          BY <3>3, <3>4, <5>1 DEF Honest
        <5>2. CASE i # last /\ queue[i].n = back
          BY <3>5, <3>6, <5>2
        <5>3. CASE i # last /\ queue[i].n # back
          <6>1. queue'[i] = queue[i]
            BY <3>4, <5>3
          <6>2. CASE queue[i].n = sent
            BY <3>5, <3>6, <5>3, <6>2
          <6>3. CASE queue[i].n # sent
            <7>1. queue[i].n \in overlapped \/ Honest(queue[i])
              BY <1>f, <1>q, <6>3 DEF FlagInv
            <7> QED
              BY <3>1, <3>7, <5>3, <6>1, <7>1 DEF Honest
          <6> QED
            BY <6>2, <6>3
        <5> QED
          BY <5>1, <5>2, <5>3
      <4> QED
        BY <3>4, <4>1 DEF FlagInv
    <3>10. HeldInv'
      <4>1. ASSUME NEW n \in 1 .. sent
            PROVE  \/ n \in marked' \cup lapsed' \cup overlapped'
                   \/ \E i \in 1 .. Len(queue) : queue[i].n = n /\ Spared(i)
        <5>1. CASE n = back \/ n = sent
          BY <3>2, <3>6, <5>1 DEF Spared
        <5>2. CASE n # back /\ n # sent
          <6>1. \/ n \in marked \cup lapsed \cup overlapped
                \/ \E i \in 1 .. Len(queue) : queue[i].n = n /\ Spared(i)
            BY <1>f, <1>q, <5>2 DEF HeldInv
          <6> QED
            BY <3>1, <3>7, <5>2, <6>1
        <5> QED
          BY <5>1, <5>2
      <4> QED
        BY <2>1, <2>2, <3>4, <3>5, <4>1 DEF HeldInv
    <3> QED
      BY <2>3, <3>8, <3>9, <3>10 DEF ForgetInv
  <2> QED
    BY <2>4, <2>5
<1>4. CASE WriteTag
  <2>1. /\ appPc = "write" /\ appPc' = "idle" /\ UNCHANGED <<sent, queueVars, rcvVars>>
    BY <1>4 DEF WriteTag
  <2>2. (Clearing' <=> Clearing) /\ UNCHANGED clear /\ \A i : Spared(i)' <=> Spared(i)
    BY <2>1 DEF Clearing, Spared, rcvVars
  <2> QED
    BY <1>f, <2>1, <2>2 DEF ForgetInv, StartInv, BehindInv, FlagInv, Honest, HeldInv, queueVars
<1>5. CASE UNCHANGED <<queue, marked, lapsed, overlapped, sent, appPc, rcvPc, clear>>
  <2>1. (Clearing' <=> Clearing) /\ \A i : Spared(i)' <=> Spared(i)
    BY <1>5 DEF Clearing, Spared
  <2> QED
    BY <1>f, <1>5, <2>1 DEF ForgetInv, StartInv, BehindInv, FlagInv, Honest, HeldInv
<1>6. CASE (\E n \in PeerAnswers : ParseAck(n)) \/ ParseOther \/ TestSize
  <2>1. /\ UNCHANGED <<queue, marked, lapsed, overlapped, sent, appPc, clear>>
        /\ ~Clearing /\ ~Clearing'
    BY <1>6 DEF ParseAck, ParseOther, TestSize, Clearing, queueVars, appVars
  <2> QED
    BY <1>f, <2>1 DEF ForgetInv, StartInv, BehindInv, FlagInv, Honest, HeldInv, Spared
<1>7. CASE BeginErase
  <2>1. /\ UNCHANGED <<queue, marked, lapsed, sent, appPc>>
        /\ overlapped' = IF appPc = "start" THEN overlapped \cup {sent} ELSE overlapped
    BY <1>7 DEF BeginErase, appVars
  <2>2. clear'.pos = 1 /\ clear'.kept = 0 /\ clear'.last = Len(queue)
    BY <1>7 DEF BeginErase
  <2>3. ASSUME NEW i \in 1 .. Len(queue) PROVE Spared(i)'
    <3>1. clear'.pos <= i
      BY <1>q, <2>2
    <3> QED
      BY <3>1 DEF Spared
  <2>5. StartInv'
    BY <2>1 DEF StartInv
  <2>6. BehindInv'
    <3>1. \A i \in 1 .. Len(queue) : ~(i > clear'.last)
      BY <1>q, <2>2
    <3> QED
      BY <1>q, <2>1, <3>1 DEF BehindInv
  <2>7. FlagInv'
    BY <1>f, <2>1 DEF FlagInv, Honest
  <2>8. HeldInv'
    BY <1>f, <1>q, <2>1, <2>3 DEF HeldInv
  <2> QED
    BY <2>5, <2>6, <2>7, <2>8 DEF ForgetInv
<1>8. CASE TestTag
  <2>1. /\ rcvPc = "walk" /\ clear.pos <= clear.last
        /\ UNCHANGED <<queue, marked, lapsed, overlapped, sent, appPc>>
        /\ Clearing /\ Clearing'
    BY <1>8 DEF TestTag, Clearing, queueVars, appVars
  <2>2. clear.pos \in 1 .. Len(queue)
    BY <1>c, <1>q, <2>1
  <2>3. \/ /\ ~Keeps(queue[clear.pos])
           /\ clear' = [clear EXCEPT !.pos = @ + 1]
        \/ /\ clear.kept + 1 = clear.pos
           /\ clear' = [clear EXCEPT !.pos = @ + 1, !.kept = @ + 1]
        \/ UNCHANGED clear
    BY <1>8 DEF TestTag
  <2> HIDE <1>8
  <2>4. clear'.last = clear.last
    BY <1>c, <2>3 DEF Clearings
  <2>5. StartInv' /\ BehindInv' /\ FlagInv'
    BY <1>f, <2>1, <2>4 DEF StartInv, BehindInv, FlagInv, Honest
  <2>6. CASE ~Keeps(queue[clear.pos]) /\ clear' = [clear EXCEPT !.pos = @ + 1]
    <3>1. clear'.pos = clear.pos + 1 /\ clear'.kept = clear.kept
      BY <1>c, <2>6 DEF Clearings
    <3>2. \A i \in 1 .. Len(queue) : Spared(i) => Spared(i)' \/ i = clear.pos
      BY <1>c, <2>1, <3>1 DEF Spared
    <3>3. LET n == queue[clear.pos].n
          IN  \/ n \in marked \cup lapsed \cup overlapped
              \/ n = sent /\ appPc = "start"
      BY <1>f, <1>q, <2>2, <2>6 DEF FlagInv, Honest, Keeps, Unresolved
    <3>4. HeldInv'
      BY <1>f, <1>q, <2>1, <3>2, <3>3 DEF HeldInv
    <3> QED
      BY <2>5, <3>4 DEF ForgetInv
  <2>7. CASE clear.kept + 1 = clear.pos /\ clear' = [clear EXCEPT !.pos = @ + 1, !.kept = @ + 1]
    <3>1. clear'.pos = clear.pos + 1 /\ clear'.kept = clear.pos
      BY <1>c, <2>7 DEF Clearings
    <3>2. \A i \in 1 .. Len(queue) : Spared(i)'
      BY <1>c, <3>1 DEF Spared
    <3>3. HeldInv'
      BY <1>f, <1>q, <2>1, <3>2 DEF HeldInv
    <3> QED
      BY <2>5, <3>3 DEF ForgetInv
  <2>8. CASE UNCHANGED clear
    <3>1. \A i : Spared(i)' <=> Spared(i)
      BY <2>1, <2>8 DEF Spared
    <3>2. HeldInv'
      BY <1>f, <2>1, <3>1 DEF HeldInv
    <3> QED
      BY <2>5, <3>2 DEF ForgetInv
  <2> QED
    BY <2>3, <2>6, <2>7, <2>8
<1>9. CASE MoveTag
  <2>1. /\ rcvPc = "move" /\ queue' = [queue EXCEPT ![clear.kept + 1] = queue[clear.pos]]
        /\ clear' = [clear EXCEPT !.pos = @ + 1, !.kept = @ + 1]
        /\ UNCHANGED <<marked, lapsed, overlapped, sent, appPc>>
        /\ Clearing /\ Clearing'
    BY <1>9 DEF MoveTag, Clearing, appVars
  <2> HIDE <1>9
  <2>2. /\ clear.kept + 1 <= clear.pos /\ clear.pos <= clear.last /\ clear.last <= Len(queue)
        /\ clear.pos \in 1 .. Len(queue) /\ clear.kept + 1 \in 1 .. Len(queue)
    BY <1>c, <1>q, <2>1 DEF ClearOK
  <2>3. clear'.pos = clear.pos + 1 /\ clear'.kept = clear.kept + 1 /\ clear'.last = clear.last
    BY <1>c, <2>1 DEF Clearings
  <2>4. /\ Len(queue') = Len(queue) /\ DOMAIN queue' = 1 .. Len(queue)
        /\ \A i \in 1 .. Len(queue) :
             queue'[i] = IF i = clear.kept + 1 THEN queue[clear.pos] ELSE queue[i]
    BY <1>q, <2>1, <2>2, ObjectPut
  <2>5. \A i \in 1 .. Len(queue) : \E j \in 1 .. Len(queue) : queue'[i] = queue[j]
    BY <2>2, <2>4
  <2>6. StartInv'
    BY <1>f, <2>1 DEF StartInv
  <2>7. BehindInv'
    BY <1>f, <1>q, <1>c, <2>1, <2>2, <2>3, <2>4 DEF BehindInv
  <2>8. FlagInv'
    BY <1>f, <1>q, <2>1, <2>4, <2>5 DEF FlagInv, Honest
  <2>9. ASSUME NEW i \in 1 .. Len(queue), Spared(i)
        PROVE  \E j \in 1 .. Len(queue) : queue'[j].n = queue[i].n /\ Spared(j)'
    <3>1. CASE i = clear.pos
      BY <1>c, <2>2, <2>3, <2>4, <3>1 DEF Spared
    <3>2. CASE i # clear.pos
      <4>1. i # clear.kept + 1 /\ Spared(i)'
        BY <1>c, <2>1, <2>2, <2>3, <2>9, <3>2 DEF Spared
      <4> QED
        BY <2>4, <4>1
    <3> QED
      BY <3>1, <3>2
  <2>10. HeldInv'
    BY <1>f, <1>q, <2>1, <2>4, <2>9 DEF HeldInv
  <2> QED
    BY <2>6, <2>7, <2>8, <2>10 DEF ForgetInv
<1>10. CASE ReadEnd
  <2>1. /\ UNCHANGED <<queue, marked, lapsed, overlapped, sent, appPc>>
        /\ Clearing /\ Clearing'
        /\ clear' = [clear EXCEPT !.end = IF @ = 0 THEN Len(queue) ELSE @]
    BY <1>10 DEF ReadEnd, Clearing, queueVars, appVars
  <2>2. clear'.pos = clear.pos /\ clear'.kept = clear.kept /\ clear'.last = clear.last
    BY <1>c, <2>1 DEF Clearings
  <2>3. \A i : Spared(i)' <=> Spared(i)
    BY <2>1, <2>2 DEF Spared
  <2> QED
    BY <1>f, <2>1, <2>2, <2>3
    DEF ForgetInv, StartInv, BehindInv, FlagInv, Honest, HeldInv
<1>11. CASE EraseTail
  <2>1. /\ rcvPc = "erase" /\ queue' = Without(queue, clear.kept, clear.end)
        /\ UNCHANGED <<marked, lapsed, overlapped, sent, appPc>>
        /\ Clearing /\ ~Clearing'
    BY <1>11 DEF EraseTail, Without, Clearing, appVars
  <2>2. /\ clear.kept <= clear.end /\ clear.end <= Len(queue)
        /\ clear.pos = clear.last + 1
    BY <1>c, <2>1 DEF ClearOK
  <2>3. queue' \in Seq(Objects) /\ IsWithout(queue', queue, clear.kept, clear.end)
    BY <1>c, <1>q, <2>1, <2>2, ClosedUp
  <2>4. /\ DOMAIN queue' = 1 .. Len(queue')
        /\ \A i \in 1 .. Len(queue') : \E j \in 1 .. Len(queue) : queue'[i] = queue[j]
        /\ \A i \in 1 .. clear.kept : i \in 1 .. Len(queue') /\ queue'[i] = queue[i]
    BY <2>3 DEF IsWithout
  <2>5. StartInv' /\ BehindInv'
    BY <1>f, <2>1 DEF StartInv, BehindInv
  <2>6. FlagInv'
    BY <1>f, <1>q, <2>1, <2>4 DEF FlagInv, Honest
  <2>7. ASSUME NEW i \in 1 .. Len(queue), Spared(i)
        PROVE  \/ queue[i].n \in overlapped
               \/ \E j \in 1 .. Len(queue') : queue'[j].n = queue[i].n
    <3>1. CASE i <= clear.kept
      <4>1. i \in 1 .. clear.kept
        BY <1>c, <3>1
      <4> QED
        BY <2>4, <4>1
    <3>2. CASE ~(i <= clear.kept)
      <4>1. i > clear.last
        BY <1>c, <2>1, <2>2, <2>7, <3>2 DEF Spared
      <4> QED
        BY <1>f, <1>q, <2>1, <4>1 DEF BehindInv
    <3> QED
      BY <3>1, <3>2
  <2>8. HeldInv'
    <3>1. \A j : Spared(j)'
      BY <2>1 DEF Spared
    <3>2. ASSUME NEW n \in 1 .. sent, n = sent => appPc \notin {"push", "start"}
          PROVE  \/ n \in marked \cup lapsed \cup overlapped
                 \/ \E j \in 1 .. Len(queue') : queue'[j].n = n
      <4>1. \/ n \in marked \cup lapsed \cup overlapped
            \/ \E i \in 1 .. Len(queue) : queue[i].n = n /\ Spared(i)
        BY <1>f, <1>q, <3>2 DEF HeldInv
      <4> QED
        BY <2>7, <4>1
    <3> QED
      BY <2>1, <2>4, <3>1, <3>2 DEF HeldInv
  <2> QED
    BY <2>5, <2>6, <2>8 DEF ForgetInv
<1>12. CASE ClearDeadMemory
  <2>1. /\ Clearing /\ ~Clearing'
        /\ UNCHANGED <<queue, marked, lapsed, overlapped, sent, appPc>>
    BY <1>12 DEF ClearDeadMemory, Clearing, queueVars, appVars
  <2> QED
    BY <1>f, <2>1 DEF ForgetInv, StartInv, BehindInv, FlagInv, Honest, HeldInv, Spared
<1>13. ASSUME NEW c \in checks, MarkAcked(c) PROVE ForgetInv'
  <2>1. /\ c.pos <= Len(queue) /\ c.pos > 0 /\ c.pos \in Nat
    BY <1>13 DEF MarkAcked, Live, TypeInv, AckPart, AckTypes, ChecksOK, Checks
  <2>2. /\ c.pos \in 1 .. Len(queue)
        /\ queue' = [queue EXCEPT ![c.pos].acked = TRUE]
        /\ marked' = marked \cup {queue[c.pos].n}
        /\ UNCHANGED <<sent, appPc, rcvVars, overlapped, lapsed>>
    BY <1>13, <1>q, <2>1 DEF MarkAcked, appVars
  <2> HIDE <1>13
  <2>3. /\ queue' \in Seq(Objects) /\ Len(queue') = Len(queue)
        /\ \A i \in 1 .. Len(queue) :
              /\ queue'[i].n = queue[i].n /\ queue'[i].timer = queue[i].timer
              /\ queue'[i].timedOut = queue[i].timedOut
              /\ queue'[i].acked <=> queue[i].acked \/ i = c.pos
    BY <1>q, <2>2, AckedSet
  <2> QED
    BY <2>2, <2>3, FlagsKeepForget DEF Started
<1>14. CASE MarkTimedOut
  <2>1. /\ hb.pos \in 1 .. Len(queue)
        /\ queue' = [queue EXCEPT ![hb.pos].timedOut = TRUE]
        /\ lapsed' = lapsed \cup {queue[hb.pos].n}
        /\ UNCHANGED <<sent, appPc, rcvVars, overlapped, marked>>
    BY <1>14, <1>q DEF MarkTimedOut, Live, TypeInv, BeatPart, BeatOK, Beats, appVars
  <2> HIDE <1>14
  <2>2. /\ queue' \in Seq(Objects) /\ Len(queue') = Len(queue)
        /\ \A i \in 1 .. Len(queue) :
              /\ queue'[i].n = queue[i].n /\ queue'[i].timer = queue[i].timer
              /\ queue'[i].acked = queue[i].acked
              /\ queue'[i].timedOut <=> queue[i].timedOut \/ i = hb.pos
    BY <1>q, <2>1, TimedOutSet
  <2> QED
    BY <2>1, <2>2, FlagsKeepForget DEF Started
<1>15. ASSUME NEW n \in Expiring, Expire(n) PROVE ForgetInv'
  <2>1. UNCHANGED <<sent, appPc, rcvVars, overlapped, marked, lapsed>>
    BY <1>15 DEF Expire, appVars
  <2> QED
    BY <1>q, <1>15, <2>1, TimerPassed, FlagsKeepForget
<1>16. CASE \E c \in checks : BeginCheck(c) \/ CompareTag(c) \/ CheckDeadMemory(c)
  BY <1>5, <1>16 DEF BeginCheck, CompareTag, CheckDeadMemory, queueVars, appVars, rcvVars
<1>17. CASE Beat \/ VisitTag \/ HandleTimeOut \/ BeatDeadMemory \/ Quit \/ UNCHANGED vars
  BY <1>5, <1>17
  DEF Beat, VisitTag, HandleTimeOut, BeatDeadMemory, Quit, vars, queueVars, appVars, rcvVars
<1> QED
  BY <1>1, <1>2, <1>3, <1>4, <1>6, <1>7, <1>8, <1>9, <1>10, <1>11, <1>12, <1>13, <1>14,
     <1>15, <1>16, <1>17
  DEF Next, SendTag, ParseItem, TRY_Clear_SentTags_Queue, CheckAcknowledgement, CheckTagList

LEMMA ForgetInvariant == Spec => []ForgetInv
<1>1. Init => ForgetInv
  BY DEF Init, ForgetInv, StartInv, BehindInv, FlagInv, HeldInv
<1>2. TypeInv /\ ForgetInv /\ [Next]_vars => ForgetInv'
  BY ForgetStep
<1> QED
  BY <1>1, <1>2, TypeInvariant, PTL DEF Spec

(* Whatever pushes, starts, marks and time-outs fall between the steps of a  *)
(* clearing, the only tags that leave the queue without being settled are    *)
(* those whose SendTag it overlapped and those a stray StartTimer hit.       *)
THEOREM OnlyOverlappedForgottenHolds == Spec => []OnlyOverlappedForgotten
<1>1. ForgetInv => OnlyOverlappedForgotten
  BY DEF ForgetInv, HeldInv, OnlyOverlappedForgotten, InQueue, Places
<1> QED
  BY <1>1, ForgetInvariant, PTL

(* However identities are used again, walks are cut short and the queue is   *)
(* cleared, CheckAcknowledgement marks no more tags than acknowledgements    *)
(* were read.                                                                *)
THEOREM AckCountHolds == Spec => []AckCount
<1>1. Init => CountInv
  BY FS_EmptySet DEF Init, CountInv, ReadOnce
<1>2. TypeInv /\ CountInv /\ [Next]_vars => CountInv'
  BY CountStep
<1>3. TypeInv /\ CountInv /\ ForgetInv => AckCount
  <2> SUFFICES ASSUME TypeInv, CountInv, ForgetInv PROVE AckCount
    OBVIOUS
  <2>1. marked \subseteq Tags /\ answered \subseteq Tags
    BY QueueFacts, SentTagsAssumption DEF TypeInv, AckPart, AckTypes, Tags
  <2>2. /\ Cardinality(marked) \in Nat /\ Cardinality(answered) \in Nat
        /\ Cardinality(checks) \in Nat
    BY <2>1, TagSetsFinite, FS_CardinalityType DEF CountInv
  <2>3. Cardinality(marked) <= Cardinality(answered)
    BY <2>2 DEF CountInv
  <2>4. \A i \in DOMAIN queue :
          Started(queue[i]) /\ queue[i].acked => queue[i].n \in marked \cup overlapped
    BY DEF ForgetInv, FlagInv, Honest
  <2> QED
    BY <2>3, <2>4 DEF AckCount
<1> QED
  BY <1>1, <1>2, <1>3, TypeInvariant, ForgetInvariant, PTL DEF Spec
=============================================================================
