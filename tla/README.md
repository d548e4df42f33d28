# TCPNet: models and proofs

TCPNet (`src/WebSpectorTCPNet`) is a C++ library on boost::asio and
boost::thread with which one *front end* talks to several *masters* over TCP.
It has two systems, used one at a time: the *tag system* sends short commands
that are acknowledged or time out, the *object system* sends lists of
serialized objects. The repository has no tests and no documentation besides
the comments of its headers. This directory holds TLA+ models of the library,
the TLC configurations that check them, and theorems checked by TLAPS.

## 1. Inventory

| Component | State | Operations | Where |
|---|---|---|---|
| Sending half of the tag system | `_SentTags_Queue`, fields of every `Tag` (identity, acknowledged, timed out, expiry time) | `SendTag`, `CheckAcknowledgement`, `TRY_Clear_SentTags_Queue` | `TagSystem.cpp`, `Tag.cpp` |
| Heartbeat timer | a pointer to that queue | `CheckTagList`, `Tag_TimeOutCheck` | `HeartBeatTimer.cpp` |
| Receiving half of the tag system | the socket, `_unparsed_buf`, `_receivedTags_list` | `ReceiveTags`, `ParseTags`, `TCPSendAck`, `NetLink::GetReceivedTags` | `TagSystem.cpp`, `NetLink.cpp` |
| Tag codec | the fields of a `Tag`, its delimiters | `ToString`, `BreakTagString`, `SetAckID`, `AcknowledgeString` | `Tag.cpp` |
| Object system | the socket, lists of `TCPMessage` with their stream buffers | `TCPSendVector`, `TCPConnection::Send`, `StartReceiver`, `Receive` | `NetLink.cpp`, `TCPConnection.cpp`, `TCPMessage.cpp` |
| Link setup | acceptors, ports, `_connectionMade`, `_Connection` | `ConnectToMaster`, `ConnectToFrontEnd`, both `Handle_IfConnected`, `WaitForConnections` | `FrontEndLink.cpp`, `MasterLink.cpp`, `NetLink.cpp` |
| Facades | `_link_pool` / `_link`, ports and number of masters | `SetMastersCount`, `Start`, `Broadcast`, `Send`, `BroadcastTag`, `SendTag`, `GetAllReceivedTags`, `GetReceivedTagsFrom` | `FE_TCP.*`, `Master_TCP.*` |
| Serialization | none | `Serialize`, `DeSerialize` | `TCPSerializer.cpp` |
| Error list | list of strings | `PushError` | `Error.cpp` |

How they interact:

* A facade owns one `NetLink` (a master) or one for each master (the front
  end). `Start` makes the links, runs the `io_service` on a thread of its own
  and waits, link after link, for `_connectionMade`; then every link gets a
  receiver thread, for tags or for objects.
* In the tag system four kinds of threads share `_SentTags_Queue`, a vector,
  with no lock at all: the application in `SendTag`, the receiver thread, which
  clears the queue when it finds exactly 100 tags in it, a thread for every
  received acknowledgement, and the heartbeat. `_receivedTags_list` is shared,
  without a lock too, by the receiver thread and the application in
  `GetReceivedTags`.
* The ends exchange two kinds of items in one stream: tags
  (`command:message!id`) and acknowledgements (`AK:!id`), `id` being two
  digits. In the object system a list is a count of 10 digits and, for every
  message, 20 digits of size and its bytes.

* All writes of tags and acknowledgements go through `async_write`, which leaves
  what the socket does not take at once to the `io_service` of the facade. The
  thread in `run()` ends when the `io_service` has no work left.

What is hard: every hazard is listed with its line in `PROJECT.json`. They are
data races on the two vectors (steps between the read of a size or an iterator
and its use), identities that are used again, time-outs that race
acknowledgements, reads that divide an item, a count or a size at any byte,
buffers that are used up by the first of several writes or gone before the
write is done, writes of several threads on one socket, texts that hold the
characters of the protocol, sizes past the range of `int`, the window
between a TCP connection being completed by the kernel and being accepted, and
processes that end: nearly every error of a socket is an exception that leaves a
thread, so one process that ends takes others with it.

What makes each component correct:

* sending half: an acknowledgement settles its own tag and no other, no tag is
  timed out early, no unsettled tag leaves the queue, every tag is settled (the
  code keeps these with exceptions, which section 3 names);
* receiving half: the items are those the peer wrote, in order, once; every tag
  reaches the application in order and every one is acknowledged;
* the two halves at both ends of a link: no tag is confirmed that was not
  delivered, and between running ends no tag and no acknowledgement gets lost;
* codec: a tag and its identity come through whatever their text is;
* object system: what a master receives is what was sent to it; the receiver
  does not die and every message arrives; the sender is told what happened;
* facades: a call for all masters reaches each of them once and ends, and tags
  that were received are given to the application once;
* link setup: both ends agree which master is on which link; searching and
  starting come to an end.

## 2. Modules

    SentTags          the sending half and the heartbeat
      MCSentTags        its instances for TLC
      SentTagsProofs    theorems about it
    TagChannel        abstract: what one direction of the tag stream promises
    TagReceive        the receiving half, shown to implement TagChannel
      MCTagReceive      an instance for TLC
      TagReceiveProofs  theorems about it
    TagCodec          the text of tags and acknowledgements
      MCTagCodec
    TagWrites         how the items of several threads get onto the wire
      MCTagWrites
      TagWireProofs     theorems about it and about TagCodec
    TagExchange       abstract: what the tag system promises for one end's tags
    TagLink           SentTags with the other end and the streams between them,
                      shown to implement TagExchange
      MCTagLink
      TagLinkProofs     theorems about it
    TagFacade         the calls for tags over all the links of the front end
      MCTagFacade
      TagFacadeProofs   theorems about it
    ObjectStream      lists of objects, from the calls to the receivers
      MCObjectStream
      ObjectStreamProofs  theorems about it
    LinkSetup         the front end and the masters finding each other
      MCLinkSetup
      LinkSetupProofs   theorems about it
    SequenceLemmas    induction, and the operators on sequences, for the proofs

The models are layers. `SentTags` and `TagReceive` have the steps of the threads
of one end; `TagLink` extends `SentTags`, with all its threads, by the other end, the
streams and the end of a process; `TagFacade` takes a link as a list that
grows and has the calls of the application over many links. What a layer
takes from the one below is a rule that was checked there: from `TagReceive`,
that items are parsed in order and at the latest when another follows
(`FollowedItemParsed`); from `TagWrites`, when the wire holds whole items; from
`LinkSetup`, that both ends agree on the link.

Definitions preceded by a comment "Mutant of X" are changed forms of X, used to
confirm that the properties notice the change; no specification uses them.

### SentTags

State: `queue` is `_SentTags_Queue`, a sequence of objects `[n, acked, timedOut,
timer]`: the `SendTag` call that made the tag, and the fields `_ack_rcvd`,
`_timed_OUT`, `_expiry_time`. Flags belong to the object and not to the call,
because `remove_if` assigns objects: while it is at work there may be two of one
tag. `id` is `_ack_ID`. `rcvPc` and `clear` are where the receiver thread is in a
clearing (the place it reads, how many tags it kept, the end of its range and the
end that `erase` is given), `checks` and `hb` where the other threads are. The
remaining variables are histories that the properties speak of: `marked` and `lapsed`
are the tags marked as acknowledged and as timed out since their timer was started,
`overlapped` the tags pushed or started while the queue was being cleared, those
whose `SendTag` was between the two when a clearing began, and those involved when
a timer was started in place of another.

| Action | Code |
|---|---|
| `CreateTag`, `PushTag`, `StartTimer`, `WriteTag` | the four steps of `TagSystem::SendTag` on shared state |
| `ParseAck`, `ParseOther` | one round of `ParseTags` |
| `TestSize`, `BeginErase` | `TRY_Clear_SentTags_Queue`: the test, the iterators (`end()` for `erase` may be read now or after `remove_if`) |
| `TestTag`, `MoveTag` | `remove_if`: the predicate of one tag, its assignment to the front |
| `ReadEnd`, `EraseTail`, `ClearDeadMemory` | the second `end()`, the `erase`, and either of them on a vector that was moved |
| `BeginCheck`, `CompareTag`, `MarkAcked`, `CheckDeadMemory` | `CheckAcknowledgement`, the comparison and the mark of one tag a step each |
| `Beat`, `VisitTag`, `HandleTimeOut`, `MarkTimedOut`, `BeatDeadMemory` | `CheckTagList`, `Tag_TimeOutCheck`, `TimeOutHandler` |
| `Expire` | time passing an expiry time |
| `Quit` | the process ending by itself |

`find_if` and `remove_if` read the end of the vector once, so a walk keeps its range
while the vector changes under it. A `push_back` may move the vector (chosen
freely): a walk is then `stale`, and its next step is on dead memory, as is one past
the shortened end. Such a step is undefined; in the model it is lost or ends the
process. It is not modelled that it writes into memory which belongs to something
else. Between any two steps of a clearing the application may push a tag or start a
timer, and the flags may be set. `push_back` itself, and the last part of `erase`
that shortens the vector, are single steps; when both change the size at once the
pushed tag may be lost or the process end (`PushTag`), but that one of them sees the
other halfway is not modelled any finer. `_ack_rcvd` starts with any value, as no
constructor sets it. A blocking tag that times out ends the process
(`HandleTimeOut`), since the exception leaves a detached thread. The socket stays open
and the peer acknowledges in any order, or not at all.

### TagChannel and TagReceive

`TagChannel` has two variables: the items that have completely arrived and the
sequence of items found. `TagReceive` works on byte positions: item `k` ends at
byte `End[k]`, its `!` is the third byte from its end, and it is at least four
bytes long. `arrived`, `mark` and `lo` are how far the network has brought, the
socket has been read, and the text has been cut. The text `ParseTags` works on,
`_unparsed_buf` and what was read, is the bytes from `lo` to `mark`. A string
that is not exactly one item would be recorded as `0`.
`Arrive` moves `arrived` by any amount; `ReadTagsFromSocket` takes any amount
that has a `!` among the *new* bytes, which is when `read_until` returns;
`ParseFirstTag` and `KeepUnparsed` are the rounds of `ParseTags`; `PushReceived`
is the loop in `ReceiveTags`; `TCPSendAck` a thread for each tag; `BeginCopy`,
`CopyTag`, `CopyDeadMemory`, `ClearReceived` are `GetReceivedTags`, whose copy
keeps the range it began with. The refinement maps `complete` to the items that
end at or before `arrived`. The call of `TRY_Clear_SentTags_Queue` in `ParseTags`
changes only the state of the sending half and is in `SentTags`. Assumed: a
message holds no `!`, and the peer writes an item as one piece.

### TagCodec

A text is a sequence of one-character strings. `isMaster` is chosen freely at the
beginning. `SendTag` writes `TagString` (`Tag::ToString`), `ParseFirstTag` is one
round of `ParseTags` on a text that has arrived whole: it cuts a piece two
characters behind the first `!`, classifies it, breaks it (`BreakTagString`), and
starts a thread with the `AcknowledgeString` (`answering`); `TCPSendAck` is whichever of
these threads writes next, to `acks`; `ReadAck` is `CheckAcknowledgement`
reading the identity. `stoi` stops at what is no digit and throws if there is none,
in a thread where nothing catches it (`alive`). Acknowledgements come back in any order, so
`AcksComeHome` says which of the tags sent an identity that was read back belongs
to by a one-to-one map, `place`, from the acknowledgements onto the tags that are
answered.

### TagWrites

A write is one call of `async_write`, named by a constant, on a link (`Link`) with
a number of bytes (`Size`). `AsyncWrite` is the call in `WriteTagOnSocket` or
`TCPSendAck`: the socket takes some of the bytes at once, and the temporary string is
destroyed. `WriteSome` is the `io_service` going on with it, from memory that may
hold the bytes still or not; `HandleWrite` the two handlers; `SetupEnds` the last
connection made; `RunReturns` is `run()` returning when it has no work. A link is
`torn` when a write was begun inside another, or continued from other memory: what
is then on the wire is not looked at.

### TagExchange and TagLink

`TagExchange` has the numbers of tags sent and parsed, and the set of tags
confirmed. `TagLink` extends `SentTags`: every action of that module is one of this,
with its effect on the link. Added are the streams `out` and `in`, and the other end:
how many tags it has parsed, its `TCPSendAck` threads (`answers`) and the tags it sends
itself (`others`), of which only their place on the streams matters. Both ends run the
same code, so what is shown of the tags of one end holds for both.

| Action | Code |
|---|---|
| `LocalStep` | a step of a thread of `SentTags` that does not use the socket |
| `SendOverLink` | `WriteTag`, the `async_write` of a tag |
| `ReceiveAck`, `ReceiveOther`, `ReceivePart` | a round of `ParseTags`: an acknowledgement, a tag of the other end, or a part of an item, which is kept |
| `TCPSendAck` | the thread that answers a tag of the other end |
| `PeerReceive`, `PeerSendAck`, `PeerSendTag` | the same at the other end |
| `End` (in `LocalStep`), `PeerEnd` | a process ending |

When a process ends, its stream is cut behind any item or inside one (`CutItem`),
what the other end writes to it is lost without an error (the handlers of
`async_write` take no arguments), and the receiver of the other end goes on polling
`available()`, which gives 0 for ever; a receiver that meets the end inside a read
throws, which is one of the reasons for `Quit` and `PeerEnd`. The refinement maps
`sent` to the tags written and `confirmed` to `answered`, the tags whose
acknowledgement was read. What a confirmation does to the queue is not part of the
exchange: a walk on moved storage may lose the mark, and a tag may be both marked as
acknowledged and as timed out, so nothing of that kind is promised.

### TagFacade

`call` is the call being made: the loop over `masterID` with the master it is at
and the one it ends before, what it has collected and, between a copy and a
`clear()`, how much it has copied. `SendToNext`, `BeginCopy`, `CopyTag`, `CopyDeadMemory`, `ClearNext`, `Return`
are the steps of the loops in `BroadcastTag` and `GetAllReceivedTags`, of which the copy
takes a tag at a time from the range it began with; a push that moves the list
meanwhile makes what it takes stale: the tag as it was, a broken one, or the end of the
process. `overlapped` has the tags of a list that grew while it was copied; a call for
one master is the same loop with one round, and `Master_TCP` is the same code with
one link. `ReceiveTag` is a receiver thread adding a tag to the list of its link at
any moment. `UseEmptyLink` is `_link_pool[masterID]` inserting a null link for an unknown
master, which is dereferenced at once. `SetMastersCount` may be called at any time
between calls, as nothing forbids it.

### ObjectStream

The unit of the stream is five bytes: a count is two units, a size four, the
payload any number. A read gives any number of units that fit in its buffer, so
counts and sizes are divided at some places, not at all of them; every place
has the same effect in the code. `full` holds the messages whose stream buffer
was not used up by a write. `Call` is `Serialize` and the beginning of
`Broadcast` or `Send`, `TCPSendVector` the writing of the list to one master and, at
the last one, the result of the call.
For each master `ReadCount`, `ReadSize`, `ReadPayload`, `EndMessage` are the loop
of `StartReceiver`. The count buffer has no terminating zero, so a digit may
happen to follow the count. `spoiled` is the history of what spoils a stream: a
list not written as a whole, a count or a size read in parts, a count misread.
`IntMax` is the greatest `int`: `stoi` throws for a greater size, and the number of
bytes sent wraps around it (`AsInt`).

Any process may end (`QuitFrontEnd`, `QuitMaster`), or be ended by what it reads
(`Die`). A write to a master that has ended may still succeed (`TCPSendVector`), may fail
at the count, which throws to the application (`CountNotWritten`), or later, where
the handler of the exception uses a null `TCPError` (`PushError`). Receivers throw
at the end of the stream (`ReadEnd`, `FrontEndReadsEnd`). Connections are only
lost with a process, as nothing in the code closes one.

The same module with one master models a master that sends to the front end,
where the code is the same.

### LinkSetup

Actions of the front end: `CreateFrontEndLink` (one link, whose acceptor opens
its port), `RunFrontEnd`, `StartReceivingFrom` (the wait for one link, and the
receiver), `Accept`, `FrontEndConnectionMade`, `FrontEndSetSocket`. Actions of a
master: `StartMaster`, `Connect`, `ConnectionRefused`, `MasterConnectionMade`,
`MasterSetSocket`, `StartReceivingAt`. Each handler is divided where the thread
that waits can see it half done: after `_connectionMade`. `Connect` to an open
port succeeds at once and puts the master in the backlog; closing the acceptor
resets what is there. A receiver that starts with no socket ends its process, and
so does `remote_endpoint()` on a connection known to be reset, which throws in
the thread of the `io_service`. Both systems start the same way, so one model
stands for both. All processes have the same number of masters configured.

## 3. Runs

| Run | Shows | Bounds |
|---|---|---|
| `sent_tags_safety` | `TypeOK`, `FreshAckExact`, `DueTimeouts`, `AckCount`, `OnlyOverlappedForgotten` | 3 tags (the first expires, the first two are answered), 2 identities, clearing at 2 |
| `sent_tags_liveness` | `EveryTagResolved` | 2 tags (the second blocking), 2 identities, clearing at 2, the process may end |
| `sent_tags_ack_match` | violation, below | 3 tags, 2 identities, clearing at 2 |
| `tag_receive` | `TypeOK`, `DeliveredInOrder`, `OnlyOverlappedLost`, `AcksExact`, `ParsesTheStream` (refinement), `FollowedItemParsed` | 5 items of all kinds, 21 bytes, every division |
| `tag_receive_lost` | violation | same |
| `tag_codec` | `SurvivesIffPlain`, `AcksComeHome` | 2 tags of 9 commands and 9 messages, both roles |
| `tag_writes` | `TypeOK`, `WholeItemsUnlessTorn`, `HandledIfInTime` | 3 writes on one link, 1 on another, 2 or 3 bytes each |
| `tag_link` | `LinkTypeOK`, `AckedWasDelivered`, `AllAckedWhenDrained`, `ImplementsExchange` (refinement), `AllButTheLast` | 2 tags one way, 1 the other, no time-outs, 2 identities, clearing at 2, both processes may end |
| `tag_facade` | `TypeOK`, `TagsAccounted`, `OneOfEach`, `BroadcastReachesAll`, `EndedOnlyByMisuse`, `GetReturns` | up to 3 masters, 3 calls, 2 tags from each master |
| `object_stream` | `TypeOK`, `IntactUnlessSpoiled`, `EndedOnlyIfSpoiled`, `ResultExact`, `EveryMessageReceived`, `EndsSpread` | 2 masters, 2 calls, 2 messages of 2 or 4 units, `int` up to 3 |
| `object_stream_broadcast` | violation | same |
| `link_setup` | `TypeOK`, `LinksAgree`, `SearchEnds`, `StartReturns` | 2 masters, 2 links |

Why the bounds are enough for what they show. Three tags over two identities,
with the queue cleared at two, have an identity that is used again both with and
without a clearing before, a queue that passes the limit, a clearing that keeps
some tags and drops others, and a push that comes between any two steps of a
walk or of a clearing; the theorems of section 4 cover any number. One tag that
expires and two that are answered leave the third to be neither, and one tag to be
both (6 million states). The liveness run is smaller since its graph is checked
for cycles; it keeps a clearing and two tags, so that a beat that ends at the first tag
must come back for the second, which throws when it is blocking. Five items have a
batch with an item of each kind and a list that gets tags before, during and
after a copy. Two tags on a link have acknowledgements that overtake each other, a
clearing, and one that waits for the item behind it; the one tag of the other end puts
tags and acknowledgements on the same stream. An identity used again needs a third tag,
which `sent_tags_safety` has, and the heartbeat touches nothing that the link promises
but by ending the process, which it may do here at any time. The theorems about the link
include both. The characters in `tag_codec` are at the
beginning, the middle and the end of fields, and a second tag shows what the first
does to its neighbour. Three writes on one link have one begun inside another that
has one waiting. Three masters have one served, one being served and one left when
the number is changed. Two calls to two masters have a list that follows another on the
same stream, to the same or another master, and a broadcast after a send; with sizes of
2 and 4 units and `int` up to 3, a message fits, does not fit, and two that fit do not
fit together. Two
masters and two links have the contention for the first port and a master that
must go on to the next.

`CHECK_DEADLOCK FALSE` is in every configuration because each system may stop: the
numbers of tags, items, calls and masters are bounded, a process may end, and
nothing obliges the application to call.

### Fairness

* `SentTags`: weak fairness of the steps inside `SendTag` and of those of a clearing
  (threads that are running go on), of the heartbeat thread, which loops for ever,
  and of time. None of `CreateTag`, of the peer, or of the acknowledgement threads:
  `EveryTagResolved` holds if nobody ever acknowledges.
* `TagReceive`: weak fairness of the receiver thread, which polls for ever. None of
  the network or the application.
* `TagLink`: that of `SentTags`, and weak fairness of every thread that was started
  (`CheckAcknowledgement`, `TCPSendAck` at both ends) and of the receiver of the other
  end, which polls for ever and parses an item at the latest when there is another
  behind it or the stream has ended. The receiver of this end may see a part of an item
  some rounds long, which takes it through a clearing, so there the fairness is
  strong: it does not see parts for ever of an item that is there. None of
  `CreateTag`, `PeerSendTag`, `Quit` or `PeerEnd`.
* `TagWrites`: `run()` goes on while it has work, and sockets get room again.
* `TagFacade`: the application goes on with a call it has made. No master need send.
* `ObjectStream`: a call that was begun goes on, and a read from a socket that has
  something, or has come to its end, comes back. No call need be made and no process
  need end.
* `LinkSetup`: every thread goes on, and every connect ends, refused or not. The
  processes are started: `SearchEnds` and `StartReturns` are about what follows.

### What the violation runs show

| Run | Comment | Code |
|---|---|---|
| `sent_tags_ack_match` | `TagSystem.h:92` it "checks whose Acknowledgement it is" | the identity is the size of the queue, and is used again |
| `tag_receive_lost` | `NetLink.h:146` "Gets All Received TAGS" | `NetLink.cpp:33` clears a list that has grown since it was copied |
| `object_stream_broadcast` | `FE_TCP.h:39` broadcast to all masters | the first write uses up the stream buffer |

Other disagreements can be read off the same models, without a run of their own.
In `SentTags`: a clearing drops tags that are neither acknowledged nor timed out, where
`TagSystem.h:30` has it look for that, since a push between two steps of `remove_if` and
`erase`, a garbage `_ack_rcvd`, or a timer started in place of another can come in
between (`TagSystem.cpp:36`, 192, 198) (without its last set, `overlapped`,
`OnlyOverlappedForgotten` does not hold, and for the same reason the timer of a tag may
never start, though `TagSystem.h:24` speaks of "each and every tag"); a late
acknowledgement is recorded (`TagSystem.cpp:25`), where `TagSystem.h:94` has it ignored;
and the queue passes the "maximum Size" of `TagSystem.h:45`, as `_max_queue_size` is never
read. In `TagWrites`: a wire may be torn, by a buffer that is gone or a write inside
another (`TagSystem.cpp:100`). In `ObjectStream`: a count read in two parts ends the
receiver (`TCPConnection.cpp:113`), which is to "Receive 10 Bytes of Message Count"
(`TCPConnection.h:62`), and a digit behind it changes it. In `LinkSetup`: the receiver that
waits for `_connectionMade` (`NetLink.h:30`) may find no socket, `receiver` becoming
`broken`. Besides these:
an item whose digits come after its `!` waits for the next item
(`TagSystem.cpp:118`), though `TagSystem.h:53` calls incomplete what the buffer
holds; a second master in the backlog of an acceptor is reset
when it closes (`FrontEndLink.cpp:19`), after its `_connectionMade` was set
(`NetLink.h:30`); the error list "Records the routines Logs for things which did not go
so well" (`NetLink.h:89`), but is null wherever it is used; "Sent Succesfully" is logged
before an acknowledgement is written (`TagSystem.cpp:53`);
a beat times out one tag at most, as `find_if` ends at the first; `StartTimer` of the
tag at the back can re-arm another tag between the check and the mark of a time-out;
and the last port a master tries, `First + Links`, which no link opens although
`NetLink.h:204` says so.

## 4. Theorems

TLAPS proves the following for every value of the constants that satisfies the
`ASSUME` of the module; no bound of the configurations is used.

* `SentTagsProofs!TypeCorrect`: `Spec => []TypeOK`. `TypeOK` is not inductive: that
  a position stays at or below `MaxTags` needs that a walk is inside its range,
  which is at most as long as the queue was, and that a push makes a tag of
  the call needs that the call has made it. `TypeInv` adds this, and that a clearing
  is behind the tags it kept and before the end of its range (`ClearOK`).
* `SentTagsProofs!DueTimeoutsHold`: `Spec => []DueTimeouts`. The inductive
  invariant is `FreshInv`: until the queue is cleared, tag `n` is at position `n`
  with identity `(n - 1) % AckIds`, `StartTimer` hits the tag of its own call, a
  tag is written once, and the tag the heartbeat found overdue is still at its
  position when it is marked. `BeginErase` ends its range, which is why the
  property says "until".
* `SentTagsProofs!FreshAckExactHolds`: `Spec => []FreshAckExact`. On top of
  `FreshInv`, `ExactInv` says that with no more tags than identities a walk has not
  gone past its own tag, so it ends at it.
* `SentTagsProofs!OnlyOverlappedForgottenHolds`: a clearing drops no unsettled tag but those
  in `overlapped`. `ForgetInv` has four parts: a tag that was pushed and not started is
  at the back, or overlapped (`StartInv`); what is behind the range of a clearing is
  overlapped (`BehindInv`); the flags of any other object tell of a mark made since its
  timer was started (`FlagInv`); and a tag that is neither marked nor overlapped is
  in the queue at a place the clearing has kept or has still to look at (`HeldInv`), so
  the assignments of `remove_if` write over none and `EraseTail` cuts none off.
* `SentTagsProofs!AckCountHolds`: `Spec => []AckCount`. That there are no more marked tags
  than acknowledgements read is not inductive, since an acknowledgement that was read
  marks its tag later. `CountInv` counts the walks under way with the marked tags; a
  walk that marks a tag ends, and one that ends on dead memory only lowers the sum.
* `TagReceiveProofs!StreamAligned`: `Spec => []StreamOK`. The bytes cut so far end
  where an item ends, and the items found are the first ones in order. The step
  that needs an argument is `NextItem`: the first `!` behind `lo` belongs to the
  next item, as every item has one and it is not at the same place in any other.
* `TagReceiveProofs!ParsesTheStreamHolds`: `Spec => ParsesTheStream`, the refinement
  of `TagChannel`: `Arrive` maps to `Arrive`, `ParseFirstTag` to `Parse`, by
  `StreamAligned`, and every other step stutters.
* `TagReceiveProofs!TypeCorrect`, `AcksExactHolds`, `OnlyOverlappedLostHolds`,
  `DeliveredInOrderHolds`: a tag goes through four lists, those parsed and not yet
  pushed, the list of the link, the copy, and what was delivered. `PipelineAt` says
  which of them holds what at each place. `LossInv` is that a parsed tag is in one of
  them or was overlapped by a copy, and that a copy whose list has grown has all of that
  list as overlapped, since `ClearReceived` will drop what it did not copy. `OrderInv` is
  that all numbers in the pipeline increase and the parser is not behind any of them.
* `TagLinkProofs!LinkIsSentTags`: `LinkSpec => Spec`, so the theorems about `SentTags` hold on
  a link. `LinkTypeCorrect`, `AllAckedWhenDrainedHolds` and `LinkImplementsExchange` follow from
  `LinkInv`. `TagsOut`: the stream out holds the tags that are written and not parsed,
  in order, and all of them between running ends. `AcksIn`: of a parsed tag the
  acknowledgement is in one place at most, with a thread of the other end, on the stream
  in, or read, and between running ends in exactly one. A stream that is cut (`Cut`)
  keeps a beginning, so it takes away only. What happens to an acknowledgement that was
  read is not part of it: `AllAckedWhenDrained` takes from `FreshAckExact` that the
  tag is marked when the walk is done, unless it was caught by a reallocation.
  `AckedWasDeliveredHolds` needs `MarksInv`, that while identities are fresh a walk hits its
  own tag only, also after one was lost, so a mark is of a tag whose acknowledgement was
  read.
* `LinkSetupProofs!TypeCorrect`, `LinksAgreeHolds`: `SetupInv` adds to `TypeOK` that a
  master has counted its connection once its handler is done (`MastersInv`), and that
  what a link holds, waiting or accepted, are different masters connected at its port
  which were not reset (`HeldInv`). That a master is in the hands of one link only
  follows from its having one port.
* `TagFacadeProofs!TypeCorrect`, `OneOfEachHolds`, `BroadcastReachesAllHolds`,
  `EndedOnlyByMisuseHolds`: `FacadeInv` says where a call is in its loop (`LoopInv`), that
  a list holds tags of its master alone (`ListInv`), that a call that receives from all
  has tags of exactly the masters it has passed, in order (`CollectInv`), and that a
  broadcast has been sent to those it has passed and numbers only grow (`SentInv`).
* `TagFacadeProofs!TagsAccountedHolds`: `AccountInv` keeps an account for each master: what
  the application has in hand comes before what the list still holds, a tag that arrived is
  in one of them unless its list grew while it was copied, and none has a number that has
  not come. A broken tag, copied from storage that was given back, counts as none.
* `TagWireProofs!TypeCorrect`, `WholeItemsUnlessTornHolds`: `WireInv` says that a wire
  that is not torn holds the whole items of all calls but the last and the beginning
  of the last one. A call that begins when the last item is whole goes behind it
  (`FlattenAppend`); any other tears the wire.
* `TagWireProofs!CodecInvariant`, `SurvivesIffPlainHolds`, `AcksComeHomeHolds`, for every
  text of a command and of a message and any number of tags. The lemmas are about one
  tag: what is at each place of its text (`TextOfTag`), where the first `!` is
  (`BangOfFramed`), which delimiter the reader takes (`SepOfFramed`), what the text is
  broken into (`BrokenFramed`, `ParsedFramed`), and that its acknowledgement gives the
  identity back (`AckOfFramed`). `CodecInv` has two parts beside the types. `InStep`
  holds while no field that was sent has a `!`: what is to be parsed is the texts of the tags
  not found yet, one behind the other (`Stacked`), what was found is what those before
  them parse to, and the identities read and the acknowledgements on their way are those of
  the answered tags: each of them has its acknowledgement in one place, with a thread
  (`WaitingIn`), written or read (`WrittenIn`), and nothing else is there (`PlacedIn`), in whatever
  order the threads wrote. `EarlyCut` is for a single tag with a
  `!` in a field: it is cut early, and if it is found as it was sent all the same, another
  piece is left behind it (`Tailed`, by the lemma `Survivor`), so that it does not
  count as survived. This is the direction "only if it is plain" of `SurvivesIffPlain`.
* `ObjectStreamProofs!TypeCorrect`, `IntactUnlessSpoiledHolds`, `EndedOnlyIfSpoiledHolds`,
  `ResultExactHolds`. `ObjectTypes` is the inductive type invariant: a master is not
  written to twice in a call, a receiver is inside its stream, and it waits for a
  size or payload only if the list has more. The theorems about content rest on
  `StreamInv`: on a stream that is not spoiled there is a set of *marks*, places
  between two numbers or payloads with how many messages of the list are to come and how
  many came; behind each mark is the end of the stream, a count and a mark, or the next
  message that was sent and a mark; and the receiver is at a mark, or in the payload
  behind one. A whole list that is written extends the marks (`FramedGrows`, from
  `ListLaidOut`, which says where each message of a list is on the stream), and a read
  from a mark gives what was written there (`CountRead`, `SizeRead`, `PayloadAt`). With
  that, `EndedOnlyIfSpoiled` is inductive, since none of the reads throws. `ResultExact`
  needs `ListEnd`: a list that is whole ends with payload, and one that stopped at a used
  up message ends with the digits of a size.

The proofs use no induction rule with a predicate as its parameter. `SequenceLemmas` proves
from the library's theorem on well-founded relations that a non-empty set of natural
numbers has a least element (`LeastNat`); what holds for all is then proved of the least
number for which it would fail. In that way `FlattenSeq` is shown to be the function
it defines (`FlattenIs`, `FlattenAppend`, `FlattenPlaces`).

The assumptions are those in the modules: numbers are natural, an item has at least four bytes and
its `!` is the third from the end, commands and messages are sequences of characters, each write has a link and at least a byte, each
message at least a unit, and the names of masters, the front end and `none` are different and no
numbers. None of them bounds a number from above.

Only model-checked: all liveness (`EveryTagResolved`, `FollowedItemParsed`,
`AllButTheLast`, `HandledIfInTime`, `GetReturns`, `EveryMessageReceived`,
`EndsSpread`, `SearchEnds`, `StartReturns`), which is out of the prover's reach. Every
invariant, every property of steps and both refinements that a passing run checks are
stated by a theorem.

## 5. Not modelled

* The loss of a connection between two running processes: nothing in the code
  closes one, so it would be the network's doing, and meets the code as the end of the
  peer does, on both sides at once.
* The clock: a time-out of 0, which the facades accept, is an expiry at once.
* Construction and destruction: the heartbeat starts before the queue exists and
  is never stopped; the recursion of `CheckTagList`; a second `Start` on the same
  facade, whose links would be destroyed under their threads.
* `Serialize` of a single object, which writes through an uninitialised pointer, and
  `DeSerialize`, which is called nowhere: `StartReceiver` drops the lists it receives.
  The archives of `cv::Mat` are formats of libraries.
* `Error::create`, which is called nowhere, logging, project and build files.

## 6. Plan

Done: the modules above, the halves of the tag system first, since they have the most
threads, then the link made of them, what they take for granted (`TagCodec`,
`TagWrites`), the facade, the ends of processes, and the theorems of section 4, which cover
every safety property of the runs. What is left are the hazards of section 5 that no property covers: the start of the
heartbeat before its queue, its recursion, and `Serialize` of a single object.
