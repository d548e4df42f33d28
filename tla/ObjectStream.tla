---------------------------- MODULE ObjectStream ----------------------------
(***************************************************************************)
(* The object system: the front end sends lists of serialized objects to   *)
(* one master or to all of them (FE_TCP.cpp, NetLink.cpp), and the         *)
(* receiver thread of every master takes them from its socket              *)
(* (TCPConnection.cpp).  The front end has a receiver thread for every     *)
(* master too; here it only meets the end of the stream.                   *)
(*                                                                         *)
(* On the stream a list is a count of 10 digits and, for every message, a  *)
(* size of 20 digits and that many bytes of payload.  The unit of the      *)
(* model is 5 bytes: a count is two groups of digits, a size four, of      *)
(* which only the last is not zero, and the size of a payload is counted   *)
(* in units.  No unit of a payload begins with a digit.  A read_some gives *)
(* any number of units that fit in its buffer.                             *)
(*                                                                         *)
(* Any process may end, by itself or by an exception that leaves a thread; *)
(* its connections are then closed, and what it wrote last may get lost.   *)
(***************************************************************************)
EXTENDS Integers, Sequences, FiniteSets, SequencesExt

CONSTANTS
  Masters,      \* the number of masters, _masters_count
  MaxCalls,     \* bound: calls made
  MaxMessages,  \* bound: messages made by all the calls
  MaxList,      \* bound: messages in one call
  Sizes,        \* the sizes a message can have, in units of payload
  IntMax        \* the greatest int, in units

ASSUME ObjectStreamAssumption ==
  /\ Masters \in Nat \ {0}
  /\ MaxCalls \in Nat
  /\ MaxMessages \in Nat
  /\ MaxList \in Nat
  /\ Sizes \subseteq Nat \ {0}
  /\ IntMax \in Nat

VARIABLES
  calls,     \* how many calls were made
  size,      \* the sizes of the messages made so far
  full,      \* the messages whose _MSG_Stream still holds its payload
  list,      \* the list of the call that is being made
  targets,   \* the masters this call has still to send to
  result,    \* what the last call gave: nothing yet, TRUE, FALSE, an exception
  last,      \* history: the last master that call wrote to
  sentTo,    \* history: what the calls were to send to each master
  written,   \* the stream to each master, from its beginning
  pos,       \* how much of it the master has read
  pc,        \* where its receiver is: count, size, data, or dead
  need,      \* messages of the list it has still to read
  expected,  \* the size it has read for the next message
  got,       \* the payload read for it
  received,  \* the messages it has received
  spoiled,   \* history: a list was not written to the master as a whole, or its
             \* receiver got a part of a count or a size, or misread a count
  feRuns,    \* FALSE once the process of the front end has ended
  quit       \* history: a process has ended by itself

callVars == <<calls, size, full, list, targets, result, last, sentTo>>
senderVars == <<callVars, written>>
receiverVars == <<pos, pc, need, expected, got, received>>
vars == <<senderVars, receiverVars, spoiled, feRuns, quit>>

Master == 1 .. Masters
Ended(m) == pc[m] = "dead"

(* The units of the stream: groups of five digits and units of payload. *)
Digits(v) == [kind |-> "digits", v |-> v, n |-> 0]
Data(n, i) == [kind |-> "data", v |-> i, n |-> n]

CountUnits(k) == <<Digits(0), Digits(k)>>
SizeUnits(n) == <<Digits(0), Digits(0), Digits(0), Digits(size[n])>>
Payload(n) == [i \in 1 .. size[n] |-> Data(n, i)]

Init ==
  /\ calls = 0
  /\ size = <<>>
  /\ full = {}
  /\ list = <<>>
  /\ targets = <<>>
  /\ result = "none"
  /\ last = 0
  /\ sentTo = [m \in Master |-> <<>>]
  /\ written = [m \in Master |-> <<>>]
  /\ pos = [m \in Master |-> 0]
  /\ pc = [m \in Master |-> "count"]
  /\ need = [m \in Master |-> 0]
  /\ expected = [m \in Master |-> 0]
  /\ got = [m \in Master |-> <<>>]
  /\ received = [m \in Master |-> <<>>]
  /\ spoiled = [m \in Master |-> FALSE]
  /\ feRuns = TRUE
  /\ quit = FALSE

-----------------------------------------------------------------------------
(* The front end. *)

(* Serialize makes the list: new messages, each with its payload.           *)
Call(masters) ==
  /\ feRuns
  /\ targets = <<>>
  /\ calls < MaxCalls
  /\ calls' = calls + 1
  /\ \E k \in 0 .. MaxList :
       /\ Len(size) + k <= MaxMessages
       /\ \E s \in [1 .. k -> Sizes] : size' = size \o s
       /\ list' = [i \in 1 .. k |-> Len(size) + i]
  /\ full' = full \cup Range(list')
  /\ targets' = masters
  /\ result' = "none"
  /\ sentTo' = [m \in Master |->
                  IF m \in Range(masters) THEN sentTo[m] \o list' ELSE sentTo[m]]
  /\ last' = 0
  /\ UNCHANGED <<written, receiverVars, spoiled, feRuns, quit>>

Broadcast == Call([m \in Master |-> m])

Send(m) == Call(<<m>>)

(* TCPSendVector stops at the first message whose stream is empty, when it   *)
(* has written the size of it.                                               *)
SentWhole ==
  {i \in 1 .. Len(list) : \A j \in 1 .. i : list[j] \in full}

(* What the loop writes for a message, and the stream of the first k         *)
(* messages of the list behind their count.                                  *)
MessageUnits(n) == SizeUnits(n) \o Payload(n)
ListUnits(k) == CountUnits(Len(list)) \o FlattenSeq([i \in 1 .. k |-> MessageUnits(list[i])])

Encoded ==
  LET k == Cardinality(SentWhole)
  IN  ListUnits(k) \o IF k = Len(list) THEN <<>> ELSE SizeUnits(list[k + 1])

(* Writing a streambuf to a socket consumes it. *)
Consumed == {list[i] : i \in SentWhole}

(* The conversion of a size_t to int. *)
AsInt(n) ==
  LET low == n % (2 * IntMax + 2)
  IN  IF low > IntMax THEN low - (2 * IntMax + 2) ELSE low

(* The bytes of payload that the loop of TCPSendVector adds up. *)
Total(sizes, messages) ==
  LET sum[i \in 0 .. Len(messages)] ==
        IF i = 0 THEN 0 ELSE sum[i - 1] + sizes[messages[i]]
  IN  sum[Len(messages)]
TotalSize == Total(size, list)

(* Mutant of BytesSent: the counts and sizes are counted too. *)
BytesSentInAll == AsInt(Len(Encoded))

(* What TCPSendVector returns: the bytes of payload, or none if a message   *)
(* had none.                                                                *)
BytesSent ==
  IF SentWhole = DOMAIN list THEN AsInt(TotalSize) ELSE 0

(* The list is written to the next master.  If the process of that master   *)
(* has ended, the write may seem to succeed all the same.                   *)
TCPSendVector ==
  /\ feRuns
  /\ targets # <<>>
  /\ written' = IF Ended(Head(targets)) THEN written
                ELSE [written EXCEPT ![Head(targets)] = @ \o Encoded]
  /\ spoiled' = [spoiled EXCEPT ![Head(targets)] =
               @ \/ SentWhole # DOMAIN list \/ Ended(Head(targets))]
  /\ full' = full \ Consumed
  /\ targets' = Tail(targets)
  /\ last' = Head(targets)
  /\ result' = IF targets' # <<>> THEN result
               ELSE IF BytesSent > 0 THEN "true" ELSE "false"
  /\ UNCHANGED <<calls, size, list, sentTo, receiverVars, feRuns, quit>>

(* The count cannot be written, which throws to the application and ends    *)
(* the call: the masters behind get nothing.                                *)
CountNotWritten ==
  /\ feRuns
  /\ targets # <<>>
  /\ Ended(Head(targets))
  /\ spoiled' = [m \in Master |-> spoiled[m] \/ m \in Range(targets)]
  /\ targets' = <<>>
  /\ result' = "threw"
  /\ UNCHANGED <<calls, size, full, list, last, sentTo, written, receiverVars,
                 feRuns, quit>>

-----------------------------------------------------------------------------
(* How the process of the front end ends. *)
FrontEndEnds ==
  /\ feRuns
  /\ feRuns' = FALSE
  /\ targets' = <<>>
  /\ list' = <<>>
  /\ full' = {}
  /\ result' = "none"
  /\ last' = 0
  /\ UNCHANGED <<calls, size, sentTo, written, receiverVars, spoiled>>

(* A message cannot be written: the handler of the exception pushes it on   *)
(* an Error that was never created.                                         *)
PushError ==
  /\ targets # <<>>
  /\ Ended(Head(targets))
  /\ list # <<>>
  /\ FrontEndEnds
  /\ UNCHANGED quit

(* A receiver thread of the front end reads the end of the stream, which    *)
(* throws, and nothing catches it.                                          *)
FrontEndReadsEnd ==
  /\ \E m \in Master : Ended(m)
  /\ FrontEndEnds
  /\ UNCHANGED quit

QuitFrontEnd ==
  /\ FrontEndEnds
  /\ quit' = TRUE

-----------------------------------------------------------------------------
(* The receiver thread of master m. *)

(* What the next read_some gives if its buffer holds n units. *)
Readable(m, n) == {k \in 1 .. Len(written[m]) - pos[m] : k <= n}
Units(m, k) == SubSeq(written[m], pos[m] + 1, pos[m] + k)

(* std::stoi: the digits before the first unit of payload as a number. *)
Group == 100000
DigitsIn(units) ==
  {i \in 1 .. Len(units) : \A j \in 1 .. i : units[j].kind = "digits"}
IsNumber(units) ==
  LET k == Cardinality(DigitsIn(units))
  IN  k > 0 /\ \A i \in 1 .. k : i + 1 < k => units[i].v = 0
StoI(units) ==
  LET k == Cardinality(DigitsIn(units))
  IN  units[k].v + IF k = 1 THEN 0 ELSE Group * units[k - 1].v

(* Mutant of NextPc: the loop of Receive ends one message early. *)
NextPcEarly(n) == IF n <= 1 THEN "count" ELSE "size"

(* What is read next with n messages of the list still to read. *)
NextPc(n) == IF n = 0 THEN "count" ELSE "size"

(* The process of a master ends.  Nobody reads its stream any more.          *)
Die(m) ==
  /\ pc' = [pc EXCEPT ![m] = "dead"]
  /\ written' = [written EXCEPT ![m] = <<>>]
  /\ pos' = [pos EXCEPT ![m] = 0]
  /\ need' = [need EXCEPT ![m] = 0]
  /\ expected' = [expected EXCEPT ![m] = 0]
  /\ got' = [got EXCEPT ![m] = <<>>]
  /\ UNCHANGED <<callVars, received>>

(* Receive_10ByteMSGCount, and StartReceiver, which throws on a part of a    *)
(* count.  The ten characters are made a string without an end, so digits    *)
(* that happen to follow them are taken for more of the number.              *)
ReadCount(m) ==
  /\ pc[m] = "count"
  /\ \E k \in Readable(m, 2) :
       \/ /\ k < 2 \/ ~IsNumber(Units(m, k))
          /\ spoiled' = [spoiled EXCEPT ![m] = @ \/ k < 2]
          /\ Die(m)
       \/ /\ k = 2 /\ IsNumber(Units(m, k))
          /\ pos' = [pos EXCEPT ![m] = @ + k]
          /\ \E extra \in BOOLEAN :
               LET count == StoI(Units(m, k))
                   n == IF extra THEN 10 * count + 1 ELSE count
               IN  /\ need' = [need EXCEPT ![m] = n]
                   /\ pc' = [pc EXCEPT ![m] = NextPc(n)]
                   /\ spoiled' = [spoiled EXCEPT ![m] = @ \/ extra]
          /\ UNCHANGED <<senderVars, expected, got, received>>
  /\ UNCHANGED <<feRuns, quit>>

(* GetBytesToBeReceived_20Bytes: only a read of all twenty ends the loop,    *)
(* and every read begins at the start of the buffer again.                   *)
ReadSize(m) ==
  /\ pc[m] = "size"
  /\ \E k \in Readable(m, 4) :
       \/ /\ k < 4
          /\ pos' = [pos EXCEPT ![m] = @ + k]
          /\ spoiled' = [spoiled EXCEPT ![m] = TRUE]
          /\ UNCHANGED <<senderVars, pc, need, expected, got, received>>
       \/ /\ k = 4 /\ IsNumber(Units(m, k)) /\ StoI(Units(m, k)) <= IntMax
          /\ pos' = [pos EXCEPT ![m] = @ + k]
          /\ pc' = [pc EXCEPT ![m] = "data"]
          /\ expected' = [expected EXCEPT ![m] = StoI(Units(m, k))]
          /\ UNCHANGED <<senderVars, need, got, received, spoiled>>
       \/ /\ k = 4 /\ ~(IsNumber(Units(m, k)) /\ StoI(Units(m, k)) <= IntMax)
          /\ Die(m)
          /\ UNCHANGED spoiled
  /\ UNCHANGED <<feRuns, quit>>

(* Mutant of Missing: the buffer keeps the size of the whole message. *)
MissingAll(m) == expected[m]

(* What the loop of Receive asks for: the rest of the payload. *)
Missing(m) == expected[m] - Len(got[m])

(* Mutant of Complete: one read_some is taken for the whole payload. *)
CompleteAtOnce(m) == Len(got[m]) > 0

Complete(m) == Len(got[m]) = expected[m]

ReadPayload(m) ==
  /\ pc[m] = "data"
  /\ ~Complete(m)
  /\ \E k \in Readable(m, Missing(m)) :
       /\ pos' = [pos EXCEPT ![m] = @ + k]
       /\ got' = [got EXCEPT ![m] = @ \o Units(m, k)]
  /\ UNCHANGED <<senderVars, pc, need, expected, received, spoiled, feRuns, quit>>

EndMessage(m) ==
  /\ pc[m] = "data"
  /\ Complete(m)
  /\ received' = [received EXCEPT ![m] = Append(@, got[m])]
  /\ got' = [got EXCEPT ![m] = <<>>]
  /\ need' = [need EXCEPT ![m] = @ - 1]
  /\ pc' = [pc EXCEPT ![m] = NextPc(need[m] - 1)]
  /\ UNCHANGED <<senderVars, pos, expected, spoiled, feRuns, quit>>

(* Mutant of ReadsOn: between two lists the end is taken for no bytes, on    *)
(* which the loop goes round.                                                *)
ReadsOnInList(m) == pc[m] = "size" \/ (pc[m] = "data" /\ ~Complete(m))

ReadsOn(m) == pc[m] # "data" \/ ~Complete(m)

(* The stream of the front end ends, perhaps before what was written last,  *)
(* which throws out of the receiver thread of the master.                   *)
ReadEnd(m) ==
  /\ ~feRuns
  /\ ~Ended(m)
  /\ ReadsOn(m)
  /\ Die(m)
  /\ UNCHANGED <<spoiled, feRuns, quit>>

QuitMaster(m) ==
  /\ ~Ended(m)
  /\ Die(m)
  /\ quit' = TRUE
  /\ UNCHANGED <<spoiled, feRuns>>

-----------------------------------------------------------------------------
FrontEnd ==
  \/ Broadcast \/ (\E m \in Master : Send(m))
  \/ TCPSendVector \/ CountNotWritten \/ PushError
  \/ FrontEndReadsEnd \/ QuitFrontEnd

StartReceiver(m) ==
  ReadCount(m) \/ ReadSize(m) \/ ReadPayload(m) \/ EndMessage(m) \/ ReadEnd(m)

Next == FrontEnd \/ \E m \in Master : StartReceiver(m) \/ QuitMaster(m)

Spec == Init /\ [][Next]_vars

(* A call that was made is carried out, and a read from a socket that holds  *)
(* something, or has come to its end, comes back.  Nothing is assumed of     *)
(* when calls are made or when processes end by themselves.                  *)
FairSpec ==
  /\ Spec
  /\ WF_vars(TCPSendVector \/ CountNotWritten \/ PushError)
  /\ WF_vars(FrontEndReadsEnd)
  /\ \A m \in Master : WF_vars(StartReceiver(m))

-----------------------------------------------------------------------------
(* The types of the variables; a receiver never holds more of a payload     *)
(* than the size it read for it (TCPConnection.cpp:82-89).                  *)
TypeOK ==
  /\ calls \in 0 .. MaxCalls
  /\ size \in Seq(Sizes) /\ Len(size) <= MaxMessages
  /\ full \subseteq 1 .. Len(size)
  /\ list \in Seq(1 .. Len(size))
  /\ targets \in Seq(Master)
  /\ result \in {"none", "true", "false", "threw"}
  /\ last \in 0 .. Masters
  /\ sentTo \in [Master -> Seq(1 .. Len(size))]
  /\ \A m \in Master : pos[m] \in 0 .. Len(written[m])
  /\ pc \in [Master -> {"count", "size", "data", "dead"}]
  /\ need \in [Master -> Nat]
  /\ \A m \in Master : pc[m] = "data" => Len(got[m]) <= expected[m]
  /\ spoiled \in [Master -> BOOLEAN]
  /\ feRuns \in BOOLEAN
  /\ quit \in BOOLEAN

(* What the receiver of master m has is what was sent to it, in order.      *)
Intact(m) ==
  /\ Len(received[m]) <= Len(sentTo[m])
  /\ \A i \in 1 .. Len(received[m]) : received[m][i] = Payload(sentTo[m][i])

Oversize(m) == \E n \in Range(sentTo[m]) : size[n] > IntMax
Spoiled(m) == spoiled[m] \/ Oversize(m)
AllRun == feRuns /\ \A m \in Master : ~Ended(m)

(* The framing works as long as nothing spoils it: the lists that           *)
(* TCPSendVector frames with counts and sizes are taken apart by Receive    *)
(* into the same messages in the same order, whatever pieces the payloads   *)
(* arrive in and wherever the stream breaks off.                            *)
IntactUnlessSpoiled == \A m \in Master : ~Spoiled(m) => Intact(m)

(* A process ends only if one ends by itself or a stream was spoiled:       *)
(* StartReceiver and stoi throw at nothing else that is read, and a write   *)
(* and a read fail only when the process at the other end is gone           *)
(* (NetLink.cpp:164, 169, TCPConnection.cpp:47, 85).                        *)
EndedOnlyIfSpoiled ==
  AllRun \/ quit \/ \E m \in Master : Spoiled(m)

(* Send and Broadcast give TRUE exactly if the last master they wrote to    *)
(* got a list of at least one message as a whole, and the bytes of it are   *)
(* a positive int; of the masters before it TRUE says nothing, and a list   *)
(* that could not be written is an exception or the end of the process, and *)
(* never FALSE (NetLink.cpp:69-109, FE_TCP.cpp:22).                         *)
Whole(m) == IsSuffix(ListUnits(Len(list)), written[m])

ResultExact ==
  /\ result = "true" =>
       list # <<>> /\ AsInt(TotalSize) > 0 /\ (Whole(last) \/ Ended(last))
  /\ result = "false" => ~(list # <<>> /\ AsInt(TotalSize) > 0 /\ Whole(last))

(* Every message that the calls were to send to a master is received by it  *)
(* in the end, unless its stream is spoiled or a process has ended: Receive *)
(* asks for the rest of a payload until it has all of it and then goes on   *)
(* with the next message (TCPConnection.cpp:75-96).                         *)
EveryMessageReceived ==
  []<>(AllRun => \A m \in Master : Spoiled(m) \/ Len(received[m]) = Len(sentTo[m]))

(* One process takes all the others with it: the front end reads the end of *)
(* the stream of a master that has ended, and then every other master reads *)
(* that of the front end, in whatever state its receiver is                 *)
(* (TCPConnection.cpp:85, 104).                                             *)
EndsSpread ==
  ~AllRun ~> ~feRuns /\ \A m \in Master : Ended(m)

-----------------------------------------------------------------------------
(* What a header says and the code does not do; refuted by a run.           *)

(* FE_TCP.h:39, "Used to broad cast a TCPMessage LIST to all the Connected  *)
(* Masters": after the call the payload of every message has been written   *)
(* to every master it was to go to.                                         *)
BroadcastToAll ==
  targets = <<>> /\ AllRun =>
    \A m \in Master : \A i \in 1 .. Len(sentTo[m]) :
      Range(Payload(sentTo[m][i])) \subseteq Range(written[m])
=============================================================================
