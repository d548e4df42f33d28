----------------------------- MODULE TagFacade ------------------------------
(***************************************************************************)
(* The front end's side of the tag system over all its links (FE_TCP.cpp): *)
(* one application thread calls SetMastersCount, Start, BroadcastTag,      *)
(* SendTag, GetAllReceivedTags and GetReceivedTagsFrom, and each link's    *)
(* receiver thread adds the tags of its master to the list of the link.    *)
(* A call for one master is the loop of a call for all with one round.     *)
(*                                                                         *)
(* The pool of links is a map, which gives an empty link for a master that *)
(* is not in it; to use that one ends the process.  How links are set up   *)
(* is in LinkSetup, what becomes of a sent tag in TagLink.                 *)
(***************************************************************************)
EXTENDS Naturals, Sequences, FiniteSets, SequencesExt

CONSTANTS
  MaxMasters,  \* bound: the greatest number given to SetMastersCount
  MaxCalls,    \* bound: calls that send or receive tags
  MaxTags      \* bound: tags each master sends

ASSUME TagFacadeAssumption ==
  /\ MaxMasters \in Nat \ {0}
  /\ MaxCalls \in Nat
  /\ MaxTags \in Nat

VARIABLES
  count,     \* _masters_count
  pool,      \* the masters that have a link in _link_pool
  calls,     \* the number of calls made
  call,      \* the call that is being made
  sentTo,    \* history: for each master, the calls that sent it a tag
  result,    \* history: what each finished call that sends gave
  arrived,   \* the number of tags that each link has received
  received,  \* _receivedTags_list of each link
  given,     \* history: the tags given to the application
  overlapped,\* history: the tags in a list when one was added to it during a copy
  runs       \* FALSE once the process has ended

vars == <<count, pool, calls, call, sentTo, result, arrived, received, given,
          overlapped, runs>>

MasterIDs == 0 .. MaxMasters - 1
Tag(m, n) == [from |-> m, n |-> n]

(* What a copy may get from a list that was moved away under it. *)
BrokenTag(m) == Tag(m, 0)

(* A call: whether it is for all masters, the master its loop is at and the *)
(* one it ends before, what it has collected, and, while it copies the list *)
(* of a link, how many tags of it it has copied, the number of tags when    *)
(* the copy began, and whether the list has been moved away since.          *)
NoCall ==
  [op |-> "none", all |-> FALSE, at |-> 0, upto |-> 0, got |-> <<>>,
   copied |-> 0, limit |-> 0, stale |-> FALSE]

Init ==
  /\ count = 1
  /\ pool = {}
  /\ calls = 0
  /\ call = NoCall
  /\ sentTo = [m \in MasterIDs |-> <<>>]
  /\ result = <<>>
  /\ arrived = [m \in MasterIDs |-> 0]
  /\ received = [m \in MasterIDs |-> <<>>]
  /\ given = <<>>
  /\ overlapped = {}
  /\ runs = TRUE

Idle == runs /\ call.op = "none"

-----------------------------------------------------------------------------
SetMastersCount(n) ==
  /\ Idle
  /\ count' = n
  /\ UNCHANGED <<pool, calls, call, sentTo, result, arrived, received, given, overlapped, runs>>

(* Start, which gives every master a link. *)
Start ==
  /\ Idle
  /\ pool = {}
  /\ pool' = 0 .. count - 1
  /\ UNCHANGED <<count, calls, call, sentTo, result, arrived, received, given, overlapped, runs>>

(* The receiver thread of a link gets a tag; push_back may move the list.   *)
ReceiveTag(m) ==
  /\ runs
  /\ m \in pool
  /\ arrived[m] < MaxTags
  /\ arrived' = [arrived EXCEPT ![m] = @ + 1]
  /\ received' = [received EXCEPT ![m] = Append(@, Tag(m, arrived[m] + 1))]
  /\ IF call.op = "copy" /\ call.at = m
     THEN /\ overlapped' = overlapped \cup Range(received'[m])
          /\ \E moved \in BOOLEAN : call' = [call EXCEPT !.stale = @ \/ moved]
     ELSE UNCHANGED <<overlapped, call>>
  /\ UNCHANGED <<count, pool, calls, sentTo, result, given, runs>>

(* Mutants of FirstMaster and AllMasters: masters counted from 1, and one   *)
(* master too many.                                                         *)
FirstMasterOne == 1
AllMastersAndOne == count + 1

FirstMaster == 0
AllMasters == count

Begin(loop) ==
  /\ Idle
  /\ calls < MaxCalls
  /\ calls' = calls + 1
  /\ call' = loop
  /\ UNCHANGED <<count, pool, sentTo, result, arrived, received, given, overlapped, runs>>

ForAll(op) ==
  Begin([NoCall EXCEPT !.op = op, !.all = TRUE, !.at = FirstMaster, !.upto = AllMasters])
ForOne(op, m) ==
  Begin([NoCall EXCEPT !.op = op, !.at = m, !.upto = m + 1])

BroadcastTag == ForAll("send")
SendTag(m) == ForOne("send", m)
GetAllReceivedTags == ForAll("wait")
GetReceivedTagsFrom(m) == ForOne("wait", m)

(* BroadcastTag and SendTag with a time-out below 0 throw before they do    *)
(* anything.                                                                *)
RefuseTimeOut ==
  /\ Idle
  /\ calls < MaxCalls
  /\ calls' = calls + 1
  /\ UNCHANGED <<count, pool, call, sentTo, result, arrived, received, given, overlapped, runs>>

InLoop(op) == runs /\ call.op = op /\ call.at < call.upto

(* NetLink::SendTag of the next link. *)
SendToNext ==
  /\ InLoop("send")
  /\ call.at \in pool
  /\ sentTo' = [sentTo EXCEPT ![call.at] = Append(@, calls)]
  /\ call' = [call EXCEPT !.at = @ + 1]
  /\ UNCHANGED <<count, pool, calls, result, arrived, received, given, overlapped, runs>>

(* Mutants of HasTags: it does not wait for a tag, or waits for two. *)
HasTagsAlways(m) == TRUE
HasTagsTwo(m) == Len(received[m]) > 1

HasTags(m) == Len(received[m]) > 0

(* NetLink::GetReceivedTags of the next link: it waits for tags ...         *)
BeginCopy ==
  /\ InLoop("wait")
  /\ call.at \in pool
  /\ HasTags(call.at)
  /\ call' = [call EXCEPT !.op = "copy", !.limit = Len(received[call.at])]
  /\ UNCHANGED <<count, pool, calls, sentTo, result, arrived, received, given, overlapped, runs>>

(* ... copies those it found ...                                            *)
Got(tag) == call' = [call EXCEPT !.got = Append(@, tag), !.copied = @ + 1]

CopyTag ==
  /\ InLoop("copy")
  /\ call.copied < call.limit
  /\ ~call.stale
  /\ Got(received[call.at][call.copied + 1])
  /\ UNCHANGED <<count, pool, calls, sentTo, result, arrived, received, given, overlapped, runs>>

(* ... from storage given back if the list was moved, which may end the     *)
(* process ...                                                              *)
CopyDeadMemory ==
  /\ InLoop("copy")
  /\ call.copied < call.limit
  /\ call.stale
  /\ \E t \in {received[call.at][call.copied + 1], BrokenTag(call.at)} : Got(t)
  /\ runs' \in BOOLEAN
  /\ UNCHANGED <<count, pool, calls, sentTo, result, arrived, received, given, overlapped>>

(* Mutant of Cleared: what is left after clear() is the last tag.           *)
ClearedButOne(tags) == SubSeq(tags, Len(tags), Len(tags))

Cleared(tags) == <<>>

(* ... and clears the list, whatever is in it by now.                       *)
ClearNext ==
  /\ InLoop("copy")
  /\ call.copied = call.limit
  /\ received' = [received EXCEPT ![call.at] = Cleared(@)]
  /\ call' = [call EXCEPT !.op = "wait", !.copied = 0, !.limit = 0, !.stale = FALSE,
                          !.at = @ + 1]
  /\ UNCHANGED <<count, pool, calls, sentTo, result, arrived, given, overlapped, runs>>

(* An empty link is dereferenced. *)
UseEmptyLink ==
  /\ InLoop("send") \/ InLoop("wait")
  /\ call.at \notin pool
  /\ runs' = FALSE
  /\ UNCHANGED <<count, pool, calls, call, sentTo, result, arrived, received, given, overlapped>>

(* The call returns.  SendTag of a link gives TRUE always, so FALSE means   *)
(* that there was no master to send to.                                     *)
Return ==
  /\ runs
  /\ call.op \in {"send", "wait"}
  /\ call.at >= call.upto
  /\ call' = NoCall
  /\ given' = given \o call.got
  /\ result' = IF call.op = "send"
               THEN Append(result, [call |-> calls, all |-> call.all,
                                    upto |-> call.upto, success |-> call.upto > 0])
               ELSE result
  /\ UNCHANGED <<count, pool, calls, sentTo, arrived, received, overlapped, runs>>

Next ==
  \/ \E n \in 0 .. MaxMasters : SetMastersCount(n)
  \/ Start
  \/ \E m \in MasterIDs : ReceiveTag(m) \/ SendTag(m) \/ GetReceivedTagsFrom(m)
  \/ BroadcastTag \/ GetAllReceivedTags \/ RefuseTimeOut
  \/ SendToNext \/ BeginCopy \/ CopyTag \/ CopyDeadMemory \/ ClearNext
  \/ UseEmptyLink \/ Return

Spec == Init /\ [][Next]_vars

(* The application thread goes on with a call it has made.  No master need  *)
(* send a tag.                                                              *)
FairSpec ==
  Spec /\ WF_vars(SendToNext \/ BeginCopy \/ CopyTag \/ CopyDeadMemory \/ ClearNext
                  \/ UseEmptyLink \/ Return)

-----------------------------------------------------------------------------
(* The types of the variables; a loop stays among the masters it is for     *)
(* (FE_TCP.cpp:96, 116).                                                    *)
TypeOK ==
  /\ count \in 0 .. MaxMasters
  /\ pool \subseteq MasterIDs
  /\ calls \in 0 .. MaxCalls
  /\ call.op \in {"none", "send", "wait", "copy"}
  /\ call.upto \in 0 .. MaxMasters
  /\ call.all => call.upto = count
  /\ \A m \in MasterIDs : arrived[m] \in 0 .. MaxTags /\ Len(received[m]) <= arrived[m]
  /\ call.op = "copy" =>
       call.limit \in 1 .. Len(received[call.at]) /\ call.copied \in 0 .. call.limit
  /\ runs \in BOOLEAN

(* Whatever calls for all masters and for one are mixed: what was given,     *)
(* what the present call has and what is in the list of the link hold no    *)
(* tag of a master twice or out of order, and every tag that arrived is     *)
(* among them, unless another tag was added to its list while that was      *)
(* being copied (FE_TCP.cpp:113-131, NetLink.cpp:22-38).                    *)
FirstKept(m) == IF call.op = "copy" /\ call.at = m THEN call.copied + 1 ELSE 1
InHand == given \o call.got
InList(m) == SubSeq(received[m], FirstKept(m), Len(received[m]))
Accounted(m) == InHand \o InList(m)

Whole(t) == t.n # 0

TagsAccounted ==
  \A m \in MasterIDs :
    /\ {t \in Range(Accounted(m)) : t.from = m /\ Whole(t)} \subseteq
         {Tag(m, n) : n \in 1 .. arrived[m]}
    /\ {Tag(m, n) : n \in 1 .. arrived[m]} \subseteq Range(Accounted(m)) \cup overlapped
    /\ \A i, j \in DOMAIN Accounted(m) :
         LET s == Accounted(m)[i]
             t == Accounted(m)[j]
         IN  i < j /\ s.from = m /\ t.from = m /\ Whole(s) /\ Whole(t) => s.n < t.n

(* GetAllReceivedTags is done only when it has a tag from the list of every *)
(* master, and has them in the order of the masters, also if a list grew or *)
(* was moved while it was copied (FE_TCP.h:115).                            *)
OneOfEach ==
  call.op = "wait" /\ call.all /\ call.at >= call.upto =>
    /\ {call.got[i].from : i \in DOMAIN call.got} = 0 .. count - 1
    /\ \A i, j \in DOMAIN call.got : i < j => call.got[i].from <= call.got[j].from

(* TRUE from BroadcastTag means that every master of the pool was sent the  *)
(* tag, once, if no smaller number of masters was set in between; a         *)
(* broadcast that has ended the process, or is not over, has gone to the    *)
(* first masters (FE_TCP.cpp:89-101).                                       *)
BroadcastReachesAll ==
  /\ \A i \in DOMAIN result :
       result[i].all /\ result[i].success /\ result[i].upto >= Cardinality(pool) =>
         \A m \in pool : Cardinality({k \in DOMAIN sentTo[m] : sentTo[m][k] = result[i].call}) = 1
  /\ call.op = "send" /\ call.all =>
       {m \in MasterIDs : calls \in Range(sentTo[m])} = 0 .. call.at - 1

(* The process ends in no call but one before Start, one for a master that  *)
(* does not exist, one for all when a greater number of masters was set     *)
(* after Start, and one that copies a list that was moved under the copy    *)
(* (FE_TCP.cpp:30, 70, 98, 118; NetLink.cpp:29).                            *)
EndedOnlyByMisuse ==
  ~runs =>
    \/ pool = {}
    \/ call.all /\ count > Cardinality(pool)
    \/ ~call.all /\ call.upto > Cardinality(pool)
    \/ call.stale

(* A call that receives returns when each of the links it has still to read *)
(* holds a tag, unless it ends the process at a list that was moved; it     *)
(* waits for nothing else, and nobody takes the tags from it                *)
(* (NetLink.cpp:25).                                                        *)
GetReturns ==
  (call.op = "wait" /\ \A m \in call.at .. call.upto - 1 : m \in pool /\ received[m] # <<>>)
    ~> call.op = "none" \/ (~runs /\ call.stale)
=============================================================================
