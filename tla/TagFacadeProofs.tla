-------------------------- MODULE TagFacadeProofs ---------------------------
(***************************************************************************)
(* Theorems about TagFacade for every number of masters, calls and tags.   *)
(***************************************************************************)
EXTENDS TagFacade, SequenceLemmas, FiniteSetTheorems, TLAPS

AnyTag == [from : MasterIDs, n : Nat]
Loop == [op : {"none", "send", "wait", "copy"}, all : BOOLEAN,
         at : 0 .. MaxMasters, upto : 0 .. MaxMasters, got : Seq(AnyTag),
         copied : Nat, limit : Nat, stale : BOOLEAN]
Outcome == [call : Nat, all : BOOLEAN, upto : Nat, success : BOOLEAN]

FacadeTypes ==
  /\ count \in 0 .. MaxMasters
  /\ calls \in 0 .. MaxCalls
  /\ call \in Loop
  /\ sentTo \in [MasterIDs -> Seq(Nat)]
  /\ result \in Seq(Outcome)
  /\ arrived \in [MasterIDs -> 0 .. MaxTags]
  /\ received \in [MasterIDs -> Seq(AnyTag)]
  /\ runs \in BOOLEAN

(* The links are those of the first masters, and a call is somewhere in its  *)
(* loop; the process ends at a master that has no link, or at a list that    *)
(* was moved.                                                                *)
LoopInv ==
  /\ \E n \in 0 .. MaxMasters : pool = 0 .. n - 1
  /\ call.at <= call.upto
  /\ call.op = "none" => call = NoCall
  /\ call.all => call.upto = count
  /\ call.op = "copy" =>
       /\ call.at < call.upto
       /\ call.limit \in 1 .. Len(received[call.at])
       /\ call.copied \in 0 .. call.limit
  /\ call.op # "copy" => call.copied = 0 /\ ~call.stale
  /\ ~runs => call.at < call.upto /\ (call.at \notin pool \/ call.stale)

(* The list of a link holds tags of its master alone. *)
ListInv ==
  \A m \in MasterIDs :
    /\ Len(received[m]) <= arrived[m]
    /\ \A i \in 1 .. Len(received[m]) : received[m][i].from = m

(* The last master of which a call that receives has copied a tag. *)
Done == IF call.op = "copy" /\ call.copied > 0 THEN call.at ELSE call.at - 1

(* A call that receives from all masters has tags of each one up to there.   *)
CollectInv ==
  call.op \in {"wait", "copy"} /\ call.all =>
    /\ {call.got[i].from : i \in 1 .. Len(call.got)} = 0 .. Done
    /\ \A i, j \in 1 .. Len(call.got) : i < j => call.got[i].from <= call.got[j].from

(* A master is sent each tag once, in the order of the calls; a broadcast    *)
(* has reached the masters its loop has passed, and one that has returned    *)
(* those it was for.                                                         *)
SentInv ==
  /\ \A m \in MasterIDs :
       /\ \A k \in 1 .. Len(sentTo[m]) :
            sentTo[m][k] <= calls /\ (call.op = "send" /\ call.at <= m => sentTo[m][k] < calls)
       /\ \A k, l \in 1 .. Len(sentTo[m]) : k < l => sentTo[m][k] < sentTo[m][l]
       /\ call.op = "send" /\ call.all /\ m < call.at =>
            \E k \in 1 .. Len(sentTo[m]) : sentTo[m][k] = calls
  /\ \A i \in 1 .. Len(result) : result[i].all =>
       \A m \in MasterIDs : m < result[i].upto =>
         \E k \in 1 .. Len(sentTo[m]) : sentTo[m][k] = result[i].call

FacadeInv == FacadeTypes /\ LoopInv /\ ListInv /\ CollectInv /\ SentInv

-----------------------------------------------------------------------------
(* What is appended comes behind all the rest. *)
LEMMA AppendAt ==
  ASSUME NEW S, NEW s \in Seq(S), NEW x \in S
  PROVE  /\ Len(s) \in Nat
         /\ Append(s, x) \in Seq(S) /\ Len(Append(s, x)) = Len(s) + 1
         /\ \A i \in 1 .. Len(s) : Append(s, x)[i] = s[i] /\ i \in 1 .. Len(s) + 1
         /\ Append(s, x)[Len(s) + 1] = x
         /\ \A i \in 1 .. Len(s) + 1 : i \in 1 .. Len(s) \/ i = Len(s) + 1
<1>1. Len(s) \in Nat
  BY LenProperties
<1>2. /\ Append(s, x) \in Seq(S) /\ Len(Append(s, x)) = Len(s) + 1
      /\ \A i \in 1 .. Len(s) : Append(s, x)[i] = s[i]
      /\ Append(s, x)[Len(s) + 1] = x
  BY AppendProperties
<1> QED
  BY <1>1, <1>2

(* The numbers the later steps count with. *)
LEMMA Numbers ==
  /\ MaxMasters \in Nat \ {0} /\ MaxCalls \in Nat /\ MaxTags \in Nat
  /\ \A m \in MasterIDs : m \in Nat /\ m + 1 \in 0 .. MaxMasters
  /\ \A k \in 0 .. MaxMasters : k \in Nat
  /\ \A k \in 0 .. MaxCalls : k \in Nat
BY TagFacadeAssumption DEF MasterIDs

(* The master a loop is at is one of the masters.                            *)
LEMMA AtMaster ==
  ASSUME FacadeTypes, call.at < call.upto
  PROVE  call.at \in MasterIDs /\ call.at + 1 \in 0 .. MaxMasters /\ call.at + 1 <= call.upto
BY SMTT(30), Numbers DEF FacadeTypes, Loop, MasterIDs

BeginsAny ==
  \/ BroadcastTag \/ GetAllReceivedTags
  \/ \E m \in MasterIDs : SendTag(m) \/ GetReceivedTagsFrom(m)

(* How every call begins.                                                    *)
LEMMA BeginStep ==
  ASSUME FacadeTypes, BeginsAny
  PROVE  \E loop \in Loop :
           /\ Begin(loop)
           /\ loop.op \in {"send", "wait"} /\ loop.at <= loop.upto
           /\ loop.copied = 0 /\ ~loop.stale
           /\ loop.got = <<>> /\ (loop.all => loop.at = 0 /\ loop.upto = count)
<1>3. /\ NoCall \in Loop /\ NoCall.got = <<>> /\ NoCall.all = FALSE
      /\ NoCall.copied = 0 /\ NoCall.stale = FALSE
  <2>1. <<>> \in Seq(AnyTag) /\ 0 \in 0 .. MaxMasters
    BY EmptySeq, Numbers
  <2> QED
    BY <2>1 DEF NoCall, Loop
<1>1. ASSUME NEW op \in {"send", "wait"}, ForAll(op)
      PROVE  \E loop \in Loop :
               /\ Begin(loop)
               /\ loop.op \in {"send", "wait"} /\ loop.at <= loop.upto
               /\ loop.copied = 0 /\ ~loop.stale
               /\ loop.got = <<>> /\ (loop.all => loop.at = 0 /\ loop.upto = count)
  <2>1. PICK loop : loop = [NoCall EXCEPT !.op = op, !.all = TRUE, !.at = 0, !.upto = count]
    OBVIOUS
  <2>2. Begin(loop)
    BY <1>1, <2>1 DEF ForAll, FirstMaster, AllMasters
  <2>3. 0 \in 0 .. MaxMasters /\ count \in 0 .. MaxMasters /\ 0 <= count
    BY Numbers DEF FacadeTypes
  <2>4. loop \in Loop
    BY <1>3, <2>1, <2>3 DEF Loop
  <2>5. /\ loop.op = op /\ loop.all = TRUE /\ loop.at = 0 /\ loop.upto = count
        /\ loop.got = NoCall.got /\ loop.copied = NoCall.copied /\ loop.stale = NoCall.stale
    BY <1>3, <2>1 DEF Loop
  <2> QED
    BY <1>3, <2>2, <2>3, <2>4, <2>5
<1>2. ASSUME NEW op \in {"send", "wait"}, NEW m \in MasterIDs, ForOne(op, m)
      PROVE  \E loop \in Loop :
               /\ Begin(loop)
               /\ loop.op \in {"send", "wait"} /\ loop.at <= loop.upto
               /\ loop.copied = 0 /\ ~loop.stale
               /\ loop.got = <<>> /\ (loop.all => loop.at = 0 /\ loop.upto = count)
  <2>1. PICK loop : loop = [NoCall EXCEPT !.op = op, !.at = m, !.upto = m + 1]
    OBVIOUS
  <2>2. Begin(loop)
    BY <1>2, <2>1 DEF ForOne
  <2>3. m \in 0 .. MaxMasters /\ m + 1 \in 0 .. MaxMasters /\ m <= m + 1
    BY Numbers
  <2>4. loop \in Loop
    BY <1>3, <2>1, <2>3 DEF Loop
  <2>5. /\ loop.op = op /\ loop.all = NoCall.all /\ loop.at = m /\ loop.upto = m + 1
        /\ loop.got = NoCall.got /\ loop.copied = NoCall.copied /\ loop.stale = NoCall.stale
    BY <1>3, <2>1 DEF Loop
  <2> QED
    BY <1>3, <2>2, <2>3, <2>4, <2>5
<1> QED
  BY <1>1, <1>2 DEF BeginsAny, BroadcastTag, GetAllReceivedTags, SendTag, GetReceivedTagsFrom

(* No link, no call, no tag. *)
LEMMA InitFacade == Init => FacadeInv
<1> SUFFICES ASSUME Init PROVE FacadeInv
  OBVIOUS
<1>0. /\ <<>> \in Seq(Nat) /\ <<>> \in Seq(AnyTag) /\ <<>> \in Seq(Outcome)
      /\ Len(<<>>) = 0
  BY EmptySeq
<1>1. FacadeTypes
  <2>1. 1 \in 0 .. MaxMasters /\ 0 \in 0 .. MaxMasters /\ 0 \in 0 .. MaxCalls /\ 0 \in 0 .. MaxTags
    BY Numbers
  <2>2. call \in Loop
    BY <1>0, <2>1 DEF Init, NoCall, Loop
  <2> QED
    BY <1>0, <2>1, <2>2 DEF Init, FacadeTypes
<1>2. LoopInv
  <2>1. 0 \in 0 .. MaxMasters /\ 0 .. 0 - 1 = {}
    BY Numbers
  <2> QED
    BY <2>1 DEF Init, LoopInv, NoCall
<1>3. ListInv
  BY <1>0, Numbers DEF Init, ListInv
<1>4. CollectInv /\ SentInv
  BY <1>0 DEF Init, CollectInv, SentInv, NoCall
<1> QED
  BY <1>1, <1>2, <1>3, <1>4 DEF FacadeInv

-----------------------------------------------------------------------------
(* What the rounds of a call do to it. *)
LEMMA SendRound ==
  ASSUME FacadeTypes, SendToNext
  PROVE  /\ call.at \in MasterIDs /\ call.op = "send" /\ call.at < call.upto
         /\ call' \in Loop /\ call'.op = "send" /\ call'.at = call.at + 1
         /\ call'.all = call.all /\ call'.upto = call.upto /\ call'.got = call.got
         /\ call'.copied = call.copied /\ call'.stale = call.stale
<1>1. call.op = "send" /\ call.at < call.upto /\ call' = [call EXCEPT !.at = @ + 1] /\ call \in Loop
  BY DEF SendToNext, InLoop, FacadeTypes
<1>2. call.at \in MasterIDs /\ call.at + 1 \in 0 .. MaxMasters
  BY <1>1, AtMaster
<1>3. call' \in Loop
  BY <1>1, <1>2 DEF Loop
<1>4. /\ call'.op = "send" /\ call'.at = call.at + 1
      /\ call'.all = call.all /\ call'.upto = call.upto /\ call'.got = call.got
      /\ call'.copied = call.copied /\ call'.stale = call.stale
  BY <1>1 DEF Loop
<1> QED
  BY <1>1, <1>2, <1>3, <1>4

(* A round of GetReceivedTags begins to copy a list that holds a tag. *)
LEMMA BeginCopyRound ==
  ASSUME FacadeTypes, BeginCopy
  PROVE  /\ call.at \in MasterIDs /\ call.op = "wait" /\ call.at < call.upto
         /\ Len(received[call.at]) \in Nat \ {0}
         /\ call' \in Loop /\ call'.op = "copy" /\ call'.at = call.at
         /\ call'.all = call.all /\ call'.upto = call.upto /\ call'.got = call.got
         /\ call'.copied = call.copied /\ call'.stale = call.stale
         /\ call'.limit = Len(received[call.at])
<1>1. /\ call.op = "wait" /\ call.at < call.upto /\ call \in Loop
      /\ call' = [call EXCEPT !.op = "copy", !.limit = Len(received[call.at])]
      /\ Len(received[call.at]) > 0
  BY DEF BeginCopy, InLoop, FacadeTypes, HasTags
<1>2. call.at \in MasterIDs /\ received[call.at] \in Seq(AnyTag)
  BY <1>1, AtMaster DEF FacadeTypes
<1>3. Len(received[call.at]) \in Nat
  BY <1>2, LenProperties
<1>4. call' \in Loop
  BY <1>1, <1>3 DEF Loop
<1>5. /\ call'.op = "copy" /\ call'.at = call.at
      /\ call'.all = call.all /\ call'.upto = call.upto /\ call'.got = call.got
      /\ call'.copied = call.copied /\ call'.stale = call.stale
      /\ call'.limit = Len(received[call.at])
  BY <1>1 DEF Loop
<1>6. Len(received[call.at]) \in Nat \ {0}
  BY <1>1, <1>3
<1> QED
  BY <1>1, <1>2, <1>4, <1>5, <1>6

(* What copying one tag gets. *)
IsCopied(t) ==
  \/ t = received[call.at][call.copied + 1]
  \/ t = BrokenTag(call.at) /\ call.stale

(* A step that copies a tag moves no other field of the call. *)
LEMMA CopyOneRound ==
  ASSUME FacadeTypes, LoopInv, CopyTag \/ CopyDeadMemory
  PROVE  /\ call.at \in MasterIDs /\ call.op = "copy" /\ call.at < call.upto
         /\ call.copied + 1 \in 1 .. call.limit
         /\ call.copied + 1 \in 1 .. Len(received[call.at])
         /\ call' \in Loop /\ call'.op = "copy" /\ call'.at = call.at
         /\ call'.all = call.all /\ call'.upto = call.upto
         /\ call'.copied = call.copied + 1 /\ call'.limit = call.limit
         /\ call'.stale = call.stale
         /\ \E t \in AnyTag : IsCopied(t) /\ call'.got = Append(call.got, t)
<1>1. /\ call.op = "copy" /\ call.at < call.upto /\ call \in Loop
      /\ call.copied < call.limit
  BY DEF CopyTag, CopyDeadMemory, InLoop, FacadeTypes
<1>2. PICK t : IsCopied(t) /\ Got(t)
  BY DEF CopyTag, CopyDeadMemory, IsCopied
<1>3. call.at \in MasterIDs /\ received[call.at] \in Seq(AnyTag) /\ call.got \in Seq(AnyTag)
  BY <1>1, AtMaster DEF FacadeTypes, Loop
<1>4. /\ call.limit \in 1 .. Len(received[call.at]) /\ Len(received[call.at]) \in Nat
      /\ call.copied \in Nat
  BY <1>1, <1>3, LenProperties DEF LoopInv, Loop
<1>5. call.copied + 1 \in 1 .. call.limit /\ call.copied + 1 \in 1 .. Len(received[call.at])
  BY <1>1, <1>4
<1>6. t \in AnyTag
  <2>1. received[call.at][call.copied + 1] \in AnyTag
    BY <1>3, <1>5, ElementOfSeq
  <2>2. BrokenTag(call.at) \in AnyTag
    BY <1>3 DEF BrokenTag, Tag, AnyTag
  <2> QED
    BY <1>2, <2>1, <2>2 DEF IsCopied
<1>7. Append(call.got, t) \in Seq(AnyTag) /\ call.copied + 1 \in Nat
  BY <1>3, <1>4, <1>6, AppendAt
<1>8. call' = [call EXCEPT !.got = Append(@, t), !.copied = @ + 1]
  BY <1>2 DEF Got
<1>9. call' \in Loop
  BY <1>1, <1>7, <1>8 DEF Loop
<1>10. /\ call'.op = "copy" /\ call'.at = call.at
       /\ call'.all = call.all /\ call'.upto = call.upto
       /\ call'.copied = call.copied + 1 /\ call'.limit = call.limit
       /\ call'.stale = call.stale /\ call'.got = Append(call.got, t)
  BY <1>1, <1>8 DEF Loop
<1> QED
  BY <1>1, <1>2, <1>3, <1>5, <1>6, <1>9, <1>10

(* A round that clears goes on to the next master. *)
LEMMA ClearRound ==
  ASSUME FacadeTypes, ClearNext
  PROVE  /\ call.at \in MasterIDs /\ call.op = "copy" /\ call.at < call.upto
         /\ call.copied = call.limit
         /\ received' = [received EXCEPT ![call.at] = <<>>]
         /\ call' \in Loop /\ call'.op = "wait" /\ call'.at = call.at + 1
         /\ call'.all = call.all /\ call'.upto = call.upto /\ call'.got = call.got
         /\ call'.copied = 0 /\ ~call'.stale
<1>1. /\ call.op = "copy" /\ call.at < call.upto /\ call \in Loop /\ call.copied = call.limit
      /\ call' = [call EXCEPT !.op = "wait", !.copied = 0, !.limit = 0, !.stale = FALSE,
                              !.at = @ + 1]
      /\ received' = [received EXCEPT ![call.at] = <<>>]
  BY DEF ClearNext, InLoop, FacadeTypes, Cleared
<1>2. call.at \in MasterIDs /\ call.at + 1 \in 0 .. MaxMasters
  BY <1>1, AtMaster
<1>3. call' \in Loop
  BY <1>1, <1>2 DEF Loop
<1>4. /\ call'.op = "wait" /\ call'.at = call.at + 1
      /\ call'.all = call.all /\ call'.upto = call.upto /\ call'.got = call.got
      /\ call'.copied = 0 /\ call'.stale = FALSE
  BY <1>1 DEF Loop
<1> QED
  BY <1>1, <1>2, <1>3, <1>4

(* A tag that comes in changes at most one field of the call. *)
LEMMA ReceiveRound ==
  ASSUME FacadeTypes, NEW m \in MasterIDs, ReceiveTag(m)
  PROVE  /\ call' \in Loop /\ call'.op = call.op /\ call'.at = call.at
         /\ call'.all = call.all /\ call'.upto = call.upto /\ call'.got = call.got
         /\ call'.copied = call.copied /\ call'.limit = call.limit
         /\ (call.op = "copy" /\ call.at = m) \/ call' = call
<1>1. CASE call.op = "copy" /\ call.at = m
  <2>1. PICK moved \in BOOLEAN : call' = [call EXCEPT !.stale = @ \/ moved]
    BY <1>1 DEF ReceiveTag
  <2>2. call \in Loop
    BY DEF FacadeTypes
  <2>3. (call.stale \/ moved) \in BOOLEAN
    OBVIOUS
  <2>4. PICK b \in BOOLEAN : call' = [call EXCEPT !.stale = b]
    BY <2>1, <2>3, Zenon
  <2> QED
    BY <1>1, <2>2, <2>4 DEF Loop
<1>2. CASE ~(call.op = "copy" /\ call.at = m)
  BY <1>2 DEF ReceiveTag, FacadeTypes
<1> QED
  BY <1>1, <1>2

(* The record that stands for no call has the types of a call. *)
LEMMA NoCallTyped ==
  /\ NoCall \in Loop /\ NoCall.op = "none" /\ NoCall.all = FALSE /\ NoCall.at = 0 /\ NoCall.upto = 0
  /\ NoCall.copied = 0 /\ NoCall.stale = FALSE
<1>1. <<>> \in Seq(AnyTag) /\ 0 \in 0 .. MaxMasters
  BY EmptySeq, Numbers
<1> QED
  BY <1>1 DEF NoCall, Loop

(* Every action keeps the types. *)
LEMMA TypesStep ==
  ASSUME FacadeTypes, LoopInv, [Next]_vars
  PROVE  FacadeTypes'
<1>1. CASE UNCHANGED vars
  BY <1>1 DEF vars, FacadeTypes
<1>2. ASSUME NEW n \in 0 .. MaxMasters, SetMastersCount(n) PROVE FacadeTypes'
  BY <1>2 DEF SetMastersCount, FacadeTypes
<1>3. CASE Start
  BY <1>3 DEF Start, FacadeTypes
<1>4. ASSUME NEW m \in MasterIDs, ReceiveTag(m) PROVE FacadeTypes'
  <2>1. arrived[m] + 1 \in 0 .. MaxTags /\ arrived[m] + 1 \in Nat
    BY <1>4, Numbers DEF ReceiveTag, FacadeTypes
  <2>2. Tag(m, arrived[m] + 1) \in AnyTag
    BY <2>1 DEF Tag, AnyTag
  <2>3. Append(received[m], Tag(m, arrived[m] + 1)) \in Seq(AnyTag)
    BY <2>2, AppendAt DEF FacadeTypes
  <2> QED
    <3>1. call' \in Loop
      BY <1>4, ReceiveRound
    <3>2. /\ UNCHANGED <<count, calls, sentTo, result, runs>>
          /\ arrived' = [arrived EXCEPT ![m] = @ + 1]
          /\ received' = [received EXCEPT ![m] = Append(@, Tag(m, arrived[m] + 1))]
      BY <1>4 DEF ReceiveTag
    <3> QED
      BY <2>1, <2>3, <3>1, <3>2 DEF FacadeTypes
<1>5. CASE BeginsAny
  <2>1. PICK loop \in Loop : Begin(loop)
    BY <1>5, BeginStep
  <2> QED
    BY <2>1, Numbers DEF Begin, FacadeTypes
<1>6. CASE RefuseTimeOut
  BY <1>6, Numbers DEF RefuseTimeOut, FacadeTypes
<1>7. CASE SendToNext
  <2>1. call.at \in MasterIDs /\ call' \in Loop
    BY <1>7, SendRound
  <2>2. calls \in Nat
    BY Numbers DEF FacadeTypes
  <2>3. Append(sentTo[call.at], calls) \in Seq(Nat)
    BY <2>1, <2>2, AppendAt DEF FacadeTypes
  <2> QED
    BY <1>7, <2>1, <2>3 DEF SendToNext, FacadeTypes
<1>8. CASE BeginCopy
  <2>1. call' \in Loop
    BY <1>8, BeginCopyRound
  <2> QED
    BY <1>8, <2>1 DEF BeginCopy, FacadeTypes
<1>12. CASE CopyTag \/ CopyDeadMemory
  <2>1. call' \in Loop
    BY <1>12, CopyOneRound
  <2> QED
    BY <1>12, <2>1 DEF CopyTag, CopyDeadMemory, FacadeTypes
<1>9. CASE ClearNext
  <2>1. /\ call' \in Loop /\ call.at \in MasterIDs /\ <<>> \in Seq(AnyTag)
        /\ received' = [received EXCEPT ![call.at] = <<>>]
    BY <1>9, ClearRound, EmptySeq
  <2> QED
    BY <1>9, <2>1 DEF ClearNext, FacadeTypes
<1>10. CASE UseEmptyLink
  BY <1>10 DEF UseEmptyLink, FacadeTypes
<1>11. CASE Return
  <2>1. result' \in Seq(Outcome)
    <3>1. CASE call.op = "send"
      <4> DEFINE o == [call |-> calls, all |-> call.all, upto |-> call.upto, success |-> call.upto > 0]
      <4>1. calls \in Nat /\ call.all \in BOOLEAN /\ call.upto \in Nat
        BY Numbers DEF FacadeTypes, Loop
      <4>2. o \in Outcome
        BY <4>1 DEF Outcome
      <4>3. result' = Append(result, o)
        BY <1>11, <3>1 DEF Return
      <4> HIDE DEF o
      <4> QED
        BY <4>2, <4>3, AppendAt DEF FacadeTypes
    <3>2. CASE call.op # "send"
      BY <1>11, <3>2 DEF Return, FacadeTypes
    <3> QED
      BY <3>1, <3>2
  <2> QED
    BY <1>11, <2>1, NoCallTyped DEF Return, FacadeTypes
<1> QED
  BY <1>1, <1>2, <1>3, <1>4, <1>5, <1>6, <1>7, <1>8, <1>9, <1>10, <1>11,
     <1>12 DEF Next, BeginsAny

(* Every action leaves a call within its loop. *)
LEMMA LoopStep ==
  ASSUME FacadeTypes, LoopInv, [Next]_vars
  PROVE  LoopInv'
<1>1. CASE UNCHANGED vars
  BY <1>1 DEF vars, LoopInv
<1>2. ASSUME NEW n \in 0 .. MaxMasters, SetMastersCount(n) PROVE LoopInv'
  BY <1>2, NoCallTyped DEF SetMastersCount, Idle, LoopInv
<1>3. CASE Start
  BY <1>3 DEF Start, Idle, LoopInv, FacadeTypes
<1>4. ASSUME NEW m \in MasterIDs, ReceiveTag(m) PROVE LoopInv'
  <2>1. /\ UNCHANGED <<count, pool, runs>> /\ runs
        /\ received' = [received EXCEPT ![m] = Append(@, Tag(m, arrived[m] + 1))]
    BY <1>4 DEF ReceiveTag
  <2>2. ASSUME call.op = "copy" PROVE call.limit \in 1 .. Len(received'[call.at])
    <3>1. call.at \in MasterIDs /\ call.limit \in 1 .. Len(received[call.at])
      BY <2>2, AtMaster DEF LoopInv
    <3>2. CASE m = call.at
      <4>1. arrived[m] + 1 \in Nat /\ received[m] \in Seq(AnyTag)
        BY Numbers DEF FacadeTypes
      <4>2. Tag(m, arrived[m] + 1) \in AnyTag
        BY <4>1 DEF Tag, AnyTag
      <4>3. Len(Append(received[m], Tag(m, arrived[m] + 1))) = Len(received[m]) + 1 /\ Len(received[m]) \in Nat
        BY <4>1, <4>2, AppendAt
      <4>4. received'[m] = Append(received[m], Tag(m, arrived[m] + 1))
        BY <2>1 DEF FacadeTypes
      <4> QED
        BY <3>1, <3>2, <4>3, <4>4
    <3>3. CASE m # call.at
      BY <2>1, <3>1, <3>3 DEF FacadeTypes
    <3> QED
      BY <3>2, <3>3
  <2>3. /\ call'.op = call.op /\ call'.at = call.at
        /\ call'.all = call.all /\ call'.upto = call.upto
        /\ call'.copied = call.copied /\ call'.limit = call.limit
        /\ call.op = "copy" \/ call' = call
    BY <1>4, ReceiveRound
  <2>4. CASE call.op = "copy"
    BY <2>1, <2>2, <2>3, <2>4 DEF LoopInv
  <2>5. CASE call.op # "copy"
    <3>1. call' = call
      BY <2>3, <2>5
    <3> QED
      BY <2>1, <2>5, <3>1 DEF LoopInv
  <2> QED
    BY <2>4, <2>5
<1>5. CASE BeginsAny
  <2>1. PICK loop \in Loop :
          /\ Begin(loop)
          /\ loop.op \in {"send", "wait"} /\ loop.at <= loop.upto
          /\ loop.copied = 0 /\ ~loop.stale
          /\ (loop.all => loop.at = 0 /\ loop.upto = count)
    BY <1>5, BeginStep
  <2> QED
    BY <2>1 DEF Begin, Idle, LoopInv
<1>6. CASE RefuseTimeOut
  BY <1>6 DEF RefuseTimeOut, LoopInv
<1>7. CASE SendToNext
  <2>1. /\ call.at < call.upto /\ call'.op = "send" /\ call'.at = call.at + 1
        /\ call'.all = call.all /\ call'.upto = call.upto
        /\ call.op = "send" /\ call'.copied = call.copied /\ call'.stale = call.stale
        /\ call.at \in Nat /\ call.upto \in Nat
    BY <1>7, SendRound, Numbers DEF FacadeTypes, Loop
  <2>2. UNCHANGED <<count, pool, received>> /\ runs /\ runs'
    BY <1>7 DEF SendToNext, InLoop
  <2> QED
    BY <2>1, <2>2 DEF LoopInv
<1>8. CASE BeginCopy
  <2>1. /\ call.at < call.upto /\ call'.op = "copy" /\ call'.at = call.at
        /\ call'.all = call.all /\ call'.upto = call.upto
        /\ call.op = "wait" /\ call'.copied = call.copied
        /\ call'.limit = Len(received[call.at]) /\ Len(received[call.at]) \in Nat \ {0}
    BY <1>8, BeginCopyRound
  <2>2. UNCHANGED <<count, pool, received>> /\ runs /\ runs'
    BY <1>8 DEF BeginCopy, InLoop
  <2>3. call'.copied = 0
    BY <2>1 DEF LoopInv
  <2>4. call'.limit \in 1 .. Len(received'[call'.at]) /\ call'.copied \in 0 .. call'.limit
    BY <2>1, <2>2, <2>3
  <2> QED
    BY <2>1, <2>2, <2>4 DEF LoopInv
<1>12. CASE CopyTag \/ CopyDeadMemory
  <2>1. /\ call.at < call.upto /\ call.op = "copy" /\ call'.op = "copy" /\ call'.at = call.at
        /\ call'.all = call.all /\ call'.upto = call.upto
        /\ call'.copied \in 1 .. call.limit /\ call'.limit = call.limit
        /\ call'.stale = call.stale
    BY <1>12, CopyOneRound
  <2>2. /\ UNCHANGED <<count, pool, received>> /\ runs
        /\ call.stale \/ runs'
    BY <1>12 DEF CopyTag, CopyDeadMemory, InLoop
  <2>3. call'.limit \in 1 .. Len(received'[call'.at]) /\ call'.copied \in 0 .. call'.limit
    BY <2>1, <2>2 DEF LoopInv
  <2> QED
    BY <2>1, <2>2, <2>3 DEF LoopInv
<1>9. CASE ClearNext
  <2>1. /\ call.at < call.upto /\ call'.op = "wait" /\ call'.at = call.at + 1
        /\ call'.all = call.all /\ call'.upto = call.upto
        /\ call'.copied = 0 /\ ~call'.stale
        /\ call.at \in Nat /\ call.upto \in Nat
    BY <1>9, ClearRound, Numbers DEF FacadeTypes, Loop
  <2>2. UNCHANGED <<count, pool>> /\ runs /\ runs'
    BY <1>9 DEF ClearNext, InLoop
  <2> QED
    BY <2>1, <2>2 DEF LoopInv
<1>10. CASE UseEmptyLink
  BY <1>10 DEF UseEmptyLink, InLoop, LoopInv
<1>11. CASE Return
  BY <1>11, NoCallTyped DEF Return, LoopInv
<1> QED
  BY <1>1, <1>2, <1>3, <1>4, <1>5, <1>6, <1>7, <1>8, <1>9, <1>10, <1>11,
     <1>12 DEF Next, BeginsAny

(* A tag of its master enters the list of a link, and nothing else does.     *)
LEMMA ListStep ==
  ASSUME FacadeTypes, ListInv, [Next]_vars
  PROVE  ListInv'
<1>1. ASSUME UNCHANGED <<arrived, received>> PROVE ListInv'
  BY <1>1 DEF ListInv
<1>2. ASSUME NEW m \in MasterIDs, ReceiveTag(m) PROVE ListInv'
  <2> DEFINE s == received[m]
             x == Tag(m, arrived[m] + 1)
  <2>1. arrived[m] + 1 \in Nat /\ arrived[m] \in Nat /\ s \in Seq(AnyTag)
    BY Numbers DEF FacadeTypes
  <2>2. x \in AnyTag /\ x.from = m
    BY <2>1 DEF Tag, AnyTag
  <2>3. /\ Len(s) \in Nat /\ Len(Append(s, x)) = Len(s) + 1
        /\ \A i \in 1 .. Len(s) : Append(s, x)[i] = s[i]
        /\ Append(s, x)[Len(s) + 1] = x
        /\ \A i \in 1 .. Len(s) + 1 : i \in 1 .. Len(s) \/ i = Len(s) + 1
    BY <2>1, <2>2, AppendAt
  <2>4. Len(s) <= arrived[m] /\ \A i \in 1 .. Len(s) : s[i].from = m
    BY DEF ListInv
  <2>5. /\ received'[m] = Append(s, x) /\ arrived'[m] = arrived[m] + 1
        /\ \A k \in MasterIDs : k # m => received'[k] = received[k] /\ arrived'[k] = arrived[k]
    BY <1>2 DEF ReceiveTag, FacadeTypes
  <2> HIDE DEF s, x
  <2>6. \A i \in 1 .. Len(Append(s, x)) : Append(s, x)[i].from = m
    BY <2>2, <2>3, <2>4
  <2>7. Len(received'[m]) <= arrived'[m] /\ \A i \in 1 .. Len(received'[m]) : received'[m][i].from = m
    BY <2>1, <2>3, <2>4, <2>5, <2>6
  <2> QED
    BY <2>5, <2>7 DEF ListInv
<1>3. CASE ClearNext
  <2>1. /\ call.at \in MasterIDs /\ received' = [received EXCEPT ![call.at] = <<>>]
        /\ UNCHANGED arrived
    BY <1>3, ClearRound DEF ClearNext
  <2>2. Len(<<>>) = 0
    BY EmptySeq
  <2>3. received'[call.at] = <<>> /\ arrived[call.at] \in Nat
        /\ \A k \in MasterIDs : k # call.at => received'[k] = received[k]
    BY <2>1, Numbers DEF FacadeTypes
  <2> QED
    BY <2>1, <2>2, <2>3 DEF ListInv
<1>4. CASE BeginsAny
  <2>1. PICK loop \in Loop : Begin(loop)
    BY <1>4, BeginStep
  <2> QED
    BY <1>1, <2>1 DEF Begin
<1> QED
  BY <1>1, <1>2, <1>3, <1>4 DEF Next, vars, BeginsAny, SetMastersCount, Start, RefuseTimeOut,
     SendToNext, BeginCopy, CopyTag, CopyDeadMemory, UseEmptyLink, Return

(* One more tag of the last master, or one of the next, comes behind the     *)
(* tags of those before.                                                     *)
LEMMA CollectOne ==
  ASSUME NEW got \in Seq(AnyTag), NEW t \in AnyTag, NEW k \in Nat, t.from = k,
         \/ {got[i].from : i \in 1 .. Len(got)} = 0 .. k - 1
         \/ {got[i].from : i \in 1 .. Len(got)} = 0 .. k,
         \A i, j \in 1 .. Len(got) : i < j => got[i].from <= got[j].from
  PROVE  /\ {Append(got, t)[i].from : i \in 1 .. Len(Append(got, t))} = 0 .. k
         /\ \A i, j \in 1 .. Len(Append(got, t)) :
              i < j => Append(got, t)[i].from <= Append(got, t)[j].from
<1>1. PICK g : g = Append(got, t)
  OBVIOUS
<1>2. /\ Len(got) \in Nat /\ Len(g) = Len(got) + 1
      /\ \A i \in 1 .. Len(got) : g[i] = got[i] /\ i \in 1 .. Len(g)
      /\ g[Len(got) + 1] = t
      /\ \A i \in 1 .. Len(g) : i \in 1 .. Len(got) \/ i = Len(got) + 1
  BY <1>1, AppendAt
<1>3. Len(got) + 1 \in 1 .. Len(g) /\ \A i \in 1 .. Len(got) : i < Len(got) + 1 /\ ~(Len(got) + 1 < i)
  BY <1>2
<1>4. \A i \in 1 .. Len(got) : got[i].from \in 0 .. k
  <2>1. \A i \in 1 .. Len(got) : got[i].from \in 0 .. k - 1 \/ got[i].from \in 0 .. k
    OBVIOUS
  <2> QED
    BY <2>1
<1>5. \A j \in 0 .. k : j = k \/ \E i \in 1 .. Len(got) : got[i].from = j
  <2> SUFFICES ASSUME NEW j \in 0 .. k, j # k PROVE \E i \in 1 .. Len(got) : got[i].from = j
    OBVIOUS
  <2>1. j \in 0 .. k - 1
    OBVIOUS
  <2>2. j \in {got[i].from : i \in 1 .. Len(got)}
    BY <2>1
  <2> QED
    BY <2>2
<1>6. \A i \in 1 .. Len(g) : g[i].from \in 0 .. k
  BY <1>2, <1>4
<1>7. \A j \in 0 .. k : \E i \in 1 .. Len(g) : g[i].from = j
  BY <1>2, <1>3, <1>5
<1>8. {g[i].from : i \in 1 .. Len(g)} = 0 .. k
  BY <1>6, <1>7
<1>9. ASSUME NEW i \in 1 .. Len(g), NEW j \in 1 .. Len(g), i < j
      PROVE  g[i].from <= g[j].from
  <2>1. i \in 1 .. Len(got)
    BY <1>2, <1>9
  <2>2. CASE j \in 1 .. Len(got)
    BY <1>2, <1>9, <2>1, <2>2
  <2>3. CASE j = Len(got) + 1
    <3>1. g[i].from \in 0 .. k /\ g[j].from = k
      BY <1>2, <1>6, <2>3
    <3> QED
      BY <3>1
  <2> QED
    BY <1>2, <2>2, <2>3
<1> QED
  BY <1>1, <1>8, <1>9

(* A call for all masters collects from one master after the other. *)
LEMMA CollectStep ==
  ASSUME FacadeTypes, LoopInv, ListInv, CollectInv, [Next]_vars
  PROVE  CollectInv'
<1>1. ASSUME UNCHANGED call PROVE CollectInv'
  BY <1>1 DEF CollectInv, Done
<1>2. CASE BeginsAny
  <2>1. PICK loop \in Loop :
          /\ Begin(loop)
          /\ loop.op \in {"send", "wait"} /\ loop.got = <<>>
          /\ (loop.all => loop.at = 0 /\ loop.upto = count)
    BY <1>2, BeginStep
  <2>2. call' = loop /\ Len(<<>>) = 0 /\ 0 .. 0 - 1 = {} /\ 1 .. 0 = {}
    BY <2>1, EmptySeq DEF Begin
  <2> QED
    BY <2>1, <2>2 DEF CollectInv, Done
<1>3. CASE SendToNext
  <2>1. call'.op = "send"
    BY <1>3, SendRound
  <2> QED
    BY <2>1 DEF CollectInv
<1>4. CASE BeginCopy
  <2>1. /\ call.op = "wait" /\ call'.op = "copy" /\ call'.at = call.at /\ call'.all = call.all
        /\ call'.got = call.got /\ call'.copied = call.copied
    BY <1>4, BeginCopyRound
  <2>2. call'.copied = 0
    BY <2>1 DEF LoopInv
  <2> QED
    BY <2>1, <2>2 DEF CollectInv, Done
<1>7. CASE CopyTag \/ CopyDeadMemory
  <2>1. /\ call.at \in MasterIDs /\ call.op = "copy" /\ call.copied + 1 \in 1 .. Len(received[call.at])
        /\ call'.op = "copy" /\ call'.at = call.at /\ call'.all = call.all
        /\ call'.copied = call.copied + 1
    BY <1>7, CopyOneRound
  <2>2. PICK t \in AnyTag : IsCopied(t) /\ call'.got = Append(call.got, t)
    BY <1>7, CopyOneRound
  <2>3. t.from = call.at
    <3>1. received[call.at][call.copied + 1].from = call.at
      BY <2>1 DEF ListInv
    <3>2. BrokenTag(call.at).from = call.at
      BY DEF BrokenTag, Tag
    <3> QED
      BY <2>2, <3>1, <3>2 DEF IsCopied
  <2> SUFFICES ASSUME call.all
               PROVE  /\ {call'.got[i].from : i \in 1 .. Len(call'.got)} = 0 .. call.at
                      /\ \A i, j \in 1 .. Len(call'.got) : i < j => call'.got[i].from <= call'.got[j].from
    <3>1. call'.copied > 0
      BY <2>1
    <3> QED
      BY <2>1, <3>1 DEF CollectInv, Done
  <2>4. PICK g \in Seq(AnyTag), k \in Nat : g = call.got /\ k = call.at
    BY <2>1, Numbers DEF FacadeTypes, Loop
  <2>5. /\ \/ {g[i].from : i \in 1 .. Len(g)} = 0 .. k - 1
           \/ {g[i].from : i \in 1 .. Len(g)} = 0 .. k
        /\ \A i, j \in 1 .. Len(g) : i < j => g[i].from <= g[j].from
    BY <2>1, <2>4 DEF CollectInv, Done
  <2>6. /\ {Append(g, t)[i].from : i \in 1 .. Len(Append(g, t))} = 0 .. k
        /\ \A i, j \in 1 .. Len(Append(g, t)) :
             i < j => Append(g, t)[i].from <= Append(g, t)[j].from
    BY <2>3, <2>4, <2>5, CollectOne
  <2>7. call'.got = Append(g, t)
    BY <2>2, <2>4
  <2> QED
    BY ZenonT(40), <2>4, <2>6, <2>7
<1>5. CASE ClearNext
  <2>1. /\ call.op = "copy" /\ call'.op = "wait" /\ call'.at = call.at + 1
        /\ call'.all = call.all /\ call'.got = call.got /\ call.at \in MasterIDs
        /\ call.copied = call.limit
    BY <1>5, ClearRound
  <2>2. (call.at + 1) - 1 = call.at
    BY <2>1, Numbers
  <2>3. call.copied > 0
    BY <2>1 DEF LoopInv
  <2> QED
    BY <2>1, <2>2, <2>3 DEF CollectInv, Done
<1>8. ASSUME NEW m \in MasterIDs, ReceiveTag(m) PROVE CollectInv'
  <2>1. /\ call'.op = call.op /\ call'.at = call.at /\ call'.all = call.all
        /\ call'.got = call.got /\ call'.copied = call.copied
    BY <1>8, ReceiveRound
  <2> QED
    BY <2>1 DEF CollectInv, Done
<1>6. CASE Return
  BY <1>6, NoCallTyped DEF Return, CollectInv
<1> QED
  BY <1>1, <1>2, <1>3, <1>4, <1>5, <1>6, <1>7, <1>8 DEF Next, vars, BeginsAny, SetMastersCount,
     Start, RefuseTimeOut, UseEmptyLink

(* A tag is sent to each master once, and after those of earlier calls.      *)
LEMMA SentStep ==
  ASSUME FacadeTypes, LoopInv, SentInv, [Next]_vars
  PROVE  SentInv'
<1>n. /\ calls \in Nat /\ call \in Loop
      /\ \A m \in MasterIDs : m \in Nat /\ sentTo[m] \in Seq(Nat)
      /\ \A m \in MasterIDs : \A k \in 1 .. Len(sentTo[m]) : sentTo[m][k] \in Nat
  <2>1. /\ calls \in Nat /\ call \in Loop
        /\ \A m \in MasterIDs : m \in Nat /\ sentTo[m] \in Seq(Nat)
    BY Numbers DEF FacadeTypes
  <2> QED
    BY <2>1, ElementOfSeq
<1>1. ASSUME UNCHANGED <<calls, call, sentTo, result>> PROVE SentInv'
  BY <1>1 DEF SentInv
<1>b. ASSUME UNCHANGED <<sentTo, result>>, calls' = calls + 1,
             (call' = call /\ call.op = "none") \/ (call'.all => call'.at = 0)
      PROVE  SentInv'
  <2>1. \A m \in MasterIDs : \A k \in 1 .. Len(sentTo[m]) :
          sentTo[m][k] <= calls' /\ sentTo[m][k] < calls'
    BY <1>n, <1>b DEF SentInv
  <2>2. \A m \in MasterIDs : ~(call'.op = "send" /\ call'.all /\ m < call'.at)
    BY <1>n, <1>b
  <2> QED
    BY <1>b, <2>1, <2>2 DEF SentInv
<1>2. CASE BeginsAny
  <2>1. PICK loop \in Loop : Begin(loop) /\ (loop.all => loop.at = 0)
    BY <1>2, BeginStep
  <2> QED
    BY <2>1, <1>b DEF Begin
<1>3. CASE RefuseTimeOut
  BY <1>3, <1>b DEF RefuseTimeOut, Idle
<1>4. CASE SendToNext
  <2>1. /\ call.at \in MasterIDs /\ call.op = "send"
        /\ call'.op = "send" /\ call'.at = call.at + 1 /\ call'.all = call.all
    BY <1>4, SendRound
  <2>2. UNCHANGED <<calls, result>> /\ sentTo' = [sentTo EXCEPT ![call.at] = Append(@, calls)]
    BY <1>4 DEF SendToNext
  <2>3. PICK at \in MasterIDs, s \in Seq(Nat) : at = call.at /\ s = sentTo[call.at]
    BY <1>n, <2>1
  <2>4. at \in Nat /\ call'.at = at + 1
    BY <1>n, <2>1, <2>3
  <2>5. /\ sentTo'[at] = Append(s, calls)
        /\ \A m \in MasterIDs : m # at => sentTo'[m] = sentTo[m]
    BY <2>2, <2>3 DEF FacadeTypes
  <2>6. /\ Len(s) \in Nat /\ Len(Append(s, calls)) = Len(s) + 1
        /\ \A i \in 1 .. Len(s) : Append(s, calls)[i] = s[i] /\ i \in 1 .. Len(s) + 1
        /\ Append(s, calls)[Len(s) + 1] = calls
        /\ \A i \in 1 .. Len(s) + 1 : i \in 1 .. Len(s) \/ i = Len(s) + 1
    BY <1>n, AppendAt
  <2>7. /\ \A k \in 1 .. Len(s) : s[k] \in Nat /\ s[k] < calls
        /\ \A k, l \in 1 .. Len(s) : k < l => s[k] < s[l]
    <3>1. call.at <= at
      BY <2>3, <2>4
    <3> QED
      BY <1>n, <2>1, <2>3, <3>1 DEF SentInv
  <2>8. Len(s) + 1 \in 1 .. Len(Append(s, calls))
    BY <2>6
  <2>9. /\ \A k \in 1 .. Len(Append(s, calls)) : Append(s, calls)[k] <= calls
        /\ \A k, l \in 1 .. Len(Append(s, calls)) : k < l => Append(s, calls)[k] < Append(s, calls)[l]
    <3>1. \A k \in 1 .. Len(s) + 1 : Append(s, calls)[k] <= calls
      BY <1>n, <2>6, <2>7
    <3>2. ASSUME NEW k \in 1 .. Len(s) + 1, NEW l \in 1 .. Len(s) + 1, k < l
          PROVE  Append(s, calls)[k] < Append(s, calls)[l]
      <4>1. k \in 1 .. Len(s)
        BY <2>6, <3>2
      <4> QED
        BY <2>6, <2>7, <3>2, <4>1
    <3> QED
      BY <2>6, <3>1, <3>2
  <2>10. ASSUME NEW m \in MasterIDs
         PROVE  /\ \A k \in 1 .. Len(sentTo'[m]) :
                     sentTo'[m][k] <= calls /\ (at + 1 <= m => sentTo'[m][k] < calls)
                /\ \A k, l \in 1 .. Len(sentTo'[m]) : k < l => sentTo'[m][k] < sentTo'[m][l]
                /\ call.all /\ m < at + 1 =>
                     \E k \in 1 .. Len(sentTo'[m]) : sentTo'[m][k] = calls
    <3>1. CASE m = at
      <4>1. ~(at + 1 <= at)
        BY <2>4
      <4> QED
        BY <2>5, <2>6, <2>8, <2>9, <3>1, <4>1
    <3>2. CASE m # at
      <4>1. sentTo'[m] = sentTo[m] /\ m \in Nat
        BY <1>n, <2>5, <3>2
      <4>2. (at + 1 <= m => at <= m) /\ (m < at + 1 => m < at)
        BY <2>4, <3>2, <4>1
      <4> QED
        BY <2>1, <2>3, <4>1, <4>2 DEF SentInv
    <3> QED
      BY <3>1, <3>2
  <2>11. ASSUME NEW i \in 1 .. Len(result), result[i].all, NEW m \in MasterIDs, m < result[i].upto
         PROVE  \E k \in 1 .. Len(sentTo'[m]) : sentTo'[m][k] = result[i].call
    <3>1. PICK k \in 1 .. Len(sentTo[m]) : sentTo[m][k] = result[i].call
      BY <2>11 DEF SentInv
    <3>2. CASE m = at
      <4>1. k \in 1 .. Len(s) /\ s[k] = result[i].call
        BY <2>3, <3>1, <3>2
      <4> QED
        BY <2>5, <2>6, <3>2, <4>1
    <3>3. CASE m # at
      BY <2>5, <3>1, <3>3
    <3> QED
      BY <3>2, <3>3
  <2>12. ASSUME NEW m \in MasterIDs
         PROVE  /\ \A k \in 1 .. Len(sentTo'[m]) :
                     /\ sentTo'[m][k] <= calls'
                     /\ call'.op = "send" /\ call'.at <= m => sentTo'[m][k] < calls'
                /\ \A k, l \in 1 .. Len(sentTo'[m]) : k < l => sentTo'[m][k] < sentTo'[m][l]
                /\ call'.op = "send" /\ call'.all /\ m < call'.at =>
                     \E k \in 1 .. Len(sentTo'[m]) : sentTo'[m][k] = calls'
    BY <2>1, <2>2, <2>4, <2>10
  <2>13. \A i \in 1 .. Len(result') : result'[i].all =>
           \A m \in MasterIDs : m < result'[i].upto =>
             \E k \in 1 .. Len(sentTo'[m]) : sentTo'[m][k] = result'[i].call
    <3>1. result' = result
      BY <2>2
    <3> SUFFICES ASSUME NEW i \in 1 .. Len(result), result[i].all,
                        NEW m \in MasterIDs, m < result[i].upto
                 PROVE  \E k \in 1 .. Len(sentTo'[m]) : sentTo'[m][k] = result[i].call
      BY <3>1, Zenon
    <3> QED
      BY <2>11
  <2> QED
    BY <2>12, <2>13 DEF SentInv
<1>5. CASE BeginCopy \/ CopyTag \/ CopyDeadMemory \/ ClearNext
  <2>1. UNCHANGED <<calls, sentTo, result>>
    BY <1>5 DEF BeginCopy, CopyTag, CopyDeadMemory, ClearNext
  <2>2. call'.op # "send"
    BY <1>5, BeginCopyRound, CopyOneRound, ClearRound
  <2> QED
    BY <2>1, <2>2 DEF SentInv
<1>7. ASSUME NEW m \in MasterIDs, ReceiveTag(m) PROVE SentInv'
  <2>1. UNCHANGED <<calls, sentTo, result>>
    BY <1>7 DEF ReceiveTag
  <2>2. call'.op = call.op /\ call'.at = call.at /\ call'.all = call.all
    BY <1>7, ReceiveRound
  <2> QED
    BY <2>1, <2>2 DEF SentInv
<1>6. CASE Return
  <2>1. /\ UNCHANGED <<calls, sentTo>> /\ call'.op = "none" /\ call.at >= call.upto
        /\ call.op \in {"send", "wait"}
    BY <1>6, NoCallTyped DEF Return
  <2>2. CASE call.op = "wait"
    <3>1. UNCHANGED result
      BY <1>6, <2>2 DEF Return
    <3> QED
      BY <2>1, <3>1 DEF SentInv
  <2>3. CASE call.op = "send"
    <3>1. PICK o : o = [call |-> calls, all |-> call.all, upto |-> call.upto, success |-> call.upto > 0]
      OBVIOUS
    <3>2. o \in Outcome
      <4>1. calls \in Nat /\ call.all \in BOOLEAN /\ call.upto \in Nat
        BY Numbers DEF FacadeTypes, Loop
      <4> QED
        BY <3>1, <4>1 DEF Outcome
    <3>3. result' = Append(result, o)
      BY <1>6, <2>3, <3>1 DEF Return
    <3>4. /\ Len(result) \in Nat /\ Len(result') = Len(result) + 1
          /\ \A i \in 1 .. Len(result) : result'[i] = result[i]
          /\ result'[Len(result) + 1] = o
          /\ \A i \in 1 .. Len(result) + 1 : i \in 1 .. Len(result) \/ i = Len(result) + 1
      BY <3>2, <3>3, AppendAt DEF FacadeTypes
    <3>5. ASSUME o.all, NEW m \in MasterIDs, m < o.upto
          PROVE  \E k \in 1 .. Len(sentTo[m]) : sentTo[m][k] = o.call
      <4>1. o.all = call.all /\ o.upto = call.upto /\ o.call = calls
        BY <3>1
      <4>2. m \in Nat /\ call.at \in Nat /\ call.upto \in Nat
        BY <1>n, Numbers DEF Loop
      <4>3. m < call.at
        BY <2>1, <3>5, <4>1, <4>2
      <4> QED
        BY <2>3, <3>5, <4>1, <4>3 DEF SentInv
    <3>6. \A i \in 1 .. Len(result') : result'[i].all =>
            \A m \in MasterIDs : m < result'[i].upto =>
              \E k \in 1 .. Len(sentTo[m]) : sentTo[m][k] = result'[i].call
      BY <3>4, <3>5 DEF SentInv
    <3> QED
      BY <2>1, <3>6 DEF SentInv
  <2> QED
    BY <2>1, <2>2, <2>3
<1> QED
  BY <1>1, <1>2, <1>3, <1>4, <1>5, <1>6, <1>7 DEF Next, vars, BeginsAny, SetMastersCount,
     Start, UseEmptyLink

(* Every step of a call, and every tag that arrives, keeps the invariant. *)
LEMMA NextFacade == FacadeInv /\ [Next]_vars => FacadeInv'
BY TypesStep, LoopStep, ListStep, CollectStep, SentStep DEF FacadeInv

(* The strengthened invariant of the calls for tags (FE_TCP.cpp:80-140) holds throughout. *)
THEOREM FacadeInvariant == Spec => []FacadeInv
BY InitFacade, NextFacade, PTL DEF Spec

-----------------------------------------------------------------------------
(* The variables keep their types for every number of masters, of calls and  *)
(* of tags, and a loop stays among the masters it is for.                    *)
THEOREM TypeCorrect == Spec => []TypeOK
<1>1. FacadeInv => TypeOK
  <2> SUFFICES ASSUME FacadeTypes, LoopInv, ListInv PROVE TypeOK
    BY DEF FacadeInv
  <2>1. pool \subseteq MasterIDs
    <3>1. PICK n \in 0 .. MaxMasters : pool = 0 .. n - 1
      BY DEF LoopInv
    <3>2. \A k \in 0 .. n - 1 : k \in 0 .. MaxMasters - 1
      BY <3>1, Numbers
    <3> QED
      BY <3>1, <3>2 DEF MasterIDs
  <2>2. \A m \in MasterIDs : arrived[m] \in 0 .. MaxTags /\ Len(received[m]) <= arrived[m]
    BY DEF FacadeTypes, ListInv
  <2>3. call.op \in {"none", "send", "wait", "copy"} /\ call.upto \in 0 .. MaxMasters
    BY DEF FacadeTypes, Loop
  <2>4. /\ call.all => call.upto = count
        /\ call.op = "copy" =>
             call.limit \in 1 .. Len(received[call.at]) /\ call.copied \in 0 .. call.limit
    BY DEF LoopInv
  <2> QED
    BY <2>1, <2>2, <2>3, <2>4 DEF TypeOK, FacadeTypes
<1> QED
  BY <1>1, FacadeInvariant, PTL

(* GetAllReceivedTags has a tag from the list of every master when it is     *)
(* done, however many masters there are and in whatever way they send, and   *)
(* has them in the order of the masters, also if lists grew or were moved    *)
(* while they were copied.                                                   *)
THEOREM OneOfEachHolds == Spec => []OneOfEach
<1>1. FacadeInv => OneOfEach
  <2> SUFFICES ASSUME FacadeTypes, LoopInv, CollectInv,
                      call.op = "wait", call.all, call.at >= call.upto
               PROVE  /\ {call.got[i].from : i \in DOMAIN call.got} = 0 .. count - 1
                      /\ \A i, j \in DOMAIN call.got :
                           i < j => call.got[i].from <= call.got[j].from
    BY DEF FacadeInv, OneOfEach
  <2>1. call.got \in Seq(AnyTag) /\ call.at \in Nat /\ call.upto \in Nat
    BY Numbers DEF FacadeTypes, Loop
  <2>2. DOMAIN call.got = 1 .. Len(call.got)
    BY <2>1, LenProperties
  <2>3. call.at = count
    BY <2>1 DEF LoopInv
  <2>4. /\ {call.got[i].from : i \in 1 .. Len(call.got)} = 0 .. call.at - 1
        /\ \A i, j \in 1 .. Len(call.got) : i < j => call.got[i].from <= call.got[j].from
    BY DEF CollectInv, Done
  <2> QED
    BY <2>2, <2>3, <2>4
<1> QED
  BY <1>1, FacadeInvariant, PTL

(* The links are those of the first masters. *)
LEMMA PoolSize ==
  ASSUME LoopInv
  PROVE  /\ pool = 0 .. Cardinality(pool) - 1
         /\ Cardinality(pool) \in Nat
<1>1. PICK n \in 0 .. MaxMasters : pool = 0 .. n - 1
  BY DEF LoopInv
<1>2. n \in Nat /\ n - 1 \in Int /\ 0 \in Int
  BY Numbers
<1>3. Cardinality(0 .. n - 1) = IF 0 > n - 1 THEN 0 ELSE (n - 1) - 0 + 1
  BY <1>2, FS_Interval
<1>4. Cardinality(pool) = n
  BY <1>1, <1>2, <1>3
<1> QED
  BY <1>1, <1>2, <1>4

(* TRUE from BroadcastTag means that every master of the pool was sent the   *)
(* tag, exactly once, whatever calls came before and after; and a broadcast  *)
(* that is not over has gone to the first masters.                           *)
THEOREM BroadcastReachesAllHolds == Spec => []BroadcastReachesAll
<1>1. FacadeInv => BroadcastReachesAll
  <2> SUFFICES ASSUME FacadeTypes, LoopInv, SentInv PROVE BroadcastReachesAll
    BY DEF FacadeInv
  <2>t. /\ calls \in Nat /\ call.at \in 0 .. MaxMasters /\ call.at \in Nat
        /\ \A m \in MasterIDs : m \in Nat /\ sentTo[m] \in Seq(Nat)
        /\ result \in Seq(Outcome)
    BY Numbers DEF FacadeTypes, Loop
  <2>d. /\ \A m \in MasterIDs : DOMAIN sentTo[m] = 1 .. Len(sentTo[m])
        /\ DOMAIN result = 1 .. Len(result)
    BY <2>t, LenProperties
  <2>1. ASSUME NEW i \in 1 .. Len(result), result[i].all, result[i].upto >= Cardinality(pool),
               NEW m \in pool
        PROVE  Cardinality({k \in DOMAIN sentTo[m] : sentTo[m][k] = result[i].call}) = 1
    <3>1. m \in 0 .. Cardinality(pool) - 1 /\ Cardinality(pool) \in Nat /\ pool \subseteq MasterIDs
      <4>1. PICK n \in 0 .. MaxMasters : pool = 0 .. n - 1
        BY DEF LoopInv
      <4>2. \A k \in 0 .. n - 1 : k \in 0 .. MaxMasters - 1
        BY <4>1, Numbers
      <4> QED
        BY <4>1, <4>2, PoolSize DEF MasterIDs
    <3>2. result[i].upto \in Nat
      <4>1. result[i] \in Outcome
        BY <2>t, ElementOfSeq
      <4> QED
        BY <4>1 DEF Outcome
    <3>3. m \in MasterIDs /\ m < result[i].upto
      BY <2>1, <3>1, <3>2
    <3>4. PICK k \in 1 .. Len(sentTo[m]) : sentTo[m][k] = result[i].call
      BY <2>1, <3>3 DEF SentInv
    <3>5. \A j \in 1 .. Len(sentTo[m]) : sentTo[m][j] = result[i].call => j = k
      <4> SUFFICES ASSUME NEW j \in 1 .. Len(sentTo[m]), sentTo[m][j] = result[i].call, j # k
                   PROVE  FALSE
        OBVIOUS
      <4>1. sentTo[m][j] \in Nat /\ sentTo[m][k] \in Nat
        BY <2>t, <3>3, ElementOfSeq
      <4>2. \A a, b \in 1 .. Len(sentTo[m]) : a < b => sentTo[m][a] < sentTo[m][b]
        BY <3>3 DEF SentInv
      <4>3. j < k \/ k < j
        OBVIOUS
      <4> QED
        BY <3>4, <4>1, <4>2, <4>3
    <3>6. {j \in DOMAIN sentTo[m] : sentTo[m][j] = result[i].call} = {k}
      BY <2>d, <3>3, <3>4, <3>5
    <3> QED
      BY <3>6, FS_Singleton
  <2>2. ASSUME call.op = "send", call.all
        PROVE  {m \in MasterIDs : calls \in Range(sentTo[m])} = 0 .. call.at - 1
    <3>1. \A m \in MasterIDs :
            calls \in Range(sentTo[m]) <=> \E k \in 1 .. Len(sentTo[m]) : sentTo[m][k] = calls
      BY <2>d DEF Range
    <3>2. ASSUME NEW m \in MasterIDs
          PROVE  calls \in Range(sentTo[m]) <=> m < call.at
      <4>1. CASE m < call.at
        BY <2>2, <3>1, <4>1 DEF SentInv
      <4>2. CASE call.at <= m
        <5>1. \A k \in 1 .. Len(sentTo[m]) : sentTo[m][k] < calls /\ sentTo[m][k] \in Nat
          BY <2>t, <2>2, <4>2, ElementOfSeq DEF SentInv
        <5>2. \A k \in 1 .. Len(sentTo[m]) : sentTo[m][k] # calls
          BY <2>t, <5>1
        <5> QED
          BY <2>t, <3>1, <4>2, <5>2
      <4> QED
        BY <2>t, <4>1, <4>2
    <3>3. \A m \in 0 .. call.at - 1 : m \in MasterIDs /\ m < call.at
      BY <2>t, Numbers DEF MasterIDs
    <3>4. \A m \in MasterIDs : m < call.at => m \in 0 .. call.at - 1
      BY <2>t
    <3> QED
      BY <3>2, <3>3, <3>4
  <2>3. \A i \in DOMAIN result :
          result[i].all /\ result[i].success /\ result[i].upto >= Cardinality(pool) =>
            \A m \in pool :
              Cardinality({k \in DOMAIN sentTo[m] : sentTo[m][k] = result[i].call}) = 1
    BY <2>d, <2>1
  <2> QED
    BY <2>2, <2>3 DEF BroadcastReachesAll
<1> QED
  BY <1>1, FacadeInvariant, PTL

(* The process ends only in a call before Start, one for a master that does  *)
(* not exist, one for more masters than there are links, or one that copies  *)
(* a list that was moved.                                                    *)
THEOREM EndedOnlyByMisuseHolds == Spec => []EndedOnlyByMisuse
<1>1. FacadeInv => EndedOnlyByMisuse
  <2> SUFFICES ASSUME FacadeTypes, LoopInv, ~runs PROVE EndedOnlyByMisuse
    BY DEF FacadeInv, EndedOnlyByMisuse
  <2>1. call.at \in Nat /\ call.upto \in Nat
    BY Numbers DEF FacadeTypes, Loop
  <2>2. pool = 0 .. Cardinality(pool) - 1 /\ Cardinality(pool) \in Nat
    BY PoolSize
  <2>3. CASE call.stale
    BY <2>3 DEF EndedOnlyByMisuse
  <2>4. call.upto > Cardinality(pool) \/ call.stale
    <3>1. call.at < call.upto /\ (call.at \notin pool \/ call.stale)
      BY DEF LoopInv
    <3> QED
      BY <2>1, <2>2, <3>1
  <2>5. call.all => count = call.upto
    BY DEF LoopInv
  <2>6. call.all \in BOOLEAN
    BY DEF FacadeTypes, Loop
  <2> QED
    BY <2>3, <2>4, <2>5, <2>6 DEF EndedOnlyByMisuse
<1> QED
  BY <1>1, FacadeInvariant, PTL

-----------------------------------------------------------------------------
(* Where the tags of master m are when a of them have come: h in the hands   *)
(* of the application, r in the list of the link, of which those before f    *)
(* have been copied, and d those that may have got lost.                     *)
InOrder(m, h, r, f) ==
  /\ \A i, j \in 1 .. Len(h) :
       i < j /\ h[i].from = m /\ h[j].from = m /\ Whole(h[i]) /\ Whole(h[j]) => h[i].n < h[j].n
  /\ \A i, j \in 1 .. Len(r) : i < j => r[i].n < r[j].n
  /\ \A i \in 1 .. Len(h) : \A j \in 1 .. Len(r) :
       h[i].from = m /\ f <= j => h[i].n < r[j].n

AllArrived(m, h, r, a) ==
  /\ \A i \in 1 .. Len(h) : h[i].from = m => h[i].n \in 0 .. a
  /\ \A j \in 1 .. Len(r) : r[j].from = m /\ r[j].n \in 1 .. a

IsIn(t, h) == \E i \in 1 .. Len(h) : h[i] = t
IsInRest(t, r, f) == \E j \in 1 .. Len(r) : f <= j /\ r[j] = t

NoneLost(m, h, r, a, d, f) ==
  \A t \in AnyTag : t.from = m /\ t.n \in 1 .. a =>
    t \in d \/ IsIn(t, h) \/ IsInRest(t, r, f)

Account(m, h, r, a, d, f) ==
  /\ f \in 1 .. Len(r) + 1
  /\ InOrder(m, h, r, f)
  /\ AllArrived(m, h, r, a)
  /\ NoneLost(m, h, r, a, d, f)

(* What a copy cannot get, or will not: the tags of a list that was moved    *)
(* and those behind the ones it began with.                                  *)
PassedOver ==
  call.op = "copy" =>
    \A i \in 1 .. Len(received[call.at]) :
      call.stale \/ i > call.limit => received[call.at][i] \in overlapped

AccountInv ==
  /\ given \in Seq(AnyTag)
  /\ PassedOver
  /\ \A m \in MasterIDs :
       Account(m, InHand, received[m], arrived[m], overlapped, FirstKept(m))

(* The types an account is about. *)
Accounts(m, h, r, a) ==
  m \in MasterIDs /\ h \in Seq(AnyTag) /\ r \in Seq(AnyTag) /\ a \in Nat

(* The lists of an account have lengths, and hold tags. *)
LEMMA AccountTypes ==
  ASSUME NEW m, NEW h, NEW r, NEW a, Accounts(m, h, r, a)
  PROVE  /\ m \in Nat /\ a \in Nat /\ Len(h) \in Nat /\ Len(r) \in Nat
         /\ \A i \in 1 .. Len(h) : h[i] \in AnyTag /\ h[i].n \in Nat
         /\ \A i \in 1 .. Len(r) : r[i] \in AnyTag /\ r[i].n \in Nat
<1>1. m \in Nat /\ a \in Nat /\ Len(h) \in Nat /\ Len(r) \in Nat
  BY Numbers, LenProperties DEF Accounts
<1>2. \A i \in 1 .. Len(h) : h[i] \in AnyTag
  BY ElementOfSeq DEF Accounts
<1>3. \A i \in 1 .. Len(r) : r[i] \in AnyTag
  BY ElementOfSeq DEF Accounts
<1>4. \A t \in AnyTag : t.n \in Nat
  BY DEF AnyTag
<1> QED
  BY <1>1, <1>2, <1>3, <1>4

(* The next tag of the master comes behind all others.                       *)
LEMMA AccountArrive ==
  ASSUME NEW m, NEW h, NEW r, NEW a, NEW d, NEW f, Accounts(m, h, r, a),
         Account(m, h, r, a, d, f)
  PROVE  Account(m, h, Append(r, Tag(m, a + 1)), a + 1, d, f)
<1> DEFINE x == Tag(m, a + 1)
           s == Append(r, x)
<1>1. /\ m \in Nat /\ a \in Nat /\ Len(h) \in Nat /\ Len(r) \in Nat
      /\ \A i \in 1 .. Len(h) : h[i] \in AnyTag /\ h[i].n \in Nat
      /\ \A i \in 1 .. Len(r) : r[i] \in AnyTag /\ r[i].n \in Nat
  BY AccountTypes
<1>2. x \in AnyTag /\ x.from = m /\ x.n = a + 1
  BY <1>1 DEF Accounts, Tag, AnyTag
<1>3. /\ Len(s) = Len(r) + 1 /\ s[Len(r) + 1] = x
      /\ \A i \in 1 .. Len(r) : s[i] = r[i] /\ i \in 1 .. Len(s)
      /\ \A i \in 1 .. Len(s) : i \in 1 .. Len(r) \/ i = Len(r) + 1
  BY <1>1, <1>2, AppendAt DEF Accounts
<1>4. f \in 1 .. Len(r) + 1 /\ f \in 1 .. Len(s) + 1 /\ Len(r) + 1 \in 1 .. Len(s) /\ f <= Len(r) + 1
  BY <1>1, <1>3 DEF Account
<1>5. InOrder(m, h, r, f) /\ AllArrived(m, h, r, a) /\ NoneLost(m, h, r, a, d, f)
  BY DEF Account
<1> HIDE DEF x, s
<1>6. AllArrived(m, h, s, a + 1)
  <2>1. (\A k \in 1 .. a : k \in 1 .. a + 1) /\ (\A k \in 0 .. a : k \in 0 .. a + 1)
    BY <1>1
  <2>2. a + 1 \in 1 .. a + 1
    BY <1>1
  <2> QED
    BY <1>2, <1>3, <1>5, <2>1, <2>2 DEF AllArrived
<1>7. InOrder(m, h, s, f)
  <2>1. \A i \in 1 .. Len(h) : h[i].from = m => h[i].n < a + 1
    BY <1>1, <1>5 DEF AllArrived
  <2>2. \A i \in 1 .. Len(r) : r[i].n < a + 1
    BY <1>1, <1>5 DEF AllArrived
  <2>3. \A i, j \in 1 .. Len(s) : i < j => s[i].n < s[j].n
    <3> SUFFICES ASSUME NEW i \in 1 .. Len(s), NEW j \in 1 .. Len(s), i < j
                 PROVE  s[i].n < s[j].n
      OBVIOUS
    <3>1. i \in 1 .. Len(r)
      BY <1>1, <1>3
    <3>2. CASE j \in 1 .. Len(r)
      BY <1>3, <1>5, <3>1, <3>2 DEF InOrder
    <3>3. CASE j = Len(r) + 1
      BY <1>2, <1>3, <2>2, <3>1, <3>3
    <3> QED
      BY <1>3, <3>2, <3>3
  <2>4. \A i \in 1 .. Len(h) : \A j \in 1 .. Len(s) :
          h[i].from = m /\ f <= j => h[i].n < s[j].n
    BY <1>2, <1>3, <1>5, <2>1 DEF InOrder
  <2> QED
    BY <1>5, <2>3, <2>4 DEF InOrder
<1>8. NoneLost(m, h, s, a + 1, d, f)
  <2> SUFFICES ASSUME NEW t \in AnyTag, t.from = m, t.n \in 1 .. a + 1
               PROVE  t \in d \/ IsIn(t, h) \/ IsInRest(t, s, f)
    BY DEF NoneLost
  <2>1. CASE t.n \in 1 .. a
    <3>1. IsInRest(t, r, f) => IsInRest(t, s, f)
      BY <1>3 DEF IsInRest
    <3> QED
      BY <1>5, <2>1, <3>1 DEF NoneLost
  <2>2. CASE t.n = a + 1
    <3>1. t = x
      BY <1>2, <2>2 DEF AnyTag
    <3> QED
      BY <1>3, <1>4, <3>1 DEF IsInRest
  <2> QED
    BY <1>1, <2>1, <2>2
<1> QED
  BY <1>4, <1>6, <1>7, <1>8 DEF Account, x, s

(* More may get lost. *)
LEMMA AccountMore ==
  ASSUME NEW m, NEW h, NEW r, NEW a, NEW d, NEW f, Account(m, h, r, a, d, f),
         NEW e, d \subseteq e
  PROVE  Account(m, h, r, a, e, f)
<1>1. NoneLost(m, h, r, a, e, f)
  BY DEF Account, NoneLost
<1> QED
  BY <1>1 DEF Account

(* A tag that is copied is in the hands of the application; what takes its   *)
(* place in a copy of a list that was moved is no tag that arrived.          *)
LEMMA AccountCopyOne ==
  ASSUME NEW m, NEW h, NEW r, NEW a, NEW d, NEW f, Accounts(m, h, r, a),
         Account(m, h, r, a, d, f), f \in 1 .. Len(r),
         NEW t \in AnyTag, t = r[f] \/ (t.from = m /\ ~Whole(t) /\ r[f] \in d)
  PROVE  Account(m, Append(h, t), r, a, d, f + 1)
<1>1. /\ m \in Nat /\ a \in Nat /\ Len(h) \in Nat /\ Len(r) \in Nat
      /\ \A i \in 1 .. Len(h) : h[i] \in AnyTag /\ h[i].n \in Nat
      /\ \A i \in 1 .. Len(r) : r[i] \in AnyTag /\ r[i].n \in Nat
  BY AccountTypes
<1>2. PICK g : g = Append(h, t)
  OBVIOUS
<1>3. /\ Len(g) = Len(h) + 1
      /\ \A i \in 1 .. Len(h) : g[i] = h[i] /\ i \in 1 .. Len(g)
      /\ g[Len(h) + 1] = t
      /\ \A i \in 1 .. Len(g) : i \in 1 .. Len(h) \/ i = Len(h) + 1
  BY <1>2, AppendAt DEF Accounts
<1>4. /\ f \in Nat /\ f + 1 \in 1 .. Len(r) + 1 /\ Len(h) + 1 \in 1 .. Len(g)
      /\ \A j \in 1 .. Len(r) : f + 1 <= j => f <= j /\ f < j
      /\ \A j \in 1 .. Len(r) : f <= j => j = f \/ f + 1 <= j
      /\ \A i \in 1 .. Len(h) : ~(Len(h) + 1 < i)
  BY <1>1, <1>3
<1>5. InOrder(m, h, r, f) /\ AllArrived(m, h, r, a) /\ NoneLost(m, h, r, a, d, f)
  BY DEF Account
<1>6. r[f].from = m /\ r[f].n \in 1 .. a /\ \A j \in 1 .. Len(r) : r[j].n \in 1 .. a
  BY <1>5 DEF AllArrived
<1>7. t.from = m /\ t.n \in 0 .. a
  BY <1>1, <1>6 DEF Whole
<1>8. AllArrived(m, g, r, a)
  BY <1>3, <1>5, <1>7 DEF AllArrived
<1>9. InOrder(m, g, r, f + 1)
  <2>1. ASSUME NEW i \in 1 .. Len(g), NEW j \in 1 .. Len(g), i < j,
               g[i].from = m, g[j].from = m, Whole(g[i]), Whole(g[j])
        PROVE  g[i].n < g[j].n
    <3>1. i \in 1 .. Len(h)
      BY <1>3, <1>4, <2>1
    <3>2. CASE j \in 1 .. Len(h)
      BY <1>3, <1>5, <2>1, <3>1, <3>2 DEF InOrder
    <3>3. CASE j = Len(h) + 1
      <4>1. g[j] = r[f] /\ f <= f
        BY <1>3, <1>4, <2>1, <3>3
      <4> QED
        BY <1>3, <1>5, <2>1, <3>1, <4>1 DEF InOrder
    <3> QED
      BY <1>3, <3>2, <3>3
  <2>2. ASSUME NEW i \in 1 .. Len(g), NEW j \in 1 .. Len(r), g[i].from = m, f + 1 <= j
        PROVE  g[i].n < r[j].n
    <3>1. CASE i \in 1 .. Len(h)
      BY <1>3, <1>4, <1>5, <2>2, <3>1 DEF InOrder
    <3>2. CASE i = Len(h) + 1 /\ t = r[f]
      BY <1>3, <1>4, <1>5, <2>2, <3>2 DEF InOrder
    <3>3. CASE i = Len(h) + 1 /\ ~Whole(t)
      <4>1. g[i].n = 0 /\ r[j].n \in 1 .. a
        BY <1>3, <1>6, <3>3 DEF Whole
      <4> QED
        BY <1>1, <4>1
    <3> QED
      BY <1>3, <3>1, <3>2, <3>3
  <2> QED
    BY <1>5, <2>1, <2>2 DEF InOrder
<1>10. NoneLost(m, g, r, a, d, f + 1)
  <2> SUFFICES ASSUME NEW u \in AnyTag, u.from = m, u.n \in 1 .. a
               PROVE  u \in d \/ IsIn(u, g) \/ IsInRest(u, r, f + 1)
    BY DEF NoneLost
  <2>1. u \in d \/ IsIn(u, h) \/ IsInRest(u, r, f)
    BY <1>5 DEF NoneLost
  <2>2. IsIn(u, h) => IsIn(u, g)
    BY <1>3 DEF IsIn
  <2>3. ASSUME IsInRest(u, r, f) PROVE u \in d \/ IsIn(u, g) \/ IsInRest(u, r, f + 1)
    <3>1. PICK j \in 1 .. Len(r) : f <= j /\ r[j] = u
      BY <2>3 DEF IsInRest
    <3>2. CASE j = f
      <4>1. u \in d \/ u = t
        BY <3>1, <3>2
      <4>2. IsIn(t, g)
        BY <1>3, <1>4 DEF IsIn
      <4> QED
        BY <4>1, <4>2
    <3>3. CASE f + 1 <= j
      BY <3>1, <3>3 DEF IsInRest
    <3> QED
      BY <1>4, <3>1, <3>2, <3>3
  <2> QED
    BY <2>1, <2>2, <2>3
<1> QED
  BY <1>2, <1>4, <1>8, <1>9, <1>10 DEF Account

(* What is copied from another link changes no account.                      *)
LEMMA AccountCopyOther ==
  ASSUME NEW m, NEW h, NEW r, NEW a, NEW d, NEW f, Accounts(m, h, r, a),
         Account(m, h, r, a, d, f),
         NEW t \in AnyTag, t.from # m
  PROVE  Account(m, Append(h, t), r, a, d, f)
<1>1. PICK g : g = Append(h, t)
  OBVIOUS
<1>2. /\ Len(g) = Len(h) + 1
      /\ \A i \in 1 .. Len(h) : g[i] = h[i] /\ i \in 1 .. Len(g)
      /\ g[Len(h) + 1] = t
      /\ \A i \in 1 .. Len(g) : i \in 1 .. Len(h) \/ i = Len(h) + 1
  BY <1>1, AppendAt DEF Accounts
<1>3. \A i \in 1 .. Len(g) : i \in 1 .. Len(h) \/ g[i].from # m
  BY <1>2
<1>4. InOrder(m, h, r, f) /\ AllArrived(m, h, r, a) /\ NoneLost(m, h, r, a, d, f)
  BY DEF Account
<1>5. AllArrived(m, g, r, a)
  BY <1>2, <1>3, <1>4 DEF AllArrived
<1>6. InOrder(m, g, r, f)
  BY <1>2, <1>3, <1>4 DEF InOrder
<1>7. NoneLost(m, g, r, a, d, f)
  <2>1. ASSUME NEW u PROVE IsIn(u, h) => IsIn(u, g)
    BY <1>2 DEF IsIn
  <2> QED
    BY <1>4, <2>1 DEF NoneLost
<1> QED
  BY <1>1, <1>5, <1>6, <1>7 DEF Account

(* A clearing loses what had not been copied.                                *)
LEMMA AccountClear ==
  ASSUME NEW m, NEW h, NEW r, NEW a, NEW d, NEW f, Account(m, h, r, a, d, f),
         \A j \in 1 .. Len(r) : f <= j => r[j] \in d
  PROVE  Account(m, h, <<>>, a, d, 1)
<1>1. InOrder(m, h, r, f) /\ AllArrived(m, h, r, a) /\ NoneLost(m, h, r, a, d, f)
  BY DEF Account
<1>2. Len(<<>>) = 0 /\ 1 .. 0 = {}
  BY EmptySeq
<1>3. AllArrived(m, h, <<>>, a)
  BY <1>1, <1>2 DEF AllArrived
<1>4. InOrder(m, h, <<>>, 1)
  BY <1>1, <1>2 DEF InOrder
<1>5. NoneLost(m, h, <<>>, a, d, 1)
  BY <1>1 DEF NoneLost, IsInRest
<1>6. 1 \in 1 .. Len(<<>>) + 1
  BY <1>2
<1> QED
  BY <1>3, <1>4, <1>5, <1>6 DEF Account

(* What is in hand is a sequence of tags. *)
LEMMA AccountsHold ==
  ASSUME FacadeTypes, AccountInv, NEW m \in MasterIDs
  PROVE  /\ Accounts(m, InHand, received[m], arrived[m])
         /\ Account(m, InHand, received[m], arrived[m], overlapped, FirstKept(m))
         /\ InHand \in Seq(AnyTag)
<1>1. InHand \in Seq(AnyTag)
  <2>1. call.got \in Seq(AnyTag) /\ given \in Seq(AnyTag)
    BY DEF FacadeTypes, Loop, AccountInv
  <2> QED
    BY <2>1, ConcatProperties DEF InHand
<1>2. received[m] \in Seq(AnyTag) /\ arrived[m] \in Nat
  BY Numbers DEF FacadeTypes
<1> QED
  BY <1>1, <1>2 DEF Accounts, AccountInv

(* What is appended to the second of two sequences is appended to both.      *)
LEMMA AppendBehind ==
  ASSUME NEW S, NEW a \in Seq(S), NEW b \in Seq(S), NEW x \in S
  PROVE  a \o Append(b, x) = Append(a \o b, x)
<1>1. <<x>> \in Seq(S) /\ a \o b \in Seq(S)
  BY ConcatProperties
<1>2. a \o (b \o <<x>>) = (a \o b) \o <<x>>
  BY <1>1, ConcatAssociative
<1> QED
  BY <1>1, <1>2, AppendIsConcat

(* A tag that comes in keeps the accounts. *)
LEMMA ReceiveAccount ==
  ASSUME FacadeTypes, LoopInv, AccountInv, NEW k \in MasterIDs, ReceiveTag(k)
  PROVE  AccountInv'
<1>1. /\ call'.op = call.op /\ call'.at = call.at /\ call'.got = call.got
      /\ call'.copied = call.copied /\ call'.limit = call.limit
      /\ (call.op = "copy" /\ call.at = k) \/ call' = call
  BY ReceiveRound
<1>2. UNCHANGED given /\ given \in Seq(AnyTag)
  BY DEF ReceiveTag, AccountInv
<1>3. InHand' = InHand /\ \A m \in MasterIDs : FirstKept(m)' = FirstKept(m)
  BY <1>1, <1>2 DEF InHand, FirstKept
<1>4. /\ received'[k] = Append(received[k], Tag(k, arrived[k] + 1))
      /\ arrived'[k] = arrived[k] + 1
      /\ \A m \in MasterIDs : m # k => received'[m] = received[m] /\ arrived'[m] = arrived[m]
  BY DEF ReceiveTag, FacadeTypes
<1>5. /\ overlapped \subseteq overlapped'
      /\ call.op = "copy" /\ call.at = k => Range(received'[k]) \subseteq overlapped'
  BY DEF ReceiveTag
<1>6. ASSUME NEW m \in MasterIDs
      PROVE  Account(m, InHand, received'[m], arrived'[m], overlapped', FirstKept(m))
  <2>1. CASE m = k
    <3>1. Account(k, InHand, received'[k], arrived'[k], overlapped, FirstKept(k))
      BY <1>4, AccountArrive, AccountsHold
    <3> QED
      BY <1>5, <2>1, <3>1, AccountMore
  <2>2. CASE m # k
    <3>1. Account(m, InHand, received[m], arrived[m], overlapped, FirstKept(m))
      BY AccountsHold
    <3> QED
      BY <1>4, <1>5, <2>2, <3>1, AccountMore
  <2> QED
    BY <2>1, <2>2
<1>7. PassedOver'
  <2>1. CASE call.op = "copy" /\ call.at = k
    <3>1. arrived[k] + 1 \in Nat /\ received[k] \in Seq(AnyTag)
      BY Numbers DEF FacadeTypes
    <3>2. Tag(k, arrived[k] + 1) \in AnyTag
      BY <3>1 DEF Tag, AnyTag
    <3>3. received'[k] \in Seq(AnyTag)
      BY <1>4, <3>1, <3>2, AppendAt
    <3>4. \A i \in 1 .. Len(received'[k]) : received'[k][i] \in Range(received'[k])
      BY <3>3, LenProperties DEF Range
    <3> QED
      BY <1>1, <1>5, <2>1, <3>4 DEF PassedOver
  <2>2. CASE call.op = "copy" /\ call.at # k
    <3>1. call' = call
      BY <1>1, <2>2
    <3>2. call.at \in MasterIDs
      BY <2>2, AtMaster DEF LoopInv
    <3>3. received'[call.at] = received[call.at]
      BY <1>4, <2>2, <3>2
    <3> QED
      BY <1>5, <2>2, <3>1, <3>3 DEF PassedOver, AccountInv
  <2>3. CASE call.op # "copy"
    BY <1>1, <2>3 DEF PassedOver
  <2> QED
    BY <2>1, <2>2, <2>3
<1> QED
  BY <1>2, <1>3, <1>6, <1>7 DEF AccountInv

(* A tag that is copied keeps the accounts. *)
LEMMA CopyAccount ==
  ASSUME FacadeTypes, LoopInv, ListInv, AccountInv, CopyTag \/ CopyDeadMemory
  PROVE  AccountInv'
<1>1. /\ call.at \in MasterIDs /\ call.op = "copy"
      /\ call.copied + 1 \in 1 .. call.limit
      /\ call.copied + 1 \in 1 .. Len(received[call.at])
      /\ call'.op = "copy" /\ call'.at = call.at
      /\ call'.copied = call.copied + 1 /\ call'.limit = call.limit
      /\ call'.stale = call.stale
  BY CopyOneRound
<1>2. PICK t \in AnyTag : IsCopied(t) /\ call'.got = Append(call.got, t)
  BY CopyOneRound
<1>3. UNCHANGED <<given, received, arrived, overlapped>> /\ given \in Seq(AnyTag)
  BY DEF CopyTag, CopyDeadMemory, AccountInv
<1>4. InHand' = Append(InHand, t)
  <2>1. call.got \in Seq(AnyTag)
    BY DEF FacadeTypes, Loop
  <2> QED
    BY <1>2, <1>3, <2>1, AppendBehind DEF InHand
<1>5. PICK k, r, f :
        k \in MasterIDs /\ k = call.at /\ r = received[k] /\ f = call.copied + 1
  BY <1>1
<1>6. f \in 1 .. Len(r) /\ (call.stale => r[f] \in overlapped) /\ t.from = k
  <2>1. f \in 1 .. Len(r)
    BY <1>1, <1>5
  <2>2. call.stale => r[f] \in overlapped
    BY <1>1, <1>5, <2>1 DEF AccountInv, PassedOver
  <2>3. r[f].from = k /\ BrokenTag(k).from = k
    BY <1>5, <2>1 DEF ListInv, BrokenTag, Tag
  <2> QED
    BY <1>2, <1>5, <2>1, <2>2, <2>3 DEF IsCopied
<1>7. t = r[f] \/ (t.from = k /\ ~Whole(t) /\ r[f] \in overlapped)
  BY <1>2, <1>5, <1>6 DEF IsCopied, BrokenTag, Tag, Whole
<1>8. ASSUME NEW m \in MasterIDs
      PROVE  Account(m, Append(InHand, t), received[m], arrived[m], overlapped, FirstKept(m)')
  <2>1. CASE m = k
    <3>1. FirstKept(k) = f /\ FirstKept(k)' = f + 1
      BY <1>1, <1>5 DEF FirstKept
    <3>2. Accounts(k, InHand, r, arrived[k]) /\ Account(k, InHand, r, arrived[k], overlapped, f)
      BY <1>5, <3>1, AccountsHold
    <3>3. Account(k, Append(InHand, t), r, arrived[k], overlapped, f + 1)
      BY <1>6, <1>7, <3>2, AccountCopyOne
    <3> QED
      BY <1>5, <2>1, <3>1, <3>3
  <2>2. CASE m # k
    <3>1. FirstKept(m) = 1 /\ FirstKept(m)' = 1
      BY <1>1, <1>5, <2>2 DEF FirstKept
    <3>2. /\ Accounts(m, InHand, received[m], arrived[m])
          /\ Account(m, InHand, received[m], arrived[m], overlapped, 1)
      BY <3>1, AccountsHold
    <3>3. t.from # m
      BY <1>6, <2>2
    <3> QED
      BY <3>1, <3>2, <3>3, AccountCopyOther
  <2> QED
    BY <2>1, <2>2
<1>9. PassedOver'
  BY <1>1, <1>3 DEF AccountInv, PassedOver
<1> QED
  BY <1>3, <1>4, <1>8, <1>9 DEF AccountInv

(* A clearing keeps the accounts. *)
LEMMA ClearAccount ==
  ASSUME FacadeTypes, LoopInv, AccountInv, ClearNext
  PROVE  AccountInv'
<1>1. PICK k, r, f :
        k \in MasterIDs /\ k = call.at /\ r = received[k] /\ f = FirstKept(k)
  BY ClearRound
<1>2. /\ call.op = "copy" /\ call'.op = "wait" /\ call.copied = call.limit
      /\ received' = [received EXCEPT ![k] = <<>>] /\ call'.got = call.got
  BY <1>1, ClearRound
<1>3. UNCHANGED <<given, arrived, overlapped>> /\ given \in Seq(AnyTag)
  BY DEF ClearNext, AccountInv
<1>4. InHand' = InHand /\ \A m \in MasterIDs : FirstKept(m)' = 1
  BY <1>2, <1>3 DEF InHand, FirstKept
<1>5. received'[k] = <<>> /\ \A m \in MasterIDs : m # k => received'[m] = received[m]
  BY <1>1, <1>2 DEF FacadeTypes
<1>6. f = call.limit + 1 /\ call.limit \in Nat
  BY <1>1, <1>2 DEF FirstKept, FacadeTypes, Loop
<1>7. \A j \in 1 .. Len(r) : f <= j => r[j] \in overlapped
  <2>1. \A j \in 1 .. Len(r) : f <= j => j > call.limit
    BY <1>6
  <2> QED
    BY <1>1, <1>2, <2>1 DEF AccountInv, PassedOver
<1>8. Account(k, InHand, <<>>, arrived[k], overlapped, 1)
  <2>1. Account(k, InHand, r, arrived[k], overlapped, f)
    BY <1>1, AccountsHold
  <2> QED
    BY <1>7, <2>1, AccountClear
<1>9. ASSUME NEW m \in MasterIDs, m # k
      PROVE  Account(m, InHand, received[m], arrived[m], overlapped, 1)
  <2>1. FirstKept(m) = 1
    BY <1>1, <1>9 DEF FirstKept
  <2> QED
    BY <2>1, AccountsHold
<1>10. PassedOver'
  BY <1>2 DEF PassedOver
<1> QED
  BY <1>3, <1>4, <1>5, <1>8, <1>9, <1>10 DEF AccountInv

(* Every step keeps the accounts.                                            *)
LEMMA AccountStep ==
  ASSUME FacadeTypes, LoopInv, ListInv, AccountInv, [Next]_vars
  PROVE  AccountInv'
<1>0. given \in Seq(AnyTag)
  BY DEF AccountInv
<1>1. ASSUME UNCHANGED <<given, received, arrived, overlapped>>, InHand' = InHand,
             \A m \in MasterIDs : FirstKept(m)' = FirstKept(m), call'.op # "copy"
      PROVE  AccountInv'
  <2>1. PassedOver'
    BY <1>1 DEF PassedOver
  <2> QED
    BY <1>1, <2>1 DEF AccountInv
<1>2. ASSUME NEW k \in MasterIDs, ReceiveTag(k) PROVE AccountInv'
  BY <1>2, ReceiveAccount
<1>3. CASE BeginCopy
  <2>1. /\ call.op = "wait" /\ call'.op = "copy" /\ call'.at = call.at
        /\ call'.got = call.got /\ call'.copied = call.copied /\ call'.stale = call.stale
        /\ call'.limit = Len(received[call.at]) /\ Len(received[call.at]) \in Nat
    BY <1>3, BeginCopyRound
  <2>2. UNCHANGED <<given, received, arrived, overlapped>>
    BY <1>3 DEF BeginCopy
  <2>3. call.copied = 0 /\ ~call.stale
    BY <2>1 DEF LoopInv
  <2>4. InHand' = InHand /\ \A m \in MasterIDs : FirstKept(m)' = FirstKept(m)
    BY <2>1, <2>2, <2>3 DEF InHand, FirstKept
  <2>5. PassedOver'
    <3>1. \A i \in 1 .. Len(received[call.at]) : ~(i > Len(received[call.at]))
      BY <2>1
    <3> QED
      BY <2>1, <2>2, <2>3, <3>1 DEF PassedOver
  <2> QED
    BY <2>2, <2>4, <2>5 DEF AccountInv
<1>4. CASE CopyTag \/ CopyDeadMemory
  BY <1>4, CopyAccount
<1>9. CASE ClearNext
  BY <1>9, ClearAccount
<1>5. CASE Return
  <2>1. /\ UNCHANGED <<received, arrived, overlapped>>
        /\ given' = given \o call.got /\ call' = NoCall /\ call.op # "copy"
    BY <1>5 DEF Return
  <2>2. call.got \in Seq(AnyTag)
    BY DEF FacadeTypes, Loop
  <2>3. InHand \in Seq(AnyTag) /\ given' \in Seq(AnyTag)
    BY <1>0, <2>1, <2>2, ConcatProperties DEF InHand
  <2>4. InHand' = InHand
    <3>1. call'.got = <<>>
      BY <2>1 DEF NoCall
    <3> QED
      BY <2>1, <2>3, <3>1, ConcatEmptySeq DEF InHand
  <2>5. \A m \in MasterIDs : FirstKept(m) = 1 /\ FirstKept(m)' = 1
    BY <2>1 DEF FirstKept, NoCall
  <2>6. PassedOver'
    BY <2>1 DEF PassedOver, NoCall
  <2> QED
    BY <2>1, <2>3, <2>4, <2>5, <2>6 DEF AccountInv
<1>6. CASE BeginsAny
  <2>1. PICK loop \in Loop : /\ Begin(loop) /\ loop.op \in {"send", "wait"} /\ loop.got = <<>>
    BY <1>6, BeginStep
  <2>2. /\ call.op = "none" /\ call' = loop /\ UNCHANGED <<given, received, arrived, overlapped>>
    BY <2>1 DEF Begin, Idle
  <2>3. call.got = <<>>
    BY <2>2 DEF LoopInv, NoCall
  <2>4. InHand' = InHand /\ \A m \in MasterIDs : FirstKept(m)' = FirstKept(m)
    BY <2>1, <2>2, <2>3 DEF InHand, FirstKept
  <2> QED
    BY <1>1, <2>1, <2>2, <2>4
<1>7. CASE SendToNext
  <2>1. call.op = "send" /\ call'.op = "send" /\ call'.got = call.got
    BY <1>7, SendRound
  <2>2. UNCHANGED <<given, received, arrived, overlapped>>
    BY <1>7 DEF SendToNext
  <2>3. InHand' = InHand /\ \A m \in MasterIDs : FirstKept(m)' = FirstKept(m)
    BY <2>1, <2>2 DEF InHand, FirstKept
  <2> QED
    BY <1>1, <2>1, <2>2, <2>3
<1>8. ASSUME UNCHANGED <<call, given, received, arrived, overlapped>> PROVE AccountInv'
  <2>1. InHand' = InHand /\ PassedOver' /\ \A m \in MasterIDs : FirstKept(m)' = FirstKept(m)
    BY <1>8 DEF InHand, FirstKept, AccountInv, PassedOver
  <2> QED
    BY <1>8, <2>1 DEF AccountInv
<1> QED
  BY <1>2, <1>3, <1>4, <1>5, <1>6, <1>7, <1>8, <1>9 DEF Next, vars, BeginsAny,
     SetMastersCount, Start, RefuseTimeOut, UseEmptyLink

(* At the start there is nothing to account for. *)
LEMMA InitAccount == Init => AccountInv
<1> SUFFICES ASSUME Init PROVE AccountInv
  OBVIOUS
<1>1. <<>> \in Seq(AnyTag) /\ Len(<<>>) = 0 /\ <<>> \o <<>> = <<>>
  BY EmptySeq, ConcatEmptySeq
<1>2. given = <<>> /\ InHand = <<>> /\ PassedOver
  BY <1>1 DEF Init, InHand, NoCall, PassedOver
<1>3. ASSUME NEW m \in MasterIDs
      PROVE  Account(m, InHand, received[m], arrived[m], overlapped, FirstKept(m))
  <2>1. received[m] = <<>> /\ arrived[m] = 0 /\ FirstKept(m) = 1
    BY DEF Init, NoCall, FirstKept
  <2>2. 1 .. 0 = {} /\ 1 \in 1 .. 0 + 1
    OBVIOUS
  <2>3. Account(m, <<>>, <<>>, 0, overlapped, 1)
    BY <1>1, <2>2 DEF Account, InOrder, AllArrived, NoneLost
  <2> QED
    BY <1>2, <2>1, <2>3
<1> QED
  BY <1>1, <1>2, <1>3 DEF AccountInv

(* The tags of every master are accounted for: none is given twice or out of *)
(* order, and none disappears but those that were in a list to which another *)
(* was added while it was copied, for every number of masters, calls and     *)
(* tags.                                                                     *)
THEOREM TagsAccountedHolds == Spec => []TagsAccounted
<1>1. FacadeTypes /\ AccountInv => TagsAccounted
  <2> SUFFICES ASSUME FacadeTypes, AccountInv, NEW m \in MasterIDs
               PROVE  /\ {t \in Range(Accounted(m)) : t.from = m /\ Whole(t)} \subseteq
                           {Tag(m, n) : n \in 1 .. arrived[m]}
                      /\ {Tag(m, n) : n \in 1 .. arrived[m]} \subseteq
                           Range(Accounted(m)) \cup overlapped
                      /\ \A i, j \in DOMAIN Accounted(m) :
                           /\ i < j
                           /\ Accounted(m)[i].from = m /\ Accounted(m)[j].from = m
                           /\ Whole(Accounted(m)[i]) /\ Whole(Accounted(m)[j])
                           => Accounted(m)[i].n < Accounted(m)[j].n
    BY DEF TagsAccounted
  <2>1. PICK h, r, a, d, f, l, s :
          /\ h = InHand /\ r = received[m] /\ a = arrived[m] /\ d = overlapped /\ f = FirstKept(m)
          /\ l = InList(m) /\ s = Accounted(m)
    OBVIOUS
  <2>2. Accounts(m, h, r, a) /\ Account(m, h, r, a, d, f) /\ h \in Seq(AnyTag)
    BY <2>1, AccountsHold
  <2>3. /\ m \in Nat /\ a \in Nat /\ Len(h) \in Nat /\ Len(r) \in Nat
        /\ \A i \in 1 .. Len(h) : h[i] \in AnyTag /\ h[i].n \in Nat
        /\ \A i \in 1 .. Len(r) : r[i] \in AnyTag /\ r[i].n \in Nat
    BY <2>2, AccountTypes
  <2>4. /\ f \in 1 .. Len(r) + 1 /\ InOrder(m, h, r, f) /\ AllArrived(m, h, r, a)
        /\ NoneLost(m, h, r, a, d, f) /\ r \in Seq(AnyTag)
    BY <2>2 DEF Account, Accounts
  <2>5. /\ l \in Seq(AnyTag) /\ Len(l) = Len(r) + 1 - f
        /\ \A i \in 1 .. Len(l) : f - 1 + i \in 1 .. Len(r) /\ f <= f - 1 + i /\ l[i] = r[f - 1 + i]
    <3>1. l = SubSeq(r, f, Len(r))
      BY <2>1 DEF InList
    <3>2. CASE f <= Len(r)
      <4>1. f \in Nat \ {0} /\ Len(r) \in Nat
        BY <2>3, <2>4
      <4>2. /\ l \in Seq(AnyTag) /\ Len(l) = Len(r) - f + 1
            /\ \A i \in 1 .. Len(r) - f + 1 : l[i] = r[f + i - 1]
        BY <2>4, <3>1, <3>2, <4>1, Piece
      <4>3. Len(r) - f + 1 = Len(r) + 1 - f
        BY <4>1
      <4>4. \A i \in 1 .. Len(l) :
              f - 1 + i \in 1 .. Len(r) /\ f <= f - 1 + i /\ f - 1 + i = f + i - 1
        BY <3>2, <4>1, <4>2
      <4> QED
        BY <4>2, <4>3, <4>4
    <3>3. CASE f = Len(r) + 1
      <4>1. l = <<>>
        BY <2>3, <2>4, <3>1, <3>3, SubSeqEmpty
      <4> QED
        BY <2>3, <3>3, <4>1, EmptySeq
    <3> QED
      BY <2>3, <2>4, <3>2, <3>3
  <2>6. /\ s \in Seq(AnyTag) /\ Len(l) \in Nat /\ Len(s) = Len(h) + Len(l)
        /\ \A i \in 1 .. Len(h) : s[i] = h[i]
        /\ \A i \in 1 .. Len(l) : s[Len(h) + i] = l[i]
    <3>1. s = h \o l
      BY <2>1 DEF Accounted
    <3>2. h \in Seq(AnyTag) /\ l \in Seq(AnyTag)
      BY <2>2, <2>5
    <3> QED
      BY <3>1, <3>2, Joined
  <2>n. Len(h) \in Int /\ f \in Int /\ (\A i \in 1 .. Len(s) : i \in Int)
        /\ (\A i \in 1 .. Len(h) : i <= Len(h)) /\ (\A j \in 1 .. Len(r) : j \in Int)
    BY <2>3, <2>4, <2>6
  <2>7. \A i \in 1 .. Len(s) :
          \/ i \in 1 .. Len(h) /\ s[i] = h[i]
          \/ \E j \in 1 .. Len(r) : f <= j /\ s[i] = r[j] /\ i = Len(h) + 1 + j - f
    <3> SUFFICES ASSUME NEW i \in 1 .. Len(s), i \notin 1 .. Len(h)
                 PROVE  \E j \in 1 .. Len(r) : f <= j /\ s[i] = r[j] /\ i = Len(h) + 1 + j - f
      BY <2>6
    <3>1. i - Len(h) \in 1 .. Len(l) /\ i = Len(h) + (i - Len(h))
      BY <2>3, <2>6
    <3>2. PICK x : x = i - Len(h)
      OBVIOUS
    <3>3. /\ f - 1 + x \in 1 .. Len(r) /\ f <= f - 1 + x /\ s[i] = r[f - 1 + x]
      BY <2>5, <2>6, <3>1, <3>2
    <3>4. i = Len(h) + 1 + (f - 1 + x) - f
      BY <2>n, <3>2
    <3> QED
      BY <3>3, <3>4
  <2>8. \A t : IsIn(t, s) <=> IsIn(t, h) \/ IsInRest(t, r, f)
    <3>1. ASSUME NEW t, IsIn(t, s) PROVE IsIn(t, h) \/ IsInRest(t, r, f)
      BY <2>7, <3>1 DEF IsIn, IsInRest
    <3>2. ASSUME NEW t, IsIn(t, h) PROVE IsIn(t, s)
      <4>1. \A i \in 1 .. Len(h) : i \in 1 .. Len(s)
        BY <2>3, <2>6
      <4> QED
        BY <2>6, <3>2, <4>1 DEF IsIn
    <3>3. ASSUME NEW t, IsInRest(t, r, f) PROVE IsIn(t, s)
      <4>1. PICK j \in 1 .. Len(r) : f <= j /\ r[j] = t
        BY <3>3 DEF IsInRest
      <4>2. PICK i : i = j - f + 1
        OBVIOUS
      <4>3. i \in 1 .. Len(l) /\ f - 1 + i = j /\ Len(h) + i \in 1 .. Len(s)
        BY <2>3, <2>4, <2>5, <2>6, <4>1, <4>2
      <4>4. s[Len(h) + i] = t
        BY <2>5, <2>6, <4>1, <4>3
      <4> QED
        BY <4>3, <4>4 DEF IsIn
    <3> QED
      BY <3>1, <3>2, <3>3
  <2>9. DOMAIN s = 1 .. Len(s)
    BY <2>6, LenProperties
  <2>10. \A t : t \in Range(s) <=> IsIn(t, s)
    BY <2>9 DEF Range, IsIn
  <2>11. \A t \in Range(s) : t \in AnyTag /\ (t.from = m /\ Whole(t) => t.n \in 1 .. a)
    <3>1. \A t : IsIn(t, h) => t \in AnyTag /\ (t.from = m => t.n \in 0 .. a)
      BY <2>3, <2>4 DEF IsIn, AllArrived
    <3>2. \A t : IsInRest(t, r, f) => t \in AnyTag /\ t.n \in 1 .. a
      BY <2>3, <2>4 DEF IsInRest, AllArrived
    <3>3. \A n \in 0 .. a : n # 0 => n \in 1 .. a
      BY <2>3
    <3> QED
      BY <2>8, <2>10, <3>1, <3>2, <3>3 DEF Whole
  <2>12. \A t : t \in AnyTag /\ t.from = m /\ t.n \in 1 .. a
                 <=> t \in {Tag(m, n) : n \in 1 .. a}
    <3>1. \A n \in 1 .. a : Tag(m, n) \in AnyTag /\ Tag(m, n).from = m /\ Tag(m, n).n = n
      BY <2>3 DEF Tag, AnyTag
    <3>2. \A t \in AnyTag : t = Tag(t.from, t.n)
      BY DEF Tag, AnyTag
    <3> QED
      BY <3>1, <3>2
  <2>13. {t \in Range(s) : t.from = m /\ Whole(t)} \subseteq {Tag(m, n) : n \in 1 .. a}
    BY <2>11, <2>12
  <2>15. {Tag(m, n) : n \in 1 .. a} \subseteq Range(s) \cup d
    BY <2>4, <2>8, <2>10, <2>12 DEF NoneLost
  <2>14. \A i, j \in 1 .. Len(s) :
           /\ i < j /\ s[i].from = m /\ s[j].from = m /\ Whole(s[i]) /\ Whole(s[j])
           => s[i].n < s[j].n
    <3> SUFFICES ASSUME NEW i \in 1 .. Len(s), NEW j \in 1 .. Len(s), i < j,
                        s[i].from = m, s[j].from = m, Whole(s[i]), Whole(s[j])
                 PROVE  s[i].n < s[j].n
      OBVIOUS
    <3>1. CASE i \in 1 .. Len(h) /\ j \in 1 .. Len(h)
      BY <2>4, <2>6, <3>1 DEF InOrder
    <3>2. ASSUME i \in 1 .. Len(h), NEW y \in 1 .. Len(r), f <= y, s[j] = r[y]
          PROVE  s[i].n < s[j].n
      BY <2>4, <2>6, <3>2 DEF InOrder
    <3>3. ASSUME NEW x \in 1 .. Len(r), f <= x, s[i] = r[x], i = Len(h) + 1 + x - f,
                 NEW y \in 1 .. Len(r), f <= y, s[j] = r[y], j = Len(h) + 1 + y - f
          PROVE  s[i].n < s[j].n
      <4>1. x < y
        BY <2>n, <3>3
      <4> QED
        BY <2>4, <3>3, <4>1 DEF InOrder
    <3>4. ASSUME NEW x \in 1 .. Len(r), f <= x, i = Len(h) + 1 + x - f, j \in 1 .. Len(h)
          PROVE  FALSE
      BY <2>n, <3>4
    <3> QED
      BY <2>7, <3>1, <3>2, <3>3, <3>4
  <2> QED
    BY <2>1, <2>9, <2>13, <2>14, <2>15
<1>2. FacadeInv /\ AccountInv /\ [Next]_vars => AccountInv'
  BY AccountStep DEF FacadeInv
<1>3. FacadeInv => FacadeTypes
  BY DEF FacadeInv
<1> QED
  BY <1>1, <1>2, <1>3, InitAccount, FacadeInvariant, PTL DEF Spec
=============================================================================
