-------------------------- MODULE TagReceiveProofs --------------------------
(***************************************************************************)
(* Theorems about TagReceive for every number, length and kind of items.   *)
(***************************************************************************)
EXTENDS TagReceive, SequenceTheorems, TLAPS

(* The bytes cut so far are whole items, and the items found are these. *)
StreamOK ==
  /\ arrived \in Nat /\ mark \in Nat /\ lo \in Nat
  /\ lo <= mark /\ mark <= arrived /\ arrived <= End[Items]
  /\ parsed \in Seq(Nat)
  /\ Len(parsed) <= Items
  /\ lo = End[Len(parsed)]
  /\ \A i \in 1 .. Len(parsed) : parsed[i] = i

(* What the lengths of the items are good for: positions are numbers, and    *)
(* the shortest item has four bytes.                                         *)
LEMMA EndType ==
  /\ \A k \in 0 .. Items : End[k] \in Nat
  /\ \A k \in Item : /\ k - 1 \in 0 .. Items /\ k \in 0 .. Items
                     /\ End[k - 1] + 4 <= End[k]
BY TagReceiveAssumption DEF Item

(* A first '!' behind the items parsed so far is that of the next item, so   *)
(* the string that ends two bytes behind it is this item.                    *)
LEMMA NextItem ==
  ASSUME StreamOK, NEW k \in Item, FirstBang(k), TagEnd(k) <= mark
  PROVE  /\ k = Len(parsed) + 1
         /\ Piece(k) = k
         /\ TagEnd(k) = End[k]
         /\ lo < End[k]
<1> DEFINE n == Len(parsed)
<1>0. n \in 0 .. Items /\ Items \in Nat /\ k \in 1 .. Items
  BY TagReceiveAssumption DEF StreamOK, Item
<1>1. lo = End[n] /\ lo < End[k] - 2
  BY DEF StreamOK, FirstBang, Bang
<1>t. End[k] \in Nat /\ End[n] \in Nat
  BY <1>0, EndType
<1>2. k > n
  <2> SUFFICES ASSUME k <= n PROVE FALSE
    BY <1>0
  <2>1. CASE k = n
    BY <1>1, <1>t, <2>1
  <2>2. CASE k < n
    <3>1. End[k] + 4 <= End[n]
      BY <1>0, <2>2, TagReceiveAssumption
    <3> QED
      BY <1>1, <1>t, <3>1
  <2> QED
    BY <1>0, <2>1, <2>2
<1>3. n + 1 \in Item
  BY <1>0, <1>2 DEF Item
<1>4. End[n] + 4 <= End[n + 1] /\ End[n + 1] \in Nat
  BY <1>0, <1>3, TagReceiveAssumption DEF Item
<1>5. lo < Bang(n + 1)
  BY <1>1, <1>t, <1>4 DEF Bang
<1>6. k <= n + 1
  BY <1>3, <1>5 DEF FirstBang
<1>7. k = n + 1
  BY <1>0, <1>2, <1>6
<1>8. TagEnd(k) = End[k]
  BY <1>t DEF TagEnd, Bang
<1>9. lo = End[k - 1]
  BY <1>0, <1>1, <1>7
<1> QED
  BY <1>1, <1>t, <1>7, <1>8, <1>9 DEF Piece

(* Every step keeps the bytes cut a prefix of whole items: ParseFirstTag     *)
(* cuts exactly one, ReadTagsFromSocket and KeepUnparsed lose nothing.       *)
LEMMA StreamStep ==
  ASSUME StreamOK, [Next]_vars
  PROVE  StreamOK'
<1> USE DEF StreamOK
<1>e. Items \in 0 .. Items /\ End[Items] \in Nat
  BY TagReceiveAssumption
<1>1. CASE Arrive
  BY <1>1, <1>e DEF Arrive, rcvVars
<1>2. CASE ReadTagsFromSocket
  BY <1>2 DEF ReadTagsFromSocket, TextStart
<1>3. CASE ParseFirstTag
  <2>1. PICK k \in Item : /\ FirstBang(k) /\ TagEnd(k) <= mark
                          /\ parsed' = Append(parsed, Piece(k))
                          /\ lo' = TagEnd(k)
    BY <1>3 DEF ParseFirstTag
  <2>2. k = Len(parsed) + 1 /\ Piece(k) = k /\ TagEnd(k) = End[k]
    BY <2>1, NextItem
  <2>3. UNCHANGED <<arrived, mark>>
    BY <1>3 DEF ParseFirstTag
  <2>4. k \in Nat /\ k <= Items /\ End[k] \in Nat
    BY EndType, TagReceiveAssumption DEF Item
  <2>5. parsed' \in Seq(Nat) /\ Len(parsed') = k
    BY <2>1, <2>2, <2>4
  <2>6. \A i \in 1 .. Len(parsed') : parsed'[i] = i
    BY <2>1, <2>2, <2>4
  <2> HIDE <1>3
  <2> QED
    BY <2>1, <2>2, <2>3, <2>4, <2>5, <2>6
<1>4. CASE UNCHANGED <<arrived, mark, lo, parsed>>
  BY <1>4
<1> QED
  BY <1>1, <1>2, <1>3, <1>4
  DEF Next, ReceiveTags, KeepUnparsed, PushReceived, TCPSendAck,
      GetReceivedTags, BeginCopy, CopyTag, CopyDeadMemory, ClearReceived,
      rcvVars, vars

(* What ReadTagsFromSocket and ParseTags have consumed is always a whole     *)
(* number of items, each found once and in order, however the bytes came.    *)
THEOREM StreamAligned == Spec => []StreamOK
<1>1. Init => StreamOK
  BY TagReceiveAssumption, EndType DEF Init, StreamOK
<1> QED
  BY <1>1, StreamStep, PTL DEF Spec

-----------------------------------------------------------------------------
(* Whatever number of bytes has arrived, the items complete by then are a    *)
(* prefix of the items.                                                      *)
LEMMA CompleteInOrder ==
  ASSUME NEW a \in Nat
  PROVE  Channel!InOrder({k \in Item : End[k] <= a})
<1> SUFFICES ASSUME NEW k \in Item, End[k] <= a, NEW j \in 1 .. k
             PROVE  j \in Item /\ End[j] <= a
  BY DEF Channel!InOrder
<1>1. j \in Item /\ End[j] \in Nat /\ End[k] \in Nat
  BY EndType, TagReceiveAssumption DEF Item
<1>2. j = k \/ End[j] + 4 <= End[k]
  BY <1>1, TagReceiveAssumption DEF Item
<1> QED
  BY <1>1, <1>2

(* ReadTagsFromSocket and ParseTags implement the channel of whole items:    *)
(* Arrive refines Arrive, ParseFirstTag refines Parse, and every other step  *)
(* stutters.                                                                 *)
THEOREM ParsesTheStreamHolds == Spec => ParsesTheStream
<1>1. Init => Channel!Init
  <2> SUFFICES ASSUME Init PROVE Channel!Init
    OBVIOUS
  <2>1. \A k \in Item : End[k] > 0
    BY EndType
  <2>2. Complete = {}
    BY <2>1, EndType DEF Init, Complete
  <2> QED
    BY <2>2 DEF Init, Channel!Init
<1>2. StreamOK /\ StreamOK' /\ [Next]_vars => [Channel!Next]_<<Complete, parsed>>
  <2> SUFFICES ASSUME StreamOK, StreamOK', [Next]_vars
               PROVE  [Channel!Next]_<<Complete, parsed>>
    OBVIOUS
  <2>1. CASE Arrive
    <3>1. Complete' \in SUBSET (1 .. Items)
      BY DEF Complete, Item
    <3>2. arrived <= arrived' /\ parsed' = parsed
      BY <2>1 DEF Arrive, rcvVars, StreamOK
    <3>3. Complete \subseteq Complete'
      BY <3>2, EndType DEF Complete, StreamOK
    <3>4. Channel!InOrder(Complete')
      BY CompleteInOrder DEF StreamOK, Complete
    <3> QED
      BY <3>1, <3>2, <3>3, <3>4 DEF Channel!Next, Channel!Arrive
  <2>2. CASE ParseFirstTag
    <3>1. PICK k \in Item : /\ FirstBang(k) /\ TagEnd(k) <= mark
                            /\ parsed' = Append(parsed, Piece(k))
      BY <2>2 DEF ParseFirstTag
    <3>2. k = Len(parsed) + 1 /\ Piece(k) = k /\ TagEnd(k) = End[k]
      BY <3>1, NextItem
    <3>3. k \in Complete
      BY <3>1, <3>2, EndType DEF Complete, StreamOK
    <3>4. Complete' = Complete
      BY <2>2 DEF ParseFirstTag, Complete
    <3> QED
      BY <3>1, <3>2, <3>3, <3>4 DEF Channel!Next, Channel!Parse
  <2>3. CASE UNCHANGED <<arrived, parsed>>
    BY <2>3 DEF Complete
  <2> QED
    BY <2>1, <2>2, <2>3
    DEF Next, ReceiveTags, ReadTagsFromSocket, KeepUnparsed, PushReceived,
        TCPSendAck, GetReceivedTags, BeginCopy, CopyTag, CopyDeadMemory,
        ClearReceived, rcvVars, vars
<1> QED
  BY <1>1, <1>2, StreamAligned, PTL DEF Spec, ParsesTheStream, Channel!Spec

-----------------------------------------------------------------------------
(* TypeOK needs what StreamOK says of the positions, and that nothing is     *)
(* copied before GetReceivedTags has begun.                                  *)
ListTypes ==
  /\ tagVector \in Seq(0 .. Items) /\ received \in Seq(0 .. Items)
  /\ copied \in Seq(0 .. Items) /\ delivered \in Seq(0 .. Items)
  /\ parsed \in Seq(0 .. Items)
  /\ overlapped \subseteq 0 .. Items

ThreadTypes ==
  /\ rcvPc \in {"poll", "parse", "push"}
  /\ rcvPc = "push" => tagVector # <<>>
  /\ ackJobs \subseteq Item /\ acked \subseteq Item
  /\ appPc \in {"idle", "copy"}
  /\ stale \in BOOLEAN /\ alive \in BOOLEAN

CopyTypes ==
  /\ limit \in Nat
  /\ appPc = "copy" => Len(copied) <= limit /\ limit <= Len(received)
  /\ appPc = "idle" => copied = <<>>

ReceiveTypes == ListTypes /\ ThreadTypes /\ CopyTypes

(* What is in a sequence that got one more. *)
LEMMA ElemsAppend ==
  \A s \in Seq(0 .. Items), e \in 0 .. Items : Elems(Append(s, e)) = Elems(s) \cup {e}
<1> SUFFICES ASSUME NEW s \in Seq(0 .. Items), NEW e \in 0 .. Items
             PROVE  Elems(Append(s, e)) = Elems(s) \cup {e}
  OBVIOUS
<1>1. /\ Len(s) \in Nat /\ Len(Append(s, e)) = Len(s) + 1
      /\ \A i \in 1 .. Len(s) : Append(s, e)[i] = s[i]
      /\ Append(s, e)[Len(s) + 1] = e
  BY AppendProperties, LenProperties
<1> QED
  BY <1>1 DEF Elems

(* What is in a sequence is of its type. *)
LEMMA ElemsOfSeq ==
  ASSUME NEW S, NEW s \in Seq(S)
  PROVE  Elems(s) \subseteq S
BY ElementOfSeq DEF Elems

(* The item a round of ParseTags finds is the next one, and it is a number   *)
(* that no list holds yet.                                                   *)
LEMMA ParseFound ==
  ASSUME StreamOK, ParseFirstTag
  PROVE  \E k \in Item :
           /\ k = Len(parsed) + 1
           /\ parsed' = Append(parsed, k)
           /\ ackJobs' = ackJobs \cup Acknowledged(k)
           /\ tagVector' = IF Kind[k] = "tag" THEN Append(tagVector, k) ELSE tagVector
           /\ rcvPc' \in {"parse", AfterParse(tagVector')}
           /\ UNCHANGED <<received, acked, appVars, overlapped, alive>>
<1>1. PICK k \in Item :
        /\ FirstBang(k) /\ TagEnd(k) <= mark
        /\ parsed' = Append(parsed, Piece(k))
        /\ ackJobs' = ackJobs \cup Acknowledged(k)
        /\ tagVector' = IF Kind[k] = "tag" THEN Append(tagVector, Piece(k)) ELSE tagVector
        /\ rcvPc' = IF TagEnd(k) = mark THEN AfterParse(tagVector') ELSE "parse"
  BY DEF ParseFirstTag
<1>2. k = Len(parsed) + 1 /\ Piece(k) = k
  BY <1>1, NextItem
<1>3. UNCHANGED <<received, acked, appVars, overlapped, alive>>
  BY DEF ParseFirstTag
<1> HIDE DEF ParseFirstTag
<1> QED
  BY <1>1, <1>2, <1>3

(* Every step keeps the types. *)
LEMMA TypesStep ==
  ASSUME StreamOK, ReceiveTypes, [Next]_vars
  PROVE  ReceiveTypes'
<1> USE DEF ReceiveTypes
<1>0. Items \in Nat /\ Item \subseteq 0 .. Items
  BY TagReceiveAssumption DEF Item
<1>l. Len(received) \in Nat /\ Len(copied) \in Nat
  BY DEF ListTypes
<1>1. CASE ParseFirstTag
  <2>1. PICK k \in Item :
          /\ parsed' = Append(parsed, k)
          /\ ackJobs' = ackJobs \cup Acknowledged(k)
          /\ tagVector' = IF Kind[k] = "tag" THEN Append(tagVector, k) ELSE tagVector
          /\ rcvPc' \in {"parse", AfterParse(tagVector')}
          /\ UNCHANGED <<received, acked, appVars, overlapped, alive>>
    BY <1>1, ParseFound
  <2> HIDE <1>1
  <2>2. ListTypes'
    <3>1. k \in 0 .. Items
      BY <1>0
    <3>2. Append(parsed, k) \in Seq(0 .. Items) /\ Append(tagVector, k) \in Seq(0 .. Items)
      BY <3>1 DEF ListTypes
    <3> QED
      BY <2>1, <3>2 DEF ListTypes, appVars
  <2>3. ThreadTypes'
    BY <1>0, <2>1 DEF ThreadTypes, AfterParse, Acknowledged, appVars
  <2> QED
    BY <2>1, <2>2, <2>3 DEF CopyTypes, appVars
<1>2. CASE PushReceived
  <2>1. /\ rcvPc = "push" /\ tagVector # <<>>
        /\ received' = Append(received, Head(tagVector))
        /\ tagVector' = Tail(tagVector)
        /\ rcvPc' = AfterParse(tagVector')
        /\ overlapped' \in {overlapped, overlapped \cup Elems(received')}
        /\ stale' \in {stale, TRUE}
        /\ UNCHANGED <<parsed, ackJobs, acked, appPc, limit, copied, delivered, alive>>
    BY <1>2 DEF PushReceived, ThreadTypes
  <2> HIDE <1>2
  <2>2. Head(tagVector) \in 0 .. Items /\ Tail(tagVector) \in Seq(0 .. Items)
    BY <2>1, HeadTailProperties DEF ListTypes
  <2>3. received' \in Seq(0 .. Items) /\ Len(received') = Len(received) + 1
    BY <2>1, <2>2 DEF ListTypes
  <2>4. Elems(received') \subseteq 0 .. Items
    BY <2>3, ElemsOfSeq
  <2>5. ListTypes'
    BY <2>1, <2>2, <2>3, <2>4 DEF ListTypes
  <2>6. ThreadTypes'
    BY <2>1 DEF ThreadTypes, AfterParse
  <2>7. CopyTypes'
    BY <1>l, <2>1, <2>3 DEF CopyTypes
  <2> QED
    BY <2>5, <2>6, <2>7
<1>3. CASE ReadTagsFromSocket \/ KeepUnparsed
  BY <1>3
  DEF ReadTagsFromSocket, KeepUnparsed, AfterParse, ListTypes, ThreadTypes, CopyTypes, appVars
<1>4. ASSUME NEW k \in Item, TCPSendAck(k) PROVE ReceiveTypes'
  BY <1>4 DEF TCPSendAck, ListTypes, ThreadTypes, CopyTypes, rcvVars, appVars
<1>5. CASE BeginCopy
  <2>1. UNCHANGED <<tagVector, received, copied, delivered, parsed, overlapped>>
    BY <1>5 DEF BeginCopy, rcvVars
  <2>2. CopyTypes'
    BY <1>5, <1>l DEF BeginCopy, CopyEnd, CopyTypes
  <2> QED
    BY <1>5, <2>1, <2>2 DEF BeginCopy, ListTypes, ThreadTypes, rcvVars
<1>6. CASE CopyTag \/ CopyDeadMemory
  <2>1. /\ appPc = "copy" /\ Len(copied) < limit
        /\ \E t \in {received[Len(copied) + 1], 0} : copied' = Append(copied, t)
        /\ alive' \in BOOLEAN
        /\ UNCHANGED <<rcvVars, received, ackJobs, acked, appPc, limit, stale, delivered,
                       overlapped>>
    BY <1>6 DEF CopyTag, CopyDeadMemory, ThreadTypes
  <2> HIDE <1>6
  <2>2. received[Len(copied) + 1] \in 0 .. Items
    <3>1. Len(copied) + 1 \in 1 .. Len(received)
      BY <1>l, <2>1 DEF CopyTypes
    <3> QED
      BY <3>1, ElementOfSeq DEF ListTypes
  <2>3. copied' \in Seq(0 .. Items) /\ Len(copied') = Len(copied) + 1
    BY <1>0, <2>1, <2>2 DEF ListTypes
  <2>4. CopyTypes'
    BY <1>l, <2>1, <2>3 DEF CopyTypes
  <2> QED
    BY <2>1, <2>3, <2>4 DEF ListTypes, ThreadTypes, rcvVars
<1>7. CASE ClearReceived
  <2>1. /\ received' = <<>> /\ delivered' = delivered \o copied
        /\ copied' = <<>> /\ appPc' = "idle"
        /\ UNCHANGED <<rcvVars, ackJobs, acked, limit, stale, overlapped, alive>>
    BY <1>7 DEF ClearReceived, Remaining
  <2> HIDE <1>7
  <2>2. delivered' \in Seq(0 .. Items)
    BY <2>1, ConcatProperties DEF ListTypes
  <2>3. ListTypes'
    BY <2>1, <2>2 DEF ListTypes, rcvVars
  <2> QED
    BY <2>1, <2>3 DEF ThreadTypes, CopyTypes, rcvVars
<1>8. CASE Arrive \/ UNCHANGED vars
  BY <1>8 DEF Arrive, vars, rcvVars, appVars, ListTypes, ThreadTypes, CopyTypes
<1> QED
  BY <1>1, <1>2, <1>3, <1>4, <1>5, <1>6, <1>7, <1>8
  DEF Next, ReceiveTags, GetReceivedTags

(* The types of all the lists and the positions of the receiver and of a     *)
(* copy in progress, whatever the two threads do to each other.              *)
LEMMA TypesHold == Spec => []ReceiveTypes
<1>1. Init => ReceiveTypes
  <2> SUFFICES ASSUME Init PROVE ReceiveTypes
    OBVIOUS
  <2>1. ListTypes
    BY DEF Init, ListTypes
  <2>2. ThreadTypes /\ CopyTypes
    BY DEF Init, ThreadTypes, CopyTypes
  <2> QED
    BY <2>1, <2>2 DEF ReceiveTypes
<1> QED
  BY <1>1, TypesStep, StreamAligned, PTL DEF Spec

(* The type invariant of the receiving half of the TagSystem.                *)
THEOREM TypeCorrect == Spec => []TypeOK
<1>1. StreamOK /\ ReceiveTypes => TypeOK
  <2> SUFFICES ASSUME StreamOK, ReceiveTypes PROVE TypeOK
    OBVIOUS
  <2>1. Items \in 0 .. Items /\ End[Items] \in Nat
    BY TagReceiveAssumption
  <2> QED
    BY SMTT(30), <2>1 DEF StreamOK, ReceiveTypes, ListTypes, ThreadTypes, CopyTypes, TypeOK
<1> QED
  BY <1>1, StreamAligned, TypesHold, PTL

-----------------------------------------------------------------------------
(* ClassifyAndGetTag starts a TCPSendAck thread for every tag that is parsed *)
(* and for no acknowledgement, and the thread acknowledges just that tag.    *)
THEOREM AcksExactHolds == Spec => []AcksExact
<1>1. Init => AcksExact
  BY DEF Init, AcksExact, Elems
<1>2. ASSUME StreamOK, ReceiveTypes, AcksExact, [Next]_vars
      PROVE  AcksExact'
  <2>1. CASE ParseFirstTag
    <3>1. PICK k \in Item :
            /\ parsed' = Append(parsed, k)
            /\ ackJobs' = ackJobs \cup Acknowledged(k)
            /\ acked' = acked
      BY <1>2, <2>1, ParseFound
    <3>2. Elems(parsed') = Elems(parsed) \cup {k}
      <4>1. parsed \in Seq(0 .. Items) /\ k \in 0 .. Items
        BY <1>2, TagReceiveAssumption DEF ReceiveTypes, ListTypes, Item
      <4>2. Elems(Append(parsed, k)) = Elems(parsed) \cup {k}
        BY <4>1, ElemsAppend
      <4> QED
        BY <3>1, <4>2
    <3> QED
      BY <1>2, <3>1, <3>2 DEF AcksExact, Acknowledged
  <2>2. ASSUME NEW k \in Item, TCPSendAck(k) PROVE AcksExact'
    BY <1>2, <2>2 DEF TCPSendAck, AcksExact, rcvVars
  <2>3. CASE UNCHANGED <<parsed, ackJobs, acked>>
    BY <1>2, <2>3 DEF AcksExact
  <2> QED
    BY <1>2, <2>1, <2>2, <2>3
    DEF Next, Arrive, ReceiveTags, ReadTagsFromSocket, KeepUnparsed, PushReceived,
        GetReceivedTags, BeginCopy, CopyTag, CopyDeadMemory, ClearReceived, rcvVars, vars
<1> QED
  BY <1>1, <1>2, StreamAligned, TypesHold, PTL DEF Spec

-----------------------------------------------------------------------------
(* The tags of the pipeline, by the list they are in. *)
Waiting == {received[i] : i \in Len(copied) + 1 .. Len(received)}

PipelineTypes ==
  /\ delivered \in Seq(0 .. Items) /\ copied \in Seq(0 .. Items)
  /\ received \in Seq(0 .. Items) /\ tagVector \in Seq(0 .. Items)
  /\ Len(copied) <= Len(received)

(* The pipeline of four lists.                                               *)
Through(D, C, R, V) == D \o C \o SubSeq(R, Len(C) + 1, Len(R)) \o V

(* The pipeline is as long as the lists it goes through, and holds what they *)
(* hold at the places where they follow each other.                          *)
LEMMA ThroughAt ==
  ASSUME NEW D \in Seq(0 .. Items), NEW C \in Seq(0 .. Items),
         NEW R \in Seq(0 .. Items), NEW V \in Seq(0 .. Items),
         Len(C) <= Len(R)
  PROVE  LET d == Len(D)
             c == Len(C)
             r == Len(R)
         IN  /\ Through(D, C, R, V) \in Seq(0 .. Items)
             /\ Len(Through(D, C, R, V)) = d + r + Len(V)
             /\ \A i \in 1 .. d + r + Len(V) :
                  Through(D, C, R, V)[i] = IF i <= d THEN D[i]
                                           ELSE IF i <= d + c THEN C[i - d]
                                           ELSE IF i <= d + r THEN R[i - d]
                                           ELSE V[i - d - r]
<1> DEFINE d == Len(D)
           c == Len(C)
           r == Len(R)
           v == Len(V)
           rest == SubSeq(R, c + 1, r)
           front == D \o C
           listed == front \o rest
<1>1. d \in Nat /\ c \in Nat /\ r \in Nat /\ v \in Nat /\ c <= r
  BY LenProperties
<1>2. /\ front \in Seq(0 .. Items) /\ Len(front) = d + c
      /\ \A i \in 1 .. d + c : front[i] = IF i <= d THEN D[i] ELSE C[i - d]
  BY ConcatProperties
<1>3. \A i \in c + 1 .. r : R[i] \in 0 .. Items
  <2>1. \A i \in c + 1 .. r : i \in 1 .. Len(R)
    BY <1>1
  <2> QED
    BY <2>1, ElementOfSeq
<1>4. /\ rest \in Seq(0 .. Items) /\ Len(rest) = r - c
      /\ \A i \in 1 .. r - c : rest[i] = R[c + i]
  <2>1. /\ rest \in Seq(0 .. Items)
        /\ Len(rest) = IF c + 1 <= r THEN r - (c + 1) + 1 ELSE 0
        /\ \A i \in 1 .. r - (c + 1) + 1 : rest[i] = R[c + 1 + i - 1]
    <3>1. c + 1 \in Int /\ r \in Int
      BY <1>1
    <3> HIDE DEF c, r
    <3> QED
      BY <1>3, <3>1, SubSeqProperties
  <2> HIDE DEF c, r, rest
  <2>2. r - (c + 1) + 1 = r - c /\ Len(rest) = r - c
    BY <1>1, <2>1
  <2>3. \A i \in 1 .. r - c : c + 1 + i - 1 = c + i
    BY <1>1
  <2> QED
    BY <2>1, <2>2, <2>3
<1> HIDE DEF front, rest
<1>s. front \in Seq(0 .. Items) /\ rest \in Seq(0 .. Items) /\ listed = front \o rest
  BY <1>2, <1>4
<1> HIDE DEF listed
<1>5. /\ listed \in Seq(0 .. Items) /\ Len(listed) = d + r
      /\ \A i \in 1 .. d + r : listed[i] = IF i <= d + c THEN front[i] ELSE rest[i - (d + c)]
  <2>1. /\ listed \in Seq(0 .. Items) /\ Len(listed) = Len(front) + Len(rest)
        /\ \A i \in 1 .. Len(front) + Len(rest) :
             listed[i] = IF i <= Len(front) THEN front[i] ELSE rest[i - Len(front)]
    BY <1>s, ConcatProperties
  <2> HIDE DEF d, c, r
  <2> QED
    BY <1>1, <1>2, <1>4, <2>1
<1>6. Through(D, C, R, V) = listed \o V
  BY DEF Through, listed, front, rest
<1>7. /\ Through(D, C, R, V) \in Seq(0 .. Items) /\ Len(Through(D, C, R, V)) = d + r + v
      /\ \A i \in 1 .. d + r + v :
           Through(D, C, R, V)[i] = IF i <= d + r THEN listed[i] ELSE V[i - (d + r)]
  <2>1. V \in Seq(0 .. Items)
    OBVIOUS
  <2>2. /\ Through(D, C, R, V) \in Seq(0 .. Items) /\ Len(Through(D, C, R, V)) = Len(listed) + v
        /\ \A i \in 1 .. Len(listed) + v :
             Through(D, C, R, V)[i] = IF i <= Len(listed) THEN listed[i] ELSE V[i - Len(listed)]
    <3>1. listed \in Seq(0 .. Items) /\ Through(D, C, R, V) = listed \o V
      BY <1>5, <1>6
    <3> QED
      BY <2>1, <3>1, ConcatProperties
  <2> QED
    BY <1>5, <2>2
<1> HIDE DEF d, c, r, v
<1>8. \A i \in 1 .. d + r + v :
        Through(D, C, R, V)[i] = IF i <= d THEN D[i]
                      ELSE IF i <= d + c THEN C[i - d]
                      ELSE IF i <= d + r THEN R[i - d]
                      ELSE V[i - d - r]
  <2> SUFFICES ASSUME NEW i \in 1 .. d + r + v
               PROVE  Through(D, C, R, V)[i] = IF i <= d THEN D[i]
                                    ELSE IF i <= d + c THEN C[i - d]
                                    ELSE IF i <= d + r THEN R[i - d]
                                    ELSE V[i - d - r]
    OBVIOUS
  <2>1. CASE i <= d + c
    BY <1>1, <1>2, <1>5, <1>7, <2>1
  <2>2. CASE d + c < i /\ i <= d + r
    <3>1. i - (d + c) \in 1 .. r - c /\ c + (i - (d + c)) = i - d
      BY <1>1, <2>2
    <3>2. rest[i - (d + c)] = R[i - d]
      BY <1>4, <3>1
    <3> QED
      BY SMTT(30), <1>1, <1>5, <1>7, <2>2, <3>2
  <2>3. CASE d + r < i
    <3>1. i - (d + r) = i - d - r
      BY <1>1
    <3> QED
      BY <1>1, <1>7, <2>3, <3>1
  <2> QED
    BY <1>1, <2>1, <2>2, <2>3
<1> QED
  BY <1>7, <1>8 DEF d, c, r, v

(* Where the tags of the stages of the pipeline are. *)
LEMMA PipelineAt ==
  ASSUME PipelineTypes
  PROVE  LET d == Len(delivered)
             c == Len(copied)
             r == Len(received)
         IN  /\ Pipeline \in Seq(0 .. Items)
             /\ Len(Pipeline) = d + r + Len(tagVector)
             /\ \A i \in 1 .. d + r + Len(tagVector) :
                  Pipeline[i] = IF i <= d THEN delivered[i]
                                ELSE IF i <= d + c THEN copied[i - d]
                                ELSE IF i <= d + r THEN received[i - d]
                                ELSE tagVector[i - d - r]
<1>1. Pipeline = Through(delivered, copied, received, tagVector)
  BY DEF Pipeline, Through
<1>2. /\ delivered \in Seq(0 .. Items) /\ copied \in Seq(0 .. Items)
      /\ received \in Seq(0 .. Items) /\ tagVector \in Seq(0 .. Items)
      /\ Len(copied) <= Len(received)
  BY DEF PipelineTypes
<1> HIDE DEF Pipeline
<1> DEFINE T == Through(delivered, copied, received, tagVector)
<1>3. /\ T \in Seq(0 .. Items)
      /\ Len(T) = Len(delivered) + Len(received) + Len(tagVector)
      /\ \A i \in 1 .. Len(delivered) + Len(received) + Len(tagVector) :
           T[i] = IF i <= Len(delivered) THEN delivered[i]
                  ELSE IF i <= Len(delivered) + Len(copied)
                    THEN copied[i - Len(delivered)]
                  ELSE IF i <= Len(delivered) + Len(received)
                    THEN received[i - Len(delivered)]
                  ELSE tagVector[i - Len(delivered) - Len(received)]
  BY <1>2, ThroughAt
<1> QED
  BY <1>1, <1>3

(* What is in the pipeline is in one of its stages. *)
LEMMA ElemsPipeline ==
  ASSUME PipelineTypes
  PROVE  Elems(Pipeline) =
           Elems(delivered) \cup Elems(copied) \cup Waiting \cup Elems(tagVector)
<1> DEFINE d == Len(delivered)
           c == Len(copied)
           r == Len(received)
           v == Len(tagVector)
<1>1. d \in Nat /\ c \in Nat /\ r \in Nat /\ v \in Nat /\ c <= r
  BY LenProperties DEF PipelineTypes
<1>2. /\ Len(Pipeline) = d + r + v
      /\ \A i \in 1 .. d + r + v :
           Pipeline[i] = IF i <= d THEN delivered[i]
                         ELSE IF i <= d + c THEN copied[i - d]
                         ELSE IF i <= d + r THEN received[i - d]
                         ELSE tagVector[i - d - r]
  BY PipelineAt
<1> HIDE DEF d, c, r, v
<1>3. Elems(Pipeline) = {Pipeline[i] : i \in 1 .. d + r + v}
  BY <1>2 DEF Elems
<1>4. ASSUME NEW i \in 1 .. d + r + v
      PROVE  Pipeline[i] \in Elems(delivered) \cup Elems(copied) \cup Waiting \cup Elems(tagVector)
  <2>1. CASE i <= d
    BY <1>1, <1>2, <2>1 DEF Elems, d
  <2>2. CASE d < i /\ i <= d + c
    <3>1. i - d \in 1 .. c /\ Pipeline[i] = copied[i - d]
      BY <1>1, <1>2, <2>2
    <3> QED
      BY <3>1 DEF Elems, c
  <2>3. CASE d + c < i /\ i <= d + r
    <3>1. i - d \in c + 1 .. r /\ Pipeline[i] = received[i - d]
      BY <1>1, <1>2, <2>3
    <3> QED
      BY <3>1 DEF Waiting, c, r
  <2>4. CASE d + r < i
    <3>1. i - d - r \in 1 .. v /\ Pipeline[i] = tagVector[i - d - r]
      BY <1>1, <1>2, <2>4
    <3> QED
      BY <3>1 DEF Elems, v
  <2> QED
    BY <1>1, <2>1, <2>2, <2>3, <2>4
<1>5. ASSUME NEW x \in Elems(delivered)
      PROVE  \E i \in 1 .. d + r + v : x = Pipeline[i]
  <2>1. PICK j \in 1 .. d : x = delivered[j]
    BY <1>5 DEF Elems, d
  <2>2. j \in 1 .. d + r + v /\ Pipeline[j] = delivered[j]
    BY <1>1, <1>2, <2>1
  <2> QED
    BY <2>1, <2>2
<1>6. ASSUME NEW x \in Elems(copied)
      PROVE  \E i \in 1 .. d + r + v : x = Pipeline[i]
  <2>1. PICK j \in 1 .. c : x = copied[j]
    BY <1>6 DEF Elems, c
  <2>2. d + j \in 1 .. d + r + v /\ ~(d + j <= d) /\ d + j <= d + c /\ d + j - d = j
    BY <1>1, <2>1
  <2>3. Pipeline[d + j] = copied[j]
    BY <1>1, <1>2, <2>1, <2>2
  <2> QED
    BY <2>1, <2>2, <2>3
<1>7. ASSUME NEW x \in Waiting
      PROVE  \E i \in 1 .. d + r + v : x = Pipeline[i]
  <2>1. PICK j \in c + 1 .. r : x = received[j]
    BY <1>7 DEF Waiting, c, r
  <2>2. /\ d + j \in 1 .. d + r + v /\ ~(d + j <= d) /\ ~(d + j <= d + c)
        /\ d + j <= d + r /\ d + j - d = j
    BY <1>1, <2>1
  <2>3. Pipeline[d + j] = received[j]
    BY <1>1, <1>2, <2>1, <2>2
  <2> QED
    BY <2>1, <2>2, <2>3
<1>8. ASSUME NEW x \in Elems(tagVector)
      PROVE  \E i \in 1 .. d + r + v : x = Pipeline[i]
  <2>1. PICK j \in 1 .. v : x = tagVector[j]
    BY <1>8 DEF Elems, v
  <2>2. /\ d + r + j \in 1 .. d + r + v /\ ~(d + r + j <= d) /\ ~(d + r + j <= d + c)
        /\ ~(d + r + j <= d + r) /\ d + r + j - d - r = j
    BY <1>1, <2>1
  <2>3. Pipeline[d + r + j] = tagVector[j]
    BY <1>1, <1>2, <2>1, <2>2
  <2> QED
    BY <2>1, <2>2, <2>3
<1> QED
  BY <1>3, <1>4, <1>5, <1>6, <1>7, <1>8

-----------------------------------------------------------------------------
(* What the list holds may go without being returned only if it has grown    *)
(* during the copy in progress; and all it held when it grew is overlapped.  *)
LossInv ==
  /\ \A k \in Elems(parsed) \cap Item :
       Kind[k] = "tag" =>
         k \in Elems(delivered) \cup Elems(copied) \cup Waiting \cup Elems(tagVector)
                 \cup overlapped
  /\ appPc = "copy" /\ (stale \/ Len(received) > limit) => Elems(received) \subseteq overlapped
(* What each list holds after a step on it, as sets.                         *)
LEMMA LastAppended ==
  ASSUME NEW s \in Seq(0 .. Items), NEW e \in 0 .. Items
  PROVE  /\ Len(Append(s, e)) = Len(s) + 1
         /\ \A i \in 1 .. Len(s) : Append(s, e)[i] = s[i]
         /\ Append(s, e)[Len(s) + 1] = e
BY AppendProperties

(* What is in two sequences joined. *)
LEMMA ElemsConcat ==
  ASSUME NEW s \in Seq(0 .. Items), NEW t \in Seq(0 .. Items)
  PROVE  Elems(s \o t) = Elems(s) \cup Elems(t)
<1>1. /\ Len(s) \in Nat /\ Len(t) \in Nat /\ Len(s \o t) = Len(s) + Len(t)
      /\ \A i \in 1 .. Len(s) + Len(t) :
           (s \o t)[i] = IF i <= Len(s) THEN s[i] ELSE t[i - Len(s)]
  BY ConcatProperties, LenProperties
<1>2. ASSUME NEW x \in Elems(t) PROVE x \in Elems(s \o t)
  <2>1. PICK j \in 1 .. Len(t) : x = t[j]
    BY <1>2 DEF Elems
  <2>2. /\ Len(s) + j \in 1 .. Len(s) + Len(t) /\ ~(Len(s) + j <= Len(s))
        /\ Len(s) + j - Len(s) = j
    BY <1>1, <2>1
  <2>3. (s \o t)[Len(s) + j] = t[j]
    BY <1>1, <2>1, <2>2
  <2> QED
    BY <1>1, <2>1, <2>2, <2>3 DEF Elems
<1>3. ASSUME NEW x \in Elems(s) PROVE x \in Elems(s \o t)
  <2>1. PICK j \in 1 .. Len(s) : x = s[j]
    BY <1>3 DEF Elems
  <2>2. j \in 1 .. Len(s) + Len(t) /\ (s \o t)[j] = s[j]
    BY <1>1, <2>1
  <2> QED
    BY <1>1, <2>1, <2>2 DEF Elems
<1>4. ASSUME NEW x \in Elems(s \o t) PROVE x \in Elems(s) \cup Elems(t)
  <2>1. PICK i \in 1 .. Len(s) + Len(t) : x = (s \o t)[i]
    BY <1>1, <1>4 DEF Elems
  <2>2. CASE i <= Len(s)
    BY <1>1, <2>1, <2>2 DEF Elems
  <2>3. CASE ~(i <= Len(s))
    <3>1. i - Len(s) \in 1 .. Len(t) /\ x = t[i - Len(s)]
      BY <1>1, <2>1, <2>3
    <3> QED
      BY <3>1 DEF Elems
  <2> QED
    BY <2>2, <2>3
<1> QED
  BY <1>2, <1>3, <1>4

(* What is in a sequence is its head or in its tail. *)
LEMMA ElemsHeadTail ==
  ASSUME NEW s \in Seq(0 .. Items), s # <<>>
  PROVE  Elems(s) \subseteq {Head(s)} \cup Elems(Tail(s))
<1>1. /\ Len(s) \in Nat /\ Len(Tail(s)) = Len(s) - 1 /\ Head(s) = s[1]
      /\ \A i \in 1 .. Len(Tail(s)) : Tail(s)[i] = s[i + 1]
  BY HeadTailProperties, LenProperties
<1> SUFFICES ASSUME NEW i \in 1 .. Len(s), i # 1
             PROVE  \E j \in 1 .. Len(Tail(s)) : Tail(s)[j] = s[i]
  BY <1>1 DEF Elems
<1>2. i - 1 \in 1 .. Len(Tail(s)) /\ (i - 1) + 1 = i
  BY <1>1
<1>3. Tail(s)[i - 1] = s[(i - 1) + 1]
  BY <1>1, <1>2
<1> QED
  BY <1>2, <1>3

(* Every step loses at most tags that a copy overlapped. *)
LEMMA LossStep ==
  ASSUME StreamOK, ReceiveTypes, LossInv, [Next]_vars
  PROVE  LossInv'
<1> DEFINE Held == Elems(delivered) \cup Elems(copied) \cup Waiting \cup Elems(tagVector)
<1>t. /\ delivered \in Seq(0 .. Items) /\ copied \in Seq(0 .. Items)
      /\ received \in Seq(0 .. Items) /\ tagVector \in Seq(0 .. Items)
      /\ parsed \in Seq(0 .. Items)
      /\ Len(received) \in Nat /\ Len(copied) \in Nat /\ limit \in Nat
      /\ appPc \in {"idle", "copy"} /\ stale \in BOOLEAN
      /\ appPc = "copy" => Len(copied) <= limit /\ limit <= Len(received)
      /\ appPc = "idle" => copied = <<>>
  BY LenProperties DEF ReceiveTypes, ListTypes, ThreadTypes, CopyTypes
<1>i. /\ \A k \in Elems(parsed) \cap Item : Kind[k] = "tag" => k \in Held \cup overlapped
      /\ appPc = "copy" /\ (stale \/ Len(received) > limit) => Elems(received) \subseteq overlapped
  BY DEF LossInv
<1>w. Waiting \subseteq Elems(received)
  BY <1>t DEF Waiting, Elems
<1>h. ASSUME parsed' = parsed, Held \cup overlapped \subseteq (Held \cup overlapped)',
             (appPc = "copy" /\ (stale \/ Len(received) > limit) => Elems(received) \subseteq overlapped)'
      PROVE  LossInv'
  BY <1>i, <1>h DEF LossInv
<1> HIDE DEF Held
<1>1. CASE ParseFirstTag
  <2>1. PICK k \in Item :
          /\ parsed' = Append(parsed, k)
          /\ tagVector' = IF Kind[k] = "tag" THEN Append(tagVector, k) ELSE tagVector
          /\ UNCHANGED <<received, appVars, overlapped>>
    BY <1>1, ParseFound
  <2>2. k \in 0 .. Items
    BY TagReceiveAssumption DEF Item
  <2>3. Elems(parsed') = Elems(parsed) \cup {k}
    BY <1>t, <2>1, <2>2, ElemsAppend
  <2>4. Elems(tagVector') = IF Kind[k] = "tag" THEN Elems(tagVector) \cup {k} ELSE Elems(tagVector)
    BY <1>t, <2>1, <2>2, ElemsAppend
  <2>5. /\ Waiting' = Waiting /\ Elems(copied)' = Elems(copied)
        /\ Elems(delivered)' = Elems(delivered)
    BY <2>1 DEF Waiting, appVars, Elems
  <2>6. ASSUME NEW x \in Elems(parsed)' \cap Item, Kind[x] = "tag"
        PROVE  x \in (Held \cup overlapped)'
    BY <1>i, <2>1, <2>3, <2>4, <2>5, <2>6 DEF Held
  <2>7. (appPc = "copy" /\ (stale \/ Len(received) > limit) => Elems(received) \subseteq overlapped)'
    BY <1>i, <2>1 DEF appVars
  <2> QED
    BY <2>6, <2>7 DEF LossInv, Held
<1>2. CASE PushReceived
  <2>1. /\ tagVector # <<>>
        /\ received' = Append(received, Head(tagVector))
        /\ tagVector' = Tail(tagVector)
        /\ appPc = "copy" => overlapped' = overlapped \cup Elems(received')
        /\ appPc # "copy" => overlapped' = overlapped
        /\ UNCHANGED <<parsed, appPc, limit, copied, delivered>>
    BY <1>2 DEF PushReceived, ReceiveTypes, ThreadTypes
  <2>2. Head(tagVector) \in 0 .. Items
    BY <1>t, <2>1, HeadTailProperties
  <2>3. /\ Len(received') = Len(received) + 1
        /\ \A i \in 1 .. Len(received) : received'[i] = received[i]
        /\ received'[Len(received) + 1] = Head(tagVector)
    BY <1>t, <2>1, <2>2, LastAppended
  <2>4. Len(copied) <= Len(received)
    <3>1. copied = <<>> => Len(copied) = 0
      OBVIOUS
    <3> QED
      BY <1>t, <3>1
  <2>5. Waiting \cup {Head(tagVector)} \subseteq Waiting'
    <3>1. Len(copied') = Len(copied) /\ Len(received) + 1 \in Len(copied) + 1 .. Len(received')
      BY <1>t, <2>1, <2>3, <2>4
    <3>2. \A i \in Len(copied) + 1 .. Len(received) :
            i \in 1 .. Len(received) /\ i \in Len(copied) + 1 .. Len(received')
      BY <1>t, <2>3
    <3> QED
      BY <2>3, <3>1, <3>2 DEF Waiting
  <2>6. Elems(tagVector) \subseteq {Head(tagVector)} \cup Elems(tagVector)'
    <3>1. Elems(tagVector) \subseteq {Head(tagVector)} \cup Elems(Tail(tagVector))
      BY <1>t, <2>1, ElemsHeadTail
    <3> QED
      BY <2>1, <3>1 DEF Elems
  <2>7. Elems(copied)' = Elems(copied) /\ Elems(delivered)' = Elems(delivered)
    BY <2>1 DEF Elems
  <2>8. Held \cup overlapped \subseteq (Held \cup overlapped)'
    BY <2>1, <2>5, <2>6, <2>7 DEF Held
  <2>9. appPc' = "copy" => (Elems(received) \subseteq overlapped)'
    BY <2>1 DEF Elems
  <2> QED
    BY <1>h, <2>1, <2>8, <2>9
<1>3. CASE BeginCopy
  <2>1. UNCHANGED <<parsed, delivered, copied, received, tagVector, overlapped>>
    BY <1>3 DEF BeginCopy, rcvVars
  <2>2. limit' = Len(received') /\ stale' = FALSE
    BY <1>3 DEF BeginCopy, CopyEnd
  <2>3. Held' = Held
    BY <2>1 DEF Held, Elems, Waiting
  <2> QED
    BY <1>h, <1>t, <2>1, <2>2, <2>3
<1>4. CASE CopyTag \/ CopyDeadMemory
  <2>1. /\ appPc = "copy" /\ Len(copied) < limit
        /\ UNCHANGED <<parsed, delivered, received, tagVector, overlapped, appPc, limit, stale>>
    BY <1>4 DEF CopyTag, CopyDeadMemory, rcvVars
  <2>2. PICK t \in {received[Len(copied) + 1], 0} :
          /\ copied' = Append(copied, t)
          /\ t = received[Len(copied) + 1] \/ stale
    BY <1>4 DEF CopyTag, CopyDeadMemory
  <2>3. Len(copied) + 1 \in 1 .. Len(received)
    BY <1>t, <2>1
  <2>4. received[Len(copied) + 1] \in 0 .. Items /\ 0 \in 0 .. Items
    <3>1. received[Len(copied) + 1] \in 0 .. Items
      BY <1>t, <2>3, ElementOfSeq
    <3> QED
      BY <3>1, TagReceiveAssumption
  <2>5. Elems(copied') = Elems(copied) \cup {t}
    BY <1>t, <2>2, <2>4, ElemsAppend
  <2>6. Len(copied') = Len(copied) + 1
    BY <1>t, <2>2, <2>4, LastAppended
  <2>7. Waiting \subseteq Waiting' \cup {received[Len(copied) + 1]}
    BY SMTT(30), <1>t, <2>1, <2>6 DEF Waiting
  <2>8. received[Len(copied) + 1] \in Elems(copied)' \cup overlapped
    <3>1. received[Len(copied) + 1] \in Elems(received)
      BY <2>3 DEF Elems
    <3>2. Elems(copied)' = Elems(copied')
      BY DEF Elems
    <3> QED
      BY <1>i, <2>1, <2>2, <2>5, <3>1, <3>2
  <2>9. Elems(copied) \subseteq Elems(copied)'
    BY <2>5 DEF Elems
  <2>10. /\ Elems(delivered)' = Elems(delivered) /\ Elems(tagVector)' = Elems(tagVector)
         /\ Elems(received)' = Elems(received)
    BY <2>1 DEF Elems
  <2>11. Held \cup overlapped \subseteq (Held \cup overlapped)'
    BY <2>1, <2>7, <2>8, <2>9, <2>10 DEF Held
  <2> QED
    BY <1>h, <1>i, <2>1, <2>10, <2>11
<1>5. CASE ClearReceived
  <2>1. /\ appPc = "copy" /\ Len(copied) = limit
        /\ delivered' = delivered \o copied
        /\ appPc' = "idle"
        /\ UNCHANGED <<parsed, tagVector, overlapped>>
    BY <1>5 DEF ClearReceived, rcvVars
  <2>2. Elems(delivered') = Elems(delivered) \cup Elems(copied)
    BY <1>t, <2>1, ElemsConcat
  <2>3. Waiting \subseteq overlapped
    <3>1. CASE Len(received) > limit
      BY <1>i, <1>w, <2>1, <3>1
    <3>2. CASE ~(Len(received) > limit)
      BY <1>t, <2>1, <3>2 DEF Waiting
    <3> QED
      BY <3>1, <3>2
  <2>4. Elems(delivered)' = Elems(delivered') /\ Elems(tagVector)' = Elems(tagVector)
    BY <2>1 DEF Elems
  <2>5. Held \cup overlapped \subseteq (Held \cup overlapped)'
    BY <2>1, <2>2, <2>3, <2>4 DEF Held
  <2> QED
    BY <1>h, <2>1, <2>5
<1>6. CASE UNCHANGED <<parsed, delivered, copied, received, tagVector, overlapped, appPc, limit, stale>>
  <2>1. Held' = Held /\ Elems(received)' = Elems(received)
    BY <1>6 DEF Held, Elems, Waiting
  <2> QED
    BY <1>h, <1>i, <1>6, <2>1
<1> QED
  BY <1>1, <1>2, <1>3, <1>4, <1>5, <1>6
  DEF Next, Arrive, ReceiveTags, ReadTagsFromSocket, KeepUnparsed, GetReceivedTags,
      TCPSendAck, rcvVars, appVars, vars

(* PipelineTypes is what ReceiveTypes says of the lists of the pipeline.     *)
LEMMA PipelineTyped == ASSUME ReceiveTypes PROVE PipelineTypes
<1>1. copied = <<>> => Len(copied) = 0
  OBVIOUS
<1>2. Len(copied) \in Nat /\ Len(received) \in Nat
  BY LenProperties DEF ReceiveTypes, ListTypes
<1> QED
  BY <1>1, <1>2 DEF ReceiveTypes, ListTypes, ThreadTypes, CopyTypes, PipelineTypes

(* A tag that GetReceivedTags does not return, and that is in no list any    *)
(* more, was in the list when the receiver thread added a tag to it during a *)
(* copy: clear() after an undisturbed copy takes nothing that was not        *)
(* returned.                                                                 *)
THEOREM OnlyOverlappedLostHolds == Spec => []OnlyOverlappedLost
<1>1. Init => LossInv
  BY DEF Init, LossInv, Elems
<1>2. ReceiveTypes /\ LossInv => OnlyOverlappedLost
  <2> SUFFICES ASSUME ReceiveTypes, LossInv PROVE OnlyOverlappedLost
    OBVIOUS
  <2>1. Elems(Pipeline) =
          Elems(delivered) \cup Elems(copied) \cup Waiting \cup Elems(tagVector)
    BY PipelineTyped, ElemsPipeline
  <2> QED
    BY <2>1 DEF LossInv, OnlyOverlappedLost
<1> QED
  BY <1>1, <1>2, LossStep, StreamAligned, TypesHold, PTL DEF Spec
-----------------------------------------------------------------------------
(* The pipeline is in order, and no tag in it has a number that the parser   *)
(* has not come to; so the next tag goes behind all of them.                 *)
OrderInv ==
  /\ DeliveredInOrder
  /\ \A i \in 1 .. Len(Pipeline) : Pipeline[i] <= Len(parsed)

(* The pipeline after a step, as PipelineAt gives it before the step.        *)
LEMMA PipelineAtNext ==
  ASSUME PipelineTypes'
  PROVE  LET d == Len(delivered')
             c == Len(copied')
             r == Len(received')
         IN  /\ Pipeline' \in Seq(0 .. Items)
             /\ Len(Pipeline') = d + r + Len(tagVector')
             /\ \A i \in 1 .. d + r + Len(tagVector') :
                  Pipeline'[i] = IF i <= d THEN delivered'[i]
                                ELSE IF i <= d + c THEN copied'[i - d]
                                ELSE IF i <= d + r THEN received'[i - d]
                                ELSE tagVector'[i - d - r]
<1>1. Pipeline' = Through(delivered', copied', received', tagVector')
  BY DEF Pipeline, Through
<1>2. /\ delivered' \in Seq(0 .. Items) /\ copied' \in Seq(0 .. Items)
      /\ received' \in Seq(0 .. Items) /\ tagVector' \in Seq(0 .. Items)
      /\ Len(copied') <= Len(received')
  BY DEF PipelineTypes
<1> HIDE DEF Pipeline
<1> DEFINE T == Through(delivered', copied', received', tagVector')
<1>3. /\ T \in Seq(0 .. Items)
      /\ Len(T) = Len(delivered') + Len(received') + Len(tagVector')
      /\ \A i \in 1 .. Len(delivered') + Len(received') + Len(tagVector') :
           T[i] = IF i <= Len(delivered') THEN delivered'[i]
                  ELSE IF i <= Len(delivered') + Len(copied')
                    THEN copied'[i - Len(delivered')]
                  ELSE IF i <= Len(delivered') + Len(received')
                    THEN received'[i - Len(delivered')]
                  ELSE tagVector'[i - Len(delivered') - Len(received')]
  BY <1>2, ThroughAt
<1> QED
  BY <1>1, <1>3

(* A step that takes the pipeline to some of its entries, in their order,    *)
(* each as it was or broken, keeps the order.                                *)
LEMMA OrderKept ==
  ASSUME OrderInv, Pipeline \in Seq(0 .. Items), parsed' = parsed, Len(parsed) \in Nat,
         NEW f \in [1 .. Len(Pipeline') -> 1 .. Len(Pipeline)],
         \A i, j \in 1 .. Len(Pipeline') : i < j => f[i] < f[j],
         \A i \in 1 .. Len(Pipeline') : Pipeline'[i] \in {Pipeline[f[i]], 0}
  PROVE  OrderInv'
<1> DEFINE P == Pipeline
           Q == Pipeline'
<1>1. /\ \A i, j \in 1 .. Len(P) : i < j /\ P[i] # 0 /\ P[j] # 0 => P[i] < P[j]
      /\ \A i \in 1 .. Len(P) : P[i] <= Len(parsed)
  BY DEF OrderInv, DeliveredInOrder
<1>2. \A i \in 1 .. Len(Q) : f[i] \in 1 .. Len(P)
  OBVIOUS
<1>3. /\ \A i \in 1 .. Len(Q) : Q[i] \in {P[f[i]], 0}
      /\ \A i, j \in 1 .. Len(Q) : i < j => f[i] < f[j]
  OBVIOUS
<1> HIDE DEF P, Q
<1>4. ASSUME NEW i \in 1 .. Len(Q), NEW j \in 1 .. Len(Q), i < j, Q[i] # 0, Q[j] # 0
      PROVE  Q[i] < Q[j]
  <2>1. f[i] \in 1 .. Len(P) /\ f[j] \in 1 .. Len(P) /\ f[i] < f[j]
    BY <1>2, <1>3, <1>4
  <2>2. Q[i] = P[f[i]] /\ Q[j] = P[f[j]]
    BY <1>3, <1>4
  <2> QED
    BY <1>1, <1>4, <2>1, <2>2
<1>5. ASSUME NEW i \in 1 .. Len(Q) PROVE Q[i] <= Len(parsed)
  <2>1. P[f[i]] <= Len(parsed)
    BY <1>1, <1>2
  <2> QED
    BY <1>3, <2>1
<1>6. (\A i, j \in 1 .. Len(Pipeline) :
         i < j /\ Pipeline[i] # 0 /\ Pipeline[j] # 0 => Pipeline[i] < Pipeline[j])'
  BY <1>4 DEF Q
<1>7. (\A i \in 1 .. Len(Pipeline) : Pipeline[i] <= Len(parsed))'
  BY <1>5 DEF Q
<1> QED
  BY <1>6, <1>7 DEF OrderInv, DeliveredInOrder

(* With the same number of entries, each as it was or broken.                *)
LEMMA OrderKeptInPlace ==
  ASSUME OrderInv, Pipeline \in Seq(0 .. Items), parsed' = parsed, Len(parsed) \in Nat,
         Len(Pipeline') = Len(Pipeline),
         \A i \in 1 .. Len(Pipeline) : Pipeline'[i] \in {Pipeline[i], 0}
  PROVE  OrderInv'
<1> DEFINE f == [i \in 1 .. Len(Pipeline') |-> i]
<1>1. /\ f \in [1 .. Len(Pipeline') -> 1 .. Len(Pipeline)]
      /\ \A i \in 1 .. Len(Pipeline') : f[i] = i
  OBVIOUS
<1> HIDE DEF f
<1>2. /\ \A i, j \in 1 .. Len(Pipeline') : i < j => f[i] < f[j]
      /\ \A i \in 1 .. Len(Pipeline') : Pipeline'[i] \in {Pipeline[f[i]], 0}
  BY <1>1
<1> QED
  BY <1>1, <1>2, OrderKept

(* Every step keeps the order from the buffer to the application. *)
LEMMA OrderStep ==
  ASSUME StreamOK, ReceiveTypes, ReceiveTypes', OrderInv, [Next]_vars
  PROVE  OrderInv'
<1> DEFINE d == Len(delivered)
           c == Len(copied)
           r == Len(received)
           v == Len(tagVector)
<1>p. PipelineTypes /\ PipelineTypes'
  <2>1. copied' = <<>> => Len(copied') = 0
    OBVIOUS
  <2>2. Len(copied') \in Nat /\ Len(received') \in Nat
    BY LenProperties DEF ReceiveTypes, ListTypes
  <2> QED
    BY <2>1, <2>2, PipelineTyped DEF ReceiveTypes, ListTypes, ThreadTypes, CopyTypes, PipelineTypes
<1>t. /\ delivered \in Seq(0 .. Items) /\ copied \in Seq(0 .. Items)
      /\ received \in Seq(0 .. Items) /\ tagVector \in Seq(0 .. Items)
      /\ parsed \in Seq(0 .. Items) /\ Len(parsed) \in Nat /\ limit \in Nat
      /\ appPc = "copy" => Len(copied) <= limit /\ limit <= Len(received)
  BY LenProperties DEF ReceiveTypes, ListTypes, CopyTypes
<1>n. d \in Nat /\ c \in Nat /\ r \in Nat /\ v \in Nat /\ c <= r
  BY <1>p, LenProperties DEF PipelineTypes
<1>a. /\ Pipeline \in Seq(0 .. Items) /\ Len(Pipeline) = d + r + v
      /\ \A i \in 1 .. d + r + v :
           Pipeline[i] = IF i <= d THEN delivered[i]
                         ELSE IF i <= d + c THEN copied[i - d]
                         ELSE IF i <= d + r THEN received[i - d]
                         ELSE tagVector[i - d - r]
  BY <1>p, PipelineAt
<1>b. /\ Len(Pipeline') = Len(delivered') + Len(received') + Len(tagVector')
      /\ \A i \in 1 .. Len(delivered') + Len(received') + Len(tagVector') :
           Pipeline'[i] = IF i <= Len(delivered') THEN delivered'[i]
                          ELSE IF i <= Len(delivered') + Len(copied')
                            THEN copied'[i - Len(delivered')]
                          ELSE IF i <= Len(delivered') + Len(received')
                            THEN received'[i - Len(delivered')]
                          ELSE tagVector'[i - Len(delivered') - Len(received')]
  BY <1>p, PipelineAtNext
<1> HIDE DEF d, c, r, v
<1>1. CASE ParseFirstTag
  <2>1. PICK k \in Item :
          /\ k = Len(parsed) + 1
          /\ parsed' = Append(parsed, k)
          /\ tagVector' = IF Kind[k] = "tag" THEN Append(tagVector, k) ELSE tagVector
          /\ UNCHANGED <<received, copied, delivered>>
    BY <1>1, ParseFound DEF appVars
  <2>2. k \in 0 .. Items /\ k \in Nat
    BY TagReceiveAssumption DEF Item
  <2>3. Len(parsed') = k
    BY <1>t, <2>1, <2>2, LastAppended
  <2>o. /\ \A i, j \in 1 .. d + r + v :
             i < j /\ Pipeline[i] # 0 /\ Pipeline[j] # 0 => Pipeline[i] < Pipeline[j]
        /\ \A i \in 1 .. d + r + v : Pipeline[i] < k /\ Pipeline[i] \in Nat
    <3>1. \A i \in 1 .. d + r + v : Pipeline[i] \in 0 .. Items
      BY <1>a, ElementOfSeq
    <3> QED
      BY <1>a, <1>t, <2>1, <3>1 DEF OrderInv, DeliveredInOrder
  <2>4. CASE Kind[k] = "tag"
    <3>1. /\ Len(tagVector') = v + 1
          /\ \A i \in 1 .. v : tagVector'[i] = tagVector[i]
          /\ tagVector'[v + 1] = k
      BY <1>t, <2>1, <2>2, <2>4, LastAppended DEF v
    <3>2. /\ Len(Pipeline') = d + r + v + 1
          /\ \A i \in 1 .. d + r + v + 1 :
               Pipeline'[i] = IF i <= d THEN delivered[i]
                              ELSE IF i <= d + c THEN copied[i - d]
                              ELSE IF i <= d + r THEN received[i - d]
                              ELSE tagVector'[i - d - r]
      <4>1. Len(delivered') = d /\ Len(copied') = c /\ Len(received') = r
        BY <2>1 DEF d, c, r
      <4>2. d + r + Len(tagVector') = d + r + v + 1
        BY <1>n, <3>1
      <4> QED
        BY <1>b, <2>1, <4>1, <4>2
    <3>3. \A i \in 1 .. d + r + v : Pipeline'[i] = Pipeline[i]
      <4> SUFFICES ASSUME NEW i \in 1 .. d + r + v PROVE Pipeline'[i] = Pipeline[i]
        OBVIOUS
      <4>1. i \in 1 .. d + r + v + 1
        BY <1>n
      <4>2. CASE i <= d + r
        BY <1>a, <1>n, <3>2, <4>1, <4>2
      <4>3. CASE d + r < i
        <5>1. i - d - r \in 1 .. v
          BY <1>n, <4>3
        <5>2. ~(i <= d) /\ ~(i <= d + c) /\ ~(i <= d + r)
          BY <1>n, <4>3
        <5>3. Pipeline'[i] = tagVector'[i - d - r] /\ Pipeline[i] = tagVector[i - d - r]
          BY <1>a, <3>2, <4>1, <5>2
        <5> QED
          BY <3>1, <5>1, <5>3
      <4> QED
        BY <1>n, <4>2, <4>3
    <3>4. Pipeline'[d + r + v + 1] = k
      <4> SUFFICES ASSUME NEW m \in Nat, m = d + r + v + 1 PROVE Pipeline'[m] = k
        BY <1>n
      <4>1. /\ m \in 1 .. d + r + v + 1 /\ ~(m <= d) /\ ~(m <= d + c) /\ ~(m <= d + r)
            /\ m - d - r = v + 1
        BY <1>n
      <4>2. Pipeline'[m] = tagVector'[m - d - r]
        BY <3>2, <4>1
      <4> QED
        BY <3>1, <4>1, <4>2
    <3>5. \A i \in 1 .. d + r + v + 1 : i \in 1 .. d + r + v \/ i = d + r + v + 1
      BY <1>n
    <3> DEFINE N == d + r + v + 1
               Q == Pipeline'
    <3>6. \A i \in 1 .. N : Q[i] <= k
      BY <2>o, <2>2, <3>3, <3>4, <3>5
    <3>7. \A i, j \in 1 .. N : i < j /\ Q[i] # 0 /\ Q[j] # 0 => Q[i] < Q[j]
      <4> SUFFICES ASSUME NEW i \in 1 .. N, NEW j \in 1 .. N, i < j, Q[i] # 0, Q[j] # 0
                   PROVE  Q[i] < Q[j]
        OBVIOUS
      <4>1. i \in 1 .. d + r + v
        BY <1>n
      <4>2. Q[i] = Pipeline[i]
        BY <3>3, <4>1
      <4>3. CASE j \in 1 .. d + r + v
        <5>1. Q[j] = Pipeline[j]
          BY <3>3, <4>3
        <5> QED
          BY <2>o, <4>1, <4>2, <4>3, <5>1
      <4>4. CASE j = d + r + v + 1
        BY <2>o, <3>4, <4>1, <4>2, <4>4
      <4> QED
        BY <3>5, <4>3, <4>4
    <3> HIDE DEF N
    <3>8. Len(Pipeline') = N
      BY <3>2 DEF N
    <3> QED
      BY <2>3, <3>6, <3>7, <3>8 DEF OrderInv, DeliveredInOrder
  <2>5. CASE Kind[k] # "tag"
    <3>1. Pipeline' = Pipeline
      BY <2>1, <2>5 DEF Pipeline
    <3> QED
      BY <1>a, <2>3, <2>o, <3>1 DEF OrderInv, DeliveredInOrder
  <2> QED
    BY <2>4, <2>5
<1>2. CASE PushReceived
  <2>1. /\ tagVector # <<>>
        /\ received' = Append(received, Head(tagVector))
        /\ tagVector' = Tail(tagVector)
        /\ UNCHANGED <<parsed, copied, delivered>>
    BY <1>2 DEF PushReceived, ReceiveTypes, ThreadTypes
  <2>2. /\ Head(tagVector) \in 0 .. Items /\ Head(tagVector) = tagVector[1]
        /\ Len(tagVector') = v - 1
        /\ \A i \in 1 .. v - 1 : tagVector'[i] = tagVector[i + 1]
    <3>1. /\ Head(tagVector) \in 0 .. Items /\ Head(tagVector) = tagVector[1]
          /\ Len(Tail(tagVector)) = Len(tagVector) - 1
          /\ \A i \in 1 .. Len(Tail(tagVector)) : Tail(tagVector)[i] = tagVector[i + 1]
      <4>1. tagVector \in Seq(0 .. Items) /\ tagVector # <<>>
        BY <1>t, <2>1
      <4>2. /\ Head(tagVector) \in 0 .. Items
            /\ Len(Tail(tagVector)) = Len(tagVector) - 1
            /\ \A i \in 1 .. Len(Tail(tagVector)) : Tail(tagVector)[i] = tagVector[i + 1]
        BY <4>1, HeadTailProperties
      <4>3. Head(tagVector) = tagVector[1]
        BY <4>1
      <4> QED
        BY <4>2, <4>3
    <3> QED
      BY <2>1, <3>1 DEF v
  <2>v. v >= 1
    BY <1>n, <1>t, <2>1, EmptySeq DEF v
  <2>3. /\ Len(received') = r + 1
        /\ \A i \in 1 .. r : received'[i] = received[i]
        /\ received'[r + 1] = tagVector[1]
    BY <1>t, <2>1, <2>2, LastAppended DEF r
  <2>4. /\ Len(Pipeline') = d + r + v
        /\ \A i \in 1 .. d + r + v :
             Pipeline'[i] = IF i <= d THEN delivered[i]
                            ELSE IF i <= d + c THEN copied[i - d]
                            ELSE IF i <= d + (r + 1) THEN received'[i - d]
                            ELSE tagVector'[i - d - (r + 1)]
    <3>1. Len(delivered') = d /\ Len(copied') = c
      BY <2>1 DEF d, c
    <3>2. d + (r + 1) + (v - 1) = d + r + v
      BY <1>n
    <3> QED
      BY SMTT(30), <1>b, <2>1, <2>2, <2>3, <3>1, <3>2
  <2>5. ASSUME NEW i \in 1 .. d + r + v
        PROVE  Pipeline'[i] = Pipeline[i]
    <3>1. CASE i <= d + c
      BY <1>a, <1>n, <2>4, <3>1
    <3>2. CASE d + c < i /\ i <= d + r
      <4>1. i - d \in 1 .. r
        BY <1>n, <3>2
      <4>2. Pipeline'[i] = received'[i - d] /\ Pipeline[i] = received[i - d]
        BY <1>a, <1>n, <2>4, <3>2
      <4> QED
        BY <2>3, <4>1, <4>2
    <3>3. CASE i = d + r + 1
      <4>1. i - d = r + 1 /\ i - d - r = 1
        BY <1>n, <3>3
      <4> QED
        BY <1>a, <1>n, <2>3, <2>4, <3>3, <4>1
    <3>4. CASE d + r + 1 < i
      <4>1. /\ i - d - (r + 1) \in 1 .. v - 1
            /\ i - d - (r + 1) + 1 = i - d - r
        BY <1>n, <3>4
      <4>2. tagVector'[i - d - (r + 1)] = tagVector[i - d - r]
        BY <2>2, <4>1
      <4> QED
        BY <1>a, <1>n, <2>4, <3>4, <4>2
    <3> QED
      BY <1>n, <3>1, <3>2, <3>3, <3>4
  <2> QED
    BY <1>a, <1>t, <2>1, <2>4, <2>5, OrderKeptInPlace
<1>3. CASE CopyTag \/ CopyDeadMemory
  <2>1. /\ appPc = "copy" /\ Len(copied) < limit
        /\ UNCHANGED <<parsed, delivered, received, tagVector>>
    BY <1>3 DEF CopyTag, CopyDeadMemory, rcvVars
  <2>2. PICK t \in {received[Len(copied) + 1], 0} : copied' = Append(copied, t)
    BY <1>3 DEF CopyTag, CopyDeadMemory
  <2>3. c + 1 \in 1 .. r
    BY <1>n, <1>t, <2>1 DEF c, r
  <2>4. t \in 0 .. Items
    <3>1. received[c + 1] \in 0 .. Items
      BY <1>t, <2>3, ElementOfSeq DEF r
    <3> QED
      BY <2>2, <3>1, TagReceiveAssumption DEF c
  <2>5. /\ Len(copied') = c + 1
        /\ \A i \in 1 .. c : copied'[i] = copied[i]
        /\ copied'[c + 1] \in {received[c + 1], 0}
    BY <1>t, <2>2, <2>4, LastAppended DEF c
  <2>6. /\ Len(Pipeline') = d + r + v
        /\ \A i \in 1 .. d + r + v :
             Pipeline'[i] = IF i <= d THEN delivered[i]
                            ELSE IF i <= d + (c + 1) THEN copied'[i - d]
                            ELSE IF i <= d + r THEN received[i - d]
                            ELSE tagVector[i - d - r]
    BY <1>b, <2>1, <2>5 DEF d, r, v
  <2>7. ASSUME NEW i \in 1 .. d + r + v
        PROVE  Pipeline'[i] \in {Pipeline[i], 0}
    <3>1. CASE i <= d
      BY <1>a, <1>n, <2>6, <3>1
    <3>2. CASE d < i /\ i <= d + c
      <4>1. i - d \in 1 .. c
        BY <1>n, <3>2
      <4> QED
        BY SMTT(30), <1>a, <1>n, <2>5, <2>6, <3>2, <4>1
    <3>3. CASE i = d + c + 1
      <4>1. i - d = c + 1
        BY <1>n, <3>3
      <4> QED
        BY <1>a, <1>n, <2>3, <2>5, <2>6, <3>3, <4>1
    <3>4. CASE d + c + 1 < i
      BY <1>a, <1>n, <2>3, <2>6, <3>4
    <3> QED
      BY <1>n, <3>1, <3>2, <3>3, <3>4
  <2> QED
    BY <1>a, <1>t, <2>1, <2>6, <2>7, OrderKeptInPlace
<1>4. CASE ClearReceived
  <2>1. /\ received' = <<>> /\ copied' = <<>>
        /\ delivered' = delivered \o copied
        /\ UNCHANGED <<parsed, tagVector>>
    BY <1>4 DEF ClearReceived, Remaining, rcvVars
  <2>2. /\ Len(delivered') = d + c
        /\ \A i \in 1 .. d + c : delivered'[i] = IF i <= d THEN delivered[i] ELSE copied[i - d]
    BY <1>t, <2>1, ConcatProperties DEF d, c
  <2>3. /\ Len(Pipeline') = d + c + v
        /\ \A i \in 1 .. d + c + v :
             Pipeline'[i] = IF i <= d + c THEN delivered'[i] ELSE tagVector[i - (d + c)]
    <3>1. Len(received') = 0 /\ Len(copied') = 0 /\ Len(tagVector') = v
      BY <2>1 DEF v
    <3>2. /\ d + c + 0 + v = d + c + v /\ d + c + 0 = d + c
          /\ \A i \in 1 .. d + c + v : i - (d + c) - 0 = i - (d + c)
      BY <1>n
    <3> QED
      BY <1>b, <2>1, <2>2, <3>1, <3>2
  <2> DEFINE f == [i \in 1 .. Len(Pipeline') |-> IF i <= d + c THEN i ELSE i + (r - c)]
  <2>4. f \in [1 .. Len(Pipeline') -> 1 .. Len(Pipeline)]
    BY <1>a, <1>n, <2>3
  <2>5. \A i \in 1 .. Len(Pipeline') : f[i] = IF i <= d + c THEN i ELSE i + (r - c)
    OBVIOUS
  <2> HIDE DEF f
  <2>6. \A i, j \in 1 .. Len(Pipeline') : i < j => f[i] < f[j]
    BY <1>n, <2>3, <2>5
  <2>7. ASSUME NEW i \in 1 .. Len(Pipeline')
        PROVE  Pipeline'[i] = Pipeline[f[i]]
    <3>1. i \in 1 .. d + c + v /\ f[i] \in 1 .. d + r + v
      BY <1>a, <2>3, <2>4
    <3>2. CASE i <= d
      BY <1>a, <1>n, <2>2, <2>3, <2>5, <3>1, <3>2
    <3>3. CASE d < i /\ i <= d + c
      BY <1>a, <1>n, <2>2, <2>3, <2>5, <3>1, <3>3
    <3>4. CASE d + c < i
      <4>1. f[i] = i + (r - c)
        BY <1>n, <2>5, <3>4
      <4>2. /\ ~(f[i] <= d) /\ ~(f[i] <= d + c) /\ ~(f[i] <= d + r)
            /\ f[i] - d - r = i - (d + c)
        BY <1>n, <3>4, <4>1
      <4>3. Pipeline[f[i]] = tagVector[i - (d + c)]
        BY <1>a, <3>1, <4>2
      <4>4. Pipeline'[i] = tagVector[i - (d + c)]
        BY <1>n, <2>3, <3>1, <3>4
      <4> QED
        BY <4>3, <4>4
    <3> QED
      BY <1>n, <3>2, <3>3, <3>4
  <2> QED
    BY <1>a, <1>t, <2>1, <2>4, <2>6, <2>7, OrderKept
<1>5. CASE UNCHANGED <<parsed, delivered, copied, received, tagVector>>
  <2>1. Pipeline' = Pipeline
    BY <1>5 DEF Pipeline
  <2> QED
    BY <1>5, <2>1 DEF OrderInv, DeliveredInOrder
<1> QED
  BY <1>1, <1>2, <1>3, <1>4, <1>5
  DEF Next, Arrive, ReceiveTags, ReadTagsFromSocket, KeepUnparsed, GetReceivedTags,
      BeginCopy, TCPSendAck, rcvVars, appVars, vars

(* The tags come out of GetReceivedTags in the order they were sent in and   *)
(* none twice, over all its calls and whatever the receiver thread adds      *)
(* while one of them runs; a tag read from dead memory has lost its place.   *)
THEOREM DeliveredInOrderHolds == Spec => []DeliveredInOrder
<1>1. Init => OrderInv
  <2> SUFFICES ASSUME Init PROVE OrderInv
    OBVIOUS
  <2>1. PipelineTypes /\ Len(delivered) = 0 /\ Len(received) = 0 /\ Len(tagVector) = 0
    BY DEF Init, PipelineTypes
  <2>2. Len(Pipeline) = 0
    BY <2>1, PipelineAt
  <2> QED
    BY <2>2 DEF OrderInv, DeliveredInOrder
<1>2. OrderInv => DeliveredInOrder
  BY DEF OrderInv
<1> QED
  BY <1>1, <1>2, OrderStep, StreamAligned, TypesHold, PTL DEF Spec
=============================================================================
