-------------------------- MODULE ObjectStreamProofs -------------------------
(***************************************************************************)
(* Theorems about ObjectStream for every number of masters, calls and      *)
(* messages, and messages of every size.                                   *)
(***************************************************************************)
EXTENDS ObjectStream, SequenceLemmas, FiniteSetTheorems

(* A unit of the stream. *)
Unit == [kind : {"digits", "data"}, v : Nat, n : Nat]

(* The types of what the calls of the front end keep; the list goes to each *)
(* master once.                                                              *)
CallTypes ==
  /\ calls \in 0 .. MaxCalls
  /\ size \in Seq(Sizes) /\ Len(size) <= MaxMessages
  /\ full \subseteq 1 .. Len(size)
  /\ list \in Seq(1 .. Len(size))
  /\ targets \in Seq(Master)
  /\ \A i, j \in 1 .. Len(targets) : targets[i] = targets[j] => i = j
  /\ result \in {"none", "true", "false", "threw"}
  /\ last \in 0 .. Masters
  /\ sentTo \in [Master -> Seq(1 .. Len(size))]

(* The types of the streams and the receivers. *)
StreamTypes ==
  /\ written \in [Master -> Seq(Unit)]
  /\ pos \in [Master -> Nat]
  /\ pc \in [Master -> {"count", "size", "data", "dead"}]
  /\ need \in [Master -> Nat]
  /\ expected \in [Master -> Nat]
  /\ got \in [Master -> Seq(Unit)]
  /\ received \in [Master -> Seq(Seq(Unit))]

(* A receiver is inside its stream and reads messages only as long as the   *)
(* list has more; nothing is written to a master that has ended.             *)
ReceiverTypes(m) ==
  /\ pos[m] <= Len(written[m])
  /\ pc[m] = "data" => Len(got[m]) <= expected[m]
  /\ pc[m] # "data" => got[m] = <<>>
  /\ pc[m] \in {"size", "data"} => need[m] # 0
  /\ Ended(m) => written[m] = <<>>

FlagTypes ==
  /\ spoiled \in [Master -> BOOLEAN]
  /\ feRuns \in BOOLEAN
  /\ quit \in BOOLEAN

ObjectTypes ==
  CallTypes /\ StreamTypes /\ (\A m \in Master : ReceiverTypes(m)) /\ FlagTypes

-----------------------------------------------------------------------------
(* The units of the stream. *)

(* Digits and payload are units. *)
LEMMA UnitTyped ==
  /\ \A v \in Nat : Digits(v) \in Unit
  /\ \A n, i \in Nat : Data(n, i) \in Unit
BY DEF Digits, Data, Unit

(* What a message is on the stream. *)
LEMMA MessageTyped ==
  ASSUME size \in Seq(Sizes), NEW n \in 1 .. Len(size)
  PROVE  /\ size[n] \in Nat \ {0}
         /\ Payload(n) \in Seq(Unit) /\ Len(Payload(n)) = size[n]
         /\ \A i \in 1 .. size[n] : Payload(n)[i] = Data(n, i)
         /\ SizeUnits(n) \in Seq(Unit) /\ Len(SizeUnits(n)) = 4
         /\ MessageUnits(n) \in Seq(Unit) /\ Len(MessageUnits(n)) = 4 + size[n]
         /\ \A i \in 1 .. 3 : MessageUnits(n)[i] = Digits(0)
         /\ MessageUnits(n)[4] = Digits(size[n])
         /\ SizeUnits(n)[4] = Digits(size[n])
         /\ \A i \in 1 .. size[n] : MessageUnits(n)[4 + i] = Data(n, i)
<1>1. size[n] \in Nat \ {0}
  BY ElementOfSeq, ObjectStreamAssumption
<1>2. n \in Nat
  OBVIOUS
<1>3. /\ Payload(n) \in Seq(Unit) /\ Len(Payload(n)) = size[n]
      /\ \A i \in 1 .. size[n] : Payload(n)[i] = Data(n, i)
  <2>1. \A i \in 1 .. size[n] : Data(n, i) \in Unit
    BY <1>1, <1>2, UnitTyped
  <2> QED
    BY <1>1, <2>1 DEF Payload
<1>4. PICK a, b : a = Digits(0) /\ b = Digits(size[n])
  OBVIOUS
<1>5. a \in Unit /\ b \in Unit
  BY <1>1, <1>4, UnitTyped
<1>6. PICK s : s = SizeUnits(n) /\ s = <<a, a, a, b>>
  BY <1>4 DEF SizeUnits
<1>s. s \in Seq(Unit)
  BY <1>5, <1>6
<1>7. s \in Seq(Unit) /\ Len(s) = 4 /\ s[1] = a /\ s[2] = a /\ s[3] = a /\ s[4] = b
  BY <1>5, <1>6
<1>8. PICK p \in Seq(Unit) : p = Payload(n)
  BY <1>3
<1>9. PICK w : w = s \o p /\ w = MessageUnits(n)
  BY <1>6, <1>8 DEF MessageUnits
<1>10. /\ w \in Seq(Unit) /\ Len(w) = 4 + Len(p)
       /\ \A i \in 1 .. 4 : w[i] = s[i]
       /\ \A i \in 1 .. Len(p) : w[4 + i] = p[i]
  <2>1. /\ w \in Seq(Unit) /\ Len(w) = Len(s) + Len(p)
        /\ \A i \in 1 .. Len(s) : w[i] = s[i]
        /\ \A i \in 1 .. Len(p) : w[Len(s) + i] = p[i]
    <3>1. Len(s) \in Nat /\ Len(p) \in Nat
      BY <1>s, LenProperties
    <3>2. w = s \o p
      BY <1>9
    <3> HIDE <1>9
    <3> QED
      BY <1>s, <3>1, <3>2, ConcatProperties
  <2> QED
    BY <1>7, <2>1
<1>11. \A i \in 1 .. 3 : i \in 1 .. 4 /\ s[i] = a
  BY <1>7
<1>12. \A i \in 1 .. 3 : w[i] = a
  BY <1>10, <1>11
<1>13. w[4] = b
  BY <1>7, <1>10
<1>14. \A i \in 1 .. size[n] : w[4 + i] = Data(n, i)
  BY <1>3, <1>8, <1>10
<1> QED
  BY <1>1, <1>3, <1>4, <1>6, <1>7, <1>8, <1>9, <1>10, <1>12, <1>13, <1>14

(* What a count is on the stream. *)
LEMMA CountTyped ==
  ASSUME NEW k \in Nat
  PROVE  /\ CountUnits(k) \in Seq(Unit) /\ Len(CountUnits(k)) = 2
         /\ CountUnits(k)[1] = Digits(0) /\ CountUnits(k)[2] = Digits(k)
<1>1. PICK a, b : a = Digits(0) /\ b = Digits(k)
  OBVIOUS
<1>2. a \in Unit /\ b \in Unit
  BY <1>1, UnitTyped
<1>3. CountUnits(k) = <<a, b>>
  BY <1>1 DEF CountUnits
<1> QED
  BY <1>1, <1>2, <1>3

MessagesOf(k) == [i \in 1 .. k |-> MessageUnits(list[i])]

(* The first k messages of the list are sequences of units. *)
LEMMA MessagesTyped ==
  ASSUME size \in Seq(Sizes), list \in Seq(1 .. Len(size)), NEW k \in 0 .. Len(list)
  PROVE  /\ MessagesOf(k) \in Seq(Seq(Unit)) /\ Len(MessagesOf(k)) = k
         /\ \A i \in 1 .. k : MessagesOf(k)[i] = MessageUnits(list[i])
         /\ FlattenSeq(MessagesOf(k)) \in Seq(Unit)
         /\ ListUnits(k) = CountUnits(Len(list)) \o FlattenSeq(MessagesOf(k))
         /\ ListUnits(k) \in Seq(Unit)
<1>l. Len(list) \in Nat /\ k \in Nat
  BY LenProperties
<1>1. \A i \in 1 .. k : list[i] \in 1 .. Len(size)
  <2> TAKE i \in 1 .. k
  <2>1. i \in 1 .. Len(list)
    BY <1>l
  <2> QED
    BY <2>1, ElementOfSeq
<1>2. \A i \in 1 .. k : MessageUnits(list[i]) \in Seq(Unit)
  BY <1>1, MessageTyped
<1>3. /\ MessagesOf(k) \in Seq(Seq(Unit)) /\ Len(MessagesOf(k)) = k
      /\ \A i \in 1 .. k : MessagesOf(k)[i] = MessageUnits(list[i])
  BY <1>l, <1>2 DEF MessagesOf
<1>4. FlattenSeq(MessagesOf(k)) \in Seq(Unit)
  BY <1>3, EmptySeq, FlattenAppend
<1>5. ListUnits(k) = CountUnits(Len(list)) \o FlattenSeq(MessagesOf(k))
  BY DEF ListUnits, MessagesOf
<1>6. CountUnits(Len(list)) \in Seq(Unit)
  BY <1>l, CountTyped
<1> QED
  BY <1>3, <1>4, <1>5, <1>6, ConcatProperties

(* How much of the list TCPSendVector writes. *)
LEMMA SentWholeCount ==
  ASSUME size \in Seq(Sizes), list \in Seq(1 .. Len(size))
  PROVE  /\ Cardinality(SentWhole) \in 0 .. Len(list)
         /\ Cardinality(SentWhole) = Len(list) <=> SentWhole = DOMAIN list
<1>1. Len(list) \in Nat /\ DOMAIN list = 1 .. Len(list)
  BY LenProperties
<1>n. PICK n \in Nat : n = Len(list)
  BY <1>1
<1>2. IsFiniteSet(1 .. n) /\ Cardinality(1 .. n) = n
  BY FS_Interval
<1>3. SentWhole \subseteq 1 .. Len(list)
  BY DEF SentWhole
<1>4. IsFiniteSet(SentWhole) /\ Cardinality(SentWhole) <= Len(list)
  BY <1>n, <1>2, <1>3, FS_Subset
<1>5. Cardinality(SentWhole) \in Nat
  BY <1>4, FS_CardinalityType
<1>6. Cardinality(SentWhole) = Len(list) => SentWhole = 1 .. Len(list)
  BY <1>n, <1>2, <1>3, FS_Subset
<1> QED
  BY <1>1, <1>n, <1>2, <1>4, <1>5, <1>6

(* What TCPSendVector writes is a sequence of units. *)
LEMMA EncodedTyped ==
  ASSUME size \in Seq(Sizes), list \in Seq(1 .. Len(size))
  PROVE  /\ Encoded \in Seq(Unit)
         /\ SentWhole = DOMAIN list => Encoded = ListUnits(Len(list))
         /\ SentWhole # DOMAIN list =>
              Len(Encoded) # 0 /\ Encoded[Len(Encoded)].kind = "digits"
<1>1. PICK k \in 0 .. Len(list) : k = Cardinality(SentWhole)
  BY SentWholeCount
<1>2. PICK u \in Seq(Unit) : u = ListUnits(k)
  BY MessagesTyped
<1>3. Encoded = u \o IF k = Len(list) THEN <<>> ELSE SizeUnits(list[k + 1])
  BY <1>1, <1>2 DEF Encoded
<1>4. CASE SentWhole = DOMAIN list
  <2>1. k = Len(list)
    BY <1>1, <1>4, SentWholeCount
  <2>2. Encoded = u
    BY <1>3, <2>1, ConcatEmptySeq
  <2> QED
    BY <1>2, <1>4, <2>1, <2>2
<1>5. CASE SentWhole # DOMAIN list
  <2>l. Len(list) \in Nat
    BY LenProperties
  <2>1. k # Len(list)
    BY <1>1, <1>5, SentWholeCount
  <2>2. k + 1 \in 1 .. Len(list)
    BY <2>l, <2>1
  <2>3. list[k + 1] \in 1 .. Len(size)
    BY <2>2, ElementOfSeq
  <2>4. PICK s \in Seq(Unit) : /\ s = SizeUnits(list[k + 1]) /\ Len(s) = 4
                               /\ s[4] = Digits(size[list[k + 1]])
    BY <2>3, MessageTyped
  <2>5. Encoded = u \o s
    BY <1>3, <2>1, <2>4
  <2>6. /\ Encoded \in Seq(Unit) /\ Len(Encoded) = Len(u) + Len(s) /\ Len(u) \in Nat
        /\ \A i \in 1 .. Len(s) : Encoded[Len(u) + i] = s[i]
    BY <2>5, ConcatProperties, LenProperties
  <2>7. Encoded[Len(u) + 4] = s[4]
    BY <2>4, <2>6
  <2>8. s[4].kind = "digits"
    BY <2>4 DEF Digits
  <2> QED
    BY <1>5, <2>4, <2>6, <2>7, <2>8
<1> QED
  BY <1>4, <1>5

(* What stoi makes of units is a number. *)
LEMMA NumberTyped ==
  ASSUME NEW u \in Seq(Unit), IsNumber(u)
  PROVE  StoI(u) \in Nat
<1>1. PICK k : k = Cardinality(DigitsIn(u))
  OBVIOUS
<1>2. Len(u) \in Nat
  BY LenProperties
<1>3. IsFiniteSet(1 .. Len(u)) /\ Cardinality(1 .. Len(u)) = Len(u)
  BY <1>2, FS_Interval
<1>4. DigitsIn(u) \subseteq 1 .. Len(u)
  BY DEF DigitsIn
<1>5. k \in Nat /\ k <= Len(u)
  BY <1>1, <1>3, <1>4, FS_Subset, FS_CardinalityType
<1>6. k > 0
  BY <1>1 DEF IsNumber
<1>7. \A i \in 1 .. Len(u) : u[i].v \in Nat
  <2>1. \A i \in 1 .. Len(u) : u[i] \in Unit
    BY ElementOfSeq
  <2> QED
    BY <2>1 DEF Unit
<1>8. u[k].v \in Nat
  BY <1>2, <1>5, <1>6, <1>7
<1>9. k # 1 => u[k - 1].v \in Nat
  BY <1>2, <1>5, <1>6, <1>7
<1>10. StoI(u) = u[k].v + IF k = 1 THEN 0 ELSE Group * u[k - 1].v
  BY <1>1 DEF StoI
<1>11. CASE k = 1
  BY <1>8, <1>10, <1>11
<1>12. CASE k # 1
  BY <1>8, <1>9, <1>10, <1>12 DEF Group
<1> QED
  BY <1>11, <1>12

(* stoi gives the number that was written if its digits fill the buffer.     *)
LEMMA NumberRead ==
  ASSUME NEW u \in Seq(Unit), NEW k \in {2, 4}, NEW n \in Nat, Len(u) = k,
         \A i \in 1 .. k : i # k => u[i] = Digits(0),
         u[k] = Digits(n)
  PROVE  IsNumber(u) /\ StoI(u) = n
<1>1. \A i \in 1 .. k : u[i].kind = "digits" /\ (i # k => u[i].v = 0)
  BY DEF Digits
<1>2. DigitsIn(u) = 1 .. k
  BY <1>1 DEF DigitsIn
<1>3. Cardinality(DigitsIn(u)) = k
  BY <1>2, FS_Interval
<1>4. IsNumber(u)
  BY <1>1, <1>3 DEF IsNumber
<1>5. StoI(u) = u[k].v + Group * u[k - 1].v
  BY <1>3 DEF StoI
<1>6. u[k].v = n /\ u[k - 1].v = 0
  BY <1>1 DEF Digits
<1> QED
  BY <1>4, <1>5, <1>6 DEF Group

-----------------------------------------------------------------------------
(* Types. *)

(* A read gives what is in the stream behind the place of the receiver.      *)
LEMMA UnitsRead ==
  ASSUME StreamTypes, NEW m \in Master, ReceiverTypes(m), NEW n \in Nat,
         NEW k \in Readable(m, n)
  PROVE  /\ k \in Nat \ {0} /\ k <= n /\ pos[m] + k <= Len(written[m])
         /\ Units(m, k) \in Seq(Unit) /\ Len(Units(m, k)) = k
         /\ \A i \in 1 .. k : Units(m, k)[i] = written[m][pos[m] + i]
<1>1. PICK w \in Seq(Unit), p \in Nat : w = written[m] /\ p = pos[m]
  BY DEF StreamTypes
<1>2. Len(w) \in Nat /\ p <= Len(w)
  BY <1>1, LenProperties DEF ReceiverTypes
<1>3. k \in 1 .. Len(w) - p /\ k <= n
  BY <1>1 DEF Readable
<1>4. k \in Nat \ {0} /\ p + k <= Len(w)
  BY <1>2, <1>3
<1>5. PICK e \in Nat \ {0} : e = k
  BY <1>4
<1>6. PICK lo \in Nat \ {0}, hi \in Nat : lo = p + 1 /\ hi = p + e
  OBVIOUS
<1>7. PICK u : u = SubSeq(w, lo, hi)
  OBVIOUS
<1>8. lo <= hi /\ hi <= Len(w) /\ hi - lo + 1 = k /\ \A i \in 1 .. k : lo + i - 1 = p + i
  BY <1>4, <1>5, <1>6
<1>9. u \in Seq(Unit) /\ Len(u) = k /\ \A i \in 1 .. k : u[i] = w[p + i]
  BY <1>7, <1>8, Piece
<1>10. Units(m, k) = u
  BY <1>1, <1>5, <1>6, <1>7 DEF Units
<1> QED
  BY <1>1, <1>3, <1>4, <1>9, <1>10

(* A call makes messages with the next numbers. *)
LEMMA CallTypesStep ==
  ASSUME CallTypes, NEW masters \in Seq(Master),
         \A i, j \in 1 .. Len(masters) : masters[i] = masters[j] => i = j,
         Call(masters)
  PROVE  /\ CallTypes' /\ Len(size) <= Len(size')
         /\ \A n \in 1 .. Len(size) : size'[n] = size[n]
         /\ \A n \in 1 .. Len(list') : list'[n] \in 1 .. Len(size')
<1>0. PICK k \in 0 .. MaxList :
        /\ Len(size) + k <= MaxMessages
        /\ \E s \in [1 .. k -> Sizes] : size' = size \o s
        /\ list' = [i \in 1 .. k |-> Len(size) + i]
  BY DEF Call
<1>1. PICK s \in [1 .. k -> Sizes] :
        /\ Len(size) + k <= MaxMessages
        /\ size' = size \o s
        /\ list' = [i \in 1 .. k |-> Len(size) + i]
  BY <1>0
<1>2. k \in Nat /\ MaxList \in Nat /\ MaxMessages \in Nat /\ MaxCalls \in Nat
  BY ObjectStreamAssumption
<1>3. size \in Seq(Sizes) /\ Len(size) \in Nat
  BY LenProperties DEF CallTypes
<1>4. s \in Seq(Sizes) /\ Len(s) = k
  BY <1>2
<1>5. PICK z : z = size'
  OBVIOUS
<1>6. /\ z \in Seq(Sizes) /\ Len(z) = Len(size) + k
      /\ \A n \in 1 .. Len(size) : z[n] = size[n]
  <2>1. PICK q \in Seq(Sizes), e \in Seq(Sizes) : q = size /\ e = s /\ z = q \o e
    BY <1>1, <1>3, <1>4, <1>5
  <2>2. /\ z \in Seq(Sizes) /\ Len(z) = Len(q) + Len(e)
        /\ \A n \in 1 .. Len(q) : z[n] = q[n]
    BY <2>1, Joined
  <2> QED
    BY <1>4, <2>1, <2>2
<1>7. /\ list' \in Seq(1 .. Len(z)) /\ Len(list') = k
      /\ \A n \in 1 .. k : list'[n] \in 1 .. Len(z)
  <2>1. \A i \in 1 .. k : Len(size) + i \in 1 .. Len(z)
    BY <1>2, <1>3, <1>6
  <2> QED
    BY <1>1, <1>2, <2>1
<1>8. Range(list') \subseteq 1 .. Len(z)
  BY <1>1, <1>2, <1>7 DEF Range
<1>9. full' \subseteq 1 .. Len(z)
  <2>1. full \subseteq 1 .. Len(size) /\ full' = full \cup Range(list')
    BY DEF CallTypes, Call
  <2>2. 1 .. Len(size) \subseteq 1 .. Len(z)
    BY <1>2, <1>3, <1>6
  <2> QED
    BY <1>8, <2>1, <2>2
<1>10. \A q \in Seq(1 .. Len(size)) : q \in Seq(1 .. Len(z))
  <2>1. 1 .. Len(size) \subseteq 1 .. Len(z)
    BY <1>2, <1>3, <1>6
  <2> QED
    BY <2>1, SeqMonotonic
<1>11. sentTo' \in [Master -> Seq(1 .. Len(z))]
  <2>1. sentTo \in [Master -> Seq(1 .. Len(size))]
    BY DEF CallTypes
  <2>2. \A m \in Master : sentTo[m] \in Seq(1 .. Len(z))
    BY <1>10, <2>1
  <2>3. \A m \in Master : sentTo[m] \o list' \in Seq(1 .. Len(z))
    BY <1>7, <2>2, ConcatProperties
  <2>4. sentTo' = [m \in Master |->
                     IF m \in Range(masters) THEN sentTo[m] \o list' ELSE sentTo[m]]
    BY DEF Call
  <2> QED
    BY <2>2, <2>3, <2>4
<1>12. calls' \in 0 .. MaxCalls
  BY <1>2 DEF Call, CallTypes
<1>13. targets' = masters /\ result' = "none" /\ last' = 0 /\ 0 \in 0 .. Masters
  BY ObjectStreamAssumption DEF Call
<1> QED
  BY <1>1, <1>3, <1>5, <1>6, <1>7, <1>9, <1>11, <1>12, <1>13 DEF CallTypes

(* The masters a call of the application can be made for. *)
LEMMA MastersOfCall ==
  /\ [m \in Master |-> m] \in Seq(Master) /\ Len([m \in Master |-> m]) = Masters
  /\ \A m \in Master : <<m>> \in Seq(Master) /\ Len(<<m>>) = 1
<1>1. Masters \in Nat /\ Master = 1 .. Masters
  BY ObjectStreamAssumption DEF Master
<1> QED
  BY <1>1

(* The list has one target less, and not the same one again. *)
LEMMA NextTarget ==
  ASSUME CallTypes, targets # <<>>
  PROVE  /\ Head(targets) \in Master /\ Tail(targets) \in Seq(Master)
         /\ \A i, j \in 1 .. Len(Tail(targets)) : Tail(targets)[i] = Tail(targets)[j] => i = j
         /\ Head(targets) \in Range(targets)
         /\ Head(targets) \notin Range(Tail(targets))
         /\ \A m : m # Head(targets) => (m \in Range(targets) <=> m \in Range(Tail(targets)))
<1>1. PICK t \in Seq(Master) : t = targets /\ t # <<>>
  BY DEF CallTypes
<1>2. /\ Head(t) \in Master /\ Tail(t) \in Seq(Master)
      /\ Len(Tail(t)) = Len(t) - 1 /\ Len(t) \in Nat \ {0}
      /\ \A i \in 1 .. Len(Tail(t)) : Tail(t)[i] = t[i + 1]
      /\ Head(t) = t[1]
  BY <1>1, HeadTailProperties, LenProperties, EmptySeq
<1>3. \A i, j \in 1 .. Len(t) : t[i] = t[j] => i = j
  BY <1>1 DEF CallTypes
<1>4. \A i \in 1 .. Len(Tail(t)) : i + 1 \in 1 .. Len(t) /\ i + 1 # 1 /\ 1 \in 1 .. Len(t)
  BY <1>2
<1>5. \A i, j \in 1 .. Len(Tail(t)) : Tail(t)[i] = Tail(t)[j] => i = j
  BY <1>2, <1>3, <1>4
<1>6. DOMAIN t = 1 .. Len(t) /\ DOMAIN Tail(t) = 1 .. Len(Tail(t))
  BY <1>2, LenProperties
<1>7. /\ \A m : m \in Range(t) <=> \E i \in 1 .. Len(t) : t[i] = m
      /\ \A m : m \in Range(Tail(t)) <=> \E i \in 1 .. Len(Tail(t)) : t[i + 1] = m
  BY <1>2, <1>6 DEF Range
<1>8. Head(t) \in Range(t)
  BY <1>2, <1>7
<1>9. Head(t) \notin Range(Tail(t))
  BY <1>2, <1>3, <1>4, <1>7
<1>10. ASSUME NEW m, m # Head(t)
       PROVE  m \in Range(t) <=> m \in Range(Tail(t))
  <2>1. ASSUME NEW i \in 1 .. Len(t), t[i] = m
        PROVE  i - 1 \in 1 .. Len(Tail(t)) /\ t[(i - 1) + 1] = m
    <3>1. i # 1
      BY <1>2, <1>10, <2>1
    <3> QED
      BY <1>2, <2>1, <3>1
  <2> QED
    BY <1>4, <1>7, <2>1
<1> QED
  BY <1>1, <1>2, <1>5, <1>8, <1>9, <1>10

(* A master that ends keeps only what it received. *)
LEMMA DieTypes ==
  ASSUME StreamTypes, \A a \in Master : ReceiverTypes(a), NEW m \in Master, Die(m)
  PROVE  /\ StreamTypes' /\ (\A a \in Master : ReceiverTypes(a)')
         /\ Ended(m)' /\ written'[m] = <<>>
<1>0. <<>> \in Seq(Unit) /\ Len(<<>>) = 0
  OBVIOUS
<1>1. StreamTypes'
  BY <1>0 DEF Die, StreamTypes, callVars
<1>2. ASSUME NEW a \in Master PROVE ReceiverTypes(a)'
  <2>1. CASE a = m
    <3>1. pc'[a] = "dead" /\ written'[a] = <<>> /\ pos'[a] = 0 /\ got'[a] = <<>>
      BY <2>1 DEF Die, StreamTypes
    <3> QED
      BY <1>0, <3>1 DEF ReceiverTypes, Ended
  <2>2. CASE a # m
    <3>1. /\ pc'[a] = pc[a] /\ written'[a] = written[a] /\ pos'[a] = pos[a]
          /\ need'[a] = need[a] /\ expected'[a] = expected[a] /\ got'[a] = got[a]
      BY <2>2 DEF Die, StreamTypes
    <3> QED
      BY <3>1 DEF ReceiverTypes, Ended
  <2> QED
    BY <2>1, <2>2
<1>3. Ended(m)' /\ written'[m] = <<>>
  BY DEF Die, StreamTypes, Ended
<1> QED
  BY <1>1, <1>2, <1>3

(* Whoever is not concerned by a step keeps its types. *)
LEMMA OthersTyped ==
  ASSUME \A a \in Master : ReceiverTypes(a), NEW m,
         \A a \in Master : a # m =>
           /\ pc'[a] = pc[a] /\ written'[a] = written[a] /\ pos'[a] = pos[a]
           /\ need'[a] = need[a] /\ expected'[a] = expected[a] /\ got'[a] = got[a],
         ReceiverTypes(m)'
  PROVE  \A a \in Master : ReceiverTypes(a)'
<1> SUFFICES ASSUME NEW a \in Master, a # m PROVE ReceiverTypes(a)'
  OBVIOUS
<1> QED
  BY DEF ReceiverTypes, Ended

(* The types of the calls are about their own variables. *)
LEMMA CallTypesKept ==
  ASSUME CallTypes, UNCHANGED callVars
  PROVE  CallTypes'
BY DEF CallTypes, callVars

(* A list that is written lengthens the stream of one master that runs. *)
LEMMA SendTypes ==
  ASSUME ObjectTypes, TCPSendVector
  PROVE  /\ ObjectTypes' /\ targets # <<>>
         /\ written' \in [Master -> Seq(Unit)]
         /\ \A m \in Master : m # Head(targets) => written'[m] = written[m]
         /\ ~Ended(Head(targets)) =>
              written'[Head(targets)] = written[Head(targets)] \o Encoded
         /\ Ended(Head(targets)) => written' = written
<1>0. CallTypes /\ StreamTypes /\ FlagTypes /\ \A m \in Master : ReceiverTypes(m)
  BY DEF ObjectTypes
<1>1. targets # <<>> /\ UNCHANGED <<calls, size, list, sentTo, receiverVars, feRuns, quit>>
  BY DEF TCPSendVector
<1>2. PICK h \in Master : h = Head(targets)
  BY <1>0, <1>1, NextTarget
<1>3. PICK e \in Seq(Unit) : e = Encoded
  BY <1>0, EncodedTyped DEF CallTypes
<1>4. written' = IF Ended(h) THEN written ELSE [written EXCEPT ![h] = @ \o e]
  BY <1>2, <1>3 DEF TCPSendVector
<1>w. PICK w \in Seq(Unit) : w = written[h]
  BY <1>0 DEF StreamTypes
<1>5. PICK c : w = written[h] /\ c = w \o e
  BY <1>w
<1>6. c \in Seq(Unit) /\ Len(w) \in Nat /\ Len(c) \in Nat /\ Len(w) <= Len(c)
  <2>1. Len(e) \in Nat
    BY LenProperties
  <2> QED
    BY <1>5, <2>1, Joined
<1>7. /\ written' \in [Master -> Seq(Unit)]
      /\ \A m \in Master : m # h => written'[m] = written[m]
      /\ ~Ended(h) => written'[h] = c
      /\ Ended(h) => written' = written
  <2>1. CASE Ended(h)
    BY <1>0, <1>4, <2>1 DEF StreamTypes
  <2>2. CASE ~Ended(h)
    <3>1. written' = [written EXCEPT ![h] = c]
      BY <1>4, <1>5, <2>2
    <3> QED
      BY <1>0, <1>6, <2>2, <3>1 DEF StreamTypes
  <2> QED
    BY <2>1, <2>2
<1>8. CallTypes'
  <2>1. /\ Tail(targets) \in Seq(Master)
        /\ \A i, j \in 1 .. Len(Tail(targets)) :
             Tail(targets)[i] = Tail(targets)[j] => i = j
    BY <1>0, <1>1, NextTarget
  <2>2. targets' = Tail(targets) /\ last' = h /\ full' = full \ Consumed
    BY <1>2 DEF TCPSendVector
  <2>3. result' \in {"none", "true", "false", "threw"}
    BY <1>0 DEF TCPSendVector, CallTypes
  <2>4. last' \in 0 .. Masters
    BY <2>2, ObjectStreamAssumption DEF Master
  <2>5. full' \subseteq 1 .. Len(size)
    BY <1>0, <2>2 DEF CallTypes
  <2> QED
    BY <1>0, <1>1, <2>1, <2>2, <2>3, <2>4, <2>5 DEF CallTypes
<1>9. StreamTypes'
  BY <1>0, <1>1, <1>7 DEF StreamTypes, receiverVars
<1>10. ASSUME NEW m \in Master PROVE ReceiverTypes(m)'
  <2>1. UNCHANGED <<pos, pc, need, expected, got>>
    BY <1>1 DEF receiverVars
  <2>2. CASE m = h /\ ~Ended(h)
    <3>1. pos[h] \in Nat /\ pos[h] <= Len(w)
      BY <1>0, <1>5 DEF StreamTypes, ReceiverTypes
    <3>2. pos[h] <= Len(c)
      BY <1>6, <3>1
    <3> QED
      BY <1>0, <1>7, <2>1, <2>2, <3>2 DEF ReceiverTypes, Ended
  <2>3. CASE ~(m = h /\ ~Ended(h))
    <3>1. written'[m] = written[m]
      BY <1>7, <2>3
    <3> QED
      BY <1>0, <2>1, <3>1 DEF ReceiverTypes, Ended
  <2> QED
    BY <2>2, <2>3
<1>11. FlagTypes'
  <2>1. /\ spoiled' = [spoiled EXCEPT ![h] = @ \/ SentWhole # DOMAIN list \/ Ended(h)]
        /\ UNCHANGED <<feRuns, quit>>
    BY <1>2 DEF TCPSendVector
  <2> QED
    BY <1>0, <2>1 DEF FlagTypes
<1> QED
  BY <1>1, <1>2, <1>3, <1>5, <1>7, <1>8, <1>9, <1>10, <1>11 DEF ObjectTypes

(* The front end stops its call, or ends. *)
LEMMA StopTypes ==
  ASSUME ObjectTypes, CountNotWritten \/ PushError \/ FrontEndReadsEnd \/ QuitFrontEnd
  PROVE  /\ ObjectTypes' /\ targets' = <<>>
         /\ UNCHANGED <<calls, size, sentTo, written, receiverVars>>
<1>0. CallTypes /\ StreamTypes /\ FlagTypes /\ \A m \in Master : ReceiverTypes(m)
  BY DEF ObjectTypes
<1>1. /\ targets' = <<>> /\ UNCHANGED <<calls, size, sentTo, written, receiverVars>>
      /\ (full' = full \/ full' = {}) /\ (list' = list \/ list' = <<>>)
      /\ result' \in {"threw", "none"} /\ (last' = last \/ last' = 0)
      /\ (feRuns' = feRuns \/ feRuns' = FALSE) /\ (quit' = quit \/ quit' = TRUE)
  BY DEF CountNotWritten, PushError, FrontEndReadsEnd, QuitFrontEnd, FrontEndEnds
<1>2. spoiled' = spoiled \/ spoiled' = [m \in Master |-> spoiled[m] \/ m \in Range(targets)]
  BY DEF CountNotWritten, PushError, FrontEndReadsEnd, QuitFrontEnd, FrontEndEnds
<1>3. 0 \in 0 .. Masters /\ <<>> \in Seq(Master) /\ Len(<<>>) = 0
  BY ObjectStreamAssumption
<1>4. <<>> \in Seq(1 .. Len(size))
  OBVIOUS
<1>5. CallTypes'
  <2>1. \A i, j \in 1 .. Len(targets') : targets'[i] = targets'[j] => i = j
    BY <1>1, <1>3
  <2>2. list' \in Seq(1 .. Len(size)) /\ full' \subseteq 1 .. Len(size)
    BY <1>0, <1>1, <1>4 DEF CallTypes
  <2> QED
    BY <1>0, <1>1, <1>3, <2>1, <2>2 DEF CallTypes
<1>6. StreamTypes'
  BY <1>0, <1>1 DEF StreamTypes, receiverVars
<1>7. ASSUME NEW m \in Master PROVE ReceiverTypes(m)'
  BY <1>0, <1>1 DEF ReceiverTypes, Ended, receiverVars
<1>8. spoiled' \in [Master -> BOOLEAN]
  BY <1>0, <1>2 DEF FlagTypes
<1>9. FlagTypes'
  BY <1>0, <1>1, <1>8 DEF FlagTypes
<1> QED
  BY <1>1, <1>5, <1>6, <1>7, <1>9 DEF ObjectTypes

(* ReadCount goes on with a number, or the master ends. *)
LEMMA CountTypes ==
  ASSUME ObjectTypes, NEW m \in Master, ReadCount(m)
  PROVE  ObjectTypes'
<1>0. CallTypes /\ StreamTypes /\ FlagTypes /\ \A a \in Master : ReceiverTypes(a)
  BY DEF ObjectTypes
<1>1. PICK k \in Readable(m, 2) :
       \/ /\ k < 2 \/ ~IsNumber(Units(m, k))
          /\ spoiled' = [spoiled EXCEPT ![m] = @ \/ k < 2]
          /\ Die(m)
       \/ /\ k = 2 /\ IsNumber(Units(m, k))
          /\ pos' = [pos EXCEPT ![m] = @ + k]
          /\ \E extra \in BOOLEAN :
               LET count == StoI(Units(m, k))
                   n == IF extra THEN 10 * count + 1 ELSE count
               IN  /\ need' = [need EXCEPT ![m] = n]
                   /\ pc' = [pc EXCEPT ![m] = NextPc(n)]
                   /\ spoiled' = [spoiled EXCEPT ![m] = @ \/ extra]
          /\ UNCHANGED <<senderVars, expected, got, received>>
  BY DEF ReadCount
<1>2. UNCHANGED <<feRuns, quit>> /\ pc[m] = "count"
  BY DEF ReadCount
<1>3. CASE Die(m) /\ spoiled' = [spoiled EXCEPT ![m] = @ \/ k < 2]
  <2>1. StreamTypes' /\ \A a \in Master : ReceiverTypes(a)'
    BY <1>0, <1>3, DieTypes
  <2>2. CallTypes'
    BY <1>0, <1>3, CallTypesKept DEF Die
  <2>3. FlagTypes'
    BY <1>0, <1>2, <1>3 DEF FlagTypes
  <2> QED
    BY <2>1, <2>2, <2>3 DEF ObjectTypes
<1>4. CASE ~(Die(m) /\ spoiled' = [spoiled EXCEPT ![m] = @ \/ k < 2])
  <2>1. /\ IsNumber(Units(m, k)) /\ pos' = [pos EXCEPT ![m] = @ + k]
        /\ UNCHANGED <<senderVars, expected, got, received>>
    BY <1>1, <1>4
  <2>2. /\ k \in Nat \ {0} /\ pos[m] + k <= Len(written[m])
        /\ Units(m, k) \in Seq(Unit) /\ pos[m] \in Nat
    BY <1>0, UnitsRead DEF StreamTypes
  <2>3. StoI(Units(m, k)) \in Nat
    BY <2>1, <2>2, NumberTyped
  <2>4. PICK extra \in BOOLEAN, n \in Nat :
          /\ need' = [need EXCEPT ![m] = n]
          /\ pc' = [pc EXCEPT ![m] = NextPc(n)]
          /\ spoiled' = [spoiled EXCEPT ![m] = @ \/ extra]
    BY <1>1, <1>4, <2>3
  <2>5. NextPc(n) \in {"count", "size"} /\ (NextPc(n) = "size" => n # 0)
    BY DEF NextPc
  <2>6. CallTypes'
    BY <1>0, <2>1, CallTypesKept DEF senderVars
  <2>7. StreamTypes'
    BY <1>0, <2>1, <2>2, <2>4, <2>5 DEF StreamTypes, senderVars
  <2>8. FlagTypes'
    BY <1>0, <1>2, <2>4 DEF FlagTypes
  <2>9. ReceiverTypes(m)'
    <3>1. /\ pos'[m] = pos[m] + k /\ need'[m] = n /\ pc'[m] = NextPc(n)
          /\ written' = written /\ got' = got
      BY <1>0, <2>1, <2>4 DEF StreamTypes, senderVars
    <3>2. got[m] = <<>>
      BY <1>0, <1>2 DEF ReceiverTypes
    <3> QED
      BY <2>2, <2>5, <3>1, <3>2 DEF ReceiverTypes, Ended
  <2>10. \A a \in Master : a # m =>
           /\ pc'[a] = pc[a] /\ written'[a] = written[a] /\ pos'[a] = pos[a]
           /\ need'[a] = need[a] /\ expected'[a] = expected[a] /\ got'[a] = got[a]
    BY <1>0, <2>1, <2>4 DEF StreamTypes, senderVars
  <2> QED
    BY <1>0, <2>6, <2>7, <2>8, <2>9, <2>10, OthersTyped DEF ObjectTypes
<1> QED
  BY <1>3, <1>4

(* ReadSize goes on, with a size or without, or the master ends. *)
LEMMA SizeTypes ==
  ASSUME ObjectTypes, NEW m \in Master, ReadSize(m)
  PROVE  ObjectTypes'
<1>0. CallTypes /\ StreamTypes /\ FlagTypes /\ \A a \in Master : ReceiverTypes(a)
  BY DEF ObjectTypes
<1>1. PICK k \in Readable(m, 4) :
       \/ /\ k < 4
          /\ pos' = [pos EXCEPT ![m] = @ + k]
          /\ spoiled' = [spoiled EXCEPT ![m] = TRUE]
          /\ UNCHANGED <<senderVars, pc, need, expected, got, received>>
       \/ /\ k = 4 /\ IsNumber(Units(m, k)) /\ StoI(Units(m, k)) <= IntMax
          /\ pos' = [pos EXCEPT ![m] = @ + k]
          /\ pc' = [pc EXCEPT ![m] = "data"]
          /\ expected' = [expected EXCEPT ![m] = StoI(Units(m, k))]
          /\ UNCHANGED <<senderVars, need, got, received, spoiled>>
       \/ Die(m) /\ UNCHANGED spoiled
  BY DEF ReadSize
<1>2. UNCHANGED <<feRuns, quit>> /\ pc[m] = "size"
  BY DEF ReadSize
<1>3. /\ k \in Nat \ {0} /\ pos[m] + k <= Len(written[m])
      /\ Units(m, k) \in Seq(Unit) /\ pos[m] \in Nat
  BY <1>0, UnitsRead DEF StreamTypes
<1>4. CASE k < 4 /\ UNCHANGED <<senderVars, pc, need, expected, got, received>>
           /\ pos' = [pos EXCEPT ![m] = @ + k] /\ spoiled' = [spoiled EXCEPT ![m] = TRUE]
  <2>1. CallTypes'
    BY <1>0, <1>4, CallTypesKept DEF senderVars
  <2>2. StreamTypes'
    BY <1>0, <1>3, <1>4 DEF StreamTypes, senderVars
  <2>3. FlagTypes'
    BY <1>0, <1>2, <1>4 DEF FlagTypes
  <2>4. ReceiverTypes(m)'
    <3>1. pos'[m] = pos[m] + k
      BY <1>0, <1>4 DEF StreamTypes
    <3> QED
      BY <1>0, <1>3, <1>4, <3>1 DEF ReceiverTypes, Ended, senderVars
  <2>5. \A a \in Master : a # m =>
           /\ pc'[a] = pc[a] /\ written'[a] = written[a] /\ pos'[a] = pos[a]
           /\ need'[a] = need[a] /\ expected'[a] = expected[a] /\ got'[a] = got[a]
    BY <1>0, <1>4 DEF StreamTypes, senderVars
  <2> QED
    BY <1>0, <2>1, <2>2, <2>3, <2>4, <2>5, OthersTyped DEF ObjectTypes
<1>5. CASE /\ k = 4 /\ IsNumber(Units(m, k))
           /\ pos' = [pos EXCEPT ![m] = @ + k]
           /\ pc' = [pc EXCEPT ![m] = "data"]
           /\ expected' = [expected EXCEPT ![m] = StoI(Units(m, k))]
           /\ UNCHANGED <<senderVars, need, got, received, spoiled>>
           /\ got[m] = <<>>
  <2>1. StoI(Units(m, k)) \in Nat
    BY <1>3, <1>5, NumberTyped
  <2>2. CallTypes'
    BY <1>0, <1>5, CallTypesKept DEF senderVars
  <2>3. StreamTypes'
    BY <1>0, <1>3, <1>5, <2>1 DEF StreamTypes, senderVars
  <2>4. FlagTypes'
    BY <1>0, <1>2, <1>5 DEF FlagTypes
  <2>5. ReceiverTypes(m)'
    <3>1. /\ pos'[m] = pos[m] + k /\ pc'[m] = "data" /\ written' = written
          /\ need'[m] = need[m] /\ got'[m] = got[m] /\ expected'[m] = StoI(Units(m, k))
      BY <1>0, <1>5 DEF StreamTypes, senderVars
    <3>2. Len(got[m]) = 0
      BY <1>5
    <3>3. need[m] # 0
      BY <1>0, <1>2 DEF ReceiverTypes
    <3> QED
      BY <1>3, <2>1, <3>1, <3>2, <3>3 DEF ReceiverTypes, Ended
  <2>6. \A a \in Master : a # m =>
           /\ pc'[a] = pc[a] /\ written'[a] = written[a] /\ pos'[a] = pos[a]
           /\ need'[a] = need[a] /\ expected'[a] = expected[a] /\ got'[a] = got[a]
    BY <1>0, <1>5 DEF StreamTypes, senderVars
  <2> QED
    BY <1>0, <2>2, <2>3, <2>4, <2>5, <2>6, OthersTyped DEF ObjectTypes
<1>6. CASE Die(m) /\ UNCHANGED spoiled
  <2>1. StreamTypes' /\ \A a \in Master : ReceiverTypes(a)'
    BY <1>0, <1>6, DieTypes
  <2>2. CallTypes'
    BY <1>0, <1>6, CallTypesKept DEF Die
  <2>3. FlagTypes'
    BY <1>0, <1>2, <1>6 DEF FlagTypes
  <2> QED
    BY <2>1, <2>2, <2>3 DEF ObjectTypes
<1>7. got[m] = <<>>
  BY <1>0, <1>2 DEF ReceiverTypes
<1> QED
  BY <1>1, <1>4, <1>5, <1>6, <1>7

(* ReadPayload takes no more than is missing of the payload. *)
LEMMA PayloadTypes ==
  ASSUME ObjectTypes, NEW m \in Master, ReadPayload(m)
  PROVE  ObjectTypes'
<1>0. CallTypes /\ StreamTypes /\ FlagTypes /\ \A a \in Master : ReceiverTypes(a)
  BY DEF ObjectTypes
<1>1. PICK k \in Readable(m, Missing(m)) :
        /\ pos' = [pos EXCEPT ![m] = @ + k]
        /\ got' = [got EXCEPT ![m] = @ \o Units(m, k)]
  BY DEF ReadPayload
<1>2. /\ pc[m] = "data" /\ ~Complete(m)
      /\ UNCHANGED <<senderVars, pc, need, expected, received, spoiled, feRuns, quit>>
  BY DEF ReadPayload
<1>3. PICK g \in Seq(Unit), e \in Nat : g = got[m] /\ e = expected[m] /\ Missing(m) = e - Len(g)
  BY <1>0 DEF StreamTypes, Missing
<1>4. Len(g) \in Nat /\ Len(g) <= e /\ Missing(m) \in Nat
  BY <1>0, <1>2, <1>3, LenProperties DEF ReceiverTypes
<1>5. /\ k \in Nat \ {0} /\ k <= Missing(m) /\ pos[m] + k <= Len(written[m])
      /\ Units(m, k) \in Seq(Unit) /\ Len(Units(m, k)) = k /\ pos[m] \in Nat
  BY <1>0, <1>4, UnitsRead DEF StreamTypes
<1>6. PICK u \in Seq(Unit) : u = Units(m, k) /\ Len(u) = k
  BY <1>5
<1>7. PICK h : h = g \o u
  OBVIOUS
<1>8. h \in Seq(Unit) /\ Len(h) = Len(g) + Len(u)
  BY <1>7, Joined
<1>9. Len(h) <= e
  BY <1>3, <1>4, <1>5, <1>6, <1>8
<1>10. /\ got' = [got EXCEPT ![m] = h] /\ got'[m] = h /\ pos'[m] = pos[m] + k
  BY <1>0, <1>1, <1>3, <1>6, <1>7 DEF StreamTypes
<1>11. CallTypes'
  BY <1>0, <1>2, CallTypesKept DEF senderVars
<1>12. StreamTypes'
  BY <1>0, <1>1, <1>2, <1>5, <1>8, <1>10 DEF StreamTypes, senderVars
<1>13. FlagTypes'
  BY <1>0, <1>2 DEF FlagTypes
<1>14. ReceiverTypes(m)'
  BY <1>0, <1>2, <1>3, <1>5, <1>9, <1>10 DEF ReceiverTypes, Ended, senderVars
<1>15. \A a \in Master : a # m =>
         /\ pc'[a] = pc[a] /\ written'[a] = written[a] /\ pos'[a] = pos[a]
         /\ need'[a] = need[a] /\ expected'[a] = expected[a] /\ got'[a] = got[a]
  BY <1>0, <1>1, <1>2 DEF StreamTypes, senderVars
<1> QED
  BY <1>0, <1>11, <1>12, <1>13, <1>14, <1>15, OthersTyped DEF ObjectTypes

(* EndMessage goes on with the next message, or the next list. *)
LEMMA EndTypes ==
  ASSUME ObjectTypes, NEW m \in Master, EndMessage(m)
  PROVE  ObjectTypes'
<1>0. CallTypes /\ StreamTypes /\ FlagTypes /\ \A a \in Master : ReceiverTypes(a)
  BY DEF ObjectTypes
<1>1. /\ pc[m] = "data"
      /\ received' = [received EXCEPT ![m] = Append(@, got[m])]
      /\ got' = [got EXCEPT ![m] = <<>>]
      /\ need' = [need EXCEPT ![m] = @ - 1]
      /\ pc' = [pc EXCEPT ![m] = NextPc(need[m] - 1)]
      /\ UNCHANGED <<senderVars, pos, expected, spoiled, feRuns, quit>>
  BY DEF EndMessage
<1>2. need[m] \in Nat \ {0}
  BY <1>0, <1>1 DEF StreamTypes, ReceiverTypes
<1>3. PICK n \in Nat : n = need[m] - 1
  BY <1>2
<1>4. NextPc(n) \in {"count", "size"} /\ (NextPc(n) = "size" => n # 0)
  BY DEF NextPc
<1>5. PICK r \in Seq(Seq(Unit)), g \in Seq(Unit) : r = received[m] /\ g = got[m]
  BY <1>0 DEF StreamTypes
<1>6. Append(r, g) \in Seq(Seq(Unit))
  BY AppendProperties
<1>7. received' = [received EXCEPT ![m] = Append(r, g)]
  BY <1>1, <1>5
<1>8. <<>> \in Seq(Unit) /\ need' = [need EXCEPT ![m] = n] /\ pc' = [pc EXCEPT ![m] = NextPc(n)]
  BY <1>1, <1>3
<1>9. CallTypes'
  BY <1>0, <1>1, CallTypesKept DEF senderVars
<1>10. StreamTypes'
  <2>1. received' \in [Master -> Seq(Seq(Unit))]
    BY <1>0, <1>6, <1>7 DEF StreamTypes
  <2>2. got' \in [Master -> Seq(Unit)]
    BY <1>0, <1>1, <1>8 DEF StreamTypes
  <2>3. need' \in [Master -> Nat]
    BY <1>0, <1>8 DEF StreamTypes
  <2>4. pc' \in [Master -> {"count", "size", "data", "dead"}]
    BY <1>0, <1>4, <1>8 DEF StreamTypes
  <2> QED
    BY <1>0, <1>1, <2>1, <2>2, <2>3, <2>4 DEF StreamTypes, senderVars
<1>11. FlagTypes'
  BY <1>0, <1>1 DEF FlagTypes
<1>12. ReceiverTypes(m)'
  <2>1. /\ pc'[m] = NextPc(n) /\ need'[m] = n /\ got'[m] = <<>>
        /\ pos' = pos /\ written' = written
    BY <1>0, <1>1, <1>8 DEF StreamTypes, senderVars
  <2> QED
    BY <1>0, <1>4, <2>1 DEF ReceiverTypes, Ended
<1>13. \A a \in Master : a # m =>
         /\ pc'[a] = pc[a] /\ written'[a] = written[a] /\ pos'[a] = pos[a]
         /\ need'[a] = need[a] /\ expected'[a] = expected[a] /\ got'[a] = got[a]
  BY <1>0, <1>1, <1>8 DEF StreamTypes, senderVars
<1> QED
  BY <1>0, <1>9, <1>10, <1>11, <1>12, <1>13, OthersTyped DEF ObjectTypes

(* ReadEnd and QuitMaster end the master. *)
LEMMA DeadTypes ==
  ASSUME ObjectTypes, NEW m \in Master, ReadEnd(m) \/ QuitMaster(m)
  PROVE  ObjectTypes'
<1>0. CallTypes /\ StreamTypes /\ FlagTypes /\ \A a \in Master : ReceiverTypes(a)
  BY DEF ObjectTypes
<1>1. Die(m) /\ UNCHANGED <<spoiled, feRuns>> /\ (quit' = quit \/ quit' = TRUE)
  BY DEF ReadEnd, QuitMaster
<1>2. StreamTypes' /\ \A a \in Master : ReceiverTypes(a)'
  BY <1>0, <1>1, DieTypes
<1>3. CallTypes'
  BY <1>0, <1>1, CallTypesKept DEF Die
<1>4. FlagTypes'
  BY <1>0, <1>1 DEF FlagTypes
<1> QED
  BY <1>2, <1>3, <1>4 DEF ObjectTypes

(* Begin a call: nothing but the call changes. *)
LEMMA BeginTypes ==
  ASSUME ObjectTypes, NEW masters \in Seq(Master),
         \A i, j \in 1 .. Len(masters) : masters[i] = masters[j] => i = j,
         Call(masters)
  PROVE  ObjectTypes'
<1>0. CallTypes /\ StreamTypes /\ FlagTypes /\ \A a \in Master : ReceiverTypes(a)
  BY DEF ObjectTypes
<1>1. UNCHANGED <<written, receiverVars, spoiled, feRuns, quit>>
  BY DEF Call
<1>2. CallTypes'
  BY <1>0, CallTypesStep
<1>3. StreamTypes'
  BY <1>0, <1>1 DEF StreamTypes, receiverVars
<1>4. \A a \in Master : ReceiverTypes(a)'
  BY <1>0, <1>1 DEF ReceiverTypes, Ended, receiverVars
<1>5. FlagTypes'
  BY <1>0, <1>1 DEF FlagTypes
<1> QED
  BY <1>2, <1>3, <1>4, <1>5 DEF ObjectTypes

(* The calls of the application begin for all masters, or for one. *)
LEMMA CallIs ==
  ASSUME Broadcast \/ \E m \in Master : Send(m)
  PROVE  \E masters \in Seq(Master) :
           /\ \A i, j \in 1 .. Len(masters) : masters[i] = masters[j] => i = j
           /\ Call(masters)
<1>1. CASE Broadcast
  <2>1. PICK masters : masters = [m \in Master |-> m]
    OBVIOUS
  <2>2. masters \in Seq(Master) /\ Call(masters)
    BY <1>1, <2>1, MastersOfCall DEF Broadcast
  <2>3. \A i \in 1 .. Len(masters) : masters[i] = i
    BY <2>1, MastersOfCall DEF Master
  <2>4. \A i, j \in 1 .. Len(masters) : masters[i] = masters[j] => i = j
    BY <2>3
  <2> QED
    BY <2>2, <2>4
<1>2. CASE \E m \in Master : Send(m)
  <2>1. PICK m \in Master : Send(m)
    BY <1>2
  <2>2. PICK masters : masters = <<m>>
    OBVIOUS
  <2>3. masters \in Seq(Master) /\ Call(masters)
    BY <2>1, <2>2, MastersOfCall DEF Send
  <2>4. \A i, j \in 1 .. Len(masters) : i = j
    BY <2>2, MastersOfCall
  <2> QED
    BY <2>3, <2>4
<1> QED
  BY <1>1, <1>2

(* The inductive type invariant holds at the start. *)
LEMMA InitTypes == Init => ObjectTypes
<1> SUFFICES ASSUME Init PROVE ObjectTypes
  OBVIOUS
<1>1. /\ 0 \in 0 .. MaxCalls /\ 0 \in 0 .. Masters /\ MaxMessages \in Nat /\ Len(<<>>) = 0
      /\ <<>> \in Seq(Sizes) /\ <<>> \in Seq(Master) /\ <<>> \in Seq(Unit)
      /\ <<>> \in Seq(Seq(Unit))
  BY ObjectStreamAssumption
<1>2. <<>> \in Seq(1 .. Len(size))
  OBVIOUS
<1>3. CallTypes
  <2>1. \A i, j \in 1 .. Len(targets) : targets[i] = targets[j] => i = j
    BY <1>1 DEF Init
  <2> QED
    BY <1>1, <1>2, <2>1 DEF Init, CallTypes
<1>4. StreamTypes
  BY <1>1 DEF Init, StreamTypes
<1>5. \A m \in Master : ReceiverTypes(m)
  BY <1>1 DEF Init, ReceiverTypes, Ended
<1>6. FlagTypes
  BY DEF Init, FlagTypes
<1> QED
  BY <1>3, <1>4, <1>5, <1>6 DEF ObjectTypes

(* Every step of the front end and of the receivers keeps the types. *)
LEMMA NextTypes == ObjectTypes /\ [Next]_vars => ObjectTypes'
<1> SUFFICES ASSUME ObjectTypes, [Next]_vars PROVE ObjectTypes'
  OBVIOUS
<1>1. CASE Broadcast \/ \E m \in Master : Send(m)
  BY <1>1, CallIs, BeginTypes
<1>2. CASE TCPSendVector
  BY <1>2, SendTypes
<1>3. CASE CountNotWritten \/ PushError \/ FrontEndReadsEnd \/ QuitFrontEnd
  BY <1>3, StopTypes
<1>4. ASSUME NEW m \in Master, ReadCount(m) PROVE ObjectTypes'
  BY <1>4, CountTypes
<1>5. ASSUME NEW m \in Master, ReadSize(m) PROVE ObjectTypes'
  BY <1>5, SizeTypes
<1>6. ASSUME NEW m \in Master, ReadPayload(m) PROVE ObjectTypes'
  BY <1>6, PayloadTypes
<1>7. ASSUME NEW m \in Master, EndMessage(m) PROVE ObjectTypes'
  BY <1>7, EndTypes
<1>8. ASSUME NEW m \in Master, ReadEnd(m) \/ QuitMaster(m) PROVE ObjectTypes'
  BY <1>8, DeadTypes
<1>9. CASE UNCHANGED vars
  BY <1>9
  DEF ObjectTypes, CallTypes, StreamTypes, ReceiverTypes, Ended, FlagTypes, vars,
      senderVars, callVars, receiverVars
<1> QED
  BY <1>1, <1>2, <1>3, <1>4, <1>5, <1>6, <1>7, <1>8, <1>9
  DEF Next, FrontEnd, StartReceiver

(* The inductive type invariant holds throughout. *)
THEOREM TypesInvariant == Spec => []ObjectTypes
<1>1. Init => ObjectTypes
  BY InitTypes
<1>2. ObjectTypes /\ [Next]_vars => ObjectTypes'
  BY NextTypes
<1> QED
  BY <1>1, <1>2, PTL DEF Spec

(* The variables of the object system keep their types, for any number of   *)
(* masters and messages; above all, no receiver holds more of a payload than *)
(* the size it read for it (TCPConnection.cpp:82-89).                        *)
THEOREM TypeCorrect == Spec => []TypeOK
<1>1. ObjectTypes => TypeOK
  <2> SUFFICES ASSUME ObjectTypes PROVE TypeOK
    OBVIOUS
  <2>1. CallTypes /\ StreamTypes /\ FlagTypes /\ \A m \in Master : ReceiverTypes(m)
    BY DEF ObjectTypes
  <2>2. ASSUME NEW m \in Master PROVE pos[m] \in 0 .. Len(written[m])
    <3>1. written[m] \in Seq(Unit) /\ pos[m] \in Nat /\ pos[m] <= Len(written[m])
      BY <2>1 DEF StreamTypes, ReceiverTypes
    <3>2. Len(written[m]) \in Nat
      BY <3>1, LenProperties
    <3> QED
      BY <3>1, <3>2
  <2>3. \A m \in Master : pc[m] = "data" => Len(got[m]) <= expected[m]
    BY <2>1 DEF ReceiverTypes
  <2> QED
    BY <2>1, <2>2, <2>3 DEF TypeOK, CallTypes, StreamTypes, FlagTypes
<1> QED
  BY <1>1, TypesInvariant, PTL

-----------------------------------------------------------------------------
(* What is on the streams. *)

(* A place in a stream between two counts, sizes or payloads: how many       *)
(* messages of the list are still to come, and how many have come in all.    *)
Mark == [at : Nat, left : Nat, done : Nat]
MarkOf(p, n, d) == [at |-> p, left |-> n, done |-> d]

(* What follows a mark in the stream w: nothing behind the last message J;   *)
(* a count; or the next message of sent, whose sizes are sz.                 *)
AtEnd(w, J, b) ==
  b.left = 0 /\ b.at = Len(w) /\ b.done = J

AtCount(w, B, b) ==
  /\ b.left = 0
  /\ b.at + 2 <= Len(w)
  /\ w[b.at + 1] = Digits(0)
  /\ \E n \in Nat : w[b.at + 2] = Digits(n) /\ MarkOf(b.at + 2, n, b.done) \in B

HoldsMessage(w, p, msg, e) ==
  /\ p + 4 + e <= Len(w)
  /\ \A i \in 1 .. 3 : w[p + i] = Digits(0)
  /\ w[p + 4] = Digits(e)
  /\ \A i \in 1 .. e : w[p + 4 + i] = Data(msg, i)

AtMessage(w, sent, sz, J, B, b) ==
  /\ b.left # 0
  /\ b.done < J
  /\ LET msg == sent[b.done + 1]
     IN  /\ HoldsMessage(w, b.at, msg, sz[msg])
         /\ MarkOf(b.at + 4 + sz[msg], b.left - 1, b.done + 1) \in B

Framed(w, sent, sz, J, B) ==
  \A b \in B : AtEnd(w, J, b) \/ AtCount(w, B, b) \/ AtMessage(w, sent, sz, J, B, b)

(* Where the receiver of m is: at a mark, or in the message behind one.      *)
Place(m, p) == MarkOf(p, need[m], Len(received[m]))

AtMark(m, B) ==
  pc[m] = NextPc(need[m]) /\ got[m] = <<>> /\ Place(m, pos[m]) \in B

InPayload(m, B) ==
  /\ pc[m] = "data"
  /\ Len(received[m]) < Len(sentTo[m])
  /\ \E p \in Nat : pos[m] = p + 4 + Len(got[m]) /\ Place(m, p) \in B
  /\ LET msg == sentTo[m][Len(received[m]) + 1]
     IN  /\ expected[m] = size[msg]
         /\ \A i \in 1 .. Len(got[m]) : got[m][i] = Data(msg, i)

(* What has been written of what is to be sent: the list that is being sent *)
(* is missing as long as the master is one of its targets.                   *)
Written(m, J) ==
  feRuns =>
    IF m \in Range(targets)
    THEN /\ J + Len(list) = Len(sentTo[m])
         /\ \A i \in 1 .. Len(list) : sentTo[m][J + i] = list[i]
    ELSE J = Len(sentTo[m])

CleanWith(m, J, B) ==
  /\ J \in 0 .. Len(sentTo[m])
  /\ Written(m, J)
  /\ Framed(written[m], sentTo[m], size, J, B)
  /\ AtMark(m, B) \/ InPayload(m, B)

Clean(m) == \E J \in Nat, B \in SUBSET Mark : CleanWith(m, J, B)

(* As long as nothing spoils a stream, what was received is what was sent,   *)
(* and what is on the stream of a receiver is framed from where it is.       *)
StreamOk(m) == ~Spoiled(m) => Intact(m) /\ (~Ended(m) => Clean(m))

StreamInv == \A m \in Master : StreamOk(m)

-----------------------------------------------------------------------------
(* The fields of a mark. *)
LEMMA MarkIs ==
  /\ \A p, n, d \in Nat : /\ MarkOf(p, n, d) \in Mark /\ MarkOf(p, n, d).at = p
                          /\ MarkOf(p, n, d).left = n /\ MarkOf(p, n, d).done = d
  /\ \A b \in Mark : b.at \in Nat /\ b.left \in Nat /\ b.done \in Nat
BY DEF Mark, MarkOf

(* A message keeps its place when more is written behind it.                 *)
LEMMA HoldsKept ==
  ASSUME NEW w \in Seq(Unit), NEW u \in Seq(Unit), NEW d, d = w \o u,
         NEW p \in Nat, NEW e \in Nat, NEW msg, HoldsMessage(w, p, msg, e)
  PROVE  HoldsMessage(d, p, msg, e)
<1>1. /\ Len(w) \in Nat /\ Len(u) \in Nat /\ Len(d) = Len(w) + Len(u)
      /\ \A i \in 1 .. Len(w) : d[i] = w[i]
  BY Joined
<1>2. /\ p + 4 + e <= Len(w)
      /\ \A i \in 1 .. 3 : w[p + i] = Digits(0)
      /\ w[p + 4] = Digits(e)
      /\ \A i \in 1 .. e : w[p + 4 + i] = Data(msg, i)
  BY DEF HoldsMessage
<1>3. ASSUME NEW i \in 1 .. 3 PROVE d[p + i] = Digits(0)
  <2>1. PICK x \in 1 .. Len(w) : x = p + i
    BY <1>1, <1>2
  <2> QED
    BY <1>1, <1>2, <2>1
<1>4. d[p + 4] = Digits(e)
  <2>1. PICK x \in 1 .. Len(w) : x = p + 4
    BY <1>1, <1>2
  <2> QED
    BY <1>1, <1>2, <2>1
<1>5. ASSUME NEW i \in 1 .. e PROVE d[p + 4 + i] = Data(msg, i)
  <2>1. PICK x \in 1 .. Len(w) : x = p + 4 + i
    BY <1>1, <1>2
  <2> QED
    BY <1>1, <1>2, <2>1
<1>6. p + 4 + e <= Len(d)
  BY <1>1, <1>2
<1> QED
  BY <1>3, <1>4, <1>5, <1>6 DEF HoldsMessage

(* A message that is written is found again behind what was there.           *)
LEMMA HoldsMoved ==
  ASSUME NEW w \in Seq(Unit), NEW u \in Seq(Unit), NEW d, d = w \o u,
         NEW p \in Nat, NEW e \in Nat, NEW msg, HoldsMessage(u, p, msg, e)
  PROVE  HoldsMessage(d, Len(w) + p, msg, e)
<1>1. /\ Len(w) \in Nat /\ Len(u) \in Nat /\ Len(d) = Len(w) + Len(u)
      /\ \A i \in 1 .. Len(u) : d[Len(w) + i] = u[i]
  BY Joined
<1>2. /\ p + 4 + e <= Len(u)
      /\ \A i \in 1 .. 3 : u[p + i] = Digits(0)
      /\ u[p + 4] = Digits(e)
      /\ \A i \in 1 .. e : u[p + 4 + i] = Data(msg, i)
  BY DEF HoldsMessage
<1>0. PICK l \in Nat : l = Len(w)
  BY <1>1
<1>3. ASSUME NEW i \in 1 .. 3 PROVE d[(l + p) + i] = Digits(0)
  <2>1. PICK x \in 1 .. Len(u) : x = p + i
    BY <1>1, <1>2
  <2>2. (l + p) + i = l + x
    BY <2>1
  <2>3. d[l + x] = u[x] /\ u[x] = Digits(0)
    BY <1>0, <1>1, <1>2, <2>1
  <2> QED
    BY <2>2, <2>3
<1>4. d[(l + p) + 4] = Digits(e)
  <2>1. PICK x \in 1 .. Len(u) : x = p + 4
    BY <1>1, <1>2
  <2>2. (l + p) + 4 = l + x
    BY <2>1
  <2>3. d[l + x] = u[x] /\ u[x] = Digits(e)
    BY <1>0, <1>1, <1>2, <2>1
  <2> QED
    BY <2>2, <2>3
<1>5. ASSUME NEW i \in 1 .. e PROVE d[(l + p) + 4 + i] = Data(msg, i)
  <2>1. PICK x \in 1 .. Len(u) : x = p + 4 + i
    BY <1>1, <1>2
  <2>2. (l + p) + 4 + i = l + x
    BY <2>1
  <2>3. d[l + x] = u[x] /\ u[x] = Data(msg, i)
    BY <1>0, <1>1, <1>2, <2>1
  <2> QED
    BY <2>2, <2>3
<1>6. (l + p) + 4 + e <= Len(d)
  BY <1>0, <1>1, <1>2
<1> QED
  BY <1>0, <1>3, <1>4, <1>5, <1>6 DEF HoldsMessage

(* A frame is about the messages up to J only. *)
LEMMA FramedKept ==
  ASSUME NEW w, NEW sent, NEW sz, NEW sent2, NEW sz2, NEW J \in Nat,
         NEW B \in SUBSET Mark, Framed(w, sent, sz, J, B),
         \A i \in 1 .. J : sent2[i] = sent[i] /\ sz2[sent[i]] = sz[sent[i]]
  PROVE  Framed(w, sent2, sz2, J, B)
<1> SUFFICES ASSUME NEW b \in B, AtMessage(w, sent, sz, J, B, b)
             PROVE  AtMessage(w, sent2, sz2, J, B, b)
  BY DEF Framed
<1>1. b.left # 0 /\ b.done < J /\ b.done \in Nat
  BY MarkIs DEF AtMessage
<1>2. b.done + 1 \in 1 .. J
  BY <1>1
<1>3. PICK msg : msg = sent[b.done + 1] /\ msg = sent2[b.done + 1] /\ sz2[msg] = sz[msg]
  BY <1>2
<1> QED
  BY <1>3 DEF AtMessage

(* Where the k messages of a list are in what is written of it: off[i] is    *)
(* how much comes between its count and the end of message i.                *)
LaidOut(u, off, l, k, sz) ==
  /\ off \in [0 .. k -> Nat]
  /\ off[0] = 0 /\ off[k] + 2 = Len(u)
  /\ u[1] = Digits(0) /\ u[2] = Digits(k)
  /\ \A i \in 1 .. k :
       /\ sz[l[i]] \in Nat
       /\ off[i] = off[i - 1] + 4 + sz[l[i]]
       /\ HoldsMessage(u, 2 + off[i - 1], l[i], sz[l[i]])

(* The messages of a list are the k behind the first J of sent.              *)
Behind(sent, J, l, k) == \A i \in 1 .. k : sent[J + i] = l[i]

(* The next message at a mark has a size. *)
SizesKnown(B, sent, sz) == \A b \in B : b.left # 0 => sz[sent[b.done + 1]] \in Nat

(* Some marks more than B frame d, with k messages more. *)
Grown(d, sent, sz, J, k, B) ==
  \E B2 \in SUBSET Mark : B \subseteq B2 /\ Framed(d, sent, sz, J + k, B2)

(* A list that is written behind a frame is framed with it. *)
LEMMA FramedGrows ==
  ASSUME NEW w \in Seq(Unit), NEW u \in Seq(Unit), NEW d, d = w \o u,
         NEW sent, NEW sz, NEW J \in Nat, NEW B \in SUBSET Mark,
         Framed(w, sent, sz, J, B),
         SizesKnown(B, sent, sz),
         NEW k \in Nat, NEW msgs, NEW off, LaidOut(u, off, msgs, k, sz),
         Behind(sent, J, msgs, k)
  PROVE  Grown(d, sent, sz, J, k, B)
<1>l. PICK l \in Nat : l = Len(w)
  BY LenProperties
<1>o. off \in [0 .. k -> Nat] /\ off[0] = 0 /\ off[k] + 2 = Len(u)
  BY DEF LaidOut
<1>u. u[1] = Digits(0) /\ u[2] = Digits(k)
  BY DEF LaidOut
<1>1. /\ Len(u) \in Nat /\ Len(d) = l + Len(u)
      /\ \A i \in 1 .. l : d[i] = w[i]
      /\ \A i \in 1 .. Len(u) : d[l + i] = u[i]
  BY <1>l, Joined
<1> DEFINE At(i) == MarkOf(l + 2 + off[i], k - i, J + i)
           B2 == B \cup {At(i) : i \in 0 .. k}
<1>2. ASSUME NEW i \in 0 .. k
      PROVE  /\ At(i) \in Mark /\ At(i).at = l + 2 + off[i]
             /\ At(i).left = k - i /\ At(i).done = J + i /\ off[i] \in Nat
  <2>1. PICK p \in Nat, n \in Nat, e \in Nat : p = l + 2 + off[i] /\ n = k - i /\ e = J + i
    BY <1>l, <1>o
  <2>2. At(i) = MarkOf(p, n, e)
    BY <2>1
  <2> HIDE DEF At
  <2>3. /\ MarkOf(p, n, e) \in Mark /\ MarkOf(p, n, e).at = p
        /\ MarkOf(p, n, e).left = n /\ MarkOf(p, n, e).done = e
    BY DEF Mark, MarkOf
  <2>4. off[i] \in Nat
    BY <1>o
  <2> QED
    BY <2>1, <2>2, <2>3, <2>4
<1>3. B2 \in SUBSET Mark /\ B \subseteq B2 /\ \A i \in 0 .. k : At(i) \in B2
  BY <1>2
<1> HIDE DEF At
<1>4. At(0) = MarkOf(l + 2, k, J)
  BY <1>o DEF At
<1> HIDE DEF B2
<1>5. ASSUME NEW b \in B
      PROVE  AtEnd(d, J + k, b) \/ AtCount(d, B2, b) \/ AtMessage(d, sent, sz, J + k, B2, b)
  <2>0. b.at \in Nat /\ b.left \in Nat /\ b.done \in Nat
    BY MarkIs
  <2>1. CASE AtEnd(w, J, b)
    <3>1. b.left = 0 /\ b.at = l /\ b.done = J
      BY <1>l, <2>1 DEF AtEnd
    <3>2. off[k] \in Nat
      BY <1>o
    <3>3. 1 \in 1 .. Len(u) /\ 2 \in 1 .. Len(u)
      BY <1>1, <1>o, <3>2
    <3>4. d[l + 1] = Digits(0) /\ d[l + 2] = Digits(k) /\ l + 2 <= Len(d)
      BY <1>1, <1>u, <3>3
    <3>5. MarkOf(b.at + 2, k, b.done) \in B2
      <4>1. 0 \in 0 .. k
        OBVIOUS
      <4> QED
        BY <1>3, <1>4, <3>1, <4>1
    <3> QED
      BY <3>1, <3>4, <3>5 DEF AtCount
  <2>2. CASE AtCount(w, B, b)
    <3>1. b.left = 0 /\ b.at + 2 <= l /\ w[b.at + 1] = Digits(0)
      BY <1>l, <2>2 DEF AtCount
    <3>2. PICK n \in Nat : w[b.at + 2] = Digits(n) /\ MarkOf(b.at + 2, n, b.done) \in B
      BY <2>2 DEF AtCount
    <3>3. PICK x \in 1 .. l, y \in 1 .. l : x = b.at + 1 /\ y = b.at + 2
      BY <2>0, <3>1
    <3>4. d[b.at + 1] = Digits(0) /\ d[b.at + 2] = Digits(n) /\ b.at + 2 <= Len(d)
      BY <1>1, <2>0, <3>1, <3>2, <3>3
    <3> QED
      BY <1>3, <3>1, <3>2, <3>4 DEF AtCount
  <2>3. CASE AtMessage(w, sent, sz, J, B, b)
    <3>1. PICK msg, e : msg = sent[b.done + 1] /\ e = sz[msg]
      OBVIOUS
    <3>2. /\ b.left # 0 /\ b.done < J /\ HoldsMessage(w, b.at, msg, e)
          /\ MarkOf(b.at + 4 + e, b.left - 1, b.done + 1) \in B
      BY <2>3, <3>1 DEF AtMessage
    <3>3. e \in Nat
      BY <3>1, <3>2 DEF SizesKnown
    <3>4. HoldsMessage(d, b.at, msg, e)
      BY <2>0, <3>2, <3>3, HoldsKept
    <3>5. b.done < J + k
      BY <2>0, <3>2
    <3>6. MarkOf(b.at + 4 + e, b.left - 1, b.done + 1) \in B2
      BY <1>3, <3>2
    <3> QED
      BY <3>1, <3>2, <3>4, <3>5, <3>6 DEF AtMessage
  <2> QED
    BY <2>1, <2>2, <2>3 DEF Framed
<1>6. ASSUME NEW i \in 0 .. k
      PROVE  AtEnd(d, J + k, At(i)) \/ AtMessage(d, sent, sz, J + k, B2, At(i))
  <2>1. CASE i = k
    <3>o. PICK o \in Nat : o = off[k] /\ o + 2 = Len(u)
      BY <1>o
    <3>1. At(i).left = 0 /\ At(i).done = J + k /\ At(i).at = l + 2 + o
      BY <1>2, <2>1, <3>o
    <3>2. l + 2 + o = Len(d)
      <4>1. Len(d) = l + Len(u)
        BY <1>1
      <4>2. PICK x \in Nat : x = Len(u) /\ x = o + 2
        BY <3>o
      <4>3. l + x = l + 2 + o
        BY <4>2
      <4> QED
        BY <4>1, <4>2, <4>3
    <3> QED
      BY <3>1, <3>2 DEF AtEnd
  <2>2. CASE i # k
    <3>1. PICK j \in 1 .. k : j = i + 1 /\ i = j - 1
      BY <2>2
    <3>2. PICK msg, e : msg = sent[J + j] /\ e = sz[msg]
      OBVIOUS
    <3>3. PICK o \in Nat : o = off[i]
      BY <1>o
    <3>m. msg = msgs[j]
      BY <3>2 DEF Behind
    <3>4. e \in Nat /\ off[j] = o + 4 + e /\ HoldsMessage(u, 2 + o, msg, e)
      BY <3>1, <3>2, <3>3, <3>m DEF LaidOut
    <3>5. HoldsMessage(d, l + (2 + o), msg, e)
      <4>1. PICK q \in Nat : q = 2 + o
        BY <3>3
      <4>2. HoldsMessage(u, q, msg, e)
        BY <3>4, <4>1
      <4>3. HoldsMessage(d, Len(w) + q, msg, e)
        BY <3>4, <4>2, HoldsMoved
      <4> QED
        BY <1>l, <4>1, <4>3
    <3>6. At(i).at = l + (2 + o) /\ At(i).left = k - i /\ At(i).done = J + i
      <4>1. At(i).at = l + 2 + off[i] /\ At(i).left = k - i /\ At(i).done = J + i
        BY <1>2
      <4>2. l + 2 + o = l + (2 + o)
        OBVIOUS
      <4> QED
        BY <3>3, <4>1, <4>2
    <3>7. (J + i) + 1 = J + j /\ J + i < J + k /\ k - i # 0
      BY <3>1
    <3>8. MarkOf((l + (2 + o)) + 4 + e, (k - i) - 1, (J + i) + 1) = At(j)
      <4>0. PICK a \in Nat : a = off[j] /\ a = o + 4 + e
        BY <3>3, <3>4
      <4>e. e \in Nat /\ a = o + 4 + e
        BY <3>4, <4>0
      <4>a. (l + (2 + o)) + 4 + e = l + 2 + a
        BY <4>e
      <4>b. (k - i) - 1 = k - j
        BY <3>1
      <4>1. (l + (2 + o)) + 4 + e = l + 2 + off[j] /\ (k - i) - 1 = k - j
        BY <4>0, <4>a, <4>b
      <4> QED
        BY <3>7, <4>1 DEF At
    <3>9. At(j) \in B2
      <4>1. j \in 0 .. k
        OBVIOUS
      <4> QED
        BY <1>3, <4>1
    <3> QED
      BY <3>2, <3>5, <3>6, <3>7, <3>8, <3>9 DEF AtMessage
  <2> QED
    BY <2>1, <2>2
<1>7. Framed(d, sent, sz, J + k, B2)
  BY <1>5, <1>6 DEF Framed, B2
<1> QED
  BY <1>3, <1>7 DEF Grown

(* What a list is on the stream when all of it is written.                   *)
LEMMA ListLaidOut ==
  ASSUME size \in Seq(Sizes), list \in Seq(1 .. Len(size)), NEW u, u = ListUnits(Len(list))
  PROVE  /\ u \in Seq(Unit)
         /\ \E off : LaidOut(u, off, list, Len(list), size)
<1>k. PICK k \in Nat : k = Len(list) /\ k \in 0 .. Len(list)
  BY LenProperties
<1>1. PICK t \in Seq(Seq(Unit)) : t = MessagesOf(k)
  BY <1>k, MessagesTyped
<1>2. PICK f \in Seq(Unit) : f = FlattenSeq(t)
  BY <1>1, <1>k, MessagesTyped
<1>3. /\ Len(t) = k /\ \A i \in 1 .. k : t[i] = MessageUnits(list[i])
  BY <1>1, <1>k, MessagesTyped
<1>4. PICK c \in Seq(Unit) : /\ c = CountUnits(k) /\ Len(c) = 2
                             /\ c[1] = Digits(0) /\ c[2] = Digits(k)
  BY CountTyped
<1>5. u = c \o f
  BY <1>k, <1>1, <1>2, <1>4, MessagesTyped
<1>6. PICK off \in [0 .. k -> Nat] : Placed(t, f, off)
  BY <1>2, <1>3, FlattenPlaces
<1>7. /\ u \in Seq(Unit) /\ Len(f) \in Nat /\ Len(u) = 2 + Len(f)
      /\ \A i \in 1 .. 2 : u[i] = c[i]
      /\ \A i \in 1 .. Len(f) : u[2 + i] = f[i]
  <2>1. /\ u \in Seq(Unit) /\ Len(f) \in Nat /\ Len(u) = Len(c) + Len(f)
        /\ \A i \in 1 .. Len(c) : u[i] = c[i]
        /\ \A i \in 1 .. Len(f) : u[Len(c) + i] = f[i]
    BY <1>5, Joined
  <2>2. Len(c) = 2
    BY <1>4
  <2> QED
    BY <2>1, <2>2
<1>8. u[1] = Digits(0) /\ u[2] = Digits(k)
  BY <1>4, <1>7
<1>9. off[0] = 0 /\ off[k] = Len(f)
  BY <1>3, <1>6 DEF Placed
<1>10. ASSUME NEW i \in 1 .. k
       PROVE  /\ size[list[i]] \in Nat
              /\ off[i] = off[i - 1] + 4 + size[list[i]]
              /\ HoldsMessage(u, 2 + off[i - 1], list[i], size[list[i]])
  <2>1. PICK n \in 1 .. Len(size) : n = list[i]
    BY <1>k, ElementOfSeq
  <2>2. PICK e \in Nat, g \in Seq(Unit) :
          /\ e = size[n] /\ g = MessageUnits(n) /\ Len(g) = 4 + e
          /\ \A x \in 1 .. 3 : g[x] = Digits(0)
          /\ g[4] = Digits(e)
          /\ \A x \in 1 .. e : g[4 + x] = Data(n, x)
    <3>1. /\ size[n] \in Nat
          /\ MessageUnits(n) \in Seq(Unit) /\ Len(MessageUnits(n)) = 4 + size[n]
          /\ \A x \in 1 .. 3 : MessageUnits(n)[x] = Digits(0)
          /\ MessageUnits(n)[4] = Digits(size[n])
          /\ \A x \in 1 .. size[n] : MessageUnits(n)[4 + x] = Data(n, x)
      BY MessageTyped
    <3> QED
      BY <3>1, Zenon
  <2>3. PICK a \in Nat, b \in Nat : a = off[i - 1] /\ b = off[i]
    <3>1. i - 1 \in 0 .. k /\ i \in 0 .. k
      BY <1>k
    <3>2. off[i - 1] \in Nat /\ off[i] \in Nat
      BY <1>6, <3>1
    <3> QED
      BY <3>2
  <2>4. b = a + 4 + e /\ b <= Len(f) /\ \A x \in 1 .. Len(g) : f[a + x] = g[x]
    <3>1. t[i] = g
      BY <1>3, <2>1, <2>2
    <3>2. /\ off[i] = off[i - 1] + Len(t[i]) /\ off[i] <= Len(f)
          /\ \A x \in 1 .. Len(t[i]) : f[off[i - 1] + x] = t[i][x]
      BY <1>3, <1>6 DEF Placed
    <3>3. /\ b = a + Len(g) /\ b <= Len(f)
          /\ \A x \in 1 .. Len(g) : f[a + x] = g[x]
      BY <2>3, <3>1, <3>2
    <3> QED
      <4>1. Len(g) = 4 + e
        BY <2>2
      <4>2. b = a + Len(g)
        BY <3>3
      <4>3. b = a + 4 + e
        BY <4>1, <4>2
      <4> QED
        BY <3>3, <4>3
  <2>5. HoldsMessage(f, a, n, e)
    <3>1. ASSUME NEW x \in 1 .. 3 PROVE f[a + x] = Digits(0)
      <4>1. x \in 1 .. Len(g)
        BY SMTT(30), <2>2
      <4> QED
        BY <2>2, <2>4, <4>1
    <3>2. f[a + 4] = Digits(e)
      <4>1. 4 \in 1 .. Len(g)
        BY <2>2
      <4> QED
        BY <2>2, <2>4, <4>1
    <3>3. ASSUME NEW x \in 1 .. e PROVE f[a + 4 + x] = Data(n, x)
      <4>1. PICK y \in 1 .. Len(g) : y = 4 + x
        BY <2>2
      <4>2. a + 4 + x = a + y
        BY <4>1
      <4> QED
        BY <2>2, <2>4, <4>1, <4>2
    <3>4. a + 4 + e <= Len(f)
      BY <2>4
    <3> QED
      BY <3>1, <3>2, <3>3, <3>4 DEF HoldsMessage
  <2>6. HoldsMessage(u, 2 + a, n, e)
    BY <1>4, <1>5, <2>5, HoldsMoved
  <2> QED
    BY <2>1, <2>2, <2>3, <2>4, <2>6
<1>11. off[0] = 0 /\ off[k] + 2 = Len(u)
  BY <1>7, <1>9
<1>12. LaidOut(u, off, list, k, size)
  BY <1>6, <1>8, <1>10, <1>11, Zenon DEF LaidOut
<1> QED
  BY <1>k, <1>7, <1>12
-----------------------------------------------------------------------------
(* The streams, step by step. *)

(* What was sent to a master are messages, with their sizes.                 *)
LEMMA SentTyped ==
  ASSUME ObjectTypes, NEW m \in Master
  PROVE  /\ sentTo[m] \in Seq(1 .. Len(size)) /\ Len(sentTo[m]) \in Nat
         /\ DOMAIN sentTo[m] = 1 .. Len(sentTo[m])
         /\ \A i \in 1 .. Len(sentTo[m]) :
              sentTo[m][i] \in 1 .. Len(size) /\ size[sentTo[m][i]] \in Nat \ {0}
         /\ received[m] \in Seq(Seq(Unit)) /\ Len(received[m]) \in Nat
         /\ got[m] \in Seq(Unit) /\ Len(got[m]) \in Nat
         /\ written[m] \in Seq(Unit) /\ Len(written[m]) \in Nat
         /\ pos[m] \in Nat /\ need[m] \in Nat /\ expected[m] \in Nat
<1>1. size \in Seq(Sizes) /\ sentTo[m] \in Seq(1 .. Len(size))
  BY DEF ObjectTypes, CallTypes
<1>2. \A i \in 1 .. Len(sentTo[m]) : sentTo[m][i] \in 1 .. Len(size)
  BY <1>1, ElementOfSeq
<1>3. \A n \in 1 .. Len(size) : size[n] \in Nat \ {0}
  BY <1>1, ElementOfSeq, ObjectStreamAssumption
<1>4. /\ received[m] \in Seq(Seq(Unit)) /\ got[m] \in Seq(Unit) /\ written[m] \in Seq(Unit)
      /\ pos[m] \in Nat /\ need[m] \in Nat /\ expected[m] \in Nat
  BY DEF ObjectTypes, StreamTypes
<1>5. /\ Len(received[m]) \in Nat /\ Len(got[m]) \in Nat /\ Len(written[m]) \in Nat
      /\ Len(sentTo[m]) \in Nat
  BY <1>1, <1>4, LenProperties
<1>6. DOMAIN sentTo[m] = 1 .. Len(sentTo[m])
  BY <1>1, LenProperties
<1> QED
  BY <1>1, <1>2, <1>3, <1>4, <1>5, <1>6

(* The contents r are those of the messages s, of the sizes z. *)
AreMessages(r, s, z) ==
  /\ Len(r) <= Len(s)
  /\ \A i \in 1 .. Len(r) : r[i] = [x \in 1 .. z[s[i]] |-> Data(s[i], x)]

(* What a master received stays what was sent to it. *)
LEMMA IntactKept ==
  ASSUME NEW m \in Master, Intact(m), received'[m] = received[m],
         sentTo' = sentTo, size' = size
  PROVE  Intact(m)'
<1>1. Intact(m) <=> AreMessages(received[m], sentTo[m], size)
  BY DEF Intact, Payload, AreMessages
<1>2. Intact(m)' <=> AreMessages(received'[m], sentTo'[m], size')
  BY DEF Intact, Payload, AreMessages
<1> QED
  BY <1>1, <1>2

(* A step that does not touch the stream or the receiver of a master.        *)
LEMMA UntouchedStream ==
  ASSUME NEW m \in Master, StreamOk(m), size' = size, sentTo' = sentTo,
         written'[m] = written[m], pos'[m] = pos[m], pc'[m] = pc[m],
         need'[m] = need[m], expected'[m] = expected[m], got'[m] = got[m],
         received'[m] = received[m], spoiled[m] => spoiled'[m],
         ~spoiled'[m] => \A J \in Nat : Written(m, J) => Written(m, J)'
  PROVE  StreamOk(m)'
<1> SUFFICES ASSUME ~Spoiled(m)' PROVE (Intact(m) /\ (~Ended(m) => Clean(m)))'
  BY DEF StreamOk
<1>1. ~Spoiled(m) /\ ~spoiled'[m]
  BY DEF Spoiled, Oversize
<1>2. Intact(m) /\ (~Ended(m) => Clean(m))
  BY <1>1 DEF StreamOk
<1>3. Intact(m)'
  BY <1>2, IntactKept
<1>4. ASSUME NEW J \in Nat, NEW B \in SUBSET Mark, CleanWith(m, J, B)
      PROVE  CleanWith(m, J, B)'
  <2>1. Written(m, J)'
    BY <1>1, <1>4 DEF CleanWith
  <2>2. AtMark(m, B) => AtMark(m, B)'
    BY DEF AtMark, Place
  <2>3. InPayload(m, B) => InPayload(m, B)'
    BY DEF InPayload, Place
  <2> QED
    BY <1>4, <2>1, <2>2, <2>3 DEF CleanWith
<1>5. Ended(m)' <=> Ended(m)
  BY DEF Ended
<1> QED
  BY <1>2, <1>3, <1>4, <1>5 DEF Clean

(* The receivers leave the calls alone. *)
LEMMA WrittenKept ==
  ASSUME NEW m \in Master, UNCHANGED <<callVars, feRuns>>
  PROVE  /\ size' = size /\ sentTo' = sentTo
         /\ \A J \in Nat : Written(m, J) <=> Written(m, J)'
BY DEF Written, callVars

(* What is to be sent, s, has become t: the list l came behind it if it was *)
(* to go to the master too.  The sizes of messages, z, have become y.        *)
Lengthened(s, t, l, z, y, too) ==
  /\ Len(s) \in Nat /\ Len(t) \in Nat /\ Len(l) \in Nat
  /\ DOMAIN s = 1 .. Len(s) /\ DOMAIN t = 1 .. Len(t)
  /\ IF too THEN Len(t) = Len(s) + Len(l) /\ Behind(t, Len(s), l, Len(l)) ELSE t = s
  /\ Len(s) <= Len(t)
  /\ \A i \in 1 .. Len(s) : t[i] = s[i] /\ y[s[i]] = z[s[i]]

(* A call lengthens what is to be sent, and leaves the sizes that there are. *)
LEMMA SentLonger ==
  ASSUME ObjectTypes, NEW masters \in Seq(Master),
         \A i, j \in 1 .. Len(masters) : masters[i] = masters[j] => i = j,
         Call(masters), NEW m \in Master
  PROVE  Lengthened(sentTo[m], sentTo'[m], list', size, size', m \in Range(masters))
<1>0. PICK s, t, l, k : s = sentTo[m] /\ t = sentTo'[m] /\ l = list' /\ k = Len(l)
  OBVIOUS
<1>1. sentTo' = [a \in Master |->
                  IF a \in Range(masters) THEN sentTo[a] \o list' ELSE sentTo[a]]
  BY DEF Call
<1>2. /\ ObjectTypes'
      /\ \A n \in 1 .. Len(size) : size'[n] = size[n]
  BY BeginTypes, CallTypesStep DEF ObjectTypes
<1>4. /\ s \in Seq(1 .. Len(size)) /\ Len(s) \in Nat /\ DOMAIN s = 1 .. Len(s)
      /\ \A i \in 1 .. Len(s) : s[i] \in 1 .. Len(size)
  BY <1>0, SentTyped
<1>6. t \in Seq(1 .. Len(size')) /\ Len(t) \in Nat /\ DOMAIN t = 1 .. Len(t)
  <2>1. t \in Seq(1 .. Len(size'))
    BY <1>0, <1>2 DEF ObjectTypes, CallTypes
  <2> QED
    BY <2>1, LenProperties
<1>7. k \in Nat
  <2>1. list' \in Seq(1 .. Len(size'))
    BY <1>2 DEF ObjectTypes, CallTypes
  <2> QED
    BY <1>0, <2>1, LenProperties
<1>8. IF m \in Range(masters)
      THEN Len(t) = Len(s) + k /\ (\A i \in 1 .. Len(s) : t[i] = s[i])
           /\ (\A i \in 1 .. k : t[Len(s) + i] = l[i])
      ELSE t = s
  <2>1. t = IF m \in Range(masters) THEN s \o l ELSE s
    BY <1>0, <1>1
  <2>2. CASE m \in Range(masters)
    <3>1. t = s \o l
      BY <2>1, <2>2
    <3>2. l \in Seq(1 .. Len(size')) /\ s \in Seq(1 .. Len(size'))
      <4>1. l \in Seq(1 .. Len(size'))
        BY <1>0, <1>2 DEF ObjectTypes, CallTypes
      <4>2. Len(size) \in Nat /\ Len(size') \in Nat /\ Len(size) <= Len(size')
        <5>1. size \in Seq(Sizes) /\ size' \in Seq(Sizes)
          BY <1>2 DEF ObjectTypes, CallTypes
        <5>2. Len(size) <= Len(size')
          BY CallTypesStep DEF ObjectTypes
        <5> QED
          BY <5>1, <5>2, LenProperties
      <4>3. 1 .. Len(size) \subseteq 1 .. Len(size')
        BY <4>2
      <4> QED
        BY <1>4, <4>1, <4>3, SeqMonotonic
    <3>3. /\ Len(t) = Len(s) + Len(l) /\ \A i \in 1 .. Len(s) : t[i] = s[i]
          /\ \A i \in 1 .. Len(l) : t[Len(s) + i] = l[i]
      BY <3>1, <3>2, Joined
    <3> QED
      BY <1>0, <2>2, <3>3
  <2>3. CASE m \notin Range(masters)
    BY <2>1, <2>3
  <2> QED
    BY <2>2, <2>3
<1>9. Len(s) <= Len(t) /\ \A i \in 1 .. Len(s) : t[i] = s[i] /\ size'[s[i]] = size[s[i]]
  <2>1. \A i \in 1 .. Len(s) : size'[s[i]] = size[s[i]]
    BY <1>2, <1>4
  <2>2. CASE m \in Range(masters)
    BY <1>4, <1>7, <1>8, <2>1, <2>2
  <2>3. CASE m \notin Range(masters)
    BY <1>4, <1>8, <2>1, <2>3
  <2> QED
    BY <2>2, <2>3
<1> QED
  BY <1>0, <1>4, <1>6, <1>7, <1>8, <1>9 DEF Lengthened, Behind

(* What a call does not spoil was not spoiled before. *)
LEMMA UnspoiledBefore ==
  ASSUME ObjectTypes, NEW masters \in Seq(Master),
         \A i, j \in 1 .. Len(masters) : masters[i] = masters[j] => i = j,
         Call(masters), NEW m \in Master, ~Spoiled(m)'
  PROVE  ~Spoiled(m)
<1>1. UNCHANGED spoiled
  BY DEF Call
<1>2. PICK s, t, l, k : s = sentTo[m] /\ t = sentTo'[m] /\ l = list' /\ k = Len(l)
  OBVIOUS
<1>3. /\ Len(s) \in Nat /\ Len(t) \in Nat /\ Len(s) <= Len(t)
      /\ DOMAIN s = 1 .. Len(s) /\ DOMAIN t = 1 .. Len(t)
      /\ \A i \in 1 .. Len(s) : t[i] = s[i] /\ size'[s[i]] = size[s[i]]
  BY <1>2, SentLonger DEF Lengthened
<1>4. ~spoiled[m] /\ \A n \in Range(t) : ~(size'[n] > IntMax)
  BY <1>1, <1>2 DEF Spoiled, Oversize
<1>5. ASSUME NEW i \in 1 .. Len(s) PROVE ~(size[s[i]] > IntMax)
  <2>1. i \in 1 .. Len(t) /\ t[i] = s[i] /\ size'[s[i]] = size[s[i]]
    BY <1>3
  <2>2. t[i] \in Range(t)
    BY <1>3, <2>1 DEF Range
  <2> QED
    BY <1>4, <2>1, <2>2
<1>6. ~Oversize(m)
  BY <1>2, <1>3, <1>5 DEF Oversize, Range
<1> QED
  BY <1>4, <1>6 DEF Spoiled

(* A call adds to what is to be sent; nothing is on a stream yet.            *)
LEMMA BeginStream ==
  ASSUME ObjectTypes, StreamInv, NEW masters \in Seq(Master),
         \A i, j \in 1 .. Len(masters) : masters[i] = masters[j] => i = j,
         Call(masters)
  PROVE  StreamInv'
<1> SUFFICES ASSUME NEW m \in Master, ~Spoiled(m)'
             PROVE  Intact(m)' /\ (~Ended(m)' => Clean(m)')
  BY DEF StreamInv, StreamOk
<1>1. /\ feRuns /\ targets = <<>> /\ targets' = masters
      /\ UNCHANGED <<written, receiverVars, spoiled, feRuns, quit>>
      /\ sentTo' = [a \in Master |->
                      IF a \in Range(masters) THEN sentTo[a] \o list' ELSE sentTo[a]]
  BY DEF Call
<1>2. PICK s, t, l, k : s = sentTo[m] /\ t = sentTo'[m] /\ l = list' /\ k = Len(l)
  OBVIOUS
<1>3. s = sentTo[m]
  BY <1>2
<1>5. t = sentTo'[m]
  BY <1>2
<1>7. l = list' /\ k = Len(l)
  BY <1>2
<1>l. Lengthened(s, t, l, size, size', m \in Range(masters))
  BY <1>2, SentLonger
<1>8. /\ Len(s) \in Nat /\ Len(t) \in Nat /\ k \in Nat
      /\ IF m \in Range(masters)
         THEN Len(t) = Len(s) + k /\ Behind(t, Len(s), l, k)
         ELSE t = s
  BY <1>2, <1>l DEF Lengthened
<1>9. Len(s) <= Len(t) /\ \A i \in 1 .. Len(s) : t[i] = s[i] /\ size'[s[i]] = size[s[i]]
  BY <1>l DEF Lengthened
<1>4. Len(s) \in Nat /\ Len(received[m]) \in Nat
  BY <1>8, SentTyped
<1>6. Len(t) \in Nat
  BY <1>8
<1>10. ~Spoiled(m)
  BY UnspoiledBefore
<1>11. Intact(m) /\ (~Ended(m) => Clean(m))
  BY <1>10 DEF StreamInv, StreamOk
<1>12. Intact(m)'
  <2>1. PICK r : r = received[m] /\ r = received'[m]
    BY <1>1 DEF receiverVars
  <2>2. Len(r) <= Len(s) /\ \A i \in 1 .. Len(r) : r[i] = Payload(s[i])
    BY <1>3, <1>11, <2>1 DEF Intact
  <2>3. \A i \in 1 .. Len(s) : Payload(s[i])' = Payload(s[i])
    BY <1>9 DEF Payload
  <2>4. Len(r) <= Len(t) /\ Len(r) \in Nat
    BY <1>4, <1>6, <1>9, <2>1, <2>2
  <2>5. ASSUME NEW i \in 1 .. Len(r) PROVE r[i] = [x \in 1 .. size'[t[i]] |-> Data(t[i], x)]
    <3>1. i \in 1 .. Len(s)
      BY <1>4, <2>2, <2>4
    <3>2. r[i] = [x \in 1 .. size[s[i]] |-> Data(s[i], x)]
      BY <2>2 DEF Payload
    <3> QED
      BY <1>9, <3>1, <3>2
  <2> QED
    BY <1>5, <2>1, <2>4, <2>5 DEF Intact, Payload
<1>13. ASSUME ~Ended(m)' PROVE Clean(m)'
  <2>1. ~Ended(m)
    BY <1>1, <1>13 DEF Ended, receiverVars
  <2>2. PICK J \in Nat, B \in SUBSET Mark : CleanWith(m, J, B)
    BY <1>11, <2>1 DEF Clean
  <2>3. J = Len(s) /\ Framed(written[m], s, size, J, B)
    <3>1. Written(m, J) /\ Framed(written[m], sentTo[m], size, J, B)
      BY <2>2 DEF CleanWith
    <3>2. m \notin Range(targets)
      BY <1>1 DEF Range
    <3> QED
      BY <1>1, <1>3, <3>1, <3>2 DEF Written
  <2>4. Framed(written[m], t, size', J, B)
    BY <1>9, <2>3, FramedKept
  <2>5. Written(m, J)'
    <3>1. CASE m \in Range(masters)
      BY <1>1, <1>5, <1>7, <1>8, <2>3, <3>1 DEF Written, Behind
    <3>2. CASE m \notin Range(masters)
      BY <1>1, <1>5, <1>8, <2>3, <3>2 DEF Written
    <3> QED
      BY <3>1, <3>2
  <2>6. AtMark(m, B) \/ InPayload(m, B)
    BY <2>2 DEF CleanWith
  <2>7. AtMark(m, B) => AtMark(m, B)'
    BY <1>1 DEF AtMark, Place, receiverVars
  <2>8. InPayload(m, B) => InPayload(m, B)'
    <3> SUFFICES ASSUME InPayload(m, B) PROVE InPayload(m, B)'
      OBVIOUS
    <3>1. PICK j : j = Len(received[m]) + 1 /\ j \in 1 .. Len(s) /\ Len(received[m]) < Len(s)
      BY <1>3, <1>4 DEF InPayload
    <3>2. PICK msg : msg = s[j] /\ msg = t[j] /\ size'[msg] = size[msg]
      BY <1>9, <3>1
    <3>3. /\ pc[m] = "data"
          /\ \E p \in Nat : pos[m] = p + 4 + Len(got[m]) /\ Place(m, p) \in B
          /\ expected[m] = size[msg]
          /\ \A i \in 1 .. Len(got[m]) : got[m][i] = Data(msg, i)
      BY <1>3, <3>1, <3>2 DEF InPayload
    <3>4. Len(received[m]) < Len(t)
      BY <1>4, <1>6, <1>9, <3>1
    <3>5. /\ pc' = pc /\ pos' = pos /\ got' = got /\ expected' = expected
          /\ received' = received /\ need' = need
      BY <1>1 DEF receiverVars
    <3>6. msg = sentTo'[m][Len(received'[m]) + 1]
      BY <1>5, <3>1, <3>2, <3>5
    <3>7. \E p \in Nat : pos'[m] = p + 4 + Len(got'[m]) /\ Place(m, p)' \in B
      BY <3>3, <3>5 DEF Place
    <3>8. /\ expected'[m] = size'[msg]
          /\ \A i \in 1 .. Len(got'[m]) : got'[m][i] = Data(msg, i)
      BY <3>2, <3>3, <3>5
    <3>9. pc'[m] = "data" /\ Len(received'[m]) < Len(sentTo'[m])
      BY <1>5, <3>3, <3>4, <3>5
    <3> QED
      BY <3>6, <3>7, <3>8, <3>9 DEF InPayload
  <2>9. J \in 0 .. Len(t)
    BY <1>4, <1>6, <1>9, <2>3
  <2>10. CleanWith(m, J, B)'
    BY <1>1, <1>5, <2>4, <2>5, <2>6, <2>7, <2>8, <2>9 DEF CleanWith
  <2> QED
    BY <2>10 DEF Clean
<1> QED
  BY <1>12, <1>13

(* A list that is written to a master that runs is framed on its stream.     *)
LEMMA SendStream ==
  ASSUME ObjectTypes, StreamInv, TCPSendVector
  PROVE  StreamInv'
<1>0. /\ targets # <<>> /\ feRuns
      /\ UNCHANGED <<calls, size, list, sentTo, receiverVars, feRuns, quit>>
      /\ targets' = Tail(targets)
      /\ spoiled' = [spoiled EXCEPT ![Head(targets)] =
                       @ \/ SentWhole # DOMAIN list \/ Ended(Head(targets))]
  BY DEF TCPSendVector
<1>1. PICK h \in Master : h = Head(targets)
  BY <1>0, NextTarget DEF ObjectTypes
<1>2. /\ h \in Range(targets) /\ h \notin Range(Tail(targets))
      /\ \A m : m # h => (m \in Range(targets) <=> m \in Range(Tail(targets)))
  BY <1>0, <1>1, NextTarget DEF ObjectTypes
<1>3. /\ \A m \in Master : m # h => written'[m] = written[m]
      /\ ~Ended(h) => written'[h] = written[h] \o Encoded
  BY <1>1, SendTypes
<1>4. spoiled' = [spoiled EXCEPT ![h] = @ \/ SentWhole # DOMAIN list \/ Ended(h)]
  BY <1>0, <1>1
<1>5. spoiled \in [Master -> BOOLEAN]
  BY DEF ObjectTypes, FlagTypes
<1>6. /\ pos' = pos /\ pc' = pc /\ need' = need /\ expected' = expected
      /\ got' = got /\ received' = received
  BY <1>0 DEF receiverVars
<1>7. ASSUME NEW m \in Master, m # h PROVE StreamOk(m)'
  <2>1. StreamOk(m)
    BY DEF StreamInv
  <2>2. spoiled[m] => spoiled'[m]
    BY <1>4, <1>5, <1>7
  <2>3. \A J \in Nat : Written(m, J) => Written(m, J)'
    BY <1>0, <1>2, <1>7 DEF Written
  <2> QED
    BY <1>0, <1>3, <1>6, <1>7, <2>1, <2>2, <2>3, UntouchedStream
<1>8. StreamOk(h)'
  <2> SUFFICES ASSUME ~Spoiled(h)' PROVE Intact(h)' /\ (~Ended(h)' => Clean(h)')
    BY DEF StreamOk
  <2>1. ~spoiled'[h] /\ ~Oversize(h)
    BY <1>0 DEF Spoiled, Oversize
  <2>2. SentWhole = DOMAIN list /\ ~Ended(h) /\ ~spoiled[h]
    BY <1>4, <1>5, <2>1
  <2>3. Intact(h) /\ Clean(h)
    BY <2>1, <2>2 DEF StreamInv, StreamOk, Spoiled
  <2>4. Intact(h)'
    <3>1. PICK r, s, z : r = received[h] /\ s = sentTo[h] /\ z = size
      OBVIOUS
    <3>2. /\ Len(r) <= Len(s)
          /\ \A i \in 1 .. Len(r) : r[i] = [x \in 1 .. z[s[i]] |-> Data(s[i], x)]
      BY <2>3, <3>1 DEF Intact, Payload
    <3>3. r = received'[h] /\ s = sentTo'[h] /\ z = size'
      BY <1>0, <1>6, <3>1
    <3> QED
      BY <3>2, <3>3 DEF Intact, Payload
  <2>5. PICK J \in Nat, B \in SUBSET Mark : CleanWith(h, J, B)
    BY <2>3 DEF Clean
  <2>6. /\ Written(h, J) /\ Framed(written[h], sentTo[h], size, J, B)
        /\ AtMark(h, B) \/ InPayload(h, B)
    BY <2>5 DEF CleanWith
  <2>7. PICK s : s = sentTo[h]
    OBVIOUS
  <2>t. size \in Seq(Sizes) /\ list \in Seq(1 .. Len(size))
    BY DEF ObjectTypes, CallTypes
  <2>8. PICK k \in Nat : k = Len(list)
    BY <2>t, LenProperties
  <2>9. J + k = Len(s) /\ \A i \in 1 .. k : s[J + i] = list[i]
    BY <1>0, <1>2, <2>6, <2>7, <2>8 DEF Written
  <2>10. PICK u : u = ListUnits(Len(list))
    OBVIOUS
  <2>11. u \in Seq(Unit) /\ u = Encoded
    BY <2>2, <2>t, <2>10, EncodedTyped
  <2>12. PICK off : LaidOut(u, off, list, k, size)
    BY <2>t, <2>8, <2>10, ListLaidOut
  <2>13. PICK w \in Seq(Unit) : w = written[h]
    BY SentTyped
  <2>14. PICK d : d = written'[h] /\ d = w \o u
    BY <1>3, <2>2, <2>11, <2>13
  <2>15. Framed(w, s, size, J, B)
    BY <2>6, <2>7, <2>13
  <2>16. \A b \in B : b.left # 0 => size[s[b.done + 1]] \in Nat
    <3> SUFFICES ASSUME NEW b \in B, b.left # 0 PROVE size[s[b.done + 1]] \in Nat
      OBVIOUS
    <3>1. AtMessage(w, s, size, J, B, b)
      BY <2>15 DEF Framed, AtEnd, AtCount
    <3>2. b.done < J /\ b.done \in Nat
      BY <3>1, MarkIs DEF AtMessage
    <3>3. PICK i \in 1 .. Len(s) : i = b.done + 1
      BY <2>9, <3>2
    <3> QED
      BY <2>7, <3>3, SentTyped
  <2>17. PICK C \in SUBSET Mark : B \subseteq C /\ Framed(d, s, size, J + k, C)
    <3>1. PICK z, l : z = size /\ l = list
      OBVIOUS
    <3>2. Behind(s, J, l, k)
      BY <2>9, <3>1 DEF Behind
    <3>3. LaidOut(u, off, l, k, z)
      BY <2>12, <3>1
    <3>4. Framed(w, s, z, J, B)
      BY <2>15, <3>1
    <3>5. SizesKnown(B, s, z)
      BY <2>16, <3>1 DEF SizesKnown
    <3>6. d = w \o u /\ u \in Seq(Unit) /\ w \in Seq(Unit)
      BY <2>11, <2>14
    <3>7. Grown(d, s, z, J, k, B)
      BY <3>2, <3>3, <3>4, <3>5, <3>6, FramedGrows
    <3> QED
      BY <3>1, <3>7 DEF Grown
  <2>18. PICK K \in Nat : K = J + k
    BY <2>8
  <2>19. Written(h, K)'
    BY <1>0, <1>2, <2>7, <2>9, <2>18 DEF Written
  <2>20. AtMark(h, B) => AtMark(h, C)'
    BY <1>6, <2>17 DEF AtMark, Place
  <2>21. InPayload(h, B) => InPayload(h, C)'
    BY <1>0, <1>6, <2>17 DEF InPayload, Place
  <2>22. Framed(written'[h], sentTo'[h], size', K, C)
    BY <1>0, <2>7, <2>14, <2>17, <2>18
  <2>23. K \in 0 .. Len(sentTo'[h])
    BY <1>0, <2>7, <2>9, <2>18
  <2>24. CleanWith(h, K, C)'
    BY <2>6, <2>19, <2>20, <2>21, <2>22, <2>23 DEF CleanWith
  <2> QED
    BY <2>4, <2>18, <2>24 DEF Clean
<1> QED
  BY <1>7, <1>8 DEF StreamInv

(* A call that is given up spoils the streams it was still to go to, and the *)
(* end of the front end promises nothing more.                               *)
LEMMA StopStream ==
  ASSUME ObjectTypes, StreamInv,
         CountNotWritten \/ PushError \/ FrontEndReadsEnd \/ QuitFrontEnd
  PROVE  StreamInv'
<1> SUFFICES ASSUME NEW m \in Master PROVE StreamOk(m)'
  BY DEF StreamInv
<1>1. UNCHANGED <<calls, size, sentTo, written, receiverVars>> /\ targets' = <<>>
  BY StopTypes
<1>2. /\ pos' = pos /\ pc' = pc /\ need' = need /\ expected' = expected
      /\ got' = got /\ received' = received
  BY <1>1 DEF receiverVars
<1>3. StreamOk(m)
  BY DEF StreamInv
<1>4. CASE CountNotWritten
  <2>1. spoiled' = [a \in Master |-> spoiled[a] \/ a \in Range(targets)] /\ list' = list
        /\ feRuns' = feRuns
    BY <1>4 DEF CountNotWritten
  <2>2. spoiled[m] => spoiled'[m]
    BY <2>1
  <2>3. m \notin Range(targets')
    BY <1>1 DEF Range
  <2>4. ASSUME ~spoiled'[m], NEW J \in Nat, Written(m, J) PROVE Written(m, J)'
    <3>1. m \notin Range(targets)
      BY <2>1, <2>4
    <3> QED
      BY <1>1, <2>1, <2>3, <2>4, <3>1 DEF Written
  <2> QED
    BY <1>1, <1>2, <1>3, <2>2, <2>4, UntouchedStream
<1>5. CASE FrontEndEnds
  <2>1. spoiled' = spoiled /\ ~feRuns'
    BY <1>5 DEF FrontEndEnds
  <2>2. \A J \in Nat : Written(m, J)'
    BY <2>1 DEF Written
  <2> QED
    BY <1>1, <1>2, <1>3, <2>1, <2>2, UntouchedStream
<1> QED
  BY <1>4, <1>5 DEF PushError, FrontEndReadsEnd, QuitFrontEnd

(* A receiver does not disturb the streams of the others. *)
LEMMA OthersStream ==
  ASSUME ObjectTypes, StreamInv, NEW m \in Master, UNCHANGED <<callVars, feRuns>>,
         \A a \in Master : a # m =>
           /\ written'[a] = written[a] /\ pos'[a] = pos[a] /\ pc'[a] = pc[a]
           /\ need'[a] = need[a] /\ expected'[a] = expected[a] /\ got'[a] = got[a]
           /\ received'[a] = received[a] /\ (spoiled[a] => spoiled'[a]),
         StreamOk(m)'
  PROVE  StreamInv'
<1> SUFFICES ASSUME NEW a \in Master, a # m PROVE StreamOk(a)'
  BY DEF StreamInv
<1>1. StreamOk(a)
  BY DEF StreamInv
<1>2. /\ size' = size /\ sentTo' = sentTo
      /\ \A J \in Nat : Written(a, J) <=> Written(a, J)'
  BY WrittenKept
<1> QED
  BY <1>1, <1>2, UntouchedStream

(* A master that ends has received what it has received. *)
LEMMA DieStream ==
  ASSUME ObjectTypes, StreamInv, NEW m \in Master, Die(m), feRuns' = feRuns,
         \A a \in Master : spoiled[a] => spoiled'[a]
  PROVE  StreamInv'
<1>1. UNCHANGED <<callVars, received>>
  BY DEF Die
<1>2. \A a \in Master : a # m =>
        /\ written'[a] = written[a] /\ pos'[a] = pos[a] /\ pc'[a] = pc[a]
        /\ need'[a] = need[a] /\ expected'[a] = expected[a] /\ got'[a] = got[a]
        /\ received'[a] = received[a]
  BY DEF Die, ObjectTypes, StreamTypes
<1>3. Ended(m)'
  BY DEF Die, Ended, ObjectTypes, StreamTypes
<1>4. StreamOk(m)'
  <2> SUFFICES ASSUME ~Spoiled(m)' PROVE Intact(m)'
    BY <1>3 DEF StreamOk
  <2>1. ~Spoiled(m)
    BY <1>1 DEF Spoiled, Oversize, callVars
  <2>2. Intact(m)
    BY <2>1 DEF StreamInv, StreamOk
  <2> QED
    BY <1>1, <2>2, IntactKept DEF callVars
<1> QED
  BY <1>1, <1>2, <1>4, OthersStream

(* All that is read of a clean stream as a count is a count.                 *)
LEMMA CountRead ==
  ASSUME ObjectTypes, NEW m \in Master, NEW J \in Nat, NEW B \in SUBSET Mark,
         CleanWith(m, J, B), pc[m] = "count", NEW k \in Readable(m, 2)
  PROVE  \E n \in Nat : /\ MarkOf(pos[m] + 2, n, Len(received[m])) \in B
                        /\ k = 2 => IsNumber(Units(m, k)) /\ StoI(Units(m, k)) = n
<1>0. /\ written[m] \in Seq(Unit) /\ pos[m] \in Nat /\ need[m] \in Nat
      /\ Len(received[m]) \in Nat
  BY SentTyped
<1>1. AtMark(m, B)
  BY DEF CleanWith, InPayload
<1>2. need[m] = 0 /\ Place(m, pos[m]) \in B
  BY <1>1 DEF AtMark, NextPc
<1>3. PICK b : b = Place(m, pos[m])
  OBVIOUS
<1>4. b \in B /\ b.at = pos[m] /\ b.left = 0 /\ b.done = Len(received[m])
  BY <1>0, <1>2, <1>3 DEF Place, MarkOf
<1>5. /\ k \in Nat \ {0} /\ k <= 2 /\ pos[m] + k <= Len(written[m])
      /\ Units(m, k) \in Seq(Unit) /\ Len(Units(m, k)) = k
      /\ \A i \in 1 .. k : Units(m, k)[i] = written[m][pos[m] + i]
  BY UnitsRead DEF ObjectTypes
<1>6. AtCount(written[m], B, b)
  <2>1. \/ AtEnd(written[m], J, b) \/ AtCount(written[m], B, b)
        \/ AtMessage(written[m], sentTo[m], size, J, B, b)
    BY <1>4 DEF CleanWith, Framed
  <2>2. ~AtEnd(written[m], J, b)
    BY <1>0, <1>4, <1>5 DEF AtEnd
  <2>3. ~AtMessage(written[m], sentTo[m], size, J, B, b)
    BY <1>4 DEF AtMessage
  <2> QED
    BY <2>1, <2>2, <2>3
<1>7. PICK n \in Nat : /\ written[m][pos[m] + 1] = Digits(0)
                       /\ written[m][pos[m] + 2] = Digits(n)
                       /\ MarkOf(pos[m] + 2, n, Len(received[m])) \in B
  BY <1>4, <1>6 DEF AtCount
<1>8. ASSUME k = 2 PROVE IsNumber(Units(m, k)) /\ StoI(Units(m, k)) = n
  <2>1. PICK u \in Seq(Unit) : u = Units(m, k)
    BY <1>5
  <2>2. Len(u) = 2 /\ u[1] = Digits(0) /\ u[2] = Digits(n)
    BY <1>5, <1>7, <1>8, <2>1
  <2>3. \A i \in 1 .. 2 : i # 2 => u[i] = Digits(0)
    BY <2>2
  <2>4. IsNumber(u) /\ StoI(u) = n
    BY <2>2, <2>3, NumberRead
  <2> QED
    BY <2>1, <2>4
<1> QED
  BY <1>7, <1>8

(* All that is read of a clean stream as a size is the size of the next     *)
(* message that was sent, which is behind it.                                *)
LEMMA SizeRead ==
  ASSUME ObjectTypes, NEW m \in Master, ~Oversize(m), NEW J \in Nat,
         NEW B \in SUBSET Mark, CleanWith(m, J, B), pc[m] = "size",
         NEW k \in Readable(m, 4), k = 4
  PROVE  /\ Place(m, pos[m]) \in B /\ got[m] = <<>>
         /\ Len(received[m]) < Len(sentTo[m])
         /\ IsNumber(Units(m, k)) /\ StoI(Units(m, k)) <= IntMax
         /\ StoI(Units(m, k)) = size[sentTo[m][Len(received[m]) + 1]]
<1>0. /\ written[m] \in Seq(Unit) /\ pos[m] \in Nat /\ need[m] \in Nat
      /\ Len(received[m]) \in Nat /\ Len(sentTo[m]) \in Nat
      /\ DOMAIN sentTo[m] = 1 .. Len(sentTo[m])
  BY SentTyped
<1>1. AtMark(m, B)
  BY DEF CleanWith, InPayload
<1>2. need[m] # 0 /\ Place(m, pos[m]) \in B /\ got[m] = <<>>
  BY <1>1 DEF AtMark, NextPc
<1>3. PICK b : b = Place(m, pos[m])
  OBVIOUS
<1>4. b \in B /\ b.at = pos[m] /\ b.left # 0 /\ b.done = Len(received[m])
  BY <1>0, <1>2, <1>3 DEF Place, MarkOf
<1>5. /\ Units(m, k) \in Seq(Unit) /\ Len(Units(m, k)) = k
      /\ \A i \in 1 .. k : Units(m, k)[i] = written[m][pos[m] + i]
  BY ZenonT(40), UnitsRead DEF ObjectTypes
<1>6. AtMessage(written[m], sentTo[m], size, J, B, b)
  BY <1>4 DEF CleanWith, Framed, AtEnd, AtCount
<1>7. PICK j : j = Len(received[m]) + 1
  OBVIOUS
<1>8. J <= Len(sentTo[m]) /\ Len(received[m]) < J
  BY <1>0, <1>4, <1>6 DEF CleanWith, AtMessage
<1>9. j \in 1 .. Len(sentTo[m]) /\ Len(received[m]) < Len(sentTo[m])
  BY <1>0, <1>7, <1>8
<1>10. PICK msg, e : msg = sentTo[m][j] /\ e = size[msg] /\ e \in Nat
  BY <1>9, SentTyped
<1>11. e <= IntMax
  <2>1. msg \in Range(sentTo[m])
    BY <1>0, <1>9, <1>10 DEF Range
  <2>2. ~(e > IntMax)
    BY <1>10, <2>1 DEF Oversize
  <2> QED
    BY <1>10, <2>2, ObjectStreamAssumption
<1>12. HoldsMessage(written[m], pos[m], msg, e)
  BY <1>4, <1>6, <1>7, <1>10 DEF AtMessage
<1>13. PICK u \in Seq(Unit) : u = Units(m, k) /\ Len(u) = 4
  BY <1>5
<1>14. /\ \A i \in 1 .. 3 : written[m][pos[m] + i] = Digits(0)
       /\ written[m][pos[m] + 4] = Digits(e)
  BY <1>12 DEF HoldsMessage
<1>15. \A i \in 1 .. 4 : u[i] = written[m][pos[m] + i]
  BY <1>5, <1>13
<1>16. u[4] = Digits(e) /\ \A i \in 1 .. 4 : i # 4 => u[i] = Digits(0)
  BY <1>14, <1>15
<1>17. IsNumber(u) /\ StoI(u) = e
  BY <1>10, <1>13, <1>16, NumberRead
<1> QED
  BY <1>2, <1>7, <1>9, <1>10, <1>11, <1>13, <1>17

(* ReadCount of a clean stream. *)
LEMMA CountStream ==
  ASSUME ObjectTypes, StreamInv, NEW m \in Master, ReadCount(m)
  PROVE  StreamInv'
<1>1. PICK k \in Readable(m, 2) :
       \/ /\ k < 2 \/ ~IsNumber(Units(m, k))
          /\ spoiled' = [spoiled EXCEPT ![m] = @ \/ k < 2]
          /\ Die(m)
       \/ /\ k = 2 /\ IsNumber(Units(m, k))
          /\ pos' = [pos EXCEPT ![m] = @ + k]
          /\ \E extra \in BOOLEAN :
               LET count == StoI(Units(m, k))
                   n == IF extra THEN 10 * count + 1 ELSE count
               IN  /\ need' = [need EXCEPT ![m] = n]
                   /\ pc' = [pc EXCEPT ![m] = NextPc(n)]
                   /\ spoiled' = [spoiled EXCEPT ![m] = @ \/ extra]
          /\ UNCHANGED <<senderVars, expected, got, received>>
  BY DEF ReadCount
<1>2. UNCHANGED <<feRuns, quit>> /\ pc[m] = "count"
  BY DEF ReadCount
<1>3. spoiled \in [Master -> BOOLEAN]
  BY DEF ObjectTypes, FlagTypes
<1>4. CASE Die(m) /\ spoiled' = [spoiled EXCEPT ![m] = @ \/ k < 2]
  <2>1. \A a \in Master : spoiled[a] => spoiled'[a]
    BY <1>3, <1>4
  <2> QED
    BY <1>2, <1>4, <2>1, DieStream
<1>5. CASE ~(Die(m) /\ spoiled' = [spoiled EXCEPT ![m] = @ \/ k < 2])
  <2>1. /\ k = 2 /\ IsNumber(Units(m, k)) /\ pos' = [pos EXCEPT ![m] = @ + k]
        /\ UNCHANGED <<senderVars, expected, got, received>>
    BY <1>1, <1>5
  <2>2. PICK extra, n :
          /\ extra \in BOOLEAN
          /\ need' = [need EXCEPT ![m] = n]
          /\ pc' = [pc EXCEPT ![m] = NextPc(n)]
          /\ spoiled' = [spoiled EXCEPT ![m] = @ \/ extra]
          /\ ~extra => n = StoI(Units(m, k))
    BY <1>1, <1>5
  <2>3. \A a \in Master : a # m =>
           /\ written'[a] = written[a] /\ pos'[a] = pos[a] /\ pc'[a] = pc[a]
           /\ need'[a] = need[a] /\ expected'[a] = expected[a] /\ got'[a] = got[a]
           /\ received'[a] = received[a] /\ (spoiled[a] => spoiled'[a])
    BY <1>3, <2>1, <2>2 DEF ObjectTypes, StreamTypes, senderVars
  <2>4. UNCHANGED <<callVars, feRuns>> /\ size' = size /\ sentTo' = sentTo
    BY <1>2, <2>1 DEF senderVars, callVars
  <2>5. StreamOk(m)'
    <3> SUFFICES ASSUME ~Spoiled(m)' PROVE Intact(m)' /\ Clean(m)'
      BY DEF StreamOk
    <3>1. ~extra /\ ~Spoiled(m)
      BY <1>3, <2>2, <2>4 DEF Spoiled, Oversize
    <3>2. Intact(m) /\ Clean(m)
      BY <1>2, <3>1 DEF StreamInv, StreamOk, Ended
    <3>3. Intact(m)'
      BY <2>1, <2>4, <3>2, IntactKept
    <3>4. PICK J \in Nat, B \in SUBSET Mark : CleanWith(m, J, B)
      BY <3>2 DEF Clean
    <3>5. PICK q \in Nat : /\ MarkOf(pos[m] + 2, q, Len(received[m])) \in B
                           /\ k = 2 => IsNumber(Units(m, k)) /\ StoI(Units(m, k)) = q
      BY <1>2, <3>4, CountRead
    <3>6. n = q
      BY <2>1, <2>2, <3>1, <3>5
    <3>7. /\ pos'[m] = pos[m] + 2 /\ need'[m] = n /\ pc'[m] = NextPc(n)
          /\ got' = got /\ received' = received /\ written' = written
      BY <2>1, <2>2 DEF ObjectTypes, StreamTypes, senderVars
    <3>8. got[m] = <<>>
      BY <1>2 DEF ObjectTypes, ReceiverTypes
    <3>9. AtMark(m, B)'
      BY <3>5, <3>6, <3>7, <3>8 DEF AtMark, Place
    <3>10. Written(m, J)'
      BY <2>4, <3>4, WrittenKept DEF CleanWith
    <3>11. CleanWith(m, J, B)'
      BY <2>4, <3>4, <3>7, <3>9, <3>10 DEF CleanWith
    <3> QED
      BY <3>3, <3>11 DEF Clean
  <2> QED
    BY <2>3, <2>4, <2>5, OthersStream
<1> QED
  BY <1>4, <1>5

(* ReadSize of a clean stream; a part of a size spoils it. *)
LEMMA SizeStream ==
  ASSUME ObjectTypes, StreamInv, NEW m \in Master, ReadSize(m)
  PROVE  StreamInv'
<1>1. PICK k \in Readable(m, 4) :
       \/ /\ k < 4
          /\ pos' = [pos EXCEPT ![m] = @ + k]
          /\ spoiled' = [spoiled EXCEPT ![m] = TRUE]
          /\ UNCHANGED <<senderVars, pc, need, expected, got, received>>
       \/ /\ k = 4 /\ IsNumber(Units(m, k)) /\ StoI(Units(m, k)) <= IntMax
          /\ pos' = [pos EXCEPT ![m] = @ + k]
          /\ pc' = [pc EXCEPT ![m] = "data"]
          /\ expected' = [expected EXCEPT ![m] = StoI(Units(m, k))]
          /\ UNCHANGED <<senderVars, need, got, received, spoiled>>
       \/ Die(m) /\ UNCHANGED spoiled
  BY DEF ReadSize
<1>2. UNCHANGED <<feRuns, quit>> /\ pc[m] = "size"
  BY DEF ReadSize
<1>3. spoiled \in [Master -> BOOLEAN]
  BY DEF ObjectTypes, FlagTypes
<1>4. CASE Die(m) /\ UNCHANGED spoiled
  BY <1>2, <1>4, DieStream
<1>5. CASE /\ k < 4
           /\ pos' = [pos EXCEPT ![m] = @ + k]
           /\ spoiled' = [spoiled EXCEPT ![m] = TRUE]
           /\ UNCHANGED <<senderVars, pc, need, expected, got, received>>
  <2>1. \A a \in Master : a # m =>
           /\ written'[a] = written[a] /\ pos'[a] = pos[a] /\ pc'[a] = pc[a]
           /\ need'[a] = need[a] /\ expected'[a] = expected[a] /\ got'[a] = got[a]
           /\ received'[a] = received[a] /\ (spoiled[a] => spoiled'[a])
    BY <1>3, <1>5 DEF ObjectTypes, StreamTypes, senderVars
  <2>2. StreamOk(m)'
    BY <1>3, <1>5 DEF StreamOk, Spoiled
  <2>3. UNCHANGED <<callVars, feRuns>>
    BY <1>2, <1>5 DEF senderVars
  <2> QED
    BY <2>1, <2>2, <2>3, OthersStream
<1>6. CASE /\ k = 4
           /\ pos' = [pos EXCEPT ![m] = @ + k]
           /\ pc' = [pc EXCEPT ![m] = "data"]
           /\ expected' = [expected EXCEPT ![m] = StoI(Units(m, k))]
           /\ UNCHANGED <<senderVars, need, got, received, spoiled>>
  <2>1. \A a \in Master : a # m =>
           /\ written'[a] = written[a] /\ pos'[a] = pos[a] /\ pc'[a] = pc[a]
           /\ need'[a] = need[a] /\ expected'[a] = expected[a] /\ got'[a] = got[a]
           /\ received'[a] = received[a] /\ (spoiled[a] => spoiled'[a])
    BY <1>6 DEF ObjectTypes, StreamTypes, senderVars
  <2>2. UNCHANGED <<callVars, feRuns>> /\ size' = size /\ sentTo' = sentTo
    BY <1>2, <1>6 DEF senderVars, callVars
  <2>3. StreamOk(m)'
    <3> SUFFICES ASSUME ~Spoiled(m)' PROVE Intact(m)' /\ Clean(m)'
      BY DEF StreamOk
    <3>1. ~Spoiled(m) /\ ~Oversize(m)
      BY <1>6, <2>2 DEF Spoiled, Oversize
    <3>2. Intact(m) /\ Clean(m)
      BY <1>2, <3>1 DEF StreamInv, StreamOk, Ended
    <3>3. Intact(m)'
      BY <1>6, <2>2, <3>2, IntactKept
    <3>4. PICK J \in Nat, B \in SUBSET Mark : CleanWith(m, J, B)
      BY <3>2 DEF Clean
    <3>5. /\ Place(m, pos[m]) \in B /\ got[m] = <<>>
          /\ Len(received[m]) < Len(sentTo[m])
          /\ StoI(Units(m, k)) = size[sentTo[m][Len(received[m]) + 1]]
      BY <1>2, <1>6, <3>1, <3>4, SizeRead
    <3>6. /\ pos'[m] = pos[m] + 4 /\ need' = need /\ pc'[m] = "data"
          /\ expected'[m] = StoI(Units(m, k))
          /\ got' = got /\ received' = received /\ written' = written
      BY <1>6 DEF ObjectTypes, StreamTypes, senderVars
    <3>7. Len(got[m]) = 0 /\ pos[m] \in Nat
      BY <3>5, SentTyped
    <3>8. \E p \in Nat : pos'[m] = p + 4 + Len(got'[m]) /\ Place(m, p)' \in B
      <4>1. pos'[m] = pos[m] + 4 + Len(got'[m])
        BY <3>6, <3>7
      <4>2. MarkOf(pos[m], need'[m], Len(received'[m])) \in B
        BY <3>5, <3>6 DEF Place
      <4> QED
        BY <3>7, <4>1, <4>2 DEF Place
    <3>9. InPayload(m, B)'
      <4>1. \A i \in 1 .. Len(got'[m]) : FALSE
        BY <3>6, <3>7
      <4> QED
        BY <2>2, <3>5, <3>6, <3>8, <4>1 DEF InPayload
    <3>10. Written(m, J)'
      BY <2>2, <3>4, WrittenKept DEF CleanWith
    <3>11. CleanWith(m, J, B)'
      BY <2>2, <3>4, <3>6, <3>9, <3>10 DEF CleanWith
    <3> QED
      BY <3>3, <3>11 DEF Clean
  <2> QED
    BY <2>1, <2>2, <2>3, OthersStream
<1> QED
  BY <1>1, <1>4, <1>5, <1>6

(* Where a clean receiver is in a payload. *)
LEMMA PayloadAt ==
  ASSUME ObjectTypes, NEW m \in Master, NEW J \in Nat, NEW B \in SUBSET Mark,
         CleanWith(m, J, B), pc[m] = "data"
  PROVE  \E msg : \E p \in Nat :
           /\ msg = sentTo[m][Len(received[m]) + 1]
           /\ Len(received[m]) < Len(sentTo[m])
           /\ expected[m] = size[msg] /\ size[msg] \in Nat
           /\ pos[m] = p + 4 + Len(got[m]) /\ Place(m, p) \in B
           /\ \A i \in 1 .. Len(got[m]) : got[m][i] = Data(msg, i)
           /\ HoldsMessage(written[m], p, msg, size[msg])
           /\ MarkOf(p + 4 + size[msg], need[m] - 1, Len(received[m]) + 1) \in B
<1>0. /\ need[m] \in Nat /\ Len(received[m]) \in Nat /\ Len(sentTo[m]) \in Nat
  BY SentTyped
<1>1. InPayload(m, B)
  BY DEF CleanWith, AtMark, NextPc
<1>2. PICK p \in Nat : pos[m] = p + 4 + Len(got[m]) /\ Place(m, p) \in B
  BY <1>1 DEF InPayload
<1>3. PICK b : b = Place(m, p)
  OBVIOUS
<1>4. b \in B /\ b.at = p /\ b.left = need[m] /\ b.done = Len(received[m])
  BY <1>0, <1>2, <1>3 DEF Place, MarkOf
<1>5. need[m] # 0
  BY DEF ObjectTypes, ReceiverTypes
<1>6. AtMessage(written[m], sentTo[m], size, J, B, b)
  BY <1>4, <1>5 DEF CleanWith, Framed, AtEnd, AtCount
<1>7. PICK msg : msg = sentTo[m][Len(received[m]) + 1]
  OBVIOUS
<1>8. /\ Len(received[m]) < Len(sentTo[m]) /\ expected[m] = size[msg]
      /\ \A i \in 1 .. Len(got[m]) : got[m][i] = Data(msg, i)
  BY <1>1, <1>7 DEF InPayload
<1>9. size[msg] \in Nat
  <2>1. PICK j \in 1 .. Len(sentTo[m]) : j = Len(received[m]) + 1
    BY <1>0, <1>8
  <2> QED
    BY <1>7, <2>1, SentTyped
<1>10. /\ HoldsMessage(written[m], p, msg, size[msg])
       /\ MarkOf(p + 4 + size[msg], need[m] - 1, Len(received[m]) + 1) \in B
  BY <1>4, <1>6, <1>7 DEF AtMessage
<1> QED
  BY <1>2, <1>7, <1>8, <1>9, <1>10

(* ReadPayload of a clean stream takes no more than the payload holds.       *)
LEMMA PayloadStream ==
  ASSUME ObjectTypes, StreamInv, NEW m \in Master, ReadPayload(m)
  PROVE  StreamInv'
<1>1. PICK k \in Readable(m, Missing(m)) :
        /\ pos' = [pos EXCEPT ![m] = @ + k]
        /\ got' = [got EXCEPT ![m] = @ \o Units(m, k)]
  BY DEF ReadPayload
<1>2. /\ pc[m] = "data" /\ ~Complete(m)
      /\ UNCHANGED <<senderVars, pc, need, expected, received, spoiled, feRuns, quit>>
  BY DEF ReadPayload
<1>3. \A a \in Master : a # m =>
         /\ written'[a] = written[a] /\ pos'[a] = pos[a] /\ pc'[a] = pc[a]
         /\ need'[a] = need[a] /\ expected'[a] = expected[a] /\ got'[a] = got[a]
         /\ received'[a] = received[a] /\ (spoiled[a] => spoiled'[a])
  BY <1>1, <1>2 DEF ObjectTypes, StreamTypes, senderVars
<1>4. UNCHANGED <<callVars, feRuns>> /\ size' = size /\ sentTo' = sentTo
  BY <1>2 DEF senderVars, callVars
<1>5. StreamOk(m)'
  <2> SUFFICES ASSUME ~Spoiled(m)' PROVE Intact(m)' /\ Clean(m)'
    BY DEF StreamOk
  <2>1. ~Spoiled(m)
    BY <1>2, <1>4 DEF Spoiled, Oversize
  <2>2. Intact(m) /\ Clean(m)
    BY <1>2, <2>1 DEF StreamInv, StreamOk, Ended
  <2>3. Intact(m)'
    BY <1>2, <1>4, <2>2, IntactKept
  <2>4. PICK J \in Nat, B \in SUBSET Mark : CleanWith(m, J, B)
    BY <2>2 DEF Clean
  <2>5. PICK msg : \E p \in Nat :
           /\ msg = sentTo[m][Len(received[m]) + 1]
           /\ Len(received[m]) < Len(sentTo[m])
           /\ expected[m] = size[msg] /\ size[msg] \in Nat
           /\ pos[m] = p + 4 + Len(got[m]) /\ Place(m, p) \in B
           /\ \A i \in 1 .. Len(got[m]) : got[m][i] = Data(msg, i)
           /\ HoldsMessage(written[m], p, msg, size[msg])
    BY <1>2, <2>4, PayloadAt
  <2>6. PICK p \in Nat :
           /\ msg = sentTo[m][Len(received[m]) + 1]
           /\ Len(received[m]) < Len(sentTo[m])
           /\ expected[m] = size[msg] /\ size[msg] \in Nat
           /\ pos[m] = p + 4 + Len(got[m]) /\ Place(m, p) \in B
           /\ \A i \in 1 .. Len(got[m]) : got[m][i] = Data(msg, i)
           /\ HoldsMessage(written[m], p, msg, size[msg])
    BY <2>5
  <2>7. PICK e \in Nat, g \in Seq(Unit), w \in Seq(Unit) :
          e = size[msg] /\ g = got[m] /\ w = written[m]
    BY <2>6, SentTyped
  <2>8. Len(g) \in Nat /\ Len(g) <= e
    BY <1>2, <2>6, <2>7, LenProperties DEF ObjectTypes, ReceiverTypes
  <2>9. Missing(m) = e - Len(g) /\ Missing(m) \in Nat
    BY <2>6, <2>7, <2>8 DEF Missing
  <2>10. /\ k \in Nat \ {0} /\ k <= e - Len(g)
         /\ Units(m, k) \in Seq(Unit) /\ Len(Units(m, k)) = k
         /\ \A i \in 1 .. k : Units(m, k)[i] = w[pos[m] + i]
    BY <2>7, <2>9, UnitsRead DEF ObjectTypes
  <2>11. PICK u \in Seq(Unit) : u = Units(m, k) /\ Len(u) = k
    BY <2>10
  <2>12. PICK h : h = g \o u
    OBVIOUS
  <2>13. /\ Len(h) = Len(g) + Len(u)
         /\ \A i \in 1 .. Len(g) : h[i] = g[i]
         /\ \A i \in 1 .. Len(u) : h[Len(g) + i] = u[i]
    BY <2>12, Joined
  <2>14. /\ got'[m] = h /\ pos'[m] = pos[m] + k
         /\ written' = written /\ received' = received /\ need' = need /\ expected' = expected
         /\ pc' = pc
    BY <1>1, <1>2, <2>7, <2>11, <2>12 DEF ObjectTypes, StreamTypes, senderVars
  <2>15. \A i \in 1 .. e : w[p + 4 + i] = Data(msg, i)
    BY <2>6, <2>7 DEF HoldsMessage
  <2>16. ASSUME NEW i \in 1 .. Len(h) PROVE h[i] = Data(msg, i)
    <3>1. CASE i \in 1 .. Len(g)
      BY <2>6, <2>7, <2>13, <3>1
    <3>2. CASE i \notin 1 .. Len(g)
      <4>l. Len(h) = Len(g) + k
        BY <2>11, <2>13
      <4>t. Len(g) \in Nat /\ k \in Nat
        BY <2>8, <2>10
      <4>i. i - Len(g) \in 1 .. k
        BY <3>2, <4>l, <4>t
      <4>1. PICK x \in 1 .. k : x = i - Len(g) /\ i = Len(g) + x
        BY <4>i, <4>t
      <4>2. h[i] = u[x] /\ u[x] = w[pos[m] + x]
        BY <2>10, <2>11, <2>13, <4>1
      <4>p. pos[m] = p + 4 + Len(g)
        BY <2>6, <2>7
      <4>3. pos[m] + x = p + 4 + i
        BY <2>8, <4>1, <4>p
      <4>4. i \in 1 .. e
        BY <2>8, <2>10, <4>l
      <4> QED
        BY <2>15, <4>2, <4>3, <4>4
    <3> QED
      BY <3>1, <3>2
  <2>17. pos'[m] = p + 4 + Len(h)
    <3>1. Len(h) = Len(g) + k
      BY <2>11, <2>13
    <3>2. pos'[m] = (p + 4 + Len(g)) + k
      BY <2>6, <2>7, <2>14
    <3>3. k \in Nat
      BY <2>10
    <3> QED
      BY <2>8, <3>1, <3>2, <3>3
  <2>18. Place(m, p)' \in B
    BY <2>6, <2>14 DEF Place
  <2>19. InPayload(m, B)'
    BY <1>2, <1>4, <2>6, <2>14, <2>16, <2>17, <2>18 DEF InPayload
  <2>20. Written(m, J)'
    BY <1>4, <2>4, WrittenKept DEF CleanWith
  <2>21. CleanWith(m, J, B)'
    BY <1>4, <2>4, <2>14, <2>19, <2>20 DEF CleanWith
  <2> QED
    BY <2>3, <2>21 DEF Clean
<1> QED
  BY <1>3, <1>4, <1>5, OthersStream

(* The payload that EndMessage takes is the one of the next message.         *)
LEMMA EndStream ==
  ASSUME ObjectTypes, StreamInv, NEW m \in Master, EndMessage(m)
  PROVE  StreamInv'
<1>1. /\ pc[m] = "data" /\ Complete(m)
      /\ received' = [received EXCEPT ![m] = Append(@, got[m])]
      /\ got' = [got EXCEPT ![m] = <<>>]
      /\ need' = [need EXCEPT ![m] = @ - 1]
      /\ pc' = [pc EXCEPT ![m] = NextPc(need[m] - 1)]
      /\ UNCHANGED <<senderVars, pos, expected, spoiled, feRuns, quit>>
  BY DEF EndMessage
<1>2. \A a \in Master : a # m =>
         /\ written'[a] = written[a] /\ pos'[a] = pos[a] /\ pc'[a] = pc[a]
         /\ need'[a] = need[a] /\ expected'[a] = expected[a] /\ got'[a] = got[a]
         /\ received'[a] = received[a] /\ (spoiled[a] => spoiled'[a])
  BY <1>1 DEF ObjectTypes, StreamTypes, senderVars
<1>3. UNCHANGED <<callVars, feRuns>> /\ size' = size /\ sentTo' = sentTo
  BY <1>1 DEF senderVars, callVars
<1>4. StreamOk(m)'
  <2> SUFFICES ASSUME ~Spoiled(m)' PROVE Intact(m)' /\ Clean(m)'
    BY DEF StreamOk
  <2>1. ~Spoiled(m)
    BY <1>1, <1>3 DEF Spoiled, Oversize
  <2>2. Intact(m) /\ Clean(m)
    BY <1>1, <2>1 DEF StreamInv, StreamOk, Ended
  <2>3. PICK J \in Nat, B \in SUBSET Mark : CleanWith(m, J, B)
    BY <2>2 DEF Clean
  <2>4. PICK msg : \E p \in Nat :
           /\ msg = sentTo[m][Len(received[m]) + 1]
           /\ Len(received[m]) < Len(sentTo[m])
           /\ expected[m] = size[msg] /\ size[msg] \in Nat
           /\ pos[m] = p + 4 + Len(got[m])
           /\ \A i \in 1 .. Len(got[m]) : got[m][i] = Data(msg, i)
           /\ MarkOf(p + 4 + size[msg], need[m] - 1, Len(received[m]) + 1) \in B
    BY <1>1, <2>3, PayloadAt
  <2>5. PICK p \in Nat :
           /\ msg = sentTo[m][Len(received[m]) + 1]
           /\ Len(received[m]) < Len(sentTo[m])
           /\ expected[m] = size[msg] /\ size[msg] \in Nat
           /\ pos[m] = p + 4 + Len(got[m])
           /\ \A i \in 1 .. Len(got[m]) : got[m][i] = Data(msg, i)
           /\ MarkOf(p + 4 + size[msg], need[m] - 1, Len(received[m]) + 1) \in B
    BY <2>4
  <2>6. PICK g \in Seq(Unit), r \in Seq(Seq(Unit)) : g = got[m] /\ r = received[m]
    BY SentTyped
  <2>7. Len(g) = size[msg]
    BY <1>1, <2>5, <2>6 DEF Complete
  <2>8. g = Payload(msg)
    <3>1. g = [i \in 1 .. Len(g) |-> g[i]]
      OBVIOUS
    <3>2. \A i \in 1 .. Len(g) : g[i] = Data(msg, i)
      BY <2>5, <2>6
    <3>3. g = [i \in 1 .. Len(g) |-> Data(msg, i)]
      BY <3>1, <3>2
    <3> QED
      BY <2>7, <3>3 DEF Payload
  <2>9. PICK q : q = Append(r, g)
    OBVIOUS
  <2>10. /\ Len(r) \in Nat /\ Len(q) = Len(r) + 1 /\ q[Len(r) + 1] = g
         /\ \A i \in 1 .. Len(r) : q[i] = r[i]
    BY <2>9, AppendProperties, LenProperties
  <2>11. /\ received'[m] = q /\ got'[m] = <<>> /\ need'[m] = need[m] - 1
         /\ pc'[m] = NextPc(need[m] - 1) /\ pos' = pos /\ written' = written
    BY <1>1, <2>6, <2>9 DEF ObjectTypes, StreamTypes, senderVars
  <2>12. Intact(m)'
    <3>1. PICK s, z : s = sentTo[m] /\ z = size
      OBVIOUS
    <3>2. \A i \in 1 .. Len(r) : r[i] = [x \in 1 .. z[s[i]] |-> Data(s[i], x)]
      BY <2>2, <2>6, <3>1 DEF Intact, Payload
    <3>3. msg = s[Len(r) + 1] /\ g = [x \in 1 .. z[msg] |-> Data(msg, x)]
      BY <2>5, <2>6, <2>8, <3>1 DEF Payload
    <3>4. \A i \in 1 .. Len(q) : i \in 1 .. Len(r) \/ i = Len(r) + 1
      BY <2>10
    <3>5. ASSUME NEW i \in 1 .. Len(q)
          PROVE  q[i] = [x \in 1 .. z[s[i]] |-> Data(s[i], x)]
      <4>1. CASE i \in 1 .. Len(r)
        BY <2>10, <3>2, <4>1
      <4>2. CASE i = Len(r) + 1
        BY <2>10, <3>3, <4>2
      <4> QED
        BY <3>4, <4>1, <4>2
    <3>6. Len(q) <= Len(s)
      <4>1. Len(s) \in Nat /\ Len(r) < Len(s)
        BY <2>5, <2>6, <3>1, SentTyped
      <4>2. Len(q) = Len(r) + 1 /\ Len(r) \in Nat
        BY <2>10
      <4> QED
        BY <4>1, <4>2
    <3>7. s = sentTo'[m] /\ z = size' /\ q = received'[m]
      BY <1>3, <2>11, <3>1
    <3> QED
      BY <3>5, <3>6, <3>7 DEF Intact, Payload
  <2>13. AtMark(m, B)'
    <3>1. pos'[m] = p + 4 + size[msg]
      BY <2>5, <2>6, <2>7, <2>11
    <3>2. Len(received'[m]) = Len(received[m]) + 1
      BY <2>6, <2>10, <2>11
    <3>3. Place(m, pos[m])' \in B
      BY <2>5, <2>11, <3>1, <3>2 DEF Place
    <3> QED
      BY <2>11, <3>3 DEF AtMark
  <2>14. Written(m, J)'
    BY <1>3, <2>3, WrittenKept DEF CleanWith
  <2>15. CleanWith(m, J, B)'
    BY <1>3, <2>3, <2>11, <2>13, <2>14 DEF CleanWith
  <2> QED
    BY <2>12, <2>15 DEF Clean
<1> QED
  BY <1>2, <1>3, <1>4, OthersStream

(* At the start every stream is empty. *)
LEMMA InitStream == Init => StreamInv
<1> SUFFICES ASSUME Init, NEW m \in Master PROVE Intact(m) /\ Clean(m)
  BY DEF StreamInv, StreamOk
<1>1. /\ received[m] = <<>> /\ sentTo[m] = <<>> /\ written[m] = <<>> /\ pos[m] = 0
      /\ pc[m] = "count" /\ need[m] = 0 /\ got[m] = <<>> /\ targets = <<>>
  BY DEF Init
<1>2. Len(<<>>) = 0
  OBVIOUS
<1>3. Intact(m)
  BY <1>1, <1>2 DEF Intact
<1>4. PICK b : b = MarkOf(0, 0, 0)
  OBVIOUS
<1>5. b \in Mark /\ b.at = 0 /\ b.left = 0 /\ b.done = 0
  BY <1>4 DEF Mark, MarkOf
<1>6. Framed(written[m], sentTo[m], size, 0, {b})
  BY <1>1, <1>2, <1>5 DEF Framed, AtEnd
<1>7. Place(m, pos[m]) = b
  BY <1>1, <1>2, <1>4 DEF Place
<1>8. AtMark(m, {b})
  BY <1>1, <1>7 DEF AtMark, NextPc
<1>9. Written(m, 0)
  <2>1. m \notin Range(targets)
    BY <1>1 DEF Range
  <2> QED
    BY <1>1, <1>2, <2>1 DEF Written
<1>10. CleanWith(m, 0, {b})
  BY <1>1, <1>2, <1>6, <1>8, <1>9 DEF CleanWith
<1> QED
  BY <1>3, <1>5, <1>10 DEF Clean

(* Every step keeps the streams clean that it does not spoil. *)
LEMMA NextStream == ObjectTypes /\ StreamInv /\ [Next]_vars => StreamInv'
<1> SUFFICES ASSUME ObjectTypes, StreamInv, [Next]_vars PROVE StreamInv'
  OBVIOUS
<1>1. CASE Broadcast \/ \E m \in Master : Send(m)
  BY <1>1, CallIs, BeginStream
<1>2. CASE TCPSendVector
  BY <1>2, SendStream
<1>3. CASE CountNotWritten \/ PushError \/ FrontEndReadsEnd \/ QuitFrontEnd
  BY <1>3, StopStream
<1>4. ASSUME NEW m \in Master, ReadCount(m) PROVE StreamInv'
  BY <1>4, CountStream
<1>5. ASSUME NEW m \in Master, ReadSize(m) PROVE StreamInv'
  BY <1>5, SizeStream
<1>6. ASSUME NEW m \in Master, ReadPayload(m) PROVE StreamInv'
  BY <1>6, PayloadStream
<1>7. ASSUME NEW m \in Master, EndMessage(m) PROVE StreamInv'
  BY <1>7, EndStream
<1>8. ASSUME NEW m \in Master, ReadEnd(m) \/ QuitMaster(m) PROVE StreamInv'
  <2>1. Die(m) /\ spoiled' = spoiled /\ feRuns' = feRuns
    BY <1>8 DEF ReadEnd, QuitMaster
  <2> QED
    BY <2>1, DieStream
<1>9. CASE UNCHANGED vars
  <2> SUFFICES ASSUME NEW m \in Master PROVE StreamOk(m)'
    BY DEF StreamInv
  <2>1. StreamOk(m) /\ UNCHANGED <<callVars, feRuns>>
    BY <1>9 DEF StreamInv, vars, senderVars
  <2>2. UNCHANGED <<written, pos, pc, need, expected, got, received, spoiled>>
    BY <1>9 DEF vars, senderVars, receiverVars
  <2>3. /\ size' = size /\ sentTo' = sentTo
        /\ \A J \in Nat : Written(m, J) => Written(m, J)'
    BY <2>1, WrittenKept
  <2> QED
    BY <2>1, <2>2, <2>3, UntouchedStream
<1> QED
  BY <1>1, <1>2, <1>3, <1>4, <1>5, <1>6, <1>7, <1>8, <1>9
  DEF Next, FrontEnd, StartReceiver

(* The streams that nothing spoiled are clean throughout. *)
THEOREM StreamsInvariant == Spec => []StreamInv
<1>1. Init => StreamInv
  BY InitStream
<1>2. ObjectTypes /\ StreamInv /\ [Next]_vars => StreamInv'
  BY NextStream
<1> QED
  BY <1>1, <1>2, TypesInvariant, PTL DEF Spec

(* The framing works as long as nothing spoils it: whatever pieces the       *)
(* payloads arrive in, Receive takes the lists apart into the messages that  *)
(* TCPSendVector put into them, in their order (NetLink.cpp:84-109,          *)
(* TCPConnection.cpp:38-96).                                                 *)
THEOREM IntactUnlessSpoiledHolds == Spec => []IntactUnlessSpoiled
<1>1. StreamInv => IntactUnlessSpoiled
  BY DEF StreamInv, StreamOk, IntactUnlessSpoiled
<1> QED
  BY <1>1, StreamsInvariant, PTL

-----------------------------------------------------------------------------
(* How processes end. *)

(* Nothing that is read of a clean stream ends its receiver. *)
LEMMA ReadsGoOn ==
  ASSUME ObjectTypes, StreamInv, NEW m \in Master, ~Spoiled(m)', pc[m] # "dead",
         ReadCount(m) \/ ReadSize(m), UNCHANGED callVars
  PROVE  ~Ended(m)'
<1>1. ~Spoiled(m) /\ ~spoiled'[m]
  <2>1. spoiled \in [Master -> BOOLEAN]
    BY DEF ObjectTypes, FlagTypes
  <2>2. spoiled[m] => spoiled'[m]
    BY <2>1 DEF ReadCount, ReadSize
  <2> QED
    BY <2>2 DEF Spoiled, Oversize, callVars
<1>2. PICK J \in Nat, B \in SUBSET Mark : CleanWith(m, J, B)
  BY <1>1 DEF StreamInv, StreamOk, Ended, Clean
<1>3. spoiled \in [Master -> BOOLEAN] /\ pc \in [Master -> {"count", "size", "data", "dead"}]
  BY DEF ObjectTypes, FlagTypes, StreamTypes
<1>4. CASE ReadCount(m)
  <2>0. pc[m] = "count"
    BY <1>4 DEF ReadCount
  <2>1. PICK k \in Readable(m, 2) :
          \/ /\ k < 2 \/ ~IsNumber(Units(m, k))
             /\ spoiled' = [spoiled EXCEPT ![m] = @ \/ k < 2]
          \/ \E n : pc' = [pc EXCEPT ![m] = NextPc(n)]
    BY <1>4 DEF ReadCount
  <2>2. k = 2 => IsNumber(Units(m, k))
    BY <1>2, <2>0, CountRead
  <2>3. k \in Nat /\ k <= 2
    BY UnitsRead DEF ObjectTypes
  <2>4. ~(/\ k < 2 \/ ~IsNumber(Units(m, k))
          /\ spoiled' = [spoiled EXCEPT ![m] = @ \/ k < 2])
    <3>1. SUFFICES ASSUME k < 2 \/ ~IsNumber(Units(m, k)),
                          spoiled' = [spoiled EXCEPT ![m] = @ \/ k < 2]
                   PROVE  FALSE
      OBVIOUS
    <3>2. k < 2
      BY <2>2, <2>3, <3>1
    <3>3. spoiled'[m] = (spoiled[m] \/ k < 2)
      BY <1>3, <3>1
    <3> QED
      BY <1>1, <3>2, <3>3
  <2> QED
    BY <1>3, <2>1, <2>4 DEF Ended, NextPc
<1>5. CASE ReadSize(m)
  <2>0. pc[m] = "size"
    BY <1>5 DEF ReadSize
  <2>1. PICK k \in Readable(m, 4) :
          \/ pc' = pc
          \/ pc' = [pc EXCEPT ![m] = "data"]
          \/ k = 4 /\ ~(IsNumber(Units(m, k)) /\ StoI(Units(m, k)) <= IntMax)
    BY <1>5 DEF ReadSize
  <2>2. k = 4 => IsNumber(Units(m, k)) /\ StoI(Units(m, k)) <= IntMax
    BY <1>1, <1>2, <2>0, SizeRead DEF Spoiled
  <2> QED
    BY <1>3, <2>1, <2>2 DEF Ended
<1> QED
  BY <1>4, <1>5

(* Only a call changes what is to be sent; the histories only grow.          *)
LEMMA StepsKeep ==
  ASSUME ObjectTypes, [Next]_vars, ~(Broadcast \/ \E m \in Master : Send(m))
  PROVE  /\ UNCHANGED <<size, sentTo>> /\ (quit => quit')
         /\ \A m \in Master : spoiled[m] => spoiled'[m]
<1>1. spoiled \in [Master -> BOOLEAN]
  BY DEF ObjectTypes, FlagTypes
<1>2. CASE TCPSendVector
  BY <1>1, <1>2 DEF TCPSendVector
<1>3. CASE CountNotWritten \/ PushError \/ FrontEndReadsEnd \/ QuitFrontEnd
  BY <1>1, <1>3
  DEF CountNotWritten, PushError, FrontEndReadsEnd, QuitFrontEnd, FrontEndEnds
<1>4. ASSUME NEW m \in Master, ReadCount(m)
      PROVE  UNCHANGED <<size, sentTo, quit>> /\ \A a \in Master : spoiled[a] => spoiled'[a]
  BY <1>1, <1>4 DEF ReadCount, Die, senderVars, callVars
<1>5. ASSUME NEW m \in Master, ReadSize(m)
      PROVE  UNCHANGED <<size, sentTo, quit>> /\ \A a \in Master : spoiled[a] => spoiled'[a]
  BY <1>1, <1>5 DEF ReadSize, Die, senderVars, callVars
<1>6. ASSUME NEW m \in Master, ReadPayload(m) \/ EndMessage(m)
      PROVE  UNCHANGED <<size, sentTo, quit, spoiled>>
  BY <1>6 DEF ReadPayload, EndMessage, senderVars, callVars
<1>7. ASSUME NEW m \in Master, ReadEnd(m) \/ QuitMaster(m)
      PROVE  UNCHANGED <<size, sentTo, spoiled>> /\ (quit => quit')
  BY <1>7 DEF ReadEnd, QuitMaster, Die, callVars
<1>8. CASE UNCHANGED vars
  BY <1>8 DEF vars, senderVars, callVars
<1> QED
  BY <1>2, <1>3, <1>4, <1>5, <1>6, <1>7, <1>8 DEF Next, FrontEnd, StartReceiver

(* No process is the first to end unless it quits or a stream is spoiled.    *)
LEMMA NextEnded ==
  ObjectTypes /\ StreamInv /\ EndedOnlyIfSpoiled /\ [Next]_vars => EndedOnlyIfSpoiled'
<1> SUFFICES ASSUME ObjectTypes, StreamInv, EndedOnlyIfSpoiled, [Next]_vars,
                    ~quit', \A m \in Master : ~Spoiled(m)'
             PROVE  AllRun'
  BY DEF EndedOnlyIfSpoiled
<1>1. spoiled \in [Master -> BOOLEAN] /\ pc \in [Master -> {"count", "size", "data", "dead"}]
  BY DEF ObjectTypes, FlagTypes, StreamTypes
<1>2. quit \in BOOLEAN
  BY DEF ObjectTypes, FlagTypes
<1>3. CASE Broadcast \/ \E m \in Master : Send(m)
  <2>1. PICK masters \in Seq(Master) :
          /\ \A i, j \in 1 .. Len(masters) : masters[i] = masters[j] => i = j
          /\ Call(masters)
    BY <1>3, CallIs
  <2>2. StreamInv' /\ UNCHANGED <<spoiled, feRuns, quit, pc>>
    BY <2>1, BeginStream DEF Call, receiverVars
  <2>3. ASSUME NEW m \in Master PROVE ~Spoiled(m)
    BY <2>1, UnspoiledBefore
  <2>4. AllRun
    BY <2>2, <2>3 DEF EndedOnlyIfSpoiled
  <2> QED
    BY <2>2, <2>4 DEF AllRun, Ended
<1>4. CASE ~(Broadcast \/ \E m \in Master : Send(m))
  <2>1. UNCHANGED <<size, sentTo>> /\ (quit => quit')
        /\ \A m \in Master : spoiled[m] => spoiled'[m]
    BY <1>1, <1>4, StepsKeep
  <2>2. \A m \in Master : ~Spoiled(m)
    BY <2>1 DEF Spoiled, Oversize
  <2>3. AllRun
    BY <2>1, <2>2 DEF EndedOnlyIfSpoiled
  <2>4. feRuns /\ \A m \in Master : ~Ended(m)
    BY <2>3 DEF AllRun
  <2>5. CASE TCPSendVector
    BY <2>4, <2>5 DEF TCPSendVector, AllRun, Ended, receiverVars
  <2>6. CASE CountNotWritten \/ PushError \/ FrontEndReadsEnd \/ QuitFrontEnd
    <3>1. targets # <<>> => Head(targets) \in Master
      BY NextTarget DEF ObjectTypes
    <3> QED
      BY <2>4, <2>6, <3>1
      DEF CountNotWritten, PushError, FrontEndReadsEnd, QuitFrontEnd
  <2>7. ASSUME NEW m \in Master, ReadCount(m) \/ ReadSize(m) PROVE AllRun'
    <3>1. UNCHANGED callVars /\ feRuns' = feRuns
      BY <2>7 DEF ReadCount, ReadSize, Die, senderVars
    <3>2. ~Ended(m)'
      BY <2>4, <2>7, <3>1, ReadsGoOn DEF Ended
    <3>3. \A a \in Master : a # m => pc'[a] = pc[a]
      BY <1>1, <2>7 DEF ReadCount, ReadSize, Die
    <3> QED
      BY <2>4, <3>1, <3>2, <3>3 DEF AllRun, Ended
  <2>8. ASSUME NEW m \in Master, ReadPayload(m) PROVE AllRun'
    BY <2>4, <2>8 DEF ReadPayload, AllRun, Ended
  <2>9. ASSUME NEW m \in Master, EndMessage(m) PROVE AllRun'
    BY <1>1, <2>4, <2>9 DEF EndMessage, AllRun, Ended, NextPc
  <2>10. ASSUME NEW m \in Master, ReadEnd(m) \/ QuitMaster(m) PROVE AllRun'
    BY <2>4, <2>10 DEF ReadEnd, QuitMaster
  <2>11. CASE UNCHANGED vars
    BY <2>4, <2>11 DEF AllRun, Ended, vars, receiverVars
  <2> QED
    BY <1>4, <2>5, <2>6, <2>7, <2>8, <2>9, <2>10, <2>11
    DEF Next, FrontEnd, StartReceiver
<1> QED
  BY <1>3, <1>4

(* A process ends only if one ends by itself or a stream was spoiled: what   *)
(* StartReceiver throws at, and the stoi under it, is not on a stream that   *)
(* nothing spoiled (NetLink.cpp:164, 169, TCPConnection.cpp:47, 85).         *)
THEOREM EndedOnlyIfSpoiledHolds == Spec => []EndedOnlyIfSpoiled
<1>1. Init => EndedOnlyIfSpoiled
  BY DEF Init, EndedOnlyIfSpoiled, AllRun, Ended
<1>2. ObjectTypes /\ StreamInv /\ EndedOnlyIfSpoiled /\ [Next]_vars => EndedOnlyIfSpoiled'
  BY NextEnded
<1> QED
  BY <1>1, <1>2, TypesInvariant, StreamsInvariant, PTL DEF Spec

-----------------------------------------------------------------------------
(* What Send and Broadcast give. *)

(* No bytes are none as an int. *)
LEMMA NoBytes == list = <<>> => AsInt(TotalSize) = 0
<1> SUFFICES ASSUME list = <<>> PROVE AsInt(TotalSize) = 0
  OBVIOUS
<1>1. TotalSize = 0
  <2>1. PICK n : n = Len(list) /\ n = 0
    OBVIOUS
  <2> DEFINE Is(f) == f = [i \in 0 .. n |->
                             IF i = 0 THEN 0 ELSE f[i - 1] + size[list[i]]]
  <2>2. Is([i \in 0 .. n |-> 0])
    BY <2>1
  <2>3. Is(CHOOSE f : Is(f))
    BY <2>2, Zenon
  <2>4. ASSUME NEW f, Is(f) PROVE f[0] = 0
    BY <2>1, <2>4
  <2>5. TotalSize = (CHOOSE f : Is(f))[n]
    BY <2>1, Zenon DEF TotalSize, Total
  <2> QED
    BY <2>1, <2>3, <2>4, <2>5
<1>2. PICK k \in Nat \ {0} : k = 2 * IntMax + 2
  BY ObjectStreamAssumption
<1>3. 0 % k = 0
  OBVIOUS
<1>4. ~(0 > IntMax)
  BY ObjectStreamAssumption
<1> QED
  BY <1>1, <1>2, <1>3, <1>4 DEF AsInt

(* A list that is written as a whole ends with payload.                      *)
LEMMA ListEnd ==
  ASSUME size \in Seq(Sizes), list \in Seq(1 .. Len(size))
  PROVE  /\ ListUnits(Len(list)) \in Seq(Unit) /\ Len(ListUnits(Len(list))) # 0
         /\ list # <<>> =>
              ListUnits(Len(list))[Len(ListUnits(Len(list)))].kind = "data"
<1>1. PICK u : u = ListUnits(Len(list))
  OBVIOUS
<1>2. u \in Seq(Unit) /\ \E off : LaidOut(u, off, list, Len(list), size)
  BY <1>1, ListLaidOut
<1>3. PICK off : LaidOut(u, off, list, Len(list), size)
  BY <1>2
<1>4. PICK k \in Nat : k = Len(list)
  BY LenProperties
<1>5. off \in [0 .. k -> Nat] /\ off[k] + 2 = Len(u)
  BY <1>3, <1>4 DEF LaidOut
<1>6. Len(u) # 0
  <2>1. PICK o \in Nat : o = off[k] /\ o + 2 = Len(u)
    BY <1>5
  <2> QED
    BY <2>1
<1>7. ASSUME list # <<>> PROVE u[Len(u)].kind = "data"
  <2>1. k # 0
    BY <1>4, <1>7, EmptySeq
  <2>2. PICK n \in 1 .. Len(size) : n = list[k]
    BY <1>4, <2>1, ElementOfSeq
  <2>3. PICK e \in Nat \ {0} : e = size[n]
    BY MessageTyped
  <2>4. k \in 1 .. k /\ k - 1 \in 0 .. k /\ k \in 0 .. k
    BY <2>1
  <2>5. PICK a \in Nat, b \in Nat : a = off[k - 1] /\ b = off[k]
    BY <1>5, <2>4
  <2>6. b = a + 4 + e /\ HoldsMessage(u, 2 + a, n, e)
    BY <1>3, <1>4, <2>2, <2>3, <2>4, <2>5 DEF LaidOut
  <2>7. u[(2 + a) + 4 + e] = Data(n, e)
    BY <2>6 DEF HoldsMessage
  <2>8. (2 + a) + 4 + e = Len(u)
    <3>1. b + 2 = Len(u)
      BY <1>5, <2>5
    <3>2. b = a + 4 + e
      BY <2>6
    <3> QED
      BY <3>1, <3>2
  <2>9. Data(n, e).kind = "data"
    BY DEF Data
  <2> QED
    BY <2>7, <2>8, <2>9
<1> QED
  BY <1>1, <1>2, <1>6, <1>7

(* A result is of a call that is over. *)
ResultInv ==
  /\ result \in {"true", "false"} => targets = <<>> /\ last \in Master
  /\ ResultExact

(* TCPSendVector gives TRUE for a list it wrote as a whole to the last       *)
(* master, and FALSE if it stopped before the payload of the list ended.     *)
LEMMA SendResult ==
  ASSUME ObjectTypes, ResultInv, TCPSendVector
  PROVE  ResultInv'
<1>0. /\ targets # <<>> /\ UNCHANGED <<size, list, pc>>
      /\ targets' = Tail(targets) /\ last' = Head(targets)
      /\ result' = IF targets' # <<>> THEN result
                   ELSE IF BytesSent > 0 THEN "true" ELSE "false"
  BY DEF TCPSendVector, receiverVars
<1>1. PICK h \in Master : h = Head(targets)
  BY <1>0, NextTarget DEF ObjectTypes
<1>t. size \in Seq(Sizes) /\ list \in Seq(1 .. Len(size))
  BY DEF ObjectTypes, CallTypes
<1>2. result \notin {"true", "false"}
  BY <1>0 DEF ResultInv
<1>3. /\ ~Ended(h) => written'[h] = written[h] \o Encoded
      /\ Ended(h) => written' = written /\ written[h] = <<>>
  BY <1>1, SendTypes DEF ObjectTypes, ReceiverTypes
<1>4. PICK w \in Seq(Unit), d \in Seq(Unit) : w = written[h] /\ d = written'[h]
  BY <1>1, SendTypes, SentTyped
<1>5. PICK u \in Seq(Unit) : u = ListUnits(Len(list)) /\ Len(u) # 0
                             /\ (list # <<>> => u[Len(u)].kind = "data")
  BY <1>t, ListEnd
<1>6. PICK e \in Seq(Unit) :
        /\ e = Encoded
        /\ SentWhole = DOMAIN list => e = u
        /\ SentWhole # DOMAIN list => Len(e) # 0 /\ e[Len(e)].kind = "digits"
  BY <1>t, <1>5, EncodedTyped
<1>7. Whole(h)' <=> IsSuffix(u, d)
  BY <1>0, <1>4, <1>5 DEF Whole, ListUnits, CountUnits, MessageUnits, SizeUnits, Payload
<1>8. Ended(h)' <=> Ended(h)
  BY <1>0 DEF Ended
<1>9. PICK total : total = AsInt(TotalSize)
  OBVIOUS
<1>10. AsInt(TotalSize)' = total
  BY <1>0, <1>9 DEF TotalSize, Total, AsInt
<1>11. BytesSent = IF SentWhole = DOMAIN list THEN total ELSE 0
  BY <1>9 DEF BytesSent
<1>12. CASE targets' # <<>>
  BY <1>0, <1>2, <1>12 DEF ResultInv, ResultExact
<1>13. CASE targets' = <<>> /\ BytesSent > 0
  <2>1. result' = "true" /\ last' = h
    BY <1>0, <1>1, <1>13
  <2>2. SentWhole = DOMAIN list /\ total > 0
    BY <1>11, <1>13
  <2>3. list # <<>>
    BY <1>9, <2>2, NoBytes
  <2>4. ~Ended(h) => IsSuffix(u, d)
    <3> SUFFICES ASSUME ~Ended(h) PROVE IsSuffix(u, d)
      OBVIOUS
    <3>1. d = w \o u
      BY <1>3, <1>4, <1>6, <2>2
    <3> QED
      BY <1>5, <3>1, SuffixOf
  <2>5. Whole(last)' \/ Ended(last)'
    BY <1>7, <1>8, <2>1, <2>4
  <2> QED
    BY <1>0, <1>10, <1>13, <2>1, <2>2, <2>3, <2>5 DEF ResultInv, ResultExact
<1>14. CASE targets' = <<>> /\ ~(BytesSent > 0)
  <2>1. result' = "false" /\ last' = h
    BY <1>0, <1>1, <1>14
  <2>2. CASE SentWhole = DOMAIN list
    <3>1. ~(total > 0)
      BY <1>11, <1>14, <2>2
    <3> QED
      BY <1>0, <1>10, <1>14, <2>1, <3>1 DEF ResultInv, ResultExact
  <2>3. CASE SentWhole # DOMAIN list
    <3>1. list # <<>>
      <4>1. SentWhole \subseteq 1 .. Len(list) /\ DOMAIN list = 1 .. Len(list)
        BY <1>t, LenProperties DEF SentWhole
      <4>2. list = <<>> => 1 .. Len(list) = {}
        OBVIOUS
      <4> QED
        BY <2>3, <4>1, <4>2
    <3>2. ~IsSuffix(u, d)
      <4>1. SUFFICES ASSUME IsSuffix(u, d) PROVE FALSE
        OBVIOUS
      <4>2. Len(u) <= Len(d) /\ d[Len(d)] = u[Len(u)]
        BY <1>5, <4>1, SuffixEnd
      <4>3. CASE Ended(h)
        <5>1. Len(d) = 0
          BY <1>3, <1>4, <4>3
        <5>2. Len(u) \in Nat
          BY LenProperties
        <5> QED
          BY <1>5, <4>2, <5>1, <5>2
      <4>4. CASE ~Ended(h)
        <5>1. d = w \o e
          BY <1>3, <1>4, <1>6, <4>4
        <5>2. IsSuffix(e, d)
          BY <1>6, <2>3, <5>1, SuffixOf
        <5>3. d[Len(d)] = e[Len(e)]
          BY <1>6, <2>3, <5>2, SuffixEnd
        <5> QED
          BY <1>5, <1>6, <2>3, <3>1, <4>2, <5>3
      <4> QED
        BY <4>3, <4>4
    <3>3. ~Whole(last)'
      BY <1>7, <2>1, <3>2
    <3> QED
      BY <1>0, <1>14, <2>1, <3>3 DEF ResultInv, ResultExact
  <2> QED
    BY <2>2, <2>3
<1> QED
  BY <1>12, <1>13, <1>14

(* The receivers leave a result as exact as it was. *)
LEMMA ReceiversResult ==
  ASSUME ObjectTypes, ResultInv, UNCHANGED callVars,
         (/\ written' = written /\ \A m \in Master : Ended(m) => Ended(m)')
           \/ \E m \in Master : Die(m)
  PROVE  ResultInv'
<1>0. UNCHANGED <<size, list, targets, result, last>>
  BY DEF callVars
<1>a. PICK total : total = AsInt(TotalSize)
  OBVIOUS
<1>b. AsInt(TotalSize)' = total
  BY <1>0, <1>a DEF TotalSize, Total, AsInt
<1>1. total = AsInt(TotalSize) /\ total = AsInt(TotalSize)'
  BY <1>a, <1>b
<1>2. PICK u : u = ListUnits(Len(list)) /\ u = ListUnits(Len(list))'
  BY <1>0 DEF ListUnits, CountUnits, MessageUnits, SizeUnits, Payload
<1>3. SUFFICES ASSUME result \in {"true", "false"} PROVE ResultInv'
  BY <1>0 DEF ResultInv, ResultExact
<1>4. targets = <<>> /\ last \in Master
  BY <1>3 DEF ResultInv
<1>5. CASE /\ written' = written /\ \A m \in Master : Ended(m) => Ended(m)'
  <2>1. Whole(last)' <=> Whole(last)
    BY <1>0, <1>2, <1>5 DEF Whole
  <2>2. Ended(last) => Ended(last)'
    BY <1>0, <1>4, <1>5
  <2> QED
    BY <1>0, <1>1, <2>1, <2>2 DEF ResultInv, ResultExact
<1>6. ASSUME NEW m \in Master, Die(m) PROVE ResultInv'
  <2>0. /\ written \in [Master -> Seq(Unit)]
        /\ pc \in [Master -> {"count", "size", "data", "dead"}]
    BY DEF ObjectTypes, StreamTypes
  <2>1. CASE last = m
    <3>1. written'[last] = <<>> /\ Ended(last)'
      BY <1>0, <1>6, <2>0, <2>1 DEF Die, Ended
    <3>2. ~Whole(last)'
      <4>1. u \in Seq(Unit) /\ Len(u) # 0 /\ <<>> \in Seq(Unit) /\ Len(<<>>) = 0
        BY <1>2, ListEnd DEF ObjectTypes, CallTypes
      <4>2. Len(u) \in Nat
        BY <4>1, LenProperties
      <4>3. PICK c \in Seq(Unit) : c = <<>> /\ Len(c) = 0
        BY <4>1
      <4>4. ~IsSuffix(u, c)
        <5>1. SUFFICES ASSUME IsSuffix(u, c) PROVE FALSE
          OBVIOUS
        <5>2. u \in Seq(Unit) /\ Len(u) # 0
          BY <4>1
        <5>3. Len(u) <= Len(c)
          BY <5>1, <5>2, SuffixEnd
        <5> QED
          BY <4>2, <4>3, <5>2, <5>3
      <4>5. c = written'[last]
        BY <3>1, <4>3
      <4> QED
        BY <1>0, <1>2, <4>4, <4>5 DEF Whole
    <3> QED
      BY <1>0, <1>1, <1>4, <3>1, <3>2 DEF ResultInv, ResultExact
  <2>2. CASE last # m
    <3>1. written'[last] = written[last] /\ (Ended(last)' <=> Ended(last))
      BY <1>0, <1>4, <1>6, <2>0, <2>2 DEF Die, Ended
    <3>2. Whole(last)' <=> Whole(last)
      BY <1>0, <1>2, <3>1 DEF Whole
    <3> QED
      BY <1>0, <1>1, <3>1, <3>2 DEF ResultInv, ResultExact
  <2> QED
    BY <2>1, <2>2
<1> QED
  BY <1>5, <1>6

(* Every step keeps results exact. *)
LEMMA NextResult == ObjectTypes /\ ResultInv /\ [Next]_vars => ResultInv'
<1> SUFFICES ASSUME ObjectTypes, ResultInv, [Next]_vars PROVE ResultInv'
  OBVIOUS
<1>1. CASE \/ Broadcast \/ \E m \in Master : Send(m)
           \/ CountNotWritten \/ PushError \/ FrontEndReadsEnd \/ QuitFrontEnd
  <2>1. result' \in {"none", "threw"}
    BY <1>1
    DEF Broadcast, Send, Call, CountNotWritten, PushError, FrontEndReadsEnd,
        QuitFrontEnd, FrontEndEnds
  <2> QED
    BY <2>1 DEF ResultInv, ResultExact
<1>2. CASE TCPSendVector
  BY <1>2, SendResult
<1>t. pc \in [Master -> {"count", "size", "data", "dead"}]
  BY DEF ObjectTypes, StreamTypes
<1>3. ASSUME NEW m \in Master, ReadCount(m) \/ ReadSize(m) PROVE ResultInv'
  <2>1. UNCHANGED callVars
    BY <1>3 DEF ReadCount, ReadSize, Die, senderVars
  <2>2. Die(m) \/ (written' = written /\ \A a \in Master : a # m => pc'[a] = pc[a])
    BY <1>3, <1>t DEF ReadCount, ReadSize, senderVars
  <2>3. ~Ended(m)
    BY <1>3 DEF ReadCount, ReadSize, Ended
  <2>4. Die(m) \/ (written' = written /\ \A a \in Master : Ended(a) => Ended(a)')
    BY <2>2, <2>3 DEF Ended
  <2> QED
    BY <2>1, <2>4, ReceiversResult
<1>4. ASSUME NEW m \in Master, ReadPayload(m) \/ EndMessage(m) PROVE ResultInv'
  <2>1. UNCHANGED callVars /\ written' = written
    BY <1>4 DEF ReadPayload, EndMessage, senderVars
  <2>2. \A a \in Master : a # m => pc'[a] = pc[a]
    BY <1>4, <1>t DEF ReadPayload, EndMessage
  <2>3. ~Ended(m)
    BY <1>4 DEF ReadPayload, EndMessage, Ended
  <2>4. \A a \in Master : Ended(a) => Ended(a)'
    BY <2>2, <2>3 DEF Ended
  <2> QED
    BY <2>1, <2>4, ReceiversResult
<1>5. ASSUME NEW m \in Master, ReadEnd(m) \/ QuitMaster(m) PROVE ResultInv'
  <2>1. Die(m) /\ UNCHANGED callVars
    BY <1>5 DEF ReadEnd, QuitMaster, Die
  <2> QED
    BY <2>1, ReceiversResult
<1>6. CASE UNCHANGED vars
  <2>1. UNCHANGED <<callVars, written, pc>>
    BY <1>6 DEF vars, senderVars, receiverVars
  <2> QED
    BY <2>1, ReceiversResult DEF Ended
<1> QED
  BY <1>1, <1>2, <1>3, <1>4, <1>5, <1>6 DEF Next, FrontEnd, StartReceiver

(* Send and Broadcast give TRUE exactly if the last master they wrote to got *)
(* a list of at least one message as a whole, and the bytes of it are a      *)
(* positive int; of the masters before it TRUE says nothing (NetLink.cpp:    *)
(* 69-109, FE_TCP.cpp:22).                                                   *)
THEOREM ResultExactHolds == Spec => []ResultExact
<1>1. Init => ResultInv
  BY DEF Init, ResultInv, ResultExact
<1>2. ObjectTypes /\ ResultInv /\ [Next]_vars => ResultInv'
  BY NextResult
<1>3. ResultInv => ResultExact
  BY DEF ResultInv
<1> QED
  BY <1>1, <1>2, <1>3, TypesInvariant, PTL DEF Spec
=============================================================================
