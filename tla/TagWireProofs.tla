--------------------------- MODULE TagWireProofs ----------------------------
(***************************************************************************)
(* Theorems about what of tags is on the wire.  The first part is about    *)
(* TagWrites, how items get there, for every set of calls on every set of  *)
(* links and items of every size.  The second is about TagCodec, the text  *)
(* of the items and how it is taken apart, for all commands, messages and  *)
(* numbers of tags.  The two modules share no variable.                    *)
(***************************************************************************)
EXTENDS TagWrites, TagCodec, SequenceLemmas, SequenceTheorems, TLAPS

-----------------------------------------------------------------------------
Bytes == [of : Writes, i : Nat]
ItemsOf(s) == [i \in 1 .. Len(s) |-> Item(s[i])]
Done(s, k) == \A i \in 1 .. Len(s) : k[s[i]] = Size[s[i]]

(* What is on the wire when the calls s have been made and k is taken for    *)
(* each: all items but the last one whole, and the last one so far.          *)
OnWire(s, k, b) ==
  \/ s = <<>> /\ b = <<>>
  \/ \E c \in Seq(Writes), w \in Writes :
       /\ s = Append(c, w)
       /\ Done(c, k)
       /\ b = FlattenSeq(ItemsOf(c)) \o SubSeq(Item(w), 1, k[w])

(* The item of a write is a sequence of its bytes. *)
LEMMA ItemTyped ==
  ASSUME NEW w \in Writes
  PROVE  /\ Size[w] \in Nat \ {0}
         /\ Item(w) \in Seq(Bytes) /\ Len(Item(w)) = Size[w]
         /\ \A i \in 1 .. Size[w] : Item(w)[i] = Byte(w, i) /\ Byte(w, i) \in Bytes
<1>1. Size[w] \in Nat \ {0}
  BY TagWritesAssumption
<1>2. \A i \in 1 .. Size[w] : Byte(w, i) \in Bytes
  BY <1>1 DEF Byte, Bytes
<1>3. Item(w) \in [1 .. Size[w] -> Bytes] /\ \A i \in 1 .. Size[w] : Item(w)[i] = Byte(w, i)
  BY <1>2 DEF Item
<1>4. Item(w) \in Seq(Bytes) /\ Len(Item(w)) = Size[w]
  BY <1>1, <1>3, SeqDef
<1> QED
  BY <1>1, <1>2, <1>3, <1>4

(* So are the items of several writes, joined. *)
LEMMA ItemsTyped ==
  ASSUME NEW s \in Seq(Writes)
  PROVE  /\ ItemsOf(s) \in Seq(Seq(Bytes)) /\ Len(ItemsOf(s)) = Len(s)
         /\ \A i \in 1 .. Len(s) : ItemsOf(s)[i] = Item(s[i])
         /\ FlattenSeq(ItemsOf(s)) \in Seq(Bytes)
<1>1. Len(s) \in Nat /\ \A i \in 1 .. Len(s) : s[i] \in Writes
  BY LenProperties, ElementOfSeq
<1>2. \A i \in 1 .. Len(s) : Item(s[i]) \in Seq(Bytes)
  BY <1>1, ItemTyped
<1>3. ItemsOf(s) \in [1 .. Len(s) -> Seq(Bytes)] /\ \A i \in 1 .. Len(s) : ItemsOf(s)[i] = Item(s[i])
  BY <1>2 DEF ItemsOf
<1>4. ItemsOf(s) \in Seq(Seq(Bytes)) /\ Len(ItemsOf(s)) = Len(s)
  BY <1>1, <1>3, SeqDef
<1>5. <<>> \in Seq(Bytes)
  BY EmptySeq
<1>6. FlattenSeq(ItemsOf(s)) \in Seq(Bytes)
  BY <1>4, <1>5, FlattenAppend
<1> QED
  BY <1>3, <1>4, <1>6

(* The item of one more call comes behind the others. *)
LEMMA ItemsAppend ==
  ASSUME NEW s \in Seq(Writes), NEW w \in Writes
  PROVE  FlattenSeq(ItemsOf(Append(s, w))) = FlattenSeq(ItemsOf(s)) \o Item(w)
<1> DEFINE t == Append(s, w)
<1>1. /\ Len(s) \in Nat /\ t \in Seq(Writes) /\ Len(t) = Len(s) + 1
      /\ \A i \in 1 .. Len(s) : t[i] = s[i]
      /\ t[Len(s) + 1] = w
  BY AppendProperties, LenProperties
<1> HIDE DEF t
<1>2. /\ ItemsOf(s) \in Seq(Seq(Bytes)) /\ Len(ItemsOf(s)) = Len(s)
      /\ \A i \in 1 .. Len(s) : ItemsOf(s)[i] = Item(s[i])
  BY ItemsTyped
<1>3. /\ ItemsOf(t) \in Seq(Seq(Bytes)) /\ Len(ItemsOf(t)) = Len(t)
      /\ \A i \in 1 .. Len(t) : ItemsOf(t)[i] = Item(t[i])
  BY <1>1, ItemsTyped
<1>4. Item(w) \in Seq(Bytes)
  BY ItemTyped
<1>q. PICK q, x : q = ItemsOf(s) /\ x = Item(w)
  OBVIOUS
<1> DEFINE u == Append(q, x)
<1>5. /\ u \in Seq(Seq(Bytes)) /\ Len(u) = Len(s) + 1
      /\ \A i \in 1 .. Len(s) : u[i] = ItemsOf(s)[i]
      /\ u[Len(s) + 1] = Item(w)
  <2>1. q \in Seq(Seq(Bytes)) /\ x \in Seq(Bytes) /\ Len(q) = Len(s)
    BY <1>2, <1>4, <1>q
  <2>2. /\ u \in Seq(Seq(Bytes)) /\ Len(u) = Len(q) + 1
        /\ \A i \in 1 .. Len(q) : u[i] = q[i]
        /\ u[Len(q) + 1] = x
    BY <2>1, AppendProperties
  <2> QED
    BY <1>q, <2>1, <2>2
<1> HIDE DEF u
<1>6. \A i \in 1 .. Len(s) + 1 : i \in 1 .. Len(s) \/ i = Len(s) + 1
  BY <1>1
<1>7. \A i \in 1 .. Len(s) + 1 : ItemsOf(t)[i] = u[i]
  BY <1>1, <1>2, <1>3, <1>5, <1>6
<1>8. ItemsOf(t) = u
  BY <1>1, <1>3, <1>5, <1>7, SeqEqual
<1> QED
  BY <1>2, <1>4, <1>q, <1>8, FlattenAppend DEF t, u

(* The calls have written their items when each has all its bytes taken.     *)
LEMMA OnWireWhole ==
  ASSUME NEW s \in Seq(Writes), NEW k, NEW b, OnWire(s, k, b), Done(s, k)
  PROVE  b = FlattenSeq(ItemsOf(s))
<1>1. CASE s = <<>> /\ b = <<>>
  <2>1. Len(s) = 0
    BY <1>1, EmptySeq
  <2>2. Len(ItemsOf(s)) = 0 /\ ItemsOf(s) \in Seq(Seq(Bytes))
    BY <2>1, ItemsTyped
  <2>3. ItemsOf(s) = <<>>
    BY <2>2, EmptySeq
  <2> QED
    BY <1>1, <2>2, <2>3 DEF FlattenSeq
<1>2. CASE ~(s = <<>> /\ b = <<>>)
  <2>1. PICK c \in Seq(Writes), w \in Writes :
          s = Append(c, w) /\ Done(c, k) /\ b = FlattenSeq(ItemsOf(c)) \o SubSeq(Item(w), 1, k[w])
    BY <1>2 DEF OnWire
  <2>2. Len(s) \in 1 .. Len(s) /\ s[Len(s)] = w
    BY <2>1, AppendProperties, LenProperties
  <2>3. k[w] = Size[w]
    BY <2>2 DEF Done
  <2>4. SubSeq(Item(w), 1, k[w]) = Item(w)
    BY <2>3, ItemTyped, SubSeqFull
  <2> QED
    BY <2>1, <2>4, ItemsAppend
<1> QED
  BY <1>1, <1>2

(* What is on the wire is the beginning of the items of the calls. *)
LEMMA OnWirePrefix ==
  ASSUME NEW s \in Seq(Writes), NEW k, NEW b, OnWire(s, k, b),
         \A w \in Writes : k[w] \in 0 .. Size[w]
  PROVE  IsPrefix(b, FlattenSeq(ItemsOf(s)))
<1>p. \A p, q \in Seq(Bytes) : IsPrefix(p, p \o q)
  <2> SUFFICES ASSUME NEW p \in Seq(Bytes), NEW q \in Seq(Bytes) PROVE IsPrefix(p, p \o q)
    OBVIOUS
  <2>1. p \o q \in Seq(Bytes) /\ Len(p \o q) = Len(p) + Len(q) /\ Len(p) \in Nat /\ Len(q) \in Nat
    BY ConcatProperties, LenProperties
  <2>2. CASE Len(p) = 0
    <3>1. 0 < 1 /\ 0 \in Int /\ 1 \in Int
      OBVIOUS
    <3>2. SubSeq(p, 1, Len(p)) = <<>> /\ SubSeq(p \o q, 1, Len(p)) = <<>>
      BY <2>2, <3>1, SubSeqEmpty
    <3> QED
      BY <2>1, <3>2 DEF IsPrefix
  <2>3. CASE Len(p) # 0
    <3>1. 1 \in 1 .. Len(p) /\ Len(p) \in 1 .. Len(p)
      BY <2>1, <2>3
    <3>2. SubSeq(p \o q, 1, Len(p)) = SubSeq(p, 1, Len(p))
      BY <3>1, SubSeqOfConcat1
    <3> QED
      BY <2>1, <3>2 DEF IsPrefix
  <2> QED
    BY <2>2, <2>3
<1>1. CASE s = <<>> /\ b = <<>>
  <2>1. Done(s, k)
    BY <1>1, EmptySeq DEF Done
  <2>2. b = FlattenSeq(ItemsOf(s))
    BY <2>1, OnWireWhole
  <2>3. <<>> \in Seq(Bytes) /\ <<>> \o <<>> = <<>>
    BY EmptySeq, ConcatEmptySeq
  <2> QED
    BY <1>1, <1>p, <2>2, <2>3
<1>2. CASE ~(s = <<>> /\ b = <<>>)
  <2>1. PICK c \in Seq(Writes), w \in Writes :
          s = Append(c, w) /\ Done(c, k) /\ b = FlattenSeq(ItemsOf(c)) \o SubSeq(Item(w), 1, k[w])
    BY <1>2 DEF OnWire
  <2> DEFINE a == FlattenSeq(ItemsOf(c))
             x == SubSeq(Item(w), 1, k[w])
             y == SubSeq(Item(w), k[w] + 1, Size[w])
  <2>2. /\ Item(w) \in Seq(Bytes) /\ Len(Item(w)) = Size[w] /\ Size[w] \in Nat /\ k[w] \in 0 .. Size[w]
        /\ \A i \in 1 .. Len(Item(w)) : Item(w)[i] \in Bytes
    BY ItemTyped, ElementOfSeq
  <2>3. /\ \A i \in 1 .. k[w] : Item(w)[i] \in Bytes
        /\ \A i \in k[w] + 1 .. Size[w] : Item(w)[i] \in Bytes
        /\ k[w] \in Int /\ k[w] + 1 \in Int /\ Size[w] \in Int /\ 1 \in Int
        /\ 1 \in 1 .. Len(Item(w)) + 1 /\ k[w] \in 1 - 1 .. Len(Item(w))
        /\ Size[w] \in k[w] .. Len(Item(w))
    BY <2>2
  <2>4. x \in Seq(Bytes) /\ y \in Seq(Bytes)
    BY <2>3, SubSeqProperties
  <2>5. x \o y = Item(w)
    <3>1. x \o y = SubSeq(Item(w), 1, Size[w])
      BY <2>2, <2>3, ConcatAdjacentSubSeq
    <3> QED
      BY <2>2, <3>1, SubSeqFull
  <2>6. a \in Seq(Bytes) /\ FlattenSeq(ItemsOf(s)) = a \o Item(w)
    BY <2>1, ItemsTyped, ItemsAppend
  <2> HIDE DEF a, x, y
  <2>7. FlattenSeq(ItemsOf(s)) = (a \o x) \o y
    <3>1. (a \o x) \o y = a \o (x \o y)
      BY SMTT(30), <2>4, <2>6, ConcatAssociative
    <3> QED
      BY <2>5, <2>6, <3>1
  <2>8. a \o x \in Seq(Bytes) /\ b = a \o x
    BY <2>1, <2>4, <2>6, ConcatProperties DEF a, x
  <2> QED
    BY <1>p, <2>4, <2>7, <2>8
<1> QED
  BY <1>1, <1>2

(* What is taken for other calls does not matter. *)
LEMMA OnWireStays ==
  ASSUME NEW s \in Seq(Writes), NEW k, NEW b, OnWire(s, k, b),
         NEW m, \A i \in 1 .. Len(s) : m[s[i]] = k[s[i]]
  PROVE  OnWire(s, m, b)
<1>1. CASE s = <<>> /\ b = <<>>
  BY <1>1 DEF OnWire
<1>2. CASE ~(s = <<>> /\ b = <<>>)
  <2>1. PICK c \in Seq(Writes), w \in Writes :
          s = Append(c, w) /\ Done(c, k) /\ b = FlattenSeq(ItemsOf(c)) \o SubSeq(Item(w), 1, k[w])
    BY <1>2 DEF OnWire
  <2>2. /\ Len(c) \in Nat /\ Len(s) = Len(c) + 1 /\ s[Len(c) + 1] = w
        /\ \A i \in 1 .. Len(c) : s[i] = c[i]
    BY <2>1, AppendProperties, LenProperties
  <2>3. Len(c) + 1 \in 1 .. Len(s) /\ \A i \in 1 .. Len(c) : i \in 1 .. Len(s)
    BY <2>2
  <2>4. m[w] = k[w] /\ \A i \in 1 .. Len(c) : m[c[i]] = k[c[i]]
    BY <2>2, <2>3
  <2>5. Done(c, m)
    BY <2>1, <2>4 DEF Done
  <2> QED
    BY <2>1, <2>4, <2>5 DEF OnWire
<1> QED
  BY <1>1, <1>2

(* A call that is made when all others are done.                             *)
LEMMA OnWireBegun ==
  ASSUME NEW s \in Seq(Writes), NEW k, NEW b, OnWire(s, k, b), Done(s, k),
         NEW w \in Writes, NEW m, \A i \in 1 .. Len(s) : m[s[i]] = k[s[i]]
  PROVE  OnWire(Append(s, w), m, b \o SubSeq(Item(w), 1, m[w]))
<1>1. b = FlattenSeq(ItemsOf(s))
  BY OnWireWhole
<1>2. Done(s, m)
  BY DEF Done
<1> QED
  BY <1>1, <1>2 DEF OnWire

(* Joining sequences of bytes is associative. *)
LEMMA BytesJoined == \A p, q, r \in Seq(Bytes) : (p \o q) \o r = p \o (q \o r)
<1> SUFFICES ASSUME NEW p \in Seq(Bytes), NEW q \in Seq(Bytes), NEW r \in Seq(Bytes)
             PROVE  (p \o q) \o r = p \o (q \o r)
  OBVIOUS
<1> QED
  BY ConcatAssociative

(* The socket takes one more byte of a call that is not done. *)
LEMMA OnWireMore ==
  ASSUME NEW s \in Seq(Writes), NEW k, NEW b, OnWire(s, k, b),
         NEW w \in Writes, NEW j \in 1 .. Len(s), s[j] = w,
         k[w] \in 0 .. Size[w], k[w] # Size[w],
         NEW m, m[w] = k[w] + 1, \A v \in Writes : v # w => m[v] = k[v]
  PROVE  OnWire(s, m, b \o <<Byte(w, k[w] + 1)>>)
<1>1. s # <<>>
  BY EmptySeq
<1>2. PICK c \in Seq(Writes), v \in Writes :
        s = Append(c, v) /\ Done(c, k) /\ b = FlattenSeq(ItemsOf(c)) \o SubSeq(Item(v), 1, k[v])
  BY <1>1 DEF OnWire
<1>3. /\ Len(c) \in Nat /\ Len(s) = Len(c) + 1 /\ s[Len(c) + 1] = v
      /\ \A i \in 1 .. Len(c) : s[i] = c[i]
  BY <1>2, AppendProperties, LenProperties
<1>4. \A i \in 1 .. Len(c) : c[i] # w /\ c[i] \in Writes
  BY <1>2, ElementOfSeq DEF Done
<1>5. j \in 1 .. Len(c) \/ j = Len(c) + 1
  BY <1>3
<1>6. v = w
  BY <1>3, <1>4, <1>5
<1>7. Done(c, m)
  BY <1>2, <1>4 DEF Done
<1> DEFINE a == FlattenSeq(ItemsOf(c))
           x == SubSeq(Item(w), 1, k[w])
           y == <<Byte(w, k[w] + 1)>>
<1>8. /\ Item(w) \in Seq(Bytes) /\ Len(Item(w)) = Size[w] /\ Size[w] \in Nat
      /\ \A i \in 1 .. Size[w] : Item(w)[i] = Byte(w, i) /\ Byte(w, i) \in Bytes
  BY ItemTyped
<1>9. /\ k[w] \in Nat /\ k[w] + 1 \in 1 .. Size[w] /\ k[w] + 1 \in 1 .. Len(Item(w))
      /\ k[w] \in Int /\ 1 \in Int /\ 1 \in 1 .. Len(Item(w)) /\ k[w] + 1 \in 1 .. Len(Item(w))
      /\ (k[w] + 1) - 1 = k[w] /\ \A i \in 1 .. k[w] : i \in 1 .. Size[w]
  BY <1>8
<1>10. SubSeq(Item(w), 1, k[w] + 1) = SubSeq(Item(w), 1, k[w]) \o <<Item(w)[k[w] + 1]>>
  BY ZenonT(40), <1>8, <1>9, SubSeqRecursiveSecond
<1>11. SubSeq(Item(w), 1, m[w]) = x \o y
  BY <1>8, <1>9, <1>10
<1>12. x \in Seq(Bytes)
  BY <1>8, <1>9, SubSeqProperties
<1>13. y \in Seq(Bytes)
  BY <1>8, <1>9
<1>14. a \in Seq(Bytes)
  BY ItemsTyped
<1>15. b = a \o x
  BY <1>2, <1>6
<1> HIDE DEF a, x, y
<1>16. (a \o x) \o y = a \o (x \o y)
  BY <1>12, <1>13, <1>14, BytesJoined, Zenon
<1>17. b \o y = FlattenSeq(ItemsOf(c)) \o SubSeq(Item(w), 1, m[w])
  BY <1>11, <1>15, <1>16 DEF a
<1> QED
  BY <1>2, <1>6, <1>7, <1>17 DEF OnWire, y

-----------------------------------------------------------------------------
(* The calls on a link are those made for it, each once; what has a handler  *)
(* run is done.                                                              *)
WritesInv ==
  /\ setup \in BOOLEAN
  /\ run \in {"running", "returned"}
  /\ order \in [Links -> Seq(Writes)]
  /\ taken \in [Writes -> Nat]
  /\ wire \in [Links -> Seq(Bytes)]
  /\ handled \subseteq Writes
  /\ late \subseteq Writes
  /\ torn \subseteq Links
  /\ \A w \in Writes : taken[w] \in 0 .. Size[w]
  /\ \A l \in Links : \A i \in 1 .. Len(order[l]) :
       /\ Link[order[l][i]] = l
       /\ \A j \in 1 .. Len(order[l]) : order[l][i] = order[l][j] => i = j
  /\ \A w \in handled : Begun(w) /\ taken[w] = Size[w]

WireInv == \A l \in Links \ torn : OnWire(order[l], taken, wire[l])

(* The bytes a call gives to the socket go onto the wire of its link.        *)
LEMMA PutOn ==
  ASSUME WritesInv, NEW l \in Links, NEW bytes \in Seq(Bytes), Put(l, bytes)
  PROVE  /\ wire' \in [Links -> Seq(Bytes)]
         /\ \A k \in Links : k # l => wire'[k] = wire[k]
         /\ l \notin torn' => wire'[l] = wire[l] \o bytes
<1>1. wire[l] \o bytes \in Seq(Bytes) /\ <<>> \in Seq(Bytes)
  BY ConcatProperties, EmptySeq DEF WritesInv
<1> QED
  BY <1>1 DEF Put, WritesInv

(* Every write is on one of the links. *)
LEMMA LinkTyped == ASSUME NEW w \in Writes PROVE Link[w] \in Links
BY DEF Links

(* Nothing has been written. *)
LEMMA InitWrites == Init => WritesInv /\ WireInv
<1> SUFFICES ASSUME Init PROVE WritesInv /\ WireInv
  OBVIOUS
<1>1. <<>> \in Seq(Writes) /\ <<>> \in Seq(Bytes) /\ Len(<<>>) = 0
  BY EmptySeq
<1>2. \A w \in Writes : 0 \in 0 .. Size[w]
  BY TagWritesAssumption
<1>3. WritesInv
  BY <1>1, <1>2 DEF Init, WritesInv
<1>4. WireInv
  BY DEF Init, WireInv, OnWire
<1> QED
  BY <1>3, <1>4

(* What a call does to the order of the calls, and what the socket takes.    *)
LEMMA CallStep ==
  ASSUME WritesInv, WireInv, NEW w \in Writes, AsyncWrite(w)
  PROVE  WritesInv' /\ WireInv'
<1>l. PICK h \in Links : h = Link[w]
  BY LinkTyped
<1>1. PICK k \in 0 .. Size[w] :
        /\ taken' = [taken EXCEPT ![w] = k]
        /\ Put(h, SubSeq(Item(w), 1, k))
  BY <1>l DEF AsyncWrite
<1>2. /\ ~Begun(w) /\ order' = [order EXCEPT ![h] = Append(@, w)]
      /\ torn' = IF Inside(w) THEN torn \cup {h} ELSE torn
      /\ late' = IF run = "returned" THEN late \cup {w} ELSE late
      /\ UNCHANGED <<setup, run, handled>>
  BY <1>l DEF AsyncWrite
<1>k. k \in Nat /\ Size[w] \in Nat
  BY TagWritesAssumption
<1>3. SubSeq(Item(w), 1, k) \in Seq(Bytes)
  <2>1. Item(w) \in Seq(Bytes) /\ \A i \in 1 .. Size[w] : Item(w)[i] \in Bytes
    BY ItemTyped
  <2>2. \A i \in 1 .. k : Item(w)[i] \in Bytes
    BY <1>k, <2>1
  <2> QED
    BY <1>k, <2>2, SubSeqProperties
<1>4. /\ wire' \in [Links -> Seq(Bytes)]
      /\ \A g \in Links : g # h => wire'[g] = wire[g]
      /\ h \notin torn' => wire'[h] = wire[h] \o SubSeq(Item(w), 1, k)
  BY <1>1, <1>3, PutOn
<1>5. PICK s \in Seq(Writes) : s = order[h]
  BY DEF WritesInv
<1>6. /\ Len(s) \in Nat /\ Append(s, w) \in Seq(Writes) /\ Len(Append(s, w)) = Len(s) + 1
      /\ \A i \in 1 .. Len(s) : Append(s, w)[i] = s[i] /\ i \in 1 .. Len(s) + 1
      /\ Append(s, w)[Len(s) + 1] = w
      /\ \A i \in 1 .. Len(s) + 1 : i \in 1 .. Len(s) \/ i = Len(s) + 1
  <2>1. Len(s) \in Nat
    BY LenProperties
  <2> QED
    BY <2>1, AppendProperties
<1>7. /\ order'[h] = Append(s, w)
      /\ \A g \in Links : g # h => order'[g] = order[g]
      /\ order' \in [Links -> Seq(Writes)]
  BY <1>2, <1>5, <1>6 DEF WritesInv
<1>8. \A i \in 1 .. Len(s) : s[i] # w /\ Link[s[i]] = h /\ s[i] \in Writes
  <2>1. \A i \in 1 .. Len(s) : s[i] # w
    BY <1>l, <1>2, <1>5 DEF Begun
  <2> QED
    BY <1>5, <2>1, ElementOfSeq DEF WritesInv
<1>9. /\ taken' \in [Writes -> Nat] /\ taken'[w] = k
      /\ \A v \in Writes : v # w => taken'[v] = taken[v]
  BY <1>1, <1>k DEF WritesInv
<1>10. WritesInv'
  <2>1. \A g \in Links : \A i \in 1 .. Len(order'[g]) :
          /\ Link[order'[g][i]] = g
          /\ \A j \in 1 .. Len(order'[g]) : order'[g][i] = order'[g][j] => i = j
    <3>1. ASSUME NEW g \in Links, g # h
          PROVE  \A i \in 1 .. Len(order'[g]) :
                   /\ Link[order'[g][i]] = g
                   /\ \A j \in 1 .. Len(order'[g]) : order'[g][i] = order'[g][j] => i = j
      BY <1>7, <3>1 DEF WritesInv
    <3>2. \A i, j \in 1 .. Len(s) : s[i] = s[j] => i = j
      BY <1>5 DEF WritesInv
    <3>3. \A i \in 1 .. Len(s) + 1 : Link[Append(s, w)[i]] = h
      BY <1>l, <1>6, <1>8
    <3>4. \A i, j \in 1 .. Len(s) + 1 : Append(s, w)[i] = Append(s, w)[j] => i = j
      BY <1>6, <1>8, <3>2
    <3>5. \A i \in 1 .. Len(order'[h]) :
            /\ Link[order'[h][i]] = h
            /\ \A j \in 1 .. Len(order'[h]) : order'[h][i] = order'[h][j] => i = j
      <4>1. Len(order'[h]) = Len(s) + 1 /\ order'[h] = Append(s, w)
        BY <1>6, <1>7
      <4> QED
        BY <3>3, <3>4, <4>1
    <3> QED
      BY <3>1, <3>5
  <2>2. \A v \in handled : Begun(v)' /\ taken'[v] = Size[v]
    <3> SUFFICES ASSUME NEW v \in handled PROVE Begun(v)' /\ taken'[v] = Size[v]
      OBVIOUS
    <3>1. v \in Writes /\ Begun(v) /\ taken[v] = Size[v]
      BY DEF WritesInv
    <3>2. v # w
      BY <1>2, <3>1
    <3>3. PICK i \in 1 .. Len(order[Link[v]]) : order[Link[v]][i] = v
      BY <3>1 DEF Begun
    <3>4. CASE Link[v] = h
      <4>1. i \in 1 .. Len(order'[h]) /\ order'[h][i] = v
        BY <1>5, <1>6, <1>7, <3>3, <3>4
      <4> QED
        BY <1>9, <3>1, <3>2, <3>4, <4>1 DEF Begun
    <3>5. CASE Link[v] # h
      <4>1. order'[Link[v]] = order[Link[v]]
        BY <1>7, <3>1, <3>5, LinkTyped
      <4> QED
        BY <1>9, <3>1, <3>2, <3>3, <4>1 DEF Begun
    <3> QED
      BY <3>4, <3>5
  <2>3. \A v \in Writes : taken'[v] \in 0 .. Size[v]
    BY <1>9 DEF WritesInv
  <2>4. torn' \subseteq Links /\ late' \subseteq Writes
    BY <1>2 DEF WritesInv
  <2>5. setup' \in BOOLEAN /\ run' \in {"running", "returned"} /\ handled' \subseteq Writes
        /\ handled' = handled
    BY <1>2 DEF WritesInv
  <2> QED
    BY <1>4, <1>7, <1>9, <2>1, <2>2, <2>3, <2>4, <2>5 DEF WritesInv
<1>11. WireInv'
  <2> SUFFICES ASSUME NEW g \in Links, g \notin torn' PROVE OnWire(order[g], taken, wire[g])'
    BY <1>10 DEF WireInv, WritesInv
  <2>1. g \notin torn /\ order[g] \in Seq(Writes)
    BY <1>2 DEF WritesInv
  <2>2. OnWire(order[g], taken, wire[g])
    BY <2>1 DEF WireInv
  <2>3. CASE g = h
    <3>1. ~Inside(w)
      BY <1>2, <2>3
    <3>2. Done(s, taken)
      <4> SUFFICES ASSUME NEW i \in 1 .. Len(s) PROVE taken[s[i]] = Size[s[i]]
        BY DEF Done
      <4>1. s[i] \in Writes /\ Link[s[i]] = Link[w]
        BY <1>l, <1>8
      <4>2. Begun(s[i])
        BY <1>l, <1>5, <4>1 DEF Begun
      <4> QED
        BY <3>1, <4>1, <4>2 DEF Inside, Finished
    <3>3. \A i \in 1 .. Len(s) : taken'[s[i]] = taken[s[i]]
      BY <1>8, <1>9
    <3>4. OnWire(s, taken, wire[h])
      BY <1>5, <2>2, <2>3
    <3>5. OnWire(Append(s, w), taken', wire[h] \o SubSeq(Item(w), 1, taken'[w]))
      BY <3>2, <3>3, <3>4, OnWireBegun
    <3> QED
      BY <1>4, <1>7, <1>9, <2>3, <3>5
  <2>4. CASE g # h
    <3>1. \A i \in 1 .. Len(order[g]) : order[g][i] # w /\ order[g][i] \in Writes
      BY <1>l, <2>1, <2>4, ElementOfSeq DEF WritesInv
    <3>2. \A i \in 1 .. Len(order[g]) : taken'[order[g][i]] = taken[order[g][i]]
      BY <1>9, <3>1
    <3>3. OnWire(order[g], taken', wire[g])
      BY <2>1, <2>2, <3>2, OnWireStays
    <3> QED
      BY <1>4, <1>7, <2>4, <3>3
  <2> QED
    BY <2>3, <2>4
<1> QED
  BY <1>10, <1>11

(* The socket takes one more byte. *)
LEMMA SomeStep ==
  ASSUME WritesInv, WireInv, NEW w \in Writes, WriteSome(w)
  PROVE  WritesInv' /\ WireInv'
<1>1. PICK h \in Links : h = Link[w]
  BY LinkTyped
<1>2. /\ Begun(w) /\ taken[w] # Size[w]
      /\ taken' = [taken EXCEPT ![w] = @ + 1]
      /\ (torn' = torn \/ torn' = torn \cup {h})
      /\ Put(h, <<Byte(w, taken[w] + 1)>>)
      /\ UNCHANGED <<setup, run, order, handled, late>>
  BY <1>1 DEF WriteSome, Finished
<1>3. /\ taken[w] \in Nat /\ taken[w] \in 0 .. Size[w] /\ Size[w] \in Nat
      /\ taken[w] + 1 \in 1 .. Size[w]
  BY <1>2, ItemTyped DEF WritesInv
<1>4. <<Byte(w, taken[w] + 1)>> \in Seq(Bytes)
  <2>1. Byte(w, taken[w] + 1) \in Bytes
    BY <1>3, ItemTyped
  <2> QED
    BY <2>1
<1>5. /\ wire' \in [Links -> Seq(Bytes)]
      /\ \A g \in Links : g # h => wire'[g] = wire[g]
      /\ h \notin torn' => wire'[h] = wire[h] \o <<Byte(w, taken[w] + 1)>>
  BY <1>2, <1>4, PutOn
<1>6. /\ taken' \in [Writes -> Nat] /\ taken'[w] = taken[w] + 1
      /\ \A v \in Writes : v # w => taken'[v] = taken[v]
  BY <1>2, <1>3 DEF WritesInv
<1>7. WritesInv'
  <2>1. \A v \in Writes : taken'[v] \in 0 .. Size[v]
    BY <1>3, <1>6 DEF WritesInv
  <2>2. w \notin handled
    BY <1>2 DEF WritesInv
  <2>3. \A v \in handled : Begun(v)' /\ taken'[v] = Size[v]
    BY <1>2, <1>6, <2>2 DEF WritesInv, Begun
  <2>4. torn' \subseteq Links
    BY <1>2 DEF WritesInv
  <2> QED
    BY <1>2, <1>5, <1>6, <2>1, <2>3, <2>4 DEF WritesInv
<1>8. WireInv'
  <2> SUFFICES ASSUME NEW g \in Links, g \notin torn' PROVE OnWire(order[g], taken, wire[g])'
    BY DEF WireInv
  <2>1. g \notin torn /\ order[g] \in Seq(Writes) /\ order' = order
    BY <1>2 DEF WritesInv
  <2>2. OnWire(order[g], taken, wire[g])
    BY <2>1 DEF WireInv
  <2>3. CASE g = h
    <3>1. PICK s \in Seq(Writes) : s = order[h]
      BY <2>1, <2>3
    <3>b. PICK b : b = wire[h]
      OBVIOUS
    <3>2. PICK j \in 1 .. Len(s) : s[j] = w
      BY <1>1, <1>2, <3>1 DEF Begun
    <3>3. OnWire(s, taken, b)
      BY <2>2, <2>3, <3>1, <3>b
    <3>4. OnWire(s, taken', b \o <<Byte(w, taken[w] + 1)>>)
      BY <1>2, <1>3, <1>6, <3>2, <3>3, OnWireMore
    <3> QED
      BY <1>5, <2>1, <2>3, <3>1, <3>b, <3>4
  <2>4. CASE g # h
    <3>1. \A i \in 1 .. Len(order[g]) : order[g][i] # w /\ order[g][i] \in Writes
      BY <1>1, <2>1, <2>4, ElementOfSeq DEF WritesInv
    <3>2. \A i \in 1 .. Len(order[g]) : taken'[order[g][i]] = taken[order[g][i]]
      BY <1>6, <3>1
    <3>3. OnWire(order[g], taken', wire[g])
      BY <2>1, <2>2, <3>2, OnWireStays
    <3> QED
      BY <1>5, <2>1, <2>4, <3>3
  <2> QED
    BY <2>3, <2>4
<1> QED
  BY <1>7, <1>8

(* Every step of the callers and of the io_service keeps the invariant. *)
LEMMA NextWrites == WritesInv /\ WireInv /\ [Next]_vars => (WritesInv /\ WireInv)'
<1> SUFFICES ASSUME WritesInv, WireInv, [Next]_vars PROVE WritesInv' /\ WireInv'
  OBVIOUS
<1>1. ASSUME NEW w \in Writes, HandleWrite(w) PROVE WritesInv' /\ WireInv'
  <2>1. /\ handled' = handled \cup {w} /\ Begun(w) /\ taken[w] = Size[w]
        /\ UNCHANGED <<setup, run, order, taken, wire, late, torn>>
    BY <1>1 DEF HandleWrite, Pending, Finished
  <2>2. \A v \in handled' : Begun(v)' /\ taken'[v] = Size[v]
    BY <2>1 DEF WritesInv, Begun
  <2> QED
    BY <2>1, <2>2 DEF WritesInv, WireInv
<1>2. ASSUME UNCHANGED <<order, taken, wire, handled, late, torn>>,
             setup' \in BOOLEAN, run' \in {"running", "returned"}
      PROVE  WritesInv' /\ WireInv'
  BY <1>2 DEF WritesInv, WireInv, Begun
<1>3. CASE SetupEnds
  BY <1>2, <1>3 DEF SetupEnds, WritesInv
<1>4. CASE RunReturns
  BY <1>2, <1>4 DEF RunReturns, WritesInv
<1>5. CASE UNCHANGED vars
  BY <1>2, <1>5 DEF vars, WritesInv
<1> QED
  BY <1>1, <1>3, <1>4, <1>5, CallStep, SomeStep DEF Next

-----------------------------------------------------------------------------
(* The strengthened invariant of the writes (TagSystem.cpp:50, 100) holds throughout. *)
THEOREM WritesInvariant == Spec => [](WritesInv /\ WireInv)
BY InitWrites, NextWrites, PTL DEF Spec

(* The variables keep their types, for every set of calls and of links; a    *)
(* call is made once, and its handler is run when its bytes are all taken.   *)
THEOREM TypeCorrect == Spec => []TypeOK
<1>1. WritesInv => TypeOK
  <2> SUFFICES ASSUME WritesInv PROVE TypeOK
    OBVIOUS
  <2>1. ASSUME NEW l \in Links PROVE order[l] \in Seq(Writes) /\ IsInjective(order[l])
    <3>1. order[l] \in Seq(Writes)
      BY DEF WritesInv
    <3>2. DOMAIN order[l] = 1 .. Len(order[l])
      BY <3>1, LenProperties
    <3> QED
      BY <3>1, <3>2 DEF WritesInv, IsInjective
  <2> QED
    BY <2>1 DEF WritesInv, TypeOK
<1> QED
  BY <1>1, WritesInvariant, PTL

(* The stream of a link that was not torn is a sequence of items in the      *)
(* order of the calls, as far as the calls have got, for items of every size *)
(* that are taken in any parts, on any number of links.                      *)
THEOREM WholeItemsUnlessTornHolds == Spec => []WholeItemsUnlessTorn
<1>1. WritesInv /\ WireInv => WholeItemsUnlessTorn
  <2> SUFFICES ASSUME WritesInv, WireInv, NEW l \in Links \ torn
               PROVE  /\ IsPrefix(wire[l], FlattenSeq(ItemsOf(order[l])))
                      /\ (\A w \in Writes : Link[w] = l /\ Begun(w) => Finished(w))
                           => wire[l] = FlattenSeq(ItemsOf(order[l]))
    BY DEF WholeItemsUnlessTorn, ItemsOf
  <2>1. order[l] \in Seq(Writes) /\ OnWire(order[l], taken, wire[l])
    BY DEF WritesInv, WireInv
  <2>2. \A w \in Writes : taken[w] \in 0 .. Size[w]
    BY DEF WritesInv
  <2>3. IsPrefix(wire[l], FlattenSeq(ItemsOf(order[l])))
    BY <2>1, <2>2, OnWirePrefix
  <2>4. ASSUME \A w \in Writes : Link[w] = l /\ Begun(w) => Finished(w)
        PROVE  wire[l] = FlattenSeq(ItemsOf(order[l]))
    <3>1. Done(order[l], taken)
      <4> SUFFICES ASSUME NEW i \in 1 .. Len(order[l]) PROVE taken[order[l][i]] = Size[order[l][i]]
        BY DEF Done
      <4>1. order[l][i] \in Writes /\ Link[order[l][i]] = l
        BY <2>1, ElementOfSeq DEF WritesInv
      <4>2. Begun(order[l][i])
        BY <4>1 DEF Begun
      <4> QED
        BY <2>4, <4>1, <4>2 DEF Finished
    <3> QED
      BY <2>1, <3>1, OnWireWhole
  <2> QED
    BY <2>3, <2>4
<1> QED
  BY <1>1, WritesInvariant, PTL

-----------------------------------------------------------------------------
(* The characters of a text; the provers do not know of a literal that it is *)
(* a string, so those of the protocol are named.                             *)
Marks == {"!", ":", ";", "A", "K"}
Numerals == {"0", "1", "2", "3", "4", "5", "6", "7", "8", "9"}
Chars == STRING \cup Marks \cup Numerals
Strings == Seq(Chars)

(* The first position of a character, if the text contains it. *)
LEMMA FindIs ==
  ASSUME NEW s \in Strings, NEW c
  PROVE  /\ Find(c, s) \in 0 .. Len(s)
         /\ Find(c, s) = 0 <=> ~Contains(s, c)
         /\ Find(c, s) # 0 => s[Find(c, s)] = c /\ \A i \in 1 .. Find(c, s) - 1 : s[i] # c
<1>1. PICK n \in Nat : n = Len(s)
  BY LenProperties DEF Strings
<1> DEFINE I == {i \in 1 .. n : s[i] = c}
<1>2. Find(c, s) = IF I # {} THEN Min(I) ELSE 0
  BY <1>1 DEF Find, SelectInSeq
<1>3. Contains(s, c) <=> I # {}
  BY <1>1 DEF Contains
<1>4. CASE I = {}
  BY <1>1, <1>2, <1>3, <1>4
<1>5. CASE I # {}
  <2>1. I \in SUBSET Nat
    OBVIOUS
  <2>2. PICK p \in I : \A i \in I : p <= i
    BY <1>5, <2>1, LeastNat
  <2>3. Min(I) \in I /\ \A i \in I : Min(I) <= i
    <3> HIDE DEF I
    <3> QED
      BY <2>2 DEF Min
  <2>4. PICK q : q = Min(I)
    OBVIOUS
  <2>5. q \in 1 .. n /\ s[q] = c /\ \A i \in 1 .. n : s[i] = c => q <= i
    BY <2>3, <2>4
  <2>6. Find(c, s) = q
    BY <1>2, <1>5, <2>4
  <2>7. \A i \in 1 .. q - 1 : s[i] # c
    BY <1>1, <2>5
  <2> QED
    BY <1>1, <1>3, <1>5, <2>5, <2>6, <2>7
<1> QED
  BY <1>4, <1>5

(* So a position that nothing before it shares is what is found. *)
LEMMA FindAt ==
  ASSUME NEW s \in Strings, NEW c, NEW p \in 1 .. Len(s), s[p] = c,
         \A i \in 1 .. p - 1 : s[i] # c
  PROVE  Find(c, s) = p
<1>1. PICK n \in Nat : n = Len(s)
  BY LenProperties DEF Strings
<1>2. Contains(s, c)
  BY DEF Contains
<1>3. PICK q \in 1 .. n : q = Find(c, s) /\ s[q] = c /\ \A i \in 1 .. q - 1 : s[i] # c
  BY <1>1, <1>2, FindIs
<1>4. ~(q < p) /\ ~(p < q)
  BY <1>1, <1>3
<1> QED
  BY <1>1, <1>3, <1>4

(* The ten digits, each in one place. *)
LEMMA DigitsAre ==
  /\ Digits \in Strings /\ Len(Digits) = 10
  /\ \A i, j \in 1 .. 10 : Digits[i] = Digits[j] => i = j
  /\ \A i \in 1 .. 10 : Digits[i] \in Chars /\ Digits[i] \notin Marks
<1>1. Digits \in Strings /\ Len(Digits) = 10
  BY DEF Digits, Strings, Chars, Numerals
<1>2. /\ Digits[1] = "0" /\ Digits[2] = "1" /\ Digits[3] = "2" /\ Digits[4] = "3"
      /\ Digits[5] = "4" /\ Digits[6] = "5" /\ Digits[7] = "6" /\ Digits[8] = "7"
      /\ Digits[9] = "8" /\ Digits[10] = "9"
  BY DEF Digits
<1>3. \A i \in 1 .. 10 : i \in {1, 2, 3, 4, 5, 6, 7, 8, 9, 10}
  OBVIOUS
<1>4. \A i \in 1 .. 10 : Digits[i] \in Chars /\ Digits[i] \notin Marks
  BY <1>2, <1>3 DEF Chars, Numerals, Marks
<1>5. \A i, j \in 1 .. 10 : Digits[i] = Digits[j] => i = j
  BY <1>2, <1>3
<1> QED
  BY <1>1, <1>4, <1>5

(* A digit is found where it is. *)
LEMMA FindDigit ==
  ASSUME NEW i \in 1 .. 10
  PROVE  Find(Digits[i], Digits) = i /\ Contains(Digits, Digits[i])
<1>1. /\ Digits \in Strings /\ Len(Digits) = 10 /\ i \in 1 .. Len(Digits)
      /\ \A j \in 1 .. i - 1 : Digits[j] # Digits[i]
  <2>1. \A j \in 1 .. i - 1 : j \in 1 .. 10 /\ j # i
    OBVIOUS
  <2> QED
    BY <2>1, DigitsAre
<1>2. Find(Digits[i], Digits) = i
  BY <1>1, FindAt
<1> QED
  BY <1>1, <1>2 DEF Contains

Ids == 0 .. 99

(* Two digits stand for the identity they were made of. *)
LEMMA DigitsOfId ==
  ASSUME NEW n \in Ids
  PROVE  /\ AckDigits(n) \in Strings /\ Len(AckDigits(n)) = 2
         /\ \A i \in 1 .. 2 : AckDigits(n)[i] \notin Marks
         /\ ~Throws(AckDigits(n))
         /\ StoI(AckDigits(n)) = n
<1>1. PICK a \in 0 .. 9, b \in 0 .. 9 : a = n \div 10 /\ b = n % 10 /\ n = 10 * a + b
  BY DEF Ids
<1>2. a + 1 \in 1 .. 10 /\ b + 1 \in 1 .. 10
  OBVIOUS
<1>3. PICK x, y : x = Digits[a + 1] /\ y = Digits[b + 1]
  OBVIOUS
<1>4. x \in Chars /\ y \in Chars /\ x \notin Marks /\ y \notin Marks
  BY <1>2, <1>3, DigitsAre
<1>5. Find(x, Digits) = a + 1 /\ Find(y, Digits) = b + 1 /\ Contains(Digits, x) /\ Contains(Digits, y)
  BY <1>2, <1>3, FindDigit
<1>6. AckDigits(n) = <<x, y>>
  BY <1>1, <1>3 DEF AckDigits
<1>7. <<x, y>> \in Strings /\ Len(<<x, y>>) = 2 /\ <<x, y>>[1] = x /\ <<x, y>>[2] = y
  BY <1>4 DEF Strings
<1>8. StoI(<<x, y>>) = n /\ ~Throws(<<x, y>>)
  <2>1. 10 * ((a + 1) - 1) + (b + 1) - 1 = n
    BY <1>1
  <2> QED
    BY <1>5, <1>7, <2>1 DEF StoI, Throws
<1>9. \A i \in 1 .. 2 : <<x, y>>[i] \notin Marks
  <2>1. \A i \in 1 .. 2 : i = 1 \/ i = 2
    OBVIOUS
  <2> QED
    BY <1>4, <1>7, <2>1
<1> QED
  BY <1>6, <1>7, <1>8, <1>9

(* What an acknowledgement begins with. *)
LEMMA AckIs ==
  ASSUME NEW s \in Strings
  PROVE  IsAck(s) <=> Len(s) >= 2 /\ s[1] = "A" /\ s[2] = "K"
<1>1. PICK n \in Nat : n = Len(s)
  BY LenProperties DEF Strings
<1>2. PICK k : k = <<"A", "K">>
  OBVIOUS
<1>3. k \in Strings /\ Len(k) = 2 /\ k[1] = "A" /\ k[2] = "K"
  <2>1. PICK x \in Chars, y \in Chars : x = "A" /\ y = "K"
    BY DEF Chars, Marks
  <2>2. <<x, y>> \in Strings /\ Len(<<x, y>>) = 2 /\ <<x, y>>[1] = x /\ <<x, y>>[2] = y
    BY DEF Strings
  <2> QED
    BY <1>2, <2>1, <2>2
<1>4. IsAck(s) <=> 2 <= n /\ SubSeq(k, 1, 2) = SubSeq(s, 1, 2)
  BY <1>1, <1>2, <1>3 DEF IsAck, IsPrefix
<1>5. ASSUME 2 <= n PROVE SubSeq(k, 1, 2) = SubSeq(s, 1, 2) <=> \A i \in 1 .. 2 : k[i] = s[i]
  <2>1. 2 \in Nat \ {0} /\ 2 <= Len(k) /\ 2 <= Len(s)
    BY <1>1, <1>3, <1>5
  <2> QED
    BY <1>3, <2>1, SamePrefix DEF Strings
<1>6. (\A i \in 1 .. 2 : k[i] = s[i]) <=> s[1] = "A" /\ s[2] = "K"
  <2>1. \A i \in 1 .. 2 : i = 1 \/ i = 2
    OBVIOUS
  <2>2. 1 \in 1 .. 2 /\ 2 \in 1 .. 2
    OBVIOUS
  <2> QED
    BY <1>3, <2>1, <2>2
<1> QED
  BY <1>1, <1>4, <1>5, <1>6

Tags == [command : Strings, message : Strings, id : Ids]
Seps == {":", ";"}

(* The text of a tag with a given delimiter, and how a text is taken. *)
Coded(t, d) == t.command \o <<d>> \o t.message \o <<"!">> \o AckDigits(t.id)
Parsed(x) == [kind |-> KindOf(x), tag |-> BreakTagString(x)]

(* Where the parts of a tag are in its text. *)
Layout(x, t, d, c, m) ==
  /\ c \in Nat /\ m \in Nat
  /\ c = Len(t.command) /\ m = Len(t.message)
  /\ x \in Strings /\ Len(x) = c + m + 4
  /\ \A i \in 1 .. c : x[i] = t.command[i]
  /\ x[c + 1] = d
  /\ \A i \in 1 .. m : x[c + 1 + i] = t.message[i]
  /\ x[c + m + 2] = "!"
  /\ x[c + m + 3] = AckDigits(t.id)[1]
  /\ x[c + m + 4] = AckDigits(t.id)[2]

(* It does not matter which two of three texts are joined first. *)
LEMMA JoinThree ==
  ASSUME NEW a \in Seq(Chars), NEW b \in Seq(Chars), NEW c \in Seq(Chars)
  PROVE  (a \o b) \o c = a \o (b \o c)
BY ConcatAssociative

(* Two texts joined. *)
LEMMA JoinTexts ==
  ASSUME NEW a \in Strings, NEW b \in Strings
  PROVE  /\ a \o b \in Strings /\ Len(a \o b) = Len(a) + Len(b)
         /\ \A i \in 1 .. Len(a) : (a \o b)[i] = a[i]
         /\ \A i \in 1 .. Len(b) : (a \o b)[Len(a) + i] = b[i]
<1>1. Len(a) \in Nat /\ Len(b) \in Nat
  BY LenProperties DEF Strings
<1> QED
  BY <1>1, ConcatProperties DEF Strings

(* That is where they are. *)
LEMMA TextOfTag ==
  ASSUME NEW t \in Tags, NEW d \in Seps
  PROVE  Layout(Coded(t, d), t, d, Len(t.command), Len(t.message))
<1>1. t.command \in Strings /\ t.message \in Strings /\ t.id \in Ids
  BY DEF Tags
<1>2. PICK p \in Strings, q \in Strings : p = t.command /\ q = t.message
  BY <1>1
<1>0. PICK c \in Nat, m \in Nat : c = Len(p) /\ m = Len(q)
  BY LenProperties DEF Strings
<1>3. PICK a, b : a = <<d>> /\ b = <<"!">>
  OBVIOUS
<1>4. a \in Strings /\ Len(a) = 1 /\ a[1] = d
  <2>1. d \in Chars
    BY DEF Seps, Chars, Marks
  <2> QED
    BY <1>3, <2>1 DEF Strings
<1>5. b \in Strings /\ Len(b) = 1 /\ b[1] = "!"
  <2>1. PICK e \in Chars : e = "!"
    BY DEF Chars, Marks
  <2> QED
    BY <1>3, <2>1 DEF Strings
<1>6. PICK n : n = AckDigits(t.id) /\ n \in Strings /\ Len(n) = 2
  BY <1>1, DigitsOfId
<1>7. PICK u : u = p \o a
  OBVIOUS
<1>8. PICK v : v = u \o q
  OBVIOUS
<1>9. PICK w : w = v \o b
  OBVIOUS
<1>10. PICK x : x = w \o n
  OBVIOUS
<1>11. x = Coded(t, d)
  BY <1>3, <1>6, <1>7, <1>8, <1>9, <1>10, <1>2 DEF Coded
<1>12. /\ u \in Strings /\ Len(u) = c + 1 /\ \A i \in 1 .. c : u[i] = p[i]
       /\ \A i \in 1 .. 1 : u[c + i] = a[i]
  <2>4. p \in Strings /\ a \in Strings
    BY <1>0, <1>4
  <2>5. /\ u \in Strings /\ Len(u) = Len(p) + Len(a)
        /\ \A i \in 1 .. Len(p) : u[i] = p[i]
        /\ \A i \in 1 .. Len(a) : u[Len(p) + i] = a[i]
    BY <2>4, <1>7, JoinTexts
  <2> QED
    BY <1>0, <1>4, <2>5
<1>13. /\ v \in Strings /\ Len(v) = (c + 1) + m /\ \A i \in 1 .. c + 1 : v[i] = u[i]
       /\ \A i \in 1 .. m : v[c + 1 + i] = q[i]
  <2>4. u \in Strings /\ q \in Strings
    BY <1>0, <1>12
  <2>5. /\ v \in Strings /\ Len(v) = Len(u) + Len(q)
        /\ \A i \in 1 .. Len(u) : v[i] = u[i]
        /\ \A i \in 1 .. Len(q) : v[Len(u) + i] = q[i]
    BY <2>4, <1>8, JoinTexts
  <2> QED
    BY <1>0, <1>12, <2>5
<1>14. /\ w \in Strings /\ Len(w) = (c + 1 + m) + 1 /\ \A i \in 1 .. c + 1 + m : w[i] = v[i]
       /\ \A i \in 1 .. 1 : w[c + 1 + m + i] = b[i]
  <2>4. v \in Strings /\ b \in Strings
    BY <1>0, <1>5, <1>13
  <2>5. /\ w \in Strings /\ Len(w) = Len(v) + Len(b)
        /\ \A i \in 1 .. Len(v) : w[i] = v[i]
        /\ \A i \in 1 .. Len(b) : w[Len(v) + i] = b[i]
    BY <2>4, <1>9, JoinTexts
  <2> QED
    BY <1>0, <1>5, <1>13, <2>5
<1>15. /\ x \in Strings /\ Len(x) = (c + m + 2) + 2 /\ \A i \in 1 .. c + m + 2 : x[i] = w[i]
       /\ \A i \in 1 .. 2 : x[c + m + 2 + i] = n[i]
  <2>1. Len(w) = c + m + 2
    BY <1>0, <1>14
  <2>4. w \in Strings /\ n \in Strings
    BY <1>6, <1>14
  <2>5. /\ x \in Strings /\ Len(x) = Len(w) + Len(n)
        /\ \A i \in 1 .. Len(w) : x[i] = w[i]
        /\ \A i \in 1 .. Len(n) : x[Len(w) + i] = n[i]
    BY <2>4, <1>10, JoinTexts
  <2> QED
    BY <1>0, <1>6, <1>14, <2>1, <2>5
<1>16. \A i \in 1 .. c : x[i] = p[i]
  <2>1. \A i \in 1 .. c : i \in 1 .. c + 1 /\ i \in 1 .. c + 1 + m /\ i \in 1 .. c + m + 2
    OBVIOUS
  <2> QED
    BY <2>1, <1>12, <1>13, <1>14, <1>15
<1>17. x[c + 1] = d
  <2>1. 1 \in 1 .. 1 /\ c + 1 \in 1 .. c + 1 /\ c + 1 \in 1 .. c + 1 + m /\ c + 1 \in 1 .. c + m + 2
    OBVIOUS
  <2> QED
    BY <2>1, <1>4, <1>12, <1>13, <1>14, <1>15
<1>18. \A i \in 1 .. m : x[c + 1 + i] = q[i]
  <2>1. \A i \in 1 .. m : c + 1 + i \in 1 .. c + 1 + m /\ c + 1 + i \in 1 .. c + m + 2
    OBVIOUS
  <2> QED
    BY <2>1, <1>13, <1>14, <1>15
<1>19. x[c + m + 2] = "!"
  <2>1. 1 \in 1 .. 1 /\ c + 1 + m + 1 = c + m + 2 /\ c + m + 2 \in 1 .. c + m + 2
    OBVIOUS
  <2>2. w[c + 1 + m + 1] = b[1]
    BY <2>1, <1>14
  <2> QED
    BY <2>1, <2>2, <1>5, <1>15
<1>20. x[c + m + 3] = n[1] /\ x[c + m + 4] = n[2]
  <2>1. 1 \in 1 .. 2 /\ 2 \in 1 .. 2 /\ c + m + 2 + 1 = c + m + 3 /\ c + m + 2 + 2 = c + m + 4
    OBVIOUS
  <2>2. x[c + m + 2 + 1] = n[1] /\ x[c + m + 2 + 2] = n[2]
    BY <2>1, <1>15
  <2> QED
    BY <2>1, <2>2
<1>21. Len(x) = c + m + 4
  BY <1>15
<1>22. Layout(x, t, d, c, m)
  BY <1>0, <1>2, <1>6, <1>15, <1>16, <1>17, <1>18, <1>19, <1>20, <1>21 DEF Layout
<1> QED
  BY <1>0, <1>2, <1>11, <1>22

(* What is cut out of a text. *)
LEMMA Cut ==
  ASSUME NEW s \in Strings, NEW m \in Nat \ {0}, NEW n \in Nat, n <= Len(s)
  PROVE  /\ SubSeq(s, m, n) \in Strings
         /\ Len(SubSeq(s, m, n)) = IF m <= n THEN n - m + 1 ELSE 0
         /\ \A i \in 1 .. n - m + 1 : SubSeq(s, m, n)[i] = s[m + i - 1]
<1>1. Len(s) \in Nat /\ s \in Seq(Chars)
  BY LenProperties DEF Strings
<1>2. \A i \in m .. n : i \in 1 .. Len(s)
  BY <1>1
<1>3. \A i \in m .. n : s[i] \in Chars
  BY <1>1, <1>2, ElementOfSeq
<1> QED
  BY <1>3, SubSeqProperties DEF Strings

(* The text of a tag without a '!' in its fields has its only '!' before the *)
(* digits.                                                                   *)
LEMMA BangOfFramed ==
  ASSUME NEW t \in Tags, NEW d \in Seps, ~HasBang(t),
         NEW x, NEW c, NEW m, Layout(x, t, d, c, m)
  PROVE  /\ Find("!", x) = c + m + 2
         /\ SubSeq(x, c + m + 3, c + m + 4) = AckDigits(t.id)
<1>1. /\ c \in Nat /\ m \in Nat /\ x \in Strings /\ Len(x) = c + m + 4
      /\ \A i \in 1 .. c : x[i] = t.command[i] /\ t.command[i] # "!"
      /\ x[c + 1] = d /\ d # "!"
      /\ \A i \in 1 .. m : x[c + 1 + i] = t.message[i] /\ t.message[i] # "!"
      /\ x[c + m + 2] = "!"
  BY DEF Layout, HasBang, Contains, Seps
<1>2. ASSUME NEW i \in 1 .. (c + m + 2) - 1 PROVE x[i] # "!"
  <2>1. CASE i \in 1 .. c \/ i = c + 1
    BY <1>1, <2>1
  <2>2. CASE ~(i \in 1 .. c \/ i = c + 1)
    <3>1. PICK j \in 1 .. m : i = c + 1 + j
      <4>1. i - (c + 1) \in 1 .. m /\ i = c + 1 + (i - (c + 1))
        BY <1>1, <2>2
      <4> QED
        BY <4>1
    <3> QED
      BY <1>1, <3>1
  <2> QED
    BY <2>1, <2>2
<1>3. \A i \in 1 .. (c + m + 2) - 1 : x[i] # "!"
  BY <1>2
<1>4. c + m + 2 \in 1 .. Len(x)
  BY <1>1
<1>5. Find("!", x) = c + m + 2
  BY <1>1, <1>3, <1>4, FindAt
<1>6. SubSeq(x, c + m + 3, c + m + 4) = AckDigits(t.id)
  <2>1. PICK n : n = AckDigits(t.id) /\ n \in Strings /\ Len(n) = 2
    BY DigitsOfId DEF Tags
  <2>2. x[c + m + 3] = n[1] /\ x[c + m + 4] = n[2]
    BY <2>1 DEF Layout
  <2>3. PICK u : u = SubSeq(x, c + m + 3, c + m + 4)
    OBVIOUS
  <2>4. c + m + 3 \in Nat \ {0} /\ c + m + 4 \in Nat /\ c + m + 4 <= Len(x) /\ c + m + 3 <= c + m + 4
        /\ (c + m + 4) - (c + m + 3) + 1 = 2
    BY <1>1
  <2>5. u \in Strings /\ Len(u) = 2 /\ \A i \in 1 .. 2 : u[i] = x[c + m + 3 + i - 1]
    BY <1>1, <2>3, <2>4, Cut
  <2>6. c + m + 3 + 1 - 1 = c + m + 3 /\ c + m + 3 + 2 - 1 = c + m + 4 /\ 1 \in 1 .. 2 /\ 2 \in 1 .. 2
        /\ \A i \in 1 .. 2 : i = 1 \/ i = 2
    BY <1>1
  <2>7. u[1] = n[1] /\ u[2] = n[2]
    BY <2>2, <2>5, <2>6
  <2>8. \A i \in 1 .. 2 : u[i] = n[i]
    BY <2>6, <2>7
  <2>9. u = n
    BY <2>1, <2>5, <2>8, SeqEqual DEF Strings
  <2> QED
    BY <2>1, <2>3, <2>9
<1> QED
  BY <1>5, <1>6

(* The fields come back only if the first delimiter the reader finds is that *)
(* of the writer.                                                            *)
SepFits(t, d) ==
  /\ ~Contains(t.command, ":")
  /\ d = ";" => ~Contains(t.command, ";") /\ ~Contains(t.message, ":")

(* Where the reader finds a delimiter in a text without a stray '!'. *)
LEMMA SepOfFramed ==
  ASSUME NEW t \in Tags, NEW d \in Seps,
         NEW x, NEW c, NEW m, Layout(x, t, d, c, m)
  PROVE  /\ Find(Delimiter(x), x) \in 1 .. Len(x)
         /\ Find(Delimiter(x), x) = c + 1 <=> SepFits(t, d)
<1>1. /\ c \in Nat /\ m \in Nat /\ x \in Strings /\ Len(x) = c + m + 4
      /\ c = Len(t.command) /\ m = Len(t.message)
      /\ \A i \in 1 .. c : x[i] = t.command[i]
      /\ x[c + 1] = d
      /\ \A i \in 1 .. m : x[c + 1 + i] = t.message[i]
      /\ x[c + m + 2] = "!"
  BY DEF Layout
<1>2. x[c + m + 3] \notin Marks /\ x[c + m + 4] \notin Marks
  <2>1. 1 \in 1 .. 2 /\ 2 \in 1 .. 2 /\ t.id \in Ids
    BY DEF Tags
  <2> QED
    BY <2>1, DigitsOfId DEF Layout
<1>0. c \in Nat /\ m \in Nat /\ Len(x) = c + m + 4
  BY <1>1
<1>3. c + 1 \in 1 .. Len(x) /\ \A i \in 1 .. c : i \in 1 .. Len(x)
  BY <1>0
<1>4. \A i \in 1 .. m : c + 1 + i \in 1 .. Len(x)
  BY <1>0
<1>5. Contains(x, ":") <=> Contains(t.command, ":") \/ d = ":" \/ Contains(t.message, ":")
  <2>1. ASSUME Contains(t.command, ":") \/ d = ":" \/ Contains(t.message, ":")
        PROVE  Contains(x, ":")
    BY <1>1, <1>3, <1>4, <2>1 DEF Contains
  <2>2. ASSUME Contains(x, ":"), ~Contains(t.command, ":"), d # ":"
        PROVE  Contains(t.message, ":")
    <3>1. PICK i \in 1 .. Len(x) : x[i] = ":"
      BY <2>2 DEF Contains
    <3>2. i \notin 1 .. c /\ i # c + 1 /\ i # c + m + 2 /\ i # c + m + 3 /\ i # c + m + 4
      BY <1>1, <1>2, <2>2, <3>1 DEF Contains, Marks
    <3>3. i - (c + 1) \in 1 .. m /\ i = c + 1 + (i - (c + 1))
      BY <1>0, <3>2
    <3>4. PICK j \in 1 .. m : i = c + 1 + j
      BY <3>3
    <3> QED
      BY <1>1, <3>1, <3>4 DEF Contains
  <2> QED
    BY <2>1, <2>2
<1>6. PICK e : e = Delimiter(x) /\ e = IF Contains(x, ":") THEN ":" ELSE ";"
  BY DEF Delimiter
<1>7. d = ":" \/ d = ";"
  BY DEF Seps
<1>8. Contains(x, e)
  <2>1. Contains(x, d)
    BY <1>1, <1>3 DEF Contains
  <2> QED
    BY <1>5, <1>6, <1>7, <2>1
<1>9. PICK at \in 1 .. Len(x) : at = Find(e, x) /\ x[at] = e /\ \A i \in 1 .. at - 1 : x[i] # e
  <2>0. x \in Strings
    BY <1>1
  <2>1. PICK at : at = Find(e, x)
    OBVIOUS
  <2>2. at \in 0 .. Len(x) /\ at # 0 /\ x[at] = e /\ \A i \in 1 .. at - 1 : x[i] # e
    BY <2>0, <1>8, <2>1, FindIs
  <2>3. at \in 1 .. Len(x)
    BY <1>0, <2>2
  <2> QED
    BY <2>1, <2>2, <2>3
<1>10. ASSUME at = c + 1 PROVE SepFits(t, d)
  <2>1. e = d /\ ~Contains(t.command, e)
    <3>1. \A i \in 1 .. c : i \in 1 .. at - 1
      BY <1>1, <1>10
    <3> QED
      BY <1>1, <1>9, <1>10, <3>1 DEF Contains
  <2> QED
    BY <1>5, <1>6, <1>7, <2>1 DEF SepFits
<1>11. ASSUME SepFits(t, d) PROVE at = c + 1
  <2>1. e = d /\ ~Contains(t.command, e)
    BY <1>5, <1>6, <1>7, <1>11 DEF SepFits
  <2>2. \A i \in 1 .. (c + 1) - 1 : i \in 1 .. c
    BY <1>1
  <2>3. \A i \in 1 .. (c + 1) - 1 : x[i] # e
    BY <1>1, <2>1, <2>2 DEF Contains
  <2> QED
    BY <1>1, <1>3, <1>9, <2>1, <2>3, FindAt
<1> QED
  BY <1>6, <1>9, <1>10, <1>11

(* What such a text is broken into. *)
LEMMA BrokenFramed ==
  ASSUME NEW t \in Tags, NEW d \in Seps, ~HasBang(t),
         NEW x, NEW c, NEW m, Layout(x, t, d, c, m)
  PROVE  /\ BreakTagString(x).id = t.id
         /\ BreakTagString(x) = t <=> SepFits(t, d)
<1>1. /\ c \in Nat /\ m \in Nat /\ x \in Strings /\ Len(x) = c + m + 4
      /\ c = Len(t.command) /\ m = Len(t.message)
      /\ \A i \in 1 .. c : x[i] = t.command[i]
      /\ \A i \in 1 .. m : x[c + 1 + i] = t.message[i]
  BY DEF Layout
<1>0. c \in Nat /\ m \in Nat /\ Len(x) = c + m + 4 /\ x \in Strings
  BY <1>1
<1>2. t.command \in Strings /\ t.message \in Strings /\ t.id \in Ids
      /\ t = [command |-> t.command, message |-> t.message, id |-> t.id]
  BY DEF Tags
<1>3. PICK at \in 1 .. Len(x) : at = Find(Delimiter(x), x) /\ (at = c + 1 <=> SepFits(t, d))
  BY SepOfFramed
<1>4. Find("!", x) = c + m + 2 /\ SubSeq(x, c + m + 3, c + m + 4) = AckDigits(t.id)
  BY BangOfFramed
<1>5. PICK b, bang : b = BreakTagString(x) /\ bang = c + m + 2
  OBVIOUS
<1>6. /\ at # 0 /\ bang + 1 = c + m + 3 /\ bang + 2 = c + m + 4
  BY <1>1, <1>3, <1>5
<1>7. b = [command |-> SubSeq(x, 1, at - 1),
           message |-> SubSeq(x, at + 1, IF bang > at THEN bang - 1 ELSE Len(x)),
           id |-> t.id]
  BY <1>2, <1>3, <1>4, <1>5, <1>6, DigitsOfId DEF BreakTagString
<1>8. ASSUME at = c + 1 PROVE b = t
  <2>1. bang > at /\ bang - 1 = c + m + 1 /\ at - 1 = c /\ at + 1 = c + 2
    BY <1>0, <1>5, <1>8
  <2>2. PICK p, q : p = SubSeq(x, 1, c) /\ q = SubSeq(x, c + 2, c + m + 1)
    OBVIOUS
  <2>3. p \in Strings /\ Len(p) = c /\ \A i \in 1 .. c : p[i] = x[i]
    <3>1. 1 \in Nat \ {0} /\ c <= Len(x) /\ c - 1 + 1 = c /\ (IF 1 <= c THEN c - 1 + 1 ELSE 0) = c
          /\ \A i \in 1 .. c : 1 + i - 1 = i
      BY <1>0
    <3>2. x \in Strings /\ 1 \in Nat \ {0} /\ c \in Nat /\ c <= Len(x)
      BY <1>0, <3>1
    <3>3. /\ SubSeq(x, 1, c) \in Strings
          /\ Len(SubSeq(x, 1, c)) = IF 1 <= c THEN c - 1 + 1 ELSE 0
          /\ \A i \in 1 .. c - 1 + 1 : SubSeq(x, 1, c)[i] = x[1 + i - 1]
      BY <3>2, Cut
    <3> QED
      BY <2>2, <3>1, <3>3
  <2>4. q \in Strings /\ Len(q) = m /\ \A i \in 1 .. m : q[i] = x[c + 1 + i]
    <3>1. c + 2 \in Nat \ {0} /\ c + m + 1 \in Nat /\ c + m + 1 <= Len(x) /\ (c + m + 1) - (c + 2) + 1 = m
          /\ (IF c + 2 <= c + m + 1 THEN (c + m + 1) - (c + 2) + 1 ELSE 0) = m
          /\ \A i \in 1 .. m : c + 2 + i - 1 = c + 1 + i
      BY <1>0
    <3>2. x \in Strings /\ c + 2 \in Nat \ {0} /\ c + m + 1 \in Nat /\ c + m + 1 <= Len(x)
      BY <1>0, <3>1
    <3>3. /\ SubSeq(x, c + 2, c + m + 1) \in Strings
          /\ Len(SubSeq(x, c + 2, c + m + 1)) = IF c + 2 <= c + m + 1 THEN (c + m + 1) - (c + 2) + 1 ELSE 0
          /\ \A i \in 1 .. (c + m + 1) - (c + 2) + 1 : SubSeq(x, c + 2, c + m + 1)[i] = x[c + 2 + i - 1]
      BY <3>2, Cut
    <3> QED
      BY <2>2, <3>1, <3>3
  <2>5. p = t.command
    <3>1. Len(p) = Len(t.command) /\ \A i \in 1 .. Len(p) : p[i] = t.command[i]
      BY <1>1, <2>3
    <3> QED
      BY <1>2, <2>3, <3>1, SeqEqual DEF Strings
  <2>6. q = t.message
    <3>1. Len(q) = Len(t.message) /\ \A i \in 1 .. Len(q) : q[i] = t.message[i]
      BY <1>1, <2>4
    <3> QED
      BY <1>2, <2>4, <3>1, SeqEqual DEF Strings
  <2> QED
    BY <1>2, <1>7, <2>1, <2>2, <2>5, <2>6
<1>9. ASSUME at # c + 1 PROVE b # t
  <2>1. at - 1 \in Nat /\ at - 1 <= Len(x) /\ 1 \in Nat \ {0}
        /\ (IF 1 <= at - 1 THEN (at - 1) - 1 + 1 ELSE 0) = at - 1 /\ at - 1 # c
    BY <1>0, <1>9
  <2>2. Len(SubSeq(x, 1, at - 1)) = at - 1
    BY <1>0, <2>1, Cut
  <2>3. Len(b.command) # Len(t.command)
    BY <1>1, <1>7, <2>1, <2>2
  <2> QED
    BY <2>3
<1> QED
  BY <1>3, <1>5, <1>7, <1>8, <1>9

(* A text is taken for an acknowledgement if its command would be. *)
LEMMA AckOfTag ==
  ASSUME NEW t \in Tags, NEW d \in Seps,
         NEW x, NEW c, NEW m, Layout(x, t, d, c, m)
  PROVE  IsAck(x) <=> IsAck(t.command)
<1>1. /\ c \in Nat /\ m \in Nat /\ x \in Strings /\ Len(x) = c + m + 4
      /\ c = Len(t.command) /\ t.command \in Strings
      /\ \A i \in 1 .. c : x[i] = t.command[i]
      /\ x[c + 1] = d
  BY DEF Layout, Tags
<1>2. IsAck(x) <=> Len(x) >= 2 /\ x[1] = "A" /\ x[2] = "K"
  BY <1>1, AckIs
<1>3. IsAck(t.command) <=> c >= 2 /\ t.command[1] = "A" /\ t.command[2] = "K"
  BY <1>1, AckIs
<1>4. d # "A" /\ d # "K"
  BY DEF Seps
<1>5. Len(x) >= 2 /\ (c = 0 \/ c = 1 \/ (c >= 2 /\ 1 \in 1 .. c /\ 2 \in 1 .. c))
  <2>1. c \in Nat /\ m \in Nat /\ Len(x) = c + m + 4
    BY <1>1
  <2> QED
    BY <2>1
<1>6. CASE c = 0
  BY <1>1, <1>2, <1>3, <1>4, <1>6
<1>7. CASE c = 1
  BY <1>1, <1>2, <1>3, <1>4, <1>7
<1>8. CASE c >= 2 /\ 1 \in 1 .. c /\ 2 \in 1 .. c
  <2>1. x[1] = t.command[1] /\ x[2] = t.command[2]
    BY <1>1, <1>8
  <2> QED
    BY <1>2, <1>3, <1>5, <1>8, <2>1
<1> QED
  BY <1>5, <1>6, <1>7, <1>8

PlainFor(t, d) ==
  /\ ~HasBang(t)
  /\ SepFits(t, d)
  /\ ~IsAck(t.command)
  /\ t.command # <<"X", "X">>

(* A tag without a '!' in a field is taken for itself if it is plain, and    *)
(* only then.                                                                *)
LEMMA ParsedFramed ==
  ASSUME NEW t \in Tags, NEW d \in Seps, ~HasBang(t),
         NEW x, NEW c, NEW m, Layout(x, t, d, c, m)
  PROVE  Parsed(x) = [kind |-> "tag", tag |-> t] <=> PlainFor(t, d)
<1>1. BreakTagString(x) = t <=> SepFits(t, d)
  BY BrokenFramed
<1>2. IsAck(x) <=> IsAck(t.command)
  BY AckOfTag
<1>3. Parsed(x) = [kind |-> KindOf(x), tag |-> BreakTagString(x)]
  BY DEF Parsed
<1>4. Parsed(x) = [kind |-> "tag", tag |-> t] <=> KindOf(x) = "tag" /\ BreakTagString(x) = t
  <2>1. PICK k, b : k = KindOf(x) /\ b = BreakTagString(x)
    OBVIOUS
  <2>2. [kind |-> k, tag |-> b] = [kind |-> "tag", tag |-> t] <=> k = "tag" /\ b = t
    OBVIOUS
  <2> QED
    BY <1>3, <2>1, <2>2
<1>5. KindOf(x) = "tag" <=> ~IsAck(x) /\ BreakTagString(x).command # <<"X", "X">>
  BY DEF KindOf
<1> QED
  BY <1>1, <1>2, <1>4, <1>5 DEF PlainFor

(* The acknowledgement of a tag without a '!' in a field is one, with the    *)
(* identity of the tag.                                                      *)
LEMMA AckOfFramed ==
  ASSUME NEW t \in Tags, NEW d \in Seps, ~HasBang(t),
         NEW x, NEW c, NEW m, Layout(x, t, d, c, m)
  PROVE  /\ AcknowledgeString(x) \in Strings
         /\ IsAck(AcknowledgeString(x))
         /\ BreakTagString(AcknowledgeString(x)).id = t.id
<1>1. t.id \in Ids
  BY DEF Tags
<1>2. PICK k : k = <<"A", "K">>
  OBVIOUS
<1>3. k \in Strings /\ Len(k) = 2 /\ k[1] = "A" /\ k[2] = "K"
  <2>1. PICK y \in Chars, z \in Chars : y = "A" /\ z = "K"
    BY DEF Chars, Marks
  <2>2. <<y, z>> \in Strings /\ Len(<<y, z>>) = 2 /\ <<y, z>>[1] = y /\ <<y, z>>[2] = z
    BY DEF Strings
  <2> QED
    BY <1>2, <2>1, <2>2
<1>4. PICK a : a = [command |-> k, message |-> <<>>, id |-> t.id]
  OBVIOUS
<1>5. /\ a \in Tags /\ a.command = k /\ a.message = <<>> /\ a.id = t.id
      /\ Len(a.command) = 2 /\ Len(a.message) = 0
  <2>1. <<>> \in Strings /\ Len(<<>>) = 0
    BY EmptySeq DEF Strings
  <2> QED
    BY <1>1, <1>3, <1>4, <2>1 DEF Tags
<1>6. ~HasBang(a)
  <2>1. \A i \in 1 .. 2 : i = 1 \/ i = 2
    OBVIOUS
  <2>2. ~Contains(k, "!")
    BY <1>3, <2>1 DEF Contains
  <2>3. ~Contains(a.message, "!")
    BY <1>5 DEF Contains
  <2> QED
    BY <1>5, <2>2, <2>3 DEF HasBang
<1>7. PICK e \in Seps : e = IF Delimiter(x) = ":" THEN ";" ELSE ":"
  BY DEF Seps
<1>8. PICK y : y = Coded(a, e) /\ Layout(y, a, e, 2, 0)
  BY <1>5, TextOfTag
<1>9. IsAck(y) /\ BreakTagString(y).id = t.id
  <2>1. IsAck(k)
    BY <1>3, AckIs
  <2>2. IsAck(y) <=> IsAck(a.command)
    BY <1>5, <1>8, AckOfTag
  <2>3. BreakTagString(y).id = a.id
    BY <1>5, <1>6, <1>8, BrokenFramed
  <2> QED
    BY <1>5, <2>1, <2>2, <2>3
<1>10. y \in Strings
  BY <1>8 DEF Layout
<1>11. y = AcknowledgeString(x)
  <2>1. Find("!", x) = c + m + 2 /\ SubSeq(x, c + m + 3, c + m + 4) = AckDigits(t.id)
    BY BangOfFramed
  <2>2. c + m + 2 + 1 = c + m + 3 /\ c + m + 2 + 2 = c + m + 4
    BY DEF Layout
  <2>3. AcknowledgeString(x) = <<"A", "K", e, "!">> \o AckDigits(t.id)
    BY <1>7, <2>1, <2>2 DEF AcknowledgeString
  <2>4. PICK f, g : f = <<e>> /\ g = <<"!">>
    OBVIOUS
  <2>5. /\ f \in Strings /\ Len(f) = 1 /\ f[1] = e
        /\ g \in Strings /\ Len(g) = 1 /\ g[1] = "!"
    <3>1. PICK b \in Chars : b = "!"
      BY DEF Chars, Marks
    <3>2. e \in Chars
      BY DEF Chars, Seps, Marks
    <3> QED
      BY <2>4, <3>1, <3>2 DEF Strings
  <2>6. PICK u : u = k \o f
    OBVIOUS
  <2>7. u \in Strings /\ Len(u) = 3 /\ u[1] = "A" /\ u[2] = "K" /\ u[3] = e
    <3>1. u \in Strings /\ Len(u) = Len(k) + Len(f) /\ (\A i \in 1 .. Len(k) : u[i] = k[i])
          /\ \A i \in 1 .. Len(f) : u[Len(k) + i] = f[i]
      BY <1>3, <2>5, <2>6, JoinTexts
    <3>2. 1 \in 1 .. 2 /\ 2 \in 1 .. 2 /\ 1 \in 1 .. 1 /\ 2 + 1 = 3
      OBVIOUS
    <3>3. u[2 + 1] = f[1] /\ u[1] = k[1] /\ u[2] = k[2]
      BY <1>3, <2>5, <3>1, <3>2
    <3> QED
      BY <1>3, <2>5, <3>1, <3>2, <3>3
  <2>8. PICK v : v = u \o g
    OBVIOUS
  <2>9. v \in Strings /\ Len(v) = 4 /\ v[1] = "A" /\ v[2] = "K" /\ v[3] = e /\ v[4] = "!"
    <3>1. v \in Strings /\ Len(v) = Len(u) + Len(g) /\ (\A i \in 1 .. Len(u) : v[i] = u[i])
          /\ \A i \in 1 .. Len(g) : v[Len(u) + i] = g[i]
      BY <2>5, <2>7, <2>8, JoinTexts
    <3>2. 1 \in 1 .. 3 /\ 2 \in 1 .. 3 /\ 3 \in 1 .. 3 /\ 1 \in 1 .. 1 /\ 3 + 1 = 4
      OBVIOUS
    <3>3. v[3 + 1] = g[1] /\ v[1] = u[1] /\ v[2] = u[2] /\ v[3] = u[3]
      BY <2>5, <2>7, <3>1, <3>2
    <3> QED
      BY <2>5, <2>7, <3>1, <3>2, <3>3
  <2>10. v = <<"A", "K", e, "!">>
    <3>1. PICK w : w = <<"A", "K", e, "!">>
      OBVIOUS
    <3>2. w \in Strings /\ Len(w) = 4 /\ w[1] = "A" /\ w[2] = "K" /\ w[3] = e /\ w[4] = "!"
      <4>1. PICK y1 \in Chars, y2 \in Chars, y4 \in Chars : y1 = "A" /\ y2 = "K" /\ y4 = "!"
        BY DEF Chars, Marks
      <4>2. e \in Chars
        BY DEF Chars, Seps, Marks
      <4>3. /\ <<y1, y2, e, y4>> \in Strings /\ Len(<<y1, y2, e, y4>>) = 4
            /\ <<y1, y2, e, y4>>[1] = y1 /\ <<y1, y2, e, y4>>[2] = y2
            /\ <<y1, y2, e, y4>>[3] = e /\ <<y1, y2, e, y4>>[4] = y4
        BY <4>2 DEF Strings
      <4> QED
        BY <3>1, <4>1, <4>3
    <3>3. \A i \in 1 .. 4 : i = 1 \/ i = 2 \/ i = 3 \/ i = 4
      OBVIOUS
    <3>4. \A i \in 1 .. 4 : v[i] = w[i]
      BY <2>9, <3>2, <3>3
    <3>5. v = w
      BY <2>9, <3>2, <3>4, SeqEqual DEF Strings
    <3> QED
      BY <3>1, <3>5
  <2>11. u \o <<>> = u
    BY <2>7, ConcatEmptySeq DEF Strings
  <2>12. Coded(a, e) = v \o AckDigits(t.id)
    BY <1>5, <2>4, <2>6, <2>8, <2>11 DEF Coded
  <2> QED
    BY <1>8, <2>3, <2>10, <2>12
<1> QED
  BY <1>9, <1>10, <1>11

(* The first piece of a text, and what is behind it. *)
LEMMA PieceOfText ==
  ASSUME NEW x \in Strings, NEW r \in Strings, NEW p \in Nat \ {0},
         Find("!", x) = p, Len(x) = p + 2
  PROVE  /\ Find("!", x \o r) = p
         /\ Contains(x \o r, "!")
         /\ p + 2 <= Len(x \o r)
         /\ SubSeq(x \o r, 1, p + 2) = x
         /\ SubSeq(x \o r, p + 3, Len(x \o r)) = r
<1>1. PICK y : y = x \o r
  OBVIOUS
<1>2. PICK n \in Nat : n = Len(r)
  BY LenProperties DEF Strings
<1>3. /\ y \in Strings /\ Len(y) = p + 2 + n
      /\ \A i \in 1 .. p + 2 : y[i] = x[i]
      /\ \A i \in 1 .. n : y[p + 2 + i] = r[i]
  <2>1. /\ y \in Strings /\ Len(y) = Len(x) + Len(r)
        /\ \A i \in 1 .. Len(x) : y[i] = x[i]
        /\ \A i \in 1 .. Len(r) : y[Len(x) + i] = r[i]
    BY <1>1, JoinTexts
  <2> QED
    BY <1>2, <2>1
<1>4. x[p] = "!" /\ \A i \in 1 .. p - 1 : x[i] # "!"
  BY FindIs
<1>5. p \in 1 .. Len(y) /\ p \in 1 .. p + 2 /\ p + 2 <= Len(y) /\ \A i \in 1 .. p - 1 : i \in 1 .. p + 2
  <2>1. Len(y) = p + 2 + n
    BY <1>3
  <2> QED
    BY <2>1
<1>6. y[p] = "!" /\ \A i \in 1 .. p - 1 : y[i] # "!"
  BY <1>3, <1>4, <1>5
<1>7. Find("!", y) = p /\ Contains(y, "!")
  BY <1>3, <1>5, <1>6, FindAt DEF Contains
<1>8. SubSeq(y, 1, p + 2) = x
  <2>1. PICK u : u = SubSeq(y, 1, p + 2)
    OBVIOUS
  <2>2. 1 \in Nat \ {0} /\ p + 2 \in Nat /\ p + 2 <= Len(y) /\ p + 2 - 1 + 1 = p + 2 /\ 1 <= p + 2
        /\ \A i \in 1 .. p + 2 : 1 + i - 1 = i
    BY <1>5
  <2>3. u \in Strings /\ Len(u) = p + 2 /\ \A i \in 1 .. p + 2 : u[i] = y[i]
    BY <1>3, <2>1, <2>2, Cut
  <2>4. \A i \in 1 .. p + 2 : u[i] = x[i]
    BY <1>3, <2>3
  <2>5. u = x
    BY <2>3, <2>4, SeqEqual DEF Strings
  <2> QED
    BY <2>1, <2>5
<1>9. SubSeq(y, p + 3, Len(y)) = r
  <2>1. PICK u : u = SubSeq(y, p + 3, Len(y))
    OBVIOUS
  <2>2. p + 3 \in Nat \ {0} /\ Len(y) \in Nat /\ Len(y) <= Len(y) /\ Len(y) - (p + 3) + 1 = n
        /\ (IF p + 3 <= Len(y) THEN Len(y) - (p + 3) + 1 ELSE 0) = n
        /\ \A i \in 1 .. n : p + 3 + i - 1 = p + 2 + i
    <3>1. Len(y) = p + 2 + n
      BY <1>3
    <3> QED
      BY <3>1
  <2>3. u \in Strings /\ Len(u) = n /\ \A i \in 1 .. n : u[i] = y[p + 2 + i]
    BY <1>3, <2>1, <2>2, Cut
  <2>4. \A i \in 1 .. n : u[i] = r[i]
    BY <1>3, <2>3
  <2>5. u = r
    BY <1>2, <2>3, <2>4, SeqEqual DEF Strings
  <2> QED
    BY <2>1, <2>5
<1> QED
  BY <1>1, <1>5, <1>7, <1>8, <1>9

(* There is another piece in a text, and its identity begins with a digit. *)
Tailed(y) ==
  /\ Contains(y, "!")
  /\ Find("!", y) + 2 <= Len(y)
  /\ ~Throws(SubSeq(y, Find("!", y) + 1, Find("!", y) + 2))

(* That is so for the end of a tag from behind its command on, if there is   *)
(* no '!' left in its message.                                               *)
LEMMA TailOf ==
  ASSUME NEW t \in Tags, NEW d \in Seps,
         NEW x, NEW c, NEW m, Layout(x, t, d, c, m),
         NEW q \in c + 1 .. c + m + 2, \A i \in q .. c + m + 1 : x[i] # "!"
  PROVE  Tailed(SubSeq(x, q, Len(x)))
<1>1. c \in Nat /\ m \in Nat /\ x \in Strings /\ Len(x) = c + m + 4
  BY DEF Layout
<1>2. PICK y : y = SubSeq(x, q, Len(x))
  OBVIOUS
<1>3. PICK f \in Nat \ {0} : f = (c + m + 3) - q
  BY <1>1
<1>4. /\ q \in Nat \ {0} /\ Len(x) \in Nat /\ Len(x) <= Len(x) /\ q <= Len(x)
      /\ Len(x) - q + 1 = f + 2
      /\ q + f - 1 = c + m + 2 /\ q + (f + 1) - 1 = c + m + 3
      /\ f \in 1 .. f + 2 /\ f + 1 \in 1 .. f + 2
      /\ \A i \in 1 .. f - 1 : i \in 1 .. f + 2 /\ q + i - 1 \in q .. c + m + 1
  BY <1>1, <1>3
<1>5. y \in Strings /\ Len(y) = f + 2 /\ \A i \in 1 .. f + 2 : y[i] = x[q + i - 1]
  BY <1>1, <1>2, <1>4, Cut
<1>6. y[f] = "!" /\ y[f + 1] = AckDigits(t.id)[1] /\ \A i \in 1 .. f - 1 : y[i] # "!"
  <2>1. x[c + m + 2] = "!" /\ x[c + m + 3] = AckDigits(t.id)[1]
    BY DEF Layout
  <2> QED
    BY <1>4, <1>5, <2>1
<1>7. Find("!", y) = f /\ Contains(y, "!")
  BY <1>4, <1>5, <1>6, FindAt DEF Contains
<1>8. ~Throws(SubSeq(y, f + 1, f + 2))
  <2>1. /\ f + 1 \in Nat \ {0} /\ f + 2 \in Nat /\ f + 2 <= Len(y)
        /\ (f + 2) - (f + 1) + 1 = 2 /\ 1 \in 1 .. 2 /\ f + 1 + 1 - 1 = f + 1
    <3>1. Len(y) = f + 2
      BY <1>5
    <3> QED
      BY <3>1
  <2>2. SubSeq(y, f + 1, f + 2)[1] = y[f + 1]
    BY <1>5, <2>1, Cut
  <2>3. ~Throws(AckDigits(t.id))
    BY DigitsOfId DEF Tags
  <2> QED
    BY <1>6, <2>2, <2>3 DEF Throws
<1>9. f + 2 <= Len(y)
  BY <1>5
<1> QED
  BY <1>2, <1>7, <1>8, <1>9 DEF Tailed

(* A '!' in a field is found before the one of the protocol. *)
LEMMA BangOfField ==
  ASSUME NEW t \in Tags, NEW d \in Seps, HasBang(t),
         NEW x, NEW c, NEW m, Layout(x, t, d, c, m)
  PROVE  Find("!", x) \in 1 .. c + m + 1
<1>1. /\ c \in Nat /\ m \in Nat /\ x \in Strings /\ Len(x) = c + m + 4
      /\ c = Len(t.command) /\ m = Len(t.message)
      /\ \A i \in 1 .. c : x[i] = t.command[i]
      /\ \A i \in 1 .. m : x[c + 1 + i] = t.message[i]
  BY DEF Layout
<1>2. c \in Nat /\ m \in Nat /\ Len(x) = c + m + 4
  BY <1>1
<1>3. PICK i \in 1 .. c + m + 1 : x[i] = "!"
  <2>1. CASE Contains(t.command, "!")
    <3>1. PICK j \in 1 .. c : t.command[j] = "!"
      BY <1>1, <2>1 DEF Contains
    <3>2. j \in 1 .. c + m + 1
      BY <1>2
    <3> QED
      BY <1>1, <3>1, <3>2
  <2>2. CASE Contains(t.message, "!")
    <3>1. PICK j \in 1 .. m : t.message[j] = "!"
      BY <1>1, <2>2 DEF Contains
    <3>2. c + 1 + j \in 1 .. c + m + 1
      BY <1>2
    <3> QED
      BY <1>1, <3>1, <3>2
  <2> QED
    BY <2>1, <2>2 DEF HasBang
<1>4. PICK p : p = Find("!", x)
  OBVIOUS
<1>5. i \in 1 .. Len(x)
  BY <1>2
<1>6. Contains(x, "!")
  BY <1>3, <1>5 DEF Contains
<1>7. p \in 0 .. Len(x) /\ p # 0 /\ \A j \in 1 .. p - 1 : x[j] # "!"
  BY <1>1, <1>4, <1>6, FindIs
<1>8. i \notin 1 .. p - 1
  BY <1>3, <1>7
<1>9. p \in 1 .. c + m + 1
  BY <1>2, <1>7, <1>8
<1> QED
  BY <1>4, <1>9

(* If a piece that is cut too early is taken for the tag all the same, there *)
(* is another piece behind it.                                               *)
LEMMA Survivor ==
  ASSUME NEW t \in Tags, NEW d \in Seps, HasBang(t),
         NEW x, NEW c, NEW m, Layout(x, t, d, c, m),
         NEW p, p = Find("!", x), BreakTagString(SubSeq(x, 1, p + 2)) = t
  PROVE  Tailed(SubSeq(x, p + 3, Len(x)))
<1>1. /\ x \in Strings
      /\ \A i \in 1 .. m : x[c + 1 + i] = t.message[i]
      /\ x[c + 1] = d /\ d # "!"
  BY DEF Layout, Seps
<1>2. c \in Nat /\ m \in Nat /\ Len(x) = c + m + 4
  BY DEF Layout
<1>19. c \in Nat /\ m \in Nat
  BY <1>2
<1>0. c = Len(t.command) /\ m = Len(t.message)
  BY DEF Layout
<1>3. p \in 1 .. c + m + 1
  BY BangOfField
<1>4. x[p] = "!" /\ \A i \in 1 .. p - 1 : x[i] # "!"
  BY <1>1, <1>3, FindIs
<1>5. PICK P : P = SubSeq(x, 1, p + 2)
  OBVIOUS
<1>6. P \in Strings /\ Len(P) = p + 2 /\ \A i \in 1 .. p + 2 : P[i] = x[i]
  <2>1. 1 \in Nat \ {0} /\ p + 2 \in Nat /\ p + 2 <= Len(x) /\ p + 2 - 1 + 1 = p + 2 /\ 1 <= p + 2
        /\ \A i \in 1 .. p + 2 : 1 + i - 1 = i
    BY <1>2, <1>3
  <2> QED
    BY <1>1, <1>5, <2>1, Cut
<1>7. p \in 1 .. p + 2 /\ \A i \in 1 .. p - 1 : i \in 1 .. p + 2
  BY <1>3
<1>8. P[p] = "!" /\ \A i \in 1 .. p - 1 : P[i] # "!"
  BY <1>4, <1>6, <1>7
<1>9. Find("!", P) = p
  BY <1>6, <1>7, <1>8, FindAt
<1>10. PICK e : e = Delimiter(P) /\ e # "!"
  <2>1. Delimiter(P) = ":" \/ Delimiter(P) = ";"
    BY DEF Delimiter
  <2> QED
    BY <2>1
<1>18. PICK at : at = Find(e, P)
  OBVIOUS
<1>11. at \in 0 .. p + 2 /\ at # p
  <2>1. at \in 0 .. Len(P) /\ (at # 0 => P[at] = e)
    BY <1>6, <1>10, <1>18, FindIs
  <2> QED
    BY <1>3, <1>6, <1>8, <1>10, <2>1
<1>12. /\ t.command = IF at = 0 THEN P ELSE SubSeq(P, 1, at - 1)
       /\ t.message = SubSeq(P, at + 1, IF p > at THEN p - 1 ELSE p + 2)
  BY <1>5, <1>6, <1>9, <1>10, <1>18 DEF BreakTagString
<1>13. \A k \in 0 .. p + 2 : Len(SubSeq(P, 1, k)) = k
  <2>1. ASSUME NEW k \in 0 .. p + 2 PROVE Len(SubSeq(P, 1, k)) = k
    <3>1. 1 \in Nat \ {0} /\ k \in Nat /\ k <= p + 2 /\ (IF 1 <= k THEN k - 1 + 1 ELSE 0) = k
      BY <1>3
    <3> QED
      BY <1>6, <3>1, Cut
  <2> QED
    BY <2>1
<1>14. CASE at = 0
  <2>1. c = p + 2
    BY <1>0, <1>6, <1>12, <1>14
  <2>2. p > at /\ at + 1 = 1 /\ p - 1 \in 0 .. p + 2
    BY <1>3, <1>14
  <2>3. t.message = SubSeq(P, 1, p - 1) /\ m = p - 1
    BY <1>0, <1>12, <1>13, <2>2
  <2>4. \A i \in 1 .. m : t.message[i] # "!"
    <3>1. 1 \in Nat \ {0} /\ p - 1 \in Nat /\ p - 1 <= Len(P) /\ p - 1 - 1 + 1 = m
          /\ \A i \in 1 .. m : 1 + i - 1 = i /\ i \in 1 .. p - 1
      BY <1>3, <1>6, <2>3
    <3>2. \A i \in 1 .. m : SubSeq(P, 1, p - 1)[i] = P[i]
      BY <1>6, <3>1, Cut
    <3> QED
      BY <1>8, <2>3, <3>1, <3>2
  <2>5. p + 3 = c + 1 /\ p + 3 \in c + 1 .. c + m + 2
    BY <1>19, <1>3, <2>1
  <2>6. \A i \in p + 3 .. c + m + 1 : x[i] # "!"
    <3>1. ASSUME NEW i \in p + 3 .. c + m + 1 PROVE x[i] # "!"
      <4>1. i = c + 1 \/ (i - (c + 1) \in 1 .. m /\ i = c + 1 + (i - (c + 1)))
        <5>1. i \in Int /\ c + 1 <= i /\ i <= c + m + 1
          BY <1>19, <1>3, <2>1
        <5>2. CASE i = c + 1
          BY <5>2
        <5>3. CASE i # c + 1
          BY <1>2, <5>1, <5>3
        <5> QED
          BY <5>2, <5>3
      <4>2. i = c + 1 \/ \E j \in 1 .. m : i = c + 1 + j
        BY <4>1
      <4> QED
        BY <1>1, <2>4, <4>2
    <3> QED
      BY <3>1
  <2> QED
    BY <2>5, <2>6, TailOf
<1>15. CASE at \in 1 .. p - 1
  <2>1. at # 0 /\ at - 1 \in 0 .. p + 2 /\ p > at
    BY <1>3, <1>15
  <2>2. c = at - 1
    BY <1>0, <1>12, <1>13, <2>1
  <2>3. at + 1 \in Nat \ {0} /\ p - 1 \in Nat /\ p - 1 <= p + 2
        /\ (IF at + 1 <= p - 1 THEN (p - 1) - (at + 1) + 1 ELSE 0) = p - 1 - at
    BY <1>3, <1>15
  <2>4. m = p - 1 - at
    BY <1>0, <1>6, <1>12, <2>1, <2>3, Cut
  <2>5. FALSE
    BY <1>19, <1>3, <2>2, <2>4, <1>15
  <2> QED
    BY <2>5
<1>16. CASE at \in p + 1 .. p + 2
  <2>1. at # 0 /\ at - 1 \in 0 .. p + 2 /\ ~(p > at)
    BY <1>3, <1>16
  <2>2. c = at - 1
    BY <1>0, <1>12, <1>13, <2>1
  <2>3. at + 1 \in Nat \ {0} /\ p + 2 \in Nat
        /\ (IF at + 1 <= p + 2 THEN (p + 2) - (at + 1) + 1 ELSE 0) = p + 2 - at
    BY <1>3, <1>16
  <2>4. m = p + 2 - at
    BY <1>0, <1>6, <1>12, <2>1, <2>3, Cut
  <2>5. p + 3 \in c + 1 .. c + m + 2 /\ \A i \in p + 3 .. c + m + 1 : FALSE
    BY <1>19, <1>3, <2>2, <2>4, <1>16
  <2> QED
    BY <2>5, TailOf
<1>17. at = 0 \/ at \in 1 .. p - 1 \/ at \in p + 1 .. p + 2
  BY <1>3, <1>11
<1> QED
  BY <1>14, <1>15, <1>16, <1>17

-----------------------------------------------------------------------------
(* What of the tags s the reader has still before it when it has cut the     *)
(* first k pieces: rest[i] is the text behind the first i tags.              *)
Stacked(rest, s, k, d) ==
  /\ rest[Len(s)] = <<>>
  /\ \A i \in k .. Len(s) : rest[i] \in Strings
  /\ \A i \in k .. Len(s) - 1 : rest[i] = Coded(s[i + 1], d) \o rest[i + 1]

NoBang(s) == \A i \in 1 .. Len(s) : ~HasBang(s[i])

(* One more tag is one more text at the end. *)
LEMMA StackMore ==
  ASSUME NEW s \in Seq(Tags), NEW t \in Tags, NEW d \in Seps, NEW k \in 0 .. Len(s),
         NEW rest, Stacked(rest, s, k, d)
  PROVE  \E more : Stacked(more, Append(s, t), k, d) /\ more[k] = rest[k] \o Coded(t, d)
<1>1. PICK n \in Nat : n = Len(s)
  BY LenProperties
<1>2. PICK u : u = Append(s, t)
  OBVIOUS
<1>3. Len(u) = n + 1 /\ u[n + 1] = t /\ \A i \in 1 .. n : u[i] = s[i]
  BY <1>1, <1>2, AppendProperties
<1>4. PICK x : x = Coded(t, d) /\ x \in Strings
  BY TextOfTag DEF Layout
<1>5. /\ rest[n] = <<>>
      /\ \A i \in k .. n : rest[i] \in Strings
      /\ \A i \in k .. n - 1 : rest[i] = Coded(s[i + 1], d) \o rest[i + 1]
  BY <1>1 DEF Stacked
<1>6. PICK more : more = [i \in 0 .. n + 1 |-> IF i <= n THEN rest[i] \o x ELSE <<>>]
  OBVIOUS
<1>7. more[n + 1] = <<>> /\ \A i \in k .. n : more[i] = rest[i] \o x
  <2>1. n + 1 \in 0 .. n + 1 /\ ~(n + 1 <= n) /\ \A i \in k .. n : i \in 0 .. n + 1 /\ i <= n
    BY <1>1
  <2> QED
    BY <1>6, <2>1
<1>8. <<>> \in Strings
  BY EmptySeq DEF Strings
<1>9. \A i \in k .. n + 1 : more[i] \in Strings
  <2>1. \A i \in k .. n + 1 : i = n + 1 \/ i \in k .. n
    BY <1>1
  <2>2. \A i \in k .. n : rest[i] \o x \in Strings
    BY <1>4, <1>5, JoinTexts
  <2> QED
    BY <1>7, <1>8, <2>1, <2>2
<1>10. ASSUME NEW i \in k .. (n + 1) - 1
       PROVE  more[i] = Coded(u[i + 1], d) \o more[i + 1]
  <2>1. i \in k .. n /\ i + 1 \in Nat
    BY <1>1
  <2>2. CASE i = n
    <3>1. more[i] = <<>> \o x /\ u[i + 1] = t /\ more[i + 1] = <<>>
      BY <1>3, <1>5, <1>7, <2>1, <2>2
    <3>2. <<>> \o x = x /\ x \o <<>> = x
      BY <1>4, ConcatEmptySeq DEF Strings
    <3> QED
      BY <1>4, <3>1, <3>2
  <2>3. CASE i # n
    <3>1. i \in k .. n - 1 /\ i + 1 \in k .. n /\ i + 1 \in 1 .. n
      BY <1>1, <2>1, <2>3
    <3>2. PICK y : y = Coded(s[i + 1], d) /\ y \in Strings
      <4>1. s[i + 1] \in Tags
        BY <1>1, <3>1, ElementOfSeq
      <4> QED
        BY <4>1, TextOfTag DEF Layout
    <3>3. PICK z : z = rest[i + 1] /\ z \in Strings
      BY <1>5, <3>1
    <3>4. rest[i] = y \o z
      BY <1>5, <3>1, <3>2, <3>3
    <3>5. more[i] = (y \o z) \o x /\ more[i + 1] = z \o x /\ u[i + 1] = s[i + 1]
      BY <1>3, <1>7, <2>1, <3>1, <3>3, <3>4
    <3>6. (y \o z) \o x = y \o (z \o x)
      <4>1. x \in Seq(Chars) /\ y \in Seq(Chars) /\ z \in Seq(Chars)
        BY <1>4, <3>2, <3>3 DEF Strings
      <4> QED
        BY <4>1, JoinThree
    <3> QED
      BY <3>2, <3>5, <3>6
  <2> QED
    BY <2>2, <2>3
<1>11. Stacked(more, u, k, d)
  BY <1>3, <1>7, <1>9, <1>10 DEF Stacked
<1>12. more[k] = rest[k] \o Coded(t, d)
  <2>1. k \in k .. n
    BY <1>1
  <2> QED
    BY <1>4, <1>7, <2>1
<1> QED
  BY <1>2, <1>11, <1>12

(* The next piece ends two characters behind p and is the text of the next   *)
(* tag.                                                                      *)
Top(rest, s, k, d, p) ==
  /\ Find("!", rest[k]) = p
  /\ Contains(rest[k], "!")
  /\ p + 2 <= Len(rest[k])
  /\ SubSeq(rest[k], 1, p + 2) = Coded(s[k + 1], d)
  /\ SubSeq(rest[k], p + 3, Len(rest[k])) = rest[k + 1]
  /\ SubSeq(Coded(s[k + 1], d), p + 1, p + 2) = AckDigits(s[k + 1].id)

(* So it is as long as there is a tag left. *)
LEMMA StackTop ==
  ASSUME NEW s \in Seq(Tags), NEW d \in Seps, NEW k \in 0 .. Len(s), k # Len(s),
         NoBang(s), NEW rest, Stacked(rest, s, k, d)
  PROVE  /\ k + 1 \in 1 .. Len(s)
         /\ Stacked(rest, s, k + 1, d)
         /\ \E p \in Nat \ {0} : Top(rest, s, k, d, p)
<1>1. PICK n \in Nat : n = Len(s)
  BY LenProperties
<1>2. /\ k \in Nat /\ k + 1 \in 1 .. n /\ k \in k .. n - 1 /\ k + 1 \in k .. n
      /\ \A i \in k + 1 .. n : i \in k .. n
      /\ \A i \in k + 1 .. n - 1 : i \in k .. n - 1
  BY <1>1
<1>3. /\ rest[n] = <<>>
      /\ \A i \in k .. n : rest[i] \in Strings
      /\ \A i \in k .. n - 1 : rest[i] = Coded(s[i + 1], d) \o rest[i + 1]
  BY <1>1 DEF Stacked
<1>4. Stacked(rest, s, k + 1, d)
  BY <1>1, <1>2, <1>3 DEF Stacked
<1>5. PICK t \in Tags : t = s[k + 1] /\ ~HasBang(t)
  BY <1>1, <1>2, ElementOfSeq DEF NoBang
<1>6. PICK r \in Strings : r = rest[k + 1]
  BY <1>2, <1>3
<1>7. PICK c, m : c = Len(t.command) /\ m = Len(t.message)
  OBVIOUS
<1>8. PICK x : x = Coded(t, d) /\ Layout(x, t, d, c, m)
  BY <1>7, TextOfTag
<1>9. c \in Nat /\ m \in Nat /\ x \in Strings /\ Len(x) = c + m + 4
  BY <1>8 DEF Layout
<1>10. PICK p \in Nat \ {0} : p = c + m + 2
  BY <1>9
<1>11. Find("!", x) = p /\ SubSeq(x, c + m + 3, c + m + 4) = AckDigits(t.id)
  BY <1>5, <1>8, <1>10, BangOfFramed
<1>12. p + 1 = c + m + 3 /\ p + 2 = c + m + 4 /\ Len(x) = p + 2
  BY <1>9, <1>10
<1>13. rest[k] = x \o r
  BY <1>2, <1>3, <1>5, <1>6, <1>8
<1>14. /\ Find("!", x \o r) = p
       /\ Contains(x \o r, "!")
       /\ p + 2 <= Len(x \o r)
       /\ SubSeq(x \o r, 1, p + 2) = x
       /\ SubSeq(x \o r, p + 3, Len(x \o r)) = r
  BY <1>9, <1>11, <1>12, PieceOfText
<1>15. SubSeq(x, p + 1, p + 2) = AckDigits(t.id)
  BY <1>11, <1>12
<1> QED
  <2>1. Top(rest, s, k, d, p)
    BY <1>5, <1>6, <1>8, <1>13, <1>14, <1>15 DEF Top
  <2> QED
    BY <1>1, <1>2, <1>4, <2>1

(* The places of the tags whose acknowledgement is written: those of the     *)
(* identities con the writer has read, and those of the acknowledgements ac  *)
(* on their way to it.  A tag that is to be answered has such a place or a   *)
(* thread in w that has not written yet.                                     *)
PlacedIn(place, s, k, m) ==
  /\ \A j \in 1 .. m : place[j] \in 1 .. k /\ ~IsAck(s[place[j]].command)
  /\ \A i, j \in 1 .. m : i # j => place[i] # place[j]

WaitingIn(w, place, s, k, m, d) ==
  /\ \A t \in w : /\ t.of \in 1 .. k /\ ~IsAck(s[t.of].command)
                  /\ t.text = AcknowledgeString(Coded(s[t.of], d))
                  /\ \A j \in 1 .. m : place[j] # t.of
  /\ \A t, u \in w : t.of = u.of => t = u

EachAnswered(w, place, s, k, m) ==
  \A i \in 1 .. k : ~IsAck(s[i].command) =>
    (\E j \in 1 .. m : place[j] = i) \/ \E t \in w : t.of = i

WrittenIn(place, s, con, ac, d) ==
  /\ \A j \in 1 .. Len(con) : con[j] = s[place[j]].id
  /\ \A j \in 1 .. Len(ac) : ac[j] = AcknowledgeString(Coded(s[place[Len(con) + j]], d))

AnsweredAt(place, s, k, w, con, ac, d) ==
  /\ PlacedIn(place, s, k, Len(con) + Len(ac))
  /\ WaitingIn(w, place, s, k, Len(con) + Len(ac), d)
  /\ EachAnswered(w, place, s, k, Len(con) + Len(ac))
  /\ WrittenIn(place, s, con, ac, d)

Acks == {AcknowledgeString(x) : x \in Strings}
Confirmations == {BreakTagString(a).id : a \in Acks}

(* More tags sent leave that as it is. *)
LEMMA PlacedMore ==
  ASSUME NEW s \in Seq(Tags), NEW t \in Tags, NEW d, NEW k \in 0 .. Len(s),
         NEW w, NEW con, NEW ac, NEW place, Len(con) \in Nat, Len(ac) \in Nat,
         AnsweredAt(place, s, k, w, con, ac, d)
  PROVE  AnsweredAt(place, Append(s, t), k, w, con, ac, d)
<1>1. PICK n \in Nat, a \in Nat, b \in Nat : n = Len(s) /\ a = Len(con) /\ b = Len(ac)
  BY LenProperties
<1>2. PICK u : u = Append(s, t)
  OBVIOUS
<1>3. \A i \in 1 .. n : u[i] = s[i]
  BY <1>1, <1>2, AppendProperties
<1>4. \A i \in 1 .. k : i \in 1 .. n
  BY <1>1
<1>5. \A i \in 1 .. k : u[i] = s[i]
  BY <1>3, <1>4
<1>6. PlacedIn(place, s, k, a + b) /\ WaitingIn(w, place, s, k, a + b, d)
      /\ EachAnswered(w, place, s, k, a + b) /\ WrittenIn(place, s, con, ac, d)
  BY <1>1 DEF AnsweredAt
<1>7. \A j \in 1 .. a : j \in 1 .. a + b
  BY <1>1
<1>8. \A j \in 1 .. b : a + j \in 1 .. a + b
  BY <1>1
<1>9. \A j \in 1 .. a + b : u[place[j]] = s[place[j]]
  BY <1>5, <1>6 DEF PlacedIn
<1>10. PlacedIn(place, u, k, a + b)
  BY <1>6, <1>9 DEF PlacedIn
<1>11. WaitingIn(w, place, u, k, a + b, d)
  BY <1>5, <1>6 DEF WaitingIn
<1>12. EachAnswered(w, place, u, k, a + b)
  BY <1>5, <1>6 DEF EachAnswered
<1>13. WrittenIn(place, u, con, ac, d)
  BY <1>1, <1>6, <1>7, <1>8, <1>9 DEF WrittenIn
<1>14. AnsweredAt(place, u, k, w, con, ac, d)
  BY <1>1, <1>10, <1>11, <1>12, <1>13 DEF AnsweredAt
<1> QED
  BY <1>2, <1>14

(* A tag that is taken for an acknowledgement has no place. *)
LEMMA PlacedNone ==
  ASSUME NEW s \in Seq(Tags), NEW d, NEW k \in 0 .. Len(s), k # Len(s),
         IsAck(s[k + 1].command),
         NEW w, NEW con, NEW ac, NEW place,
         AnsweredAt(place, s, k, w, con, ac, d)
  PROVE  AnsweredAt(place, s, k + 1, w, con, ac, d)
<1>1. k \in Nat /\ (\A i \in 1 .. k : i \in 1 .. k + 1) /\ \A i \in 1 .. k + 1 : i = k + 1 \/ i \in 1 .. k
  <2>1. Len(s) \in Nat
    BY LenProperties
  <2> QED
    BY <2>1
<1>2. PICK m : m = Len(con) + Len(ac)
  OBVIOUS
<1>3. PlacedIn(place, s, k + 1, m) /\ WaitingIn(w, place, s, k + 1, m, d)
  BY <1>1, <1>2 DEF AnsweredAt, PlacedIn, WaitingIn
<1>4. EachAnswered(w, place, s, k + 1, m)
  BY <1>1, <1>2 DEF AnsweredAt, EachAnswered
<1> QED
  BY <1>2, <1>3, <1>4 DEF AnsweredAt

(* A thread is started for every other tag. *)
LEMMA PlacedBegun ==
  ASSUME NEW s \in Seq(Tags), NEW d, NEW k \in 0 .. Len(s), k # Len(s),
         ~IsAck(s[k + 1].command),
         NEW w, NEW con, NEW ac, NEW place,
         AnsweredAt(place, s, k, w, con, ac, d),
         NEW x, x = AcknowledgeString(Coded(s[k + 1], d))
  PROVE  AnsweredAt(place, s, k + 1, w \cup {[of |-> k + 1, text |-> x]}, con, ac, d)
<1>1. /\ k \in Nat /\ k + 1 \in 1 .. k + 1
      /\ \A i \in 1 .. k : i \in 1 .. k + 1 /\ i # k + 1
      /\ \A i \in 1 .. k + 1 : i = k + 1 \/ i \in 1 .. k
  <2>1. Len(s) \in Nat
    BY LenProperties
  <2> QED
    BY <2>1
<1>2. PICK m : m = Len(con) + Len(ac)
  OBVIOUS
<1>3. PICK e : e = [of |-> k + 1, text |-> x]
  OBVIOUS
<1>4. e.of = k + 1 /\ e.text = AcknowledgeString(Coded(s[e.of], d)) /\ ~IsAck(s[e.of].command)
  BY <1>3
<1>5. PICK v : v = w \cup {e}
  OBVIOUS
<1>6. e \in v /\ \A t : t \in v <=> t \in w \/ t = e
  BY <1>5
<1>7. PlacedIn(place, s, k, m) /\ WaitingIn(w, place, s, k, m, d)
      /\ EachAnswered(w, place, s, k, m) /\ WrittenIn(place, s, con, ac, d)
  BY <1>2 DEF AnsweredAt
<1>8. PlacedIn(place, s, k + 1, m)
  BY <1>1, <1>7 DEF PlacedIn
<1>9. WaitingIn(v, place, s, k + 1, m, d)
  <2>1. ASSUME NEW t \in w
        PROVE  /\ t.of \in 1 .. k + 1 /\ t.of # k + 1 /\ ~IsAck(s[t.of].command)
               /\ t.text = AcknowledgeString(Coded(s[t.of], d))
               /\ \A j \in 1 .. m : place[j] # t.of
    BY <1>1, <1>7 DEF WaitingIn
  <2>2. \A j \in 1 .. m : place[j] # e.of
    BY <1>1, <1>4, <1>7 DEF PlacedIn
  <2>3. \A t, u \in v : t.of = u.of => t = u
    BY <1>4, <1>6, <1>7, <2>1 DEF WaitingIn
  <2>4. e.of \in 1 .. k + 1
    BY <1>1, <1>4
  <2> QED
    BY <1>4, <1>6, <2>1, <2>2, <2>3, <2>4 DEF WaitingIn
<1>10. EachAnswered(v, place, s, k + 1, m)
  BY <1>1, <1>4, <1>6, <1>7 DEF EachAnswered
<1>11. AnsweredAt(place, s, k + 1, v, con, ac, d)
  BY <1>2, <1>7, <1>8, <1>9, <1>10 DEF AnsweredAt
<1> QED
  BY <1>3, <1>5, <1>11

(* What a thread writes is the last acknowledgement in the stream. *)
LEMMA PlacedSent ==
  ASSUME NEW s \in Seq(Tags), NEW d, NEW k,
         NEW w, NEW con, NEW ac \in Seq(Acks), NEW place, Len(con) \in Nat,
         AnsweredAt(place, s, k, w, con, ac, d),
         NEW e \in w, e.text \in Acks
  PROVE  \E more : AnsweredAt(more, s, k, w \ {e}, con, Append(ac, e.text), d)
<1>1. PICK a \in Nat, b \in Nat : a = Len(con) /\ b = Len(ac)
  BY LenProperties
<1>2. PICK u, v : u = Append(ac, e.text) /\ v = w \ {e}
  OBVIOUS
<1>3. Len(u) = b + 1 /\ u[b + 1] = e.text /\ \A j \in 1 .. b : u[j] = ac[j]
  BY <1>1, <1>2, AppendProperties
<1>4. PICK m \in Nat : m = a + b
  BY <1>1
<1>5. PlacedIn(place, s, k, m) /\ WaitingIn(w, place, s, k, m, d)
      /\ EachAnswered(w, place, s, k, m) /\ WrittenIn(place, s, con, ac, d)
  BY <1>1, <1>4 DEF AnsweredAt
<1>6. PICK more : more = [j \in 1 .. m + 1 |-> IF j = m + 1 THEN e.of ELSE place[j]]
  OBVIOUS
<1>7. /\ \A j \in 1 .. m + 1 : j = m + 1 \/ j \in 1 .. m
      /\ \A j \in 1 .. m : j \in 1 .. m + 1 /\ j # m + 1
      /\ m + 1 \in 1 .. m + 1 /\ a + (b + 1) = m + 1
  BY <1>1, <1>4
<1>8. more[m + 1] = e.of /\ \A j \in 1 .. m : more[j] = place[j]
  BY <1>6, <1>7
<1>9. /\ e.of \in 1 .. k /\ ~IsAck(s[e.of].command)
      /\ e.text = AcknowledgeString(Coded(s[e.of], d))
      /\ \A j \in 1 .. m : place[j] # e.of
  BY <1>5 DEF WaitingIn
<1>10. PlacedIn(more, s, k, m + 1)
  <2>1. \A j \in 1 .. m + 1 : more[j] \in 1 .. k /\ ~IsAck(s[more[j]].command)
    BY <1>5, <1>7, <1>8, <1>9 DEF PlacedIn
  <2>2. \A i, j \in 1 .. m + 1 : i # j => more[i] # more[j]
    BY <1>5, <1>7, <1>8, <1>9 DEF PlacedIn
  <2> QED
    BY <2>1, <2>2 DEF PlacedIn
<1>11. WaitingIn(v, more, s, k, m + 1, d)
  <2>1. ASSUME NEW t \in v PROVE t \in w /\ t.of # e.of
    BY <1>2, <1>5 DEF WaitingIn
  <2>2. ASSUME NEW t \in v, NEW j \in 1 .. m + 1 PROVE more[j] # t.of
    BY <1>5, <1>7, <1>8, <2>1 DEF WaitingIn
  <2> QED
    BY <1>5, <2>1, <2>2 DEF WaitingIn
<1>12. EachAnswered(v, more, s, k, m + 1)
  <2>1. ASSUME NEW i \in 1 .. k, ~IsAck(s[i].command)
        PROVE  (\E j \in 1 .. m + 1 : more[j] = i) \/ \E t \in v : t.of = i
    <3>1. (\E j \in 1 .. m : place[j] = i) \/ \E t \in w : t.of = i
      BY <1>5, <2>1 DEF EachAnswered
    <3>2. ASSUME NEW j \in 1 .. m, place[j] = i PROVE \E q \in 1 .. m + 1 : more[q] = i
      BY <1>7, <1>8, <3>2
    <3>3. ASSUME NEW t \in w, t.of = i
          PROVE  (\E q \in 1 .. m + 1 : more[q] = i) \/ t \in v
      BY <1>2, <1>7, <1>8, <3>3
    <3> QED
      BY <3>1, <3>2, <3>3
  <2> QED
    BY <2>1 DEF EachAnswered
<1>13. WrittenIn(more, s, con, u, d)
  <2>1. \A j \in 1 .. a : con[j] = s[more[j]].id
    <3>1. \A j \in 1 .. a : j \in 1 .. m
      BY <1>1, <1>4
    <3> QED
      BY <1>1, <1>5, <1>8, <3>1 DEF WrittenIn
  <2>2. ASSUME NEW j \in 1 .. b + 1 PROVE u[j] = AcknowledgeString(Coded(s[more[a + j]], d))
    <3>1. CASE j = b + 1
      <4>1. a + j = m + 1
        BY <1>1, <1>4, <3>1
      <4> QED
        BY <1>3, <1>8, <1>9, <3>1, <4>1
    <3>2. CASE j # b + 1
      <4>1. j \in 1 .. b /\ a + j \in 1 .. m
        BY <1>1, <1>4, <3>2
      <4> QED
        BY <1>1, <1>3, <1>5, <1>8, <4>1 DEF WrittenIn
    <3> QED
      BY <3>1, <3>2
  <2> QED
    BY <1>1, <1>3, <2>1, <2>2 DEF WrittenIn
<1>14. AnsweredAt(more, s, k, v, con, u, d)
  <2>1. Len(con) + Len(u) = m + 1
    BY <1>1, <1>3, <1>7
  <2> QED
    BY <1>10, <1>11, <1>12, <1>13, <2>1 DEF AnsweredAt
<1> QED
  BY <1>2, <1>14

(* An acknowledgement that is read gives the identity of its tag. *)
LEMMA PlacedRead ==
  ASSUME NEW s \in Seq(Tags), NEW d \in Seps, NEW k \in 0 .. Len(s), NoBang(s),
         NEW w, NEW con \in Seq(Confirmations), NEW ac \in Seq(Acks), ac # <<>>, NEW place,
         AnsweredAt(place, s, k, w, con, ac, d)
  PROVE  /\ BreakTagString(Head(ac)).id \in Confirmations
         /\ AnsweredAt(place, s, k, w, Append(con, BreakTagString(Head(ac)).id), Tail(ac), d)
<1>1. PICK n \in Nat, a \in Nat, b \in Nat : n = Len(s) /\ a = Len(con) /\ b = Len(ac)
  BY LenProperties
<1>2. PICK h, r : h = BreakTagString(Head(ac)).id /\ r = Tail(ac)
  OBVIOUS
<1>3. /\ b # 0 /\ Head(ac) = ac[1] /\ ac[1] \in Acks
      /\ r \in Seq(Acks) /\ Len(r) = b - 1 /\ \A j \in 1 .. b - 1 : r[j] = ac[j + 1]
  <2>1. /\ Head(ac) \in Acks /\ Tail(ac) \in Seq(Acks) /\ Len(Tail(ac)) = Len(ac) - 1
        /\ \A j \in 1 .. Len(Tail(ac)) : Tail(ac)[j] = ac[j + 1]
        /\ Head(ac) = ac[1]
    BY HeadTailProperties
  <2>2. b # 0
    BY <1>1, EmptySeq
  <2> QED
    BY <1>1, <1>2, <2>1, <2>2
<1>4. h \in Confirmations
  BY <1>2, <1>3 DEF Confirmations
<1>5. PICK e : e = Append(con, h)
  OBVIOUS
<1>6. Len(e) = a + 1 /\ e[a + 1] = h /\ \A j \in 1 .. a : e[j] = con[j]
  BY <1>1, <1>4, <1>5, AppendProperties
<1>7. /\ \A j \in 1 .. a + b : place[j] \in 1 .. k
      /\ \A j \in 1 .. a : con[j] = s[place[j]].id
      /\ \A j \in 1 .. b : ac[j] = AcknowledgeString(Coded(s[place[a + j]], d))
  BY <1>1 DEF AnsweredAt, PlacedIn, WrittenIn
<1>8. /\ 1 \in 1 .. b /\ a + 1 \in 1 .. a + b /\ (a + 1) + (b - 1) = a + b
      /\ \A j \in 1 .. a + 1 : j = a + 1 \/ j \in 1 .. a
      /\ \A j \in 1 .. b - 1 : j + 1 \in 1 .. b /\ (a + 1) + j = a + (j + 1)
  <2>1. b # 0
    BY <1>3
  <2> QED
    BY <1>1, <2>1
<1>9. h = s[place[a + 1]].id
  <2>0. place[a + 1] \in 1 .. k
    BY <1>7, <1>8
  <2>1. PICK q \in 1 .. n : q = place[a + 1]
    <3>1. \A i \in 1 .. k : i \in 1 .. n
      BY <1>1
    <3> QED
      BY <2>0, <3>1
  <2>2. PICK t \in Tags : t = s[q] /\ ~HasBang(t)
    BY <1>1, <2>1, ElementOfSeq DEF NoBang
  <2>3. Layout(Coded(t, d), t, d, Len(t.command), Len(t.message))
    BY TextOfTag
  <2>4. BreakTagString(AcknowledgeString(Coded(t, d))).id = t.id
    BY <2>2, <2>3, AckOfFramed
  <2>5. ac[1] = AcknowledgeString(Coded(t, d))
    BY <1>7, <1>8, <2>1, <2>2
  <2> QED
    BY <1>2, <1>3, <2>1, <2>2, <2>4, <2>5
<1>10. \A j \in 1 .. a + 1 : e[j] = s[place[j]].id
  BY <1>6, <1>7, <1>8, <1>9
<1>11. \A j \in 1 .. b - 1 : r[j] = AcknowledgeString(Coded(s[place[(a + 1) + j]], d))
  BY <1>3, <1>7, <1>8
<1>12. AnsweredAt(place, s, k, w, e, r, d)
  <2>1. Len(e) + Len(r) = Len(con) + Len(ac)
    BY <1>1, <1>3, <1>6, <1>8
  <2>2. WrittenIn(place, s, e, r, d)
    BY <1>3, <1>6, <1>10, <1>11 DEF WrittenIn
  <2> QED
    BY <2>1, <2>2 DEF AnsweredAt
<1> QED
  BY <1>2, <1>4, <1>5, <1>12

-----------------------------------------------------------------------------
(* The pieces a text can be cut into. *)
Pieces == {Parsed(x) : x \in Strings}

CodecTypes ==
  /\ isMaster \in BOOLEAN
  /\ sent \in Seq(Tags)
  /\ text \in Strings
  /\ found \in Seq(Pieces)
  /\ answering \subseteq [of : Nat, text : Acks]
  /\ acks \in Seq(Acks)
  /\ confirmed \in Seq(Confirmations)
  /\ alive \in BOOLEAN

(* As long as no field holds a '!': the reader has cut the text at the ends  *)
(* of tags, and each of them is answered once.                               *)
InStep(s, x, f, w, ac, con, d) ==
  /\ Len(f) <= Len(s)
  /\ \E rest : Stacked(rest, s, Len(f), d) /\ x = rest[Len(f)]
  /\ \A i \in 1 .. Len(f) : f[i] = Parsed(Coded(s[i], d))
  /\ \E place : AnsweredAt(place, s, Len(f), w, con, ac, d)

(* A single tag with a '!' in a field: once it was found as it was sent,     *)
(* there is another piece.                                                   *)
EarlyCut(s, x, f, up, d) ==
  Len(s) = 1 /\ HasBang(s[1]) =>
    /\ f = <<>> /\ up => x = Coded(s[1], d)
    /\ Len(f) = 1 /\ f[1] = [kind |-> "tag", tag |-> s[1]] => Tailed(x)

CodecInv ==
  /\ CodecTypes
  /\ Framed => alive /\ InStep(sent, text, found, answering, acks, confirmed, MessageDelimiter)
  /\ EarlyCut(sent, text, found, alive, MessageDelimiter)

(* The invariant holds at the beginning. *)
LEMMA CodecInitial == CodecInit => CodecInv
<1>1. SUFFICES ASSUME CodecInit PROVE CodecInv
  OBVIOUS
<1>2. CodecTypes
  <2>1. <<>> \in Strings /\ <<>> \in Seq(Tags) /\ <<>> \in Seq(Pieces) /\ <<>> \in Seq(Acks)
        /\ <<>> \in Seq(Confirmations)
    BY EmptySeq DEF Strings
  <2> QED
    BY <1>1, <2>1 DEF CodecInit, CodecTypes
<1>3. PICK d : d = MessageDelimiter
  OBVIOUS
<1>4. InStep(<<>>, <<>>, <<>>, {}, <<>>, <<>>, d)
  <2>1. <<>> \in Strings /\ Len(<<>>) = 0
    BY EmptySeq DEF Strings
  <2>2. PICK rest : rest = [i \in 0 .. 0 |-> <<>>]
    OBVIOUS
  <2>3. rest[0] = <<>> /\ (\A i \in 0 .. 0 : rest[i] \in Strings) /\ \A i \in 0 .. 0 - 1 : FALSE
    BY <2>1, <2>2
  <2>4. Stacked(rest, <<>>, 0, d)
    BY <2>1, <2>3 DEF Stacked
  <2>5. AnsweredAt(<<>>, <<>>, 0, {}, <<>>, <<>>, d)
    <3>1. (\A j \in 1 .. 0 : FALSE) /\ 0 + 0 = 0
      OBVIOUS
    <3> QED
      BY <2>1, <3>1 DEF AnsweredAt, PlacedIn, WaitingIn, EachAnswered, WrittenIn
  <2> QED
    BY <2>1, <2>3, <2>4, <2>5 DEF InStep
<1>5. EarlyCut(<<>>, <<>>, <<>>, TRUE, d)
  BY EmptySeq DEF EarlyCut
<1> QED
  BY <1>1, <1>2, <1>3, <1>4, <1>5 DEF CodecInit, CodecInv

(* The tag an application asks for. *)
LEMMA SentTag ==
  ASSUME NEW c \in Commands, NEW m \in Messages, NEW n \in Nat
  PROVE  [command |-> c, message |-> m, id |-> SetAckID(n)] \in Tags
<1>1. ASSUME NEW s \in Seq(STRING) PROVE s \in Strings
  <2>1. Len(s) \in Nat /\ s \in [1 .. Len(s) -> STRING]
    BY <1>1, SeqDef
  <2>2. s \in [1 .. Len(s) -> Chars]
    BY <2>1 DEF Chars
  <2> QED
    BY <2>1, <2>2, SeqDef DEF Strings
<1>2. c \in Strings /\ m \in Strings
  BY <1>1, TagCodecAssumption
<1>3. SetAckID(n) \in Ids
  BY DEF SetAckID, Ids
<1> QED
  BY <1>2, <1>3 DEF Tags

(* The invariant is kept when a tag is sent, *)
LEMMA SendTagStep ==
  ASSUME CodecInv, NEW c \in Commands, NEW m \in Messages, SendTag(c, m)
  PROVE  CodecInv'
<1>1. PICK s, x, f, w, ac, con, up, d :
        /\ s = sent /\ x = text /\ f = found /\ w = answering /\ ac = acks /\ con = confirmed /\ up = alive
        /\ d = MessageDelimiter
  OBVIOUS
<1>2. /\ s \in Seq(Tags) /\ x \in Strings /\ f \in Seq(Pieces)
      /\ w \subseteq [of : Nat, text : Acks] /\ ac \in Seq(Acks) /\ con \in Seq(Confirmations) /\ up \in BOOLEAN
  BY <1>1 DEF CodecInv, CodecTypes
<1>3. d \in Seps /\ MessageDelimiter' = d
  BY <1>1 DEF SendTag, MessageDelimiter, Seps
<1>4. PICK t \in Tags : sent' = Append(s, t) /\ text' = x \o Coded(t, d)
  <2>1. PICK t : t = [command |-> c, message |-> m, id |-> SetAckID(Sizes[Len(sent) + 1])]
    OBVIOUS
  <2>2. Sizes[Len(sent) + 1] \in Nat
    <3>1. PICK n \in Nat, z \in Nat : n = Len(sent) /\ z = Len(Sizes) /\ n < z
      BY <1>1, <1>2, TagCodecAssumption, LenProperties DEF SendTag
    <3>2. n + 1 \in 1 .. z
      BY <3>1
    <3> QED
      BY <3>1, <3>2, TagCodecAssumption, ElementOfSeq
  <2>3. t \in Tags
    BY <2>1, <2>2, SentTag
  <2>4. TagString(t) = Coded(t, d)
    BY <1>1 DEF TagString, Coded
  <2>5. sent' = Append(sent, t) /\ text' = text \o TagString(t)
    BY <2>1 DEF SendTag
  <2> QED
    BY <1>1, <2>3, <2>4, <2>5
<1>5. found' = f /\ answering' = w /\ acks' = ac /\ confirmed' = con /\ alive' = up /\ isMaster' = isMaster
  BY <1>1 DEF SendTag
<1>6. PICK u, y : u = Append(s, t) /\ y = x \o Coded(t, d)
  OBVIOUS
<1>7. PICK n \in Nat, k \in Nat : n = Len(s) /\ k = Len(f)
  BY <1>2, LenProperties
<1>8. /\ u \in Seq(Tags) /\ Len(u) = n + 1 /\ u[n + 1] = t
      /\ \A i \in 1 .. n : u[i] = s[i]
  BY <1>2, <1>6, <1>7, AppendProperties
<1>9. Coded(t, d) \in Strings
  BY <1>3, TextOfTag DEF Layout
<1>10. y \in Strings
  BY <1>2, <1>6, <1>9, JoinTexts
<1>11. CodecTypes'
  BY <1>2, <1>4, <1>5, <1>6, <1>8, <1>10 DEF CodecInv, CodecTypes
<1>12. NoBang(u) => NoBang(s)
  <2>1. \A i \in 1 .. n : i \in 1 .. n + 1
    BY <1>7
  <2> QED
    BY <1>7, <1>8, <2>1 DEF NoBang
<1>13. (Framed <=> NoBang(s)) /\ (Framed' <=> NoBang(u))
  BY <1>1, <1>4, <1>6 DEF Framed, NoBang
<1>14. NoBang(s) => up /\ InStep(s, x, f, w, ac, con, d)
  BY <1>1, <1>13 DEF CodecInv
<1>15. ASSUME NoBang(u) PROVE up /\ InStep(u, y, f, w, ac, con, d)
  <2>1. up /\ InStep(s, x, f, w, ac, con, d)
    BY <1>12, <1>14, <1>15
  <2>2. k <= n /\ \A i \in 1 .. k : f[i] = Parsed(Coded(s[i], d))
    BY <1>7, <2>1 DEF InStep
  <2>3. PICK rest : Stacked(rest, s, k, d) /\ x = rest[k]
    BY <1>7, <2>1 DEF InStep
  <2>4. PICK place : AnsweredAt(place, s, k, w, con, ac, d)
    BY <1>7, <2>1 DEF InStep
  <2>5. k \in 0 .. Len(s) /\ k <= n + 1 /\ \A i \in 1 .. k : i \in 1 .. n
    BY <1>7, <2>2
  <2>6. \E more : Stacked(more, u, k, d) /\ y = more[k]
    <3>1. s \in Seq(Tags) /\ t \in Tags /\ d \in Seps /\ k \in 0 .. Len(s) /\ Stacked(rest, s, k, d)
      BY <1>2, <1>3, <2>3, <2>5
    <3>2. \E more : Stacked(more, Append(s, t), k, d) /\ more[k] = rest[k] \o Coded(t, d)
      BY <3>1, StackMore
    <3> QED
      BY <1>6, <2>3, <3>2
  <2>7. AnsweredAt(place, u, k, w, con, ac, d)
    BY <1>2, <1>6, <2>4, <2>5, PlacedMore, LenProperties
  <2>8. \A i \in 1 .. k : f[i] = Parsed(Coded(u[i], d))
    BY <1>8, <2>2, <2>5
  <2> QED
    BY <1>7, <1>8, <2>1, <2>5, <2>6, <2>7, <2>8 DEF InStep
<1>16. EarlyCut(u, y, f, up, d)
  <2>1. SUFFICES ASSUME Len(u) = 1, HasBang(u[1])
                 PROVE  /\ f = <<>> /\ up => y = Coded(u[1], d)
                        /\ Len(f) = 1 /\ f[1] = [kind |-> "tag", tag |-> u[1]] => Tailed(y)
    BY DEF EarlyCut
  <2>2. n = 0 /\ u[1] = t
    <3>1. Len(u) = n + 1 /\ u[n + 1] = t
      BY <1>8
    <3>2. n = 0
      BY <1>7, <2>1, <3>1
    <3> QED
      BY <3>1, <3>2
  <2>3. NoBang(s)
    BY <1>7, <2>2 DEF NoBang
  <2>4. k = 0 /\ \E rest : Stacked(rest, s, k, d) /\ x = rest[k]
    BY <1>7, <1>14, <2>2, <2>3 DEF InStep
  <2>5. x = <<>>
    BY <1>7, <2>2, <2>4 DEF Stacked
  <2>6. y = Coded(t, d)
    BY <1>6, <1>9, <2>5, ConcatEmptySeq DEF Strings
  <2>7. Len(f) # 1
    BY <1>7, <2>4
  <2> QED
    BY <2>2, <2>6, <2>7
<1> QED
  BY <1>3, <1>4, <1>5, <1>6, <1>11, <1>13, <1>15, <1>16 DEF CodecInv

(* when a piece is cut off and taken for what it begins with, *)
LEMMA ParseFirstTagStep ==
  ASSUME CodecInv, ParseFirstTag
  PROVE  CodecInv'
<1>1. PICK s, x, f, w, ac, con, d :
        /\ s = sent /\ x = text /\ f = found /\ w = answering /\ ac = acks /\ con = confirmed
        /\ d = MessageDelimiter
  OBVIOUS
<1>2. /\ s \in Seq(Tags) /\ x \in Strings /\ f \in Seq(Pieces)
      /\ w \subseteq [of : Nat, text : Acks] /\ ac \in Seq(Acks) /\ con \in Seq(Confirmations)
  BY <1>1 DEF CodecInv, CodecTypes
<1>3. d \in Seps /\ MessageDelimiter' = d
  BY <1>1 DEF ParseFirstTag, MessageDelimiter, Seps
<1>4. sent' = s /\ acks' = ac /\ confirmed' = con /\ isMaster' = isMaster /\ alive
  BY <1>1 DEF ParseFirstTag
<1>5. PICK n \in Nat, k \in Nat : n = Len(s) /\ k = Len(f)
  BY <1>2, LenProperties
<1>6. PICK p \in Nat \ {0} : p = Find("!", x) /\ p + 2 <= Len(x)
  <2>1. Contains(x, "!") /\ Find("!", x) + 2 <= Len(x)
    BY <1>1 DEF ParseFirstTag, HasPiece, PieceEnd
  <2>2. Find("!", x) \in 0 .. Len(x) /\ Find("!", x) # 0
    BY <1>2, <2>1, FindIs
  <2>3. Find("!", x) \in Nat \ {0}
    BY <2>2
  <2> QED
    BY <2>1, <2>3
<1>7. PICK P, y : P = SubSeq(x, 1, p + 2) /\ y = SubSeq(x, p + 3, Len(x))
  OBVIOUS
<1>8. PieceEnd = p + 2 /\ FirstPiece = P /\ PieceEnd - 1 = p + 1 /\ PieceEnd + 1 = p + 3
  <2>1. PieceEnd = p + 2
    BY <1>1, <1>6 DEF PieceEnd
  <2>2. PieceEnd - 1 = p + 1 /\ PieceEnd + 1 = p + 3
    BY <2>1
  <2> QED
    BY <1>1, <1>7, <2>1, <2>2 DEF FirstPiece
<1>9. P \in Strings /\ y \in Strings
  <2>1. Len(x) \in Nat
    BY <1>2, LenProperties DEF Strings
  <2>2. 1 \in Nat \ {0} /\ p + 2 \in Nat /\ p + 3 \in Nat \ {0} /\ Len(x) <= Len(x)
    BY <2>1
  <2> QED
    BY <1>2, <1>6, <1>7, <2>1, <2>2, Cut
<1>10. text' = y
  BY <1>1, <1>7, <1>8 DEF ParseFirstTag
<1>11. PICK g, v, up : g = found' /\ v = answering' /\ up = alive'
  OBVIOUS
<1>12. \/ Throws(SubSeq(P, p + 1, p + 2)) /\ up = FALSE /\ g = f /\ v = w
       \/ /\ ~Throws(SubSeq(P, p + 1, p + 2))
          /\ g = Append(f, Parsed(P))
          /\ v = IF IsAck(P) THEN w
                 ELSE w \cup {[of |-> k + 1, text |-> AcknowledgeString(P)]}
          /\ up = TRUE
  BY <1>1, <1>4, <1>5, <1>8, <1>11 DEF ParseFirstTag, Parsed
<1>13. Parsed(P) \in Pieces /\ AcknowledgeString(P) \in Acks
  BY <1>9 DEF Pieces, Acks
<1>14. PICK more : more = Append(f, Parsed(P))
  OBVIOUS
<1>15. /\ more \in Seq(Pieces) /\ Len(more) = k + 1 /\ more[k + 1] = Parsed(P)
       /\ \A i \in 1 .. k : more[i] = f[i]
  BY <1>2, <1>5, <1>13, <1>14, AppendProperties
<1>16. g \in Seq(Pieces) /\ v \subseteq [of : Nat, text : Acks] /\ up \in BOOLEAN
  <2>1. [of |-> k + 1, text |-> AcknowledgeString(P)] \in [of : Nat, text : Acks]
    BY <1>5, <1>13
  <2> QED
    BY <1>2, <1>12, <1>14, <1>15, <2>1
<1>17. CodecTypes'
  BY <1>2, <1>4, <1>9, <1>10, <1>11, <1>16 DEF CodecInv, CodecTypes
<1>18. (Framed <=> NoBang(s)) /\ (Framed' <=> NoBang(s))
  BY <1>1, <1>4 DEF Framed, NoBang
<1>19. NoBang(s) => InStep(s, x, f, w, ac, con, d)
  BY <1>1, <1>18 DEF CodecInv
<1>20. ASSUME NoBang(s) PROVE up /\ InStep(s, y, g, v, ac, con, d)
  <2>1. k <= n /\ \A i \in 1 .. k : f[i] = Parsed(Coded(s[i], d))
    BY <1>5, <1>19, <1>20 DEF InStep
  <2>2. PICK rest : Stacked(rest, s, k, d) /\ x = rest[k]
    BY <1>5, <1>19, <1>20 DEF InStep
  <2>3. PICK place : AnsweredAt(place, s, k, w, con, ac, d)
    BY <1>5, <1>19, <1>20 DEF InStep
  <2>4. k # n
    <3>1. x # <<>>
      <4>1. Len(x) # 0
        BY <1>2, <1>6, LenProperties DEF Strings
      <4> QED
        BY <4>1, EmptySeq
    <3> QED
      BY <1>5, <2>2, <3>1 DEF Stacked
  <2>5. k \in 0 .. Len(s) /\ k # Len(s) /\ k + 1 <= n
    BY <1>5, <2>1, <2>4
  <2>6. PICK T, t : t = s[k + 1] /\ T = Coded(t, d)
    OBVIOUS
  <2>7. /\ k + 1 \in 1 .. n /\ Stacked(rest, s, k + 1, d)
        /\ P = T /\ y = rest[k + 1]
        /\ SubSeq(T, p + 1, p + 2) = AckDigits(t.id)
    <3>1. \E q \in Nat \ {0} : Top(rest, s, k, d, q)
      BY <1>2, <1>3, <1>20, <2>2, <2>5, StackTop
    <3>2. k + 1 \in 1 .. n /\ Stacked(rest, s, k + 1, d)
      BY <1>2, <1>3, <1>5, <1>20, <2>2, <2>5, StackTop
    <3> QED
      BY <1>6, <1>7, <2>2, <2>6, <3>1, <3>2 DEF Top
  <2>8. t \in Tags
    BY <1>2, <1>5, <2>6, <2>7, ElementOfSeq
  <2>9. ~Throws(SubSeq(P, p + 1, p + 2))
    BY <2>7, <2>8, DigitsOfId DEF Tags
  <2>10. up /\ g = more /\ v = (IF IsAck(P) THEN w ELSE w \cup {[of |-> k + 1, text |-> AcknowledgeString(P)]})
    BY <1>12, <1>14, <2>9
  <2>11. IsAck(P) <=> IsAck(t.command)
    <3>1. Layout(T, t, d, Len(t.command), Len(t.message))
      BY <1>3, <2>6, <2>8, TextOfTag
    <3> QED
      BY <1>3, <2>7, <2>8, <3>1, AckOfTag
  <2>12. AnsweredAt(place, s, k + 1, v, con, ac, d)
    <3>1. CASE IsAck(t.command)
      <4>1. AnsweredAt(place, s, k + 1, w, con, ac, d)
        BY <1>2, <2>3, <2>5, <2>6, <3>1, PlacedNone
      <4> QED
        BY <2>10, <2>11, <3>1, <4>1
    <3>2. CASE ~IsAck(t.command)
      <4>1. PICK a : a = AcknowledgeString(Coded(s[k + 1], d)) /\ v = w \cup {[of |-> k + 1, text |-> a]}
        BY <2>6, <2>7, <2>10, <2>11, <3>2
      <4>2. AnsweredAt(place, s, k + 1, w \cup {[of |-> k + 1, text |-> a]}, con, ac, d)
        BY <1>2, <2>3, <2>5, <2>6, <3>2, <4>1, PlacedBegun
      <4> QED
        BY <4>1, <4>2
    <3> QED
      BY <3>1, <3>2
  <2>13. \A i \in 1 .. k + 1 : g[i] = Parsed(Coded(s[i], d))
    <3>1. \A i \in 1 .. k + 1 : i = k + 1 \/ i \in 1 .. k
      BY <1>5
    <3>2. g[k + 1] = Parsed(Coded(s[k + 1], d))
      BY <1>15, <2>6, <2>7, <2>10
    <3> QED
      BY <1>15, <2>1, <2>10, <3>1, <3>2
  <2>14. Len(g) = k + 1
    BY <1>15, <2>10
  <2> QED
    BY <1>5, <2>5, <2>7, <2>10, <2>12, <2>13, <2>14 DEF InStep
<1>21. EarlyCut(s, y, g, up, d)
  <2>1. SUFFICES ASSUME Len(s) = 1, HasBang(s[1])
                 PROVE  /\ g = <<>> /\ up => y = Coded(s[1], d)
                        /\ Len(g) = 1 /\ g[1] = [kind |-> "tag", tag |-> s[1]] => Tailed(y)
    BY DEF EarlyCut
  <2>2. /\ f = <<>> => x = Coded(s[1], d)
        /\ Len(f) = 1 /\ f[1] = [kind |-> "tag", tag |-> s[1]] => Tailed(x)
    BY <1>1, <1>4, <2>1 DEF CodecInv, EarlyCut
  <2>3. CASE Throws(SubSeq(P, p + 1, p + 2))
    <3>1. up = FALSE /\ g = f
      BY <1>12, <2>3
    <3>2. ASSUME Tailed(x) PROVE FALSE
      <4>1. ~Throws(SubSeq(x, p + 1, p + 2))
        BY <1>6, <3>2 DEF Tailed
      <4>2. SubSeq(P, p + 1, p + 2)[1] = P[p + 1] /\ SubSeq(x, p + 1, p + 2)[1] = x[p + 1] /\ P[p + 1] = x[p + 1]
        <5>1. /\ 1 \in Nat \ {0} /\ p + 1 \in Nat \ {0} /\ p + 2 \in Nat /\ p + 2 - 1 + 1 = p + 2 /\ 1 <= p + 2
              /\ p + 1 \in 1 .. p + 2 /\ 1 + (p + 1) - 1 = p + 1
              /\ (p + 2) - (p + 1) + 1 = 2 /\ 1 \in 1 .. 2 /\ p + 1 + 1 - 1 = p + 1
              /\ p + 2 <= p + 2
          OBVIOUS
        <5>0. x \in Strings /\ p + 2 <= Len(x)
          BY <1>2, <1>6
        <5>2. P \in Strings /\ Len(P) = p + 2 /\ \A i \in 1 .. p + 2 : P[i] = x[1 + i - 1]
          BY <1>7, <5>0, <5>1, Cut
        <5>3. P[p + 1] = x[p + 1]
          BY <5>1, <5>2
        <5>4. \A i \in 1 .. 2 : SubSeq(P, p + 1, p + 2)[i] = P[p + 1 + i - 1]
          BY <5>1, <5>2, Cut
        <5>5. \A i \in 1 .. 2 : SubSeq(x, p + 1, p + 2)[i] = x[p + 1 + i - 1]
          BY <5>0, <5>1, Cut
        <5> QED
          BY <5>1, <5>3, <5>4, <5>5
      <4> QED
        BY <2>3, <4>1, <4>2 DEF Throws
    <3> QED
      BY <2>2, <3>1, <3>2
  <2>4. CASE ~Throws(SubSeq(P, p + 1, p + 2))
    <3>1. g = more
      BY <1>12, <1>14, <2>4
    <3>2. Len(g) = k + 1 /\ g # <<>>
      <4>1. Len(g) = k + 1
        BY <1>15, <3>1
      <4> QED
        BY <1>5, <4>1, EmptySeq
    <3>3. ASSUME Len(g) = 1, g[1] = [kind |-> "tag", tag |-> s[1]] PROVE Tailed(y)
      <4>1. k = 0
        <5>1. k + 1 = 1
          BY <3>2, <3>3
        <5> QED
          BY <1>5, <5>1
      <4>2. x = Coded(s[1], d)
        BY <1>2, <1>5, <2>2, <4>1, EmptySeq
      <4>3. Parsed(P) = [kind |-> "tag", tag |-> s[1]]
        BY <1>15, <3>1, <3>3, <4>1
      <4>4. BreakTagString(P) = s[1]
        BY <4>3 DEF Parsed
      <4>5. PICK t \in Tags : t = s[1]
        <5>1. 1 \in 1 .. Len(s)
          BY <2>1
        <5> QED
          BY <1>2, <5>1, ElementOfSeq
      <4>6. Layout(x, t, d, Len(t.command), Len(t.message))
        BY <1>3, <4>2, <4>5, TextOfTag
      <4> QED
        BY <1>3, <1>6, <1>7, <2>1, <4>4, <4>5, <4>6, Survivor
    <3> QED
      BY <3>2, <3>3
  <2> QED
    BY <2>3, <2>4
<1> QED
  BY <1>3, <1>4, <1>10, <1>11, <1>17, <1>18, <1>20, <1>21 DEF CodecInv

(* when a thread writes an acknowledgement, *)
LEMMA TCPSendAckStep ==
  ASSUME CodecInv, TCPSendAck
  PROVE  CodecInv'
<1>1. PICK s, x, f, w, ac, con, d :
        /\ s = sent /\ x = text /\ f = found /\ w = answering /\ ac = acks /\ con = confirmed
        /\ d = MessageDelimiter
  OBVIOUS
<1>2. /\ s \in Seq(Tags) /\ x \in Strings /\ f \in Seq(Pieces)
      /\ w \subseteq [of : Nat, text : Acks] /\ ac \in Seq(Acks) /\ con \in Seq(Confirmations)
  BY <1>1 DEF CodecInv, CodecTypes
<1>3. MessageDelimiter' = d
  BY <1>1 DEF TCPSendAck, MessageDelimiter
<1>4. sent' = s /\ text' = x /\ found' = f /\ confirmed' = con /\ isMaster' = isMaster /\ alive' = alive
  BY <1>1 DEF TCPSendAck
<1>5. PICK e \in w : acks' = Append(ac, e.text) /\ answering' = w \ {e}
  BY <1>1 DEF TCPSendAck
<1>6. e.text \in Acks
  BY <1>2
<1>7. w \ {e} \subseteq [of : Nat, text : Acks] /\ Append(ac, e.text) \in Seq(Acks)
  BY <1>2, <1>6, AppendProperties
<1>8. CodecTypes'
  BY <1>2, <1>4, <1>5, <1>7 DEF CodecInv, CodecTypes
<1>9. (Framed <=> NoBang(s)) /\ (Framed' <=> NoBang(s))
  BY <1>1, <1>4 DEF Framed, NoBang
<1>10. ASSUME NoBang(s) PROVE alive /\ InStep(s, x, f, w \ {e}, Append(ac, e.text), con, d)
  <2>1. alive /\ InStep(s, x, f, w, ac, con, d)
    BY <1>1, <1>9, <1>10 DEF CodecInv
  <2>2. PICK place : AnsweredAt(place, s, Len(f), w, con, ac, d)
    BY <2>1 DEF InStep
  <2>3. Len(con) \in Nat
    BY <1>2, LenProperties
  <2>4. \E more : AnsweredAt(more, s, Len(f), w \ {e}, con, Append(ac, e.text), d)
    BY <1>2, <1>6, <2>2, <2>3, PlacedSent
  <2> QED
    BY <2>1, <2>4 DEF InStep
<1>11. EarlyCut(s, x, f, alive, d)
  BY <1>1 DEF CodecInv
<1> QED
  BY <1>3, <1>4, <1>5, <1>8, <1>9, <1>10, <1>11 DEF CodecInv

(* and when an acknowledgement is read. *)
LEMMA ReadAckStep ==
  ASSUME CodecInv, ReadAck
  PROVE  CodecInv'
<1>1. PICK s, x, f, w, ac, con, d :
        /\ s = sent /\ x = text /\ f = found /\ w = answering /\ ac = acks /\ con = confirmed
        /\ d = MessageDelimiter
  OBVIOUS
<1>2. /\ s \in Seq(Tags) /\ x \in Strings /\ f \in Seq(Pieces)
      /\ w \subseteq [of : Nat, text : Acks] /\ ac \in Seq(Acks) /\ con \in Seq(Confirmations) /\ ac # <<>>
  BY <1>1 DEF CodecInv, CodecTypes, ReadAck
<1>3. d \in Seps /\ MessageDelimiter' = d
  BY <1>1 DEF ReadAck, MessageDelimiter, Seps
<1>4. sent' = s /\ text' = x /\ found' = f /\ answering' = w /\ isMaster' = isMaster /\ alive' = alive
  BY <1>1 DEF ReadAck
<1>5. PICK h, r : h = BreakTagString(Head(ac)).id /\ r = Tail(ac)
  OBVIOUS
<1>6. confirmed' = Append(con, h) /\ acks' = r
  BY <1>1, <1>5 DEF ReadAck
<1>7. r \in Seq(Acks) /\ Head(ac) \in Acks
  BY <1>2, <1>5, HeadTailProperties
<1>8. Append(con, h) \in Seq(Confirmations)
  <2>1. h \in Confirmations
    BY <1>5, <1>7 DEF Confirmations
  <2> QED
    BY <1>2, <2>1, AppendProperties
<1>9. CodecTypes'
  BY <1>2, <1>4, <1>6, <1>7, <1>8 DEF CodecInv, CodecTypes
<1>10. (Framed <=> NoBang(s)) /\ (Framed' <=> NoBang(s))
  BY <1>1, <1>4 DEF Framed, NoBang
<1>11. ASSUME NoBang(s) PROVE alive /\ InStep(s, x, f, w, r, Append(con, h), d)
  <2>1. alive /\ InStep(s, x, f, w, ac, con, d)
    BY <1>1, <1>10, <1>11 DEF CodecInv
  <2>2. PICK place : AnsweredAt(place, s, Len(f), w, con, ac, d)
    BY <2>1 DEF InStep
  <2>3. Len(f) \in 0 .. Len(s)
    <3>1. Len(f) \in Nat /\ Len(s) \in Nat /\ Len(f) <= Len(s)
      BY <1>2, <2>1, LenProperties DEF InStep
    <3> QED
      BY <3>1
  <2>4. AnsweredAt(place, s, Len(f), w, Append(con, h), r, d)
    BY <1>2, <1>3, <1>5, <1>11, <2>2, <2>3, PlacedRead
  <2> QED
    BY <2>1, <2>4 DEF InStep
<1>12. EarlyCut(s, x, f, alive, d)
  BY <1>1 DEF CodecInv
<1> QED
  BY <1>3, <1>4, <1>6, <1>9, <1>10, <1>11, <1>12 DEF CodecInv

(* A step of the codec keeps its invariant. *)
LEMMA CodecStep == CodecInv /\ [CodecNext]_codecVars => CodecInv'
<1>1. SUFFICES ASSUME CodecInv, [CodecNext]_codecVars PROVE CodecInv'
  OBVIOUS
<1>2. ASSUME NEW c \in Commands, NEW m \in Messages, SendTag(c, m) PROVE CodecInv'
  BY <1>1, <1>2, SendTagStep
<1>3. CASE ParseFirstTag
  BY <1>1, <1>3, ParseFirstTagStep
<1>4. CASE ReadAck
  BY <1>1, <1>4, ReadAckStep
<1>5. CASE TCPSendAck
  BY <1>1, <1>5, TCPSendAckStep
<1>6. CASE UNCHANGED codecVars
  BY <1>1, <1>6 DEF codecVars, CodecInv, CodecTypes, Framed, MessageDelimiter
<1> QED
  BY <1>1, <1>2, <1>3, <1>4, <1>5, <1>6 DEF CodecNext

(* The reader is in step with the writer as long as no field holds a '!', in *)
(* every state.                                                              *)
THEOREM CodecInvariant == CodecSpec => []CodecInv
<1>1. CodecInit => CodecInv
  BY CodecInitial
<1>2. CodecInv /\ [CodecNext]_codecVars => CodecInv'
  BY CodecStep
<1> QED
  BY <1>1, <1>2, PTL DEF CodecSpec

(* What was found is what was sent, for the tags that are plain. *)
PlainFound(s, f, d) ==
  \A i \in 1 .. Len(s) : f[i] = [kind |-> "tag", tag |-> s[i]] <=> PlainFor(s[i], d)

(* When there is no piece left, the reader has found all tags, and what it   *)
(* has found is what was sent if that is plain.                              *)
LEMMA AtTheEnd ==
  ASSUME NEW s \in Seq(Tags), NEW x, NEW f \in Seq(Pieces), NEW w, NEW ac, NEW con, NEW d \in Seps,
         NoBang(s), InStep(s, x, f, w, ac, con, d),
         ~(Contains(x, "!") /\ Find("!", x) + 2 <= Len(x))
  PROVE  x = <<>> /\ Len(f) = Len(s) /\ PlainFound(s, f, d)
<1>1. PICK n \in Nat, k \in Nat : n = Len(s) /\ k = Len(f)
  BY LenProperties
<1>2. k <= n /\ \A i \in 1 .. k : f[i] = Parsed(Coded(s[i], d))
  BY <1>1 DEF InStep
<1>3. PICK rest : Stacked(rest, s, k, d) /\ x = rest[k]
  BY <1>1 DEF InStep
<1>4. k = n
  <2>1. SUFFICES ASSUME k # n PROVE FALSE
    OBVIOUS
  <2>2. k \in 0 .. Len(s) /\ k # Len(s)
    BY <1>1, <1>2, <2>1
  <2>3. \E q \in Nat \ {0} : Top(rest, s, k, d, q)
    BY <1>3, <2>2, StackTop
  <2> QED
    BY <1>3, <2>3 DEF Top
<1>5. x = <<>>
  BY <1>1, <1>3, <1>4 DEF Stacked
<1>6. ASSUME NEW i \in 1 .. n PROVE f[i] = [kind |-> "tag", tag |-> s[i]] <=> PlainFor(s[i], d)
  <2>1. PICK t \in Tags : t = s[i] /\ ~HasBang(t)
    BY <1>1, ElementOfSeq DEF NoBang
  <2>2. Layout(Coded(t, d), t, d, Len(t.command), Len(t.message))
    BY TextOfTag
  <2>3. Parsed(Coded(t, d)) = [kind |-> "tag", tag |-> t] <=> PlainFor(t, d)
    BY <2>1, <2>2, ParsedFramed
  <2> QED
    BY <1>2, <1>4, <2>1, <2>3
<1> QED
  BY <1>1, <1>4, <1>5, <1>6 DEF PlainFound

(* A tag comes through as it was sent if its text is plain, and only then,   *)
(* whatever the application puts into the fields.                            *)
THEOREM SurvivesIffPlainHolds == CodecSpec => []SurvivesIffPlain
<1>1. ASSUME CodecInv PROVE SurvivesIffPlain
  <2>1. SUFFICES ASSUME ~(alive /\ HasPiece)
                 PROVE  /\ Len(sent) = 1 =>
                             ((Survived(1) /\ Len(found) = 1 /\ text = <<>>) <=> Plain(sent[1]))
                        /\ Framed =>
                             /\ alive /\ text = <<>> /\ Len(found) = Len(sent)
                             /\ \A i \in 1 .. Len(sent) : Survived(i) <=> Plain(sent[i])
    BY DEF SurvivesIffPlain
  <2>2. PICK s, x, f, d : s = sent /\ x = text /\ f = found /\ d = MessageDelimiter
    OBVIOUS
  <2>3. /\ s \in Seq(Tags) /\ x \in Strings /\ f \in Seq(Pieces) /\ isMaster \in BOOLEAN
        /\ d \in Seps /\ (d = ";" <=> isMaster)
    BY <1>1, <2>2 DEF CodecInv, CodecTypes, MessageDelimiter, Seps
  <2>4. \A t : Plain(t) <=> PlainFor(t, d)
    BY <2>3 DEF Plain, PlainFor, SepFits
  <2>5. \A i : Survived(i) <=> i <= Len(f) /\ f[i] = [kind |-> "tag", tag |-> s[i]]
    BY <2>2 DEF Survived
  <2>6. Framed <=> NoBang(s)
    BY <2>2 DEF Framed, NoBang
  <2>7. ASSUME NoBang(s)
        PROVE  /\ alive /\ x = <<>> /\ Len(f) = Len(s)
               /\ \A i \in 1 .. Len(s) : Survived(i) <=> Plain(s[i])
    <3>1. alive /\ InStep(s, x, f, answering, acks, confirmed, d)
      BY <1>1, <2>2, <2>6, <2>7 DEF CodecInv
    <3>2. ~(Contains(x, "!") /\ Find("!", x) + 2 <= Len(x))
      BY <2>1, <2>2, <3>1 DEF HasPiece, PieceEnd
    <3>3. x = <<>> /\ Len(f) = Len(s) /\ PlainFound(s, f, d)
      BY <2>3, <2>7, <3>1, <3>2, AtTheEnd
    <3>4. ASSUME NEW i \in 1 .. Len(s) PROVE Survived(i) <=> Plain(s[i])
      <4>1. i <= Len(f)
        BY <3>3
      <4>2. f[i] = [kind |-> "tag", tag |-> s[i]] <=> PlainFor(s[i], d)
        BY <3>3 DEF PlainFound
      <4> QED
        BY <2>4, <2>5, <4>1, <4>2
    <3> QED
      BY <3>1, <3>3, <3>4
  <2>8. ASSUME Len(s) = 1
        PROVE  (Survived(1) /\ Len(f) = 1 /\ x = <<>>) <=> Plain(s[1])
    <3>1. 1 \in 1 .. Len(s) /\ \A i \in 1 .. Len(s) : i = 1
      BY <2>8
    <3>2. CASE HasBang(s[1])
      <4>1. ~Plain(s[1])
        BY <3>2 DEF Plain
      <4>2. ASSUME Survived(1), Len(f) = 1, x = <<>> PROVE FALSE
        <5>1. Tailed(x)
          BY <1>1, <2>2, <2>5, <2>8, <3>2, <4>2 DEF CodecInv, EarlyCut
        <5>2. PICK i \in 1 .. Len(x) : TRUE
          BY <5>1 DEF Tailed, Contains
        <5>3. Len(x) = 0
          BY <4>2, EmptySeq
        <5> QED
          BY <5>2, <5>3
      <4> QED
        BY <4>1, <4>2
    <3>3. CASE ~HasBang(s[1])
      <4>1. NoBang(s)
        BY <3>1, <3>3 DEF NoBang
      <4> QED
        BY <2>7, <2>8, <3>1, <4>1
    <3> QED
      BY <3>2, <3>3
  <2> QED
    BY <2>2, <2>6, <2>7, <2>8
<1> QED
  BY <1>1, CodecInvariant, PTL

(* The writer reads the identities of the tags it wrote, each once, as long  *)
(* as no field holds a '!' and in whatever order the threads write.          *)
THEOREM AcksComeHomeHolds == CodecSpec => []AcksComeHome
<1>1. ASSUME CodecInv PROVE AcksComeHome
  <2>1. SUFFICES ASSUME Framed, text = <<>>, answering = {}, acks = <<>>
                 PROVE  \E place \in [DOMAIN confirmed -> Answered] :
                          /\ \A i \in Answered : \E j \in DOMAIN confirmed : place[j] = i
                          /\ \A i, j \in DOMAIN confirmed : i # j => place[i] # place[j]
                          /\ \A j \in DOMAIN confirmed : confirmed[j] = sent[place[j]].id
    BY DEF AcksComeHome
  <2>2. PICK s, f, con, d : s = sent /\ f = found /\ con = confirmed /\ d = MessageDelimiter
    OBVIOUS
  <2>3. /\ s \in Seq(Tags) /\ f \in Seq(Pieces) /\ con \in Seq(Confirmations) /\ d \in Seps
    BY <1>1, <2>2 DEF CodecInv, CodecTypes, MessageDelimiter, Seps
  <2>4. NoBang(s)
    BY <2>1, <2>2 DEF Framed, NoBang
  <2>5. InStep(s, <<>>, f, {}, <<>>, con, d)
    BY <1>1, <2>1, <2>2 DEF CodecInv
  <2>6. Len(<<>>) = 0 /\ ~Contains(<<>>, "!")
    BY EmptySeq DEF Contains
  <2>7. Len(f) = Len(s)
    BY <2>3, <2>4, <2>5, <2>6, AtTheEnd
  <2>8. PICK where : AnsweredAt(where, s, Len(s), {}, con, <<>>, d)
    BY <2>5, <2>7 DEF InStep
  <2>9. PICK n \in Nat, a \in Nat :
          /\ n = Len(s) /\ DOMAIN s = 1 .. n /\ a = Len(con) /\ DOMAIN con = 1 .. a /\ a + 0 = a
    BY <2>3, LenProperties
  <2>10. /\ \A j \in 1 .. a : where[j] \in 1 .. n /\ ~IsAck(s[where[j]].command)
         /\ \A i \in 1 .. n : ~IsAck(s[i].command) => \E j \in 1 .. a : where[j] = i
         /\ \A i, j \in 1 .. a : i # j => where[i] # where[j]
         /\ \A j \in 1 .. a : con[j] = s[where[j]].id
    BY <2>6, <2>8, <2>9 DEF AnsweredAt, PlacedIn, EachAnswered, WrittenIn
  <2>11. PICK S : S = Answered /\ S = {i \in 1 .. n : ~IsAck(s[i].command)}
    BY <2>2, <2>9 DEF Answered
  <2>12. PICK place : place = [j \in 1 .. a |-> where[j]]
    OBVIOUS
  <2>13. place \in [1 .. a -> S] /\ \A j \in 1 .. a : place[j] = where[j]
    BY <2>10, <2>11, <2>12
  <2>14. /\ \A i \in S : \E j \in 1 .. a : place[j] = i
         /\ \A i, j \in 1 .. a : i # j => place[i] # place[j]
         /\ \A j \in 1 .. a : con[j] = s[place[j]].id
    BY <2>10, <2>11, <2>13
  <2>15. /\ DOMAIN confirmed = 1 .. a /\ Answered = S
         /\ \A j \in 1 .. a : confirmed[j] = sent[place[j]].id
    BY <2>2, <2>9, <2>11, <2>14
  <2>16. place \in [DOMAIN confirmed -> Answered]
    BY <2>13, <2>15
  <2> QED
    BY <2>14, <2>15, <2>16
<1> QED
  BY <1>1, CodecInvariant, PTL
=============================================================================
