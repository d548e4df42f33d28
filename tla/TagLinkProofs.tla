--------------------------- MODULE TagLinkProofs ----------------------------
(***************************************************************************)
(* Theorems about TagLink for every number of identities, of tags and of   *)
(* acknowledgements, every length of the queue and of the streams, and     *)
(* every order of the threads of both ends.                                *)
(***************************************************************************)
EXTENDS TagLink, SentTagsProofs, SequenceTheorems

(* The tags on a stream are numbered from lo + 1 on without a gap, and no    *)
(* number is greater than hi.                                                *)
Tagged(s, lo, hi) ==
  /\ \A i \in 1 .. Len(s) : s[i].kind = "tag" => s[i].n \in lo + 1 .. hi
  /\ \A i, j \in 1 .. Len(s) :
       i < j /\ s[i].kind = "tag" /\ s[j].kind = "tag" => s[i].n < s[j].n
  /\ \A j \in 1 .. Len(s) : s[j].kind = "tag" =>
       \A n \in lo + 1 .. s[j].n : \E i \in 1 .. j : s[i] = TagItem(n)

(* The numbers up to hi are all there. *)
Full(s, lo, hi) == \A n \in lo + 1 .. hi : \E i \in 1 .. Len(s) : s[i] = TagItem(n)

AckPlaces(s) == {i \in 1 .. Len(s) : s[i].kind = "ack"}
Acks(s) == {s[i].n : i \in AckPlaces(s)}

(* Where the items of the tail of a sequence are. *)
LEMMA TailAt ==
  ASSUME NEW s \in Seq(Items), s # <<>>
  PROVE  /\ Len(s) \in Nat /\ Len(s) >= 1
         /\ Head(s) = s[1] /\ Head(s) \in Items
         /\ Tail(s) \in Seq(Items) /\ Len(Tail(s)) = Len(s) - 1
         /\ \A i \in 1 .. Len(Tail(s)) : Tail(s)[i] = s[i + 1]
<1>1. /\ Head(s) \in Items /\ Tail(s) \in Seq(Items)
      /\ Len(Tail(s)) = Len(s) - 1
      /\ \A i \in 1 .. Len(Tail(s)) : Tail(s)[i] = s[i + 1]
  BY HeadTailProperties
<1>2. Head(s) = s[1] /\ Len(s) \in Nat /\ Len(s) # 0
  BY EmptySeq, LenProperties
<1> QED
  BY <1>1, <1>2

(* Where the items are when one is appended. *)
LEMMA AppendAt ==
  ASSUME NEW s \in Seq(Items), NEW x \in Items
  PROVE  /\ Len(s) \in Nat
         /\ Append(s, x) \in Seq(Items) /\ Len(Append(s, x)) = Len(s) + 1
         /\ \A i \in 1 .. Len(s) : Append(s, x)[i] = s[i]
         /\ Append(s, x)[Len(s) + 1] = x
BY AppendProperties, LenProperties

(* Taking the next tag off a stream. *)
LEMMA TagTaken ==
  ASSUME NEW s \in Seq(Items), s # <<>>, NEW lo \in Nat, NEW hi \in Nat,
         Tagged(s, lo, hi), Head(s).kind = "tag"
  PROVE  /\ Head(s).n = lo + 1 /\ lo + 1 <= hi
         /\ Tagged(Tail(s), lo + 1, hi)
         /\ Full(s, lo, hi) => Full(Tail(s), lo + 1, hi)
<1> DEFINE t == Tail(s)
<1>1. /\ Len(s) \in Nat /\ Len(s) >= 1 /\ Head(s) = s[1]
      /\ Len(t) = Len(s) - 1
      /\ \A i \in 1 .. Len(t) : t[i] = s[i + 1]
  BY TailAt
<1> HIDE DEF t
<1>2. 1 \in 1 .. Len(s) /\ s[1].kind = "tag"
  BY <1>1
<1>3. s[1].n \in lo + 1 .. hi
  BY <1>2 DEF Tagged
<1>4. s[1].n = lo + 1
  <2>1. lo + 1 \in lo + 1 .. s[1].n
    BY <1>3
  <2>2. \E i \in 1 .. 1 : s[i] = TagItem(lo + 1)
    BY <1>2, <2>1 DEF Tagged
  <2> QED
    BY <2>2 DEF TagItem
<1>5. \A i \in 1 .. Len(t) : i + 1 \in 1 .. Len(s) /\ 1 < i + 1 /\ t[i] = s[i + 1]
  BY <1>1
<1>6. \A i \in 1 .. Len(t) : t[i].kind = "tag" => t[i].n \in lo + 2 .. hi
  <2> SUFFICES ASSUME NEW i \in 1 .. Len(t), t[i].kind = "tag"
               PROVE  t[i].n \in lo + 2 .. hi
    OBVIOUS
  <2>1. s[i + 1].n \in lo + 1 .. hi /\ s[1].n < s[i + 1].n
    BY <1>2, <1>5 DEF Tagged
  <2> QED
    BY <1>4, <1>5, <2>1
<1>7. \A i, j \in 1 .. Len(t) :
        i < j /\ t[i].kind = "tag" /\ t[j].kind = "tag" => t[i].n < t[j].n
  <2> SUFFICES ASSUME NEW i \in 1 .. Len(t), NEW j \in 1 .. Len(t), i < j,
                      t[i].kind = "tag", t[j].kind = "tag"
               PROVE  t[i].n < t[j].n
    OBVIOUS
  <2>1. i + 1 < j + 1
    OBVIOUS
  <2> QED
    BY <1>5, <2>1 DEF Tagged
<1>8. ASSUME NEW n \in Nat, n > lo + 1, NEW m \in 1 .. Len(s),
             \E i \in 1 .. m : s[i] = TagItem(n)
      PROVE  \E i \in 1 .. Len(t) : i <= m - 1 /\ t[i] = TagItem(n)
  <2>1. PICK i \in 1 .. m : s[i] = TagItem(n)
    BY <1>8
  <2>2. i # 1
    BY <1>4, <1>8, <2>1 DEF TagItem
  <2>3. i - 1 \in 1 .. Len(t) /\ i - 1 <= m - 1 /\ (i - 1) + 1 = i
    BY <1>1, <2>1, <2>2
  <2>4. t[i - 1] = s[(i - 1) + 1]
    BY <1>5, <2>3
  <2> QED
    BY <2>1, <2>3, <2>4
<1>9. ASSUME NEW j \in 1 .. Len(t), t[j].kind = "tag", NEW n \in lo + 2 .. t[j].n
      PROVE  \E i \in 1 .. j : t[i] = TagItem(n)
  <2>1. j + 1 \in 1 .. Len(s) /\ t[j] = s[j + 1]
    BY <1>5
  <2>2. n \in lo + 1 .. s[j + 1].n /\ n \in Nat /\ n > lo + 1
    BY <2>1
  <2>3. \E i \in 1 .. j + 1 : s[i] = TagItem(n)
    BY <1>9, <2>1, <2>2 DEF Tagged
  <2>4. PICK i \in 1 .. Len(t) : i <= (j + 1) - 1 /\ t[i] = TagItem(n)
    BY <1>8, <2>1, <2>2, <2>3
  <2> QED
    BY <2>4
<1>10. ASSUME Full(s, lo, hi), NEW n \in lo + 2 .. hi
       PROVE  \E i \in 1 .. Len(t) : t[i] = TagItem(n)
  <2>1. n \in lo + 1 .. hi /\ n \in Nat /\ n > lo + 1
    BY <1>10
  <2>2. \E i \in 1 .. Len(s) : s[i] = TagItem(n)
    BY <1>10, <2>1 DEF Full
  <2>3. Len(s) \in 1 .. Len(s)
    BY <1>1
  <2> QED
    BY <1>8, <2>1, <2>2, <2>3
<1>11. (lo + 1) + 1 = lo + 2
  OBVIOUS
<1>12. Tagged(t, lo + 1, hi)
  BY <1>6, <1>7, <1>9, <1>11 DEF Tagged
<1>13. Full(s, lo, hi) => Full(t, lo + 1, hi)
  BY <1>10, <1>11 DEF Full
<1> QED
  BY <1>1, <1>3, <1>4, <1>12, <1>13 DEF t

(* Taking something else off it. *)
LEMMA OtherTaken ==
  ASSUME NEW s \in Seq(Items), s # <<>>, NEW lo \in Nat, NEW hi \in Nat,
         Tagged(s, lo, hi), Head(s).kind # "tag"
  PROVE  /\ Tagged(Tail(s), lo, hi)
         /\ Full(s, lo, hi) => Full(Tail(s), lo, hi)
<1> DEFINE t == Tail(s)
<1>1. /\ Len(s) \in Nat /\ Len(s) >= 1 /\ Head(s) = s[1]
      /\ Len(t) = Len(s) - 1
      /\ \A i \in 1 .. Len(t) : t[i] = s[i + 1]
  BY TailAt
<1> HIDE DEF t
<1>2. s[1].kind # "tag"
  BY <1>1
<1>5. \A i \in 1 .. Len(t) : i + 1 \in 1 .. Len(s) /\ t[i] = s[i + 1]
  BY <1>1
<1>6. \A i \in 1 .. Len(t) : t[i].kind = "tag" => t[i].n \in lo + 1 .. hi
  BY <1>5 DEF Tagged
<1>7. \A i, j \in 1 .. Len(t) :
        i < j /\ t[i].kind = "tag" /\ t[j].kind = "tag" => t[i].n < t[j].n
  <2> SUFFICES ASSUME NEW i \in 1 .. Len(t), NEW j \in 1 .. Len(t), i < j,
                      t[i].kind = "tag", t[j].kind = "tag"
               PROVE  t[i].n < t[j].n
    OBVIOUS
  <2>1. i + 1 < j + 1
    OBVIOUS
  <2> QED
    BY <1>5, <2>1 DEF Tagged
<1>8. ASSUME NEW n, NEW m \in 1 .. Len(s), \E i \in 1 .. m : s[i] = TagItem(n)
      PROVE  \E i \in 1 .. Len(t) : i <= m - 1 /\ t[i] = TagItem(n)
  <2>1. PICK i \in 1 .. m : s[i] = TagItem(n)
    BY <1>8
  <2>2. i # 1
    BY <1>2, <2>1 DEF TagItem
  <2>3. i - 1 \in 1 .. Len(t) /\ i - 1 <= m - 1 /\ (i - 1) + 1 = i
    BY <1>1, <2>1, <2>2
  <2>4. t[i - 1] = s[(i - 1) + 1]
    BY <1>5, <2>3
  <2> QED
    BY <2>1, <2>3, <2>4
<1>9. ASSUME NEW j \in 1 .. Len(t), t[j].kind = "tag", NEW n \in lo + 1 .. t[j].n
      PROVE  \E i \in 1 .. j : t[i] = TagItem(n)
  <2>1. j + 1 \in 1 .. Len(s) /\ t[j] = s[j + 1]
    BY <1>5
  <2>2. \E i \in 1 .. j + 1 : s[i] = TagItem(n)
    BY <1>9, <2>1 DEF Tagged
  <2>3. PICK i \in 1 .. Len(t) : i <= (j + 1) - 1 /\ t[i] = TagItem(n)
    BY <1>8, <2>1, <2>2
  <2> QED
    BY <2>3
<1>10. ASSUME Full(s, lo, hi), NEW n \in lo + 1 .. hi
       PROVE  \E i \in 1 .. Len(t) : t[i] = TagItem(n)
  <2>1. \E i \in 1 .. Len(s) : s[i] = TagItem(n)
    BY <1>10 DEF Full
  <2>2. Len(s) \in 1 .. Len(s)
    BY <1>1
  <2> QED
    BY <1>8, <2>1, <2>2
<1> QED
  BY <1>6, <1>7, <1>9, <1>10 DEF Tagged, Full, t

(* Writing the next tag behind all the others. *)
LEMMA TagWritten ==
  ASSUME NEW s \in Seq(Items), NEW lo \in Nat, NEW hi \in Nat, lo <= hi,
         Tagged(s, lo, hi), Full(s, lo, hi)
  PROVE  /\ Tagged(Append(s, TagItem(hi + 1)), lo, hi + 1)
         /\ Full(Append(s, TagItem(hi + 1)), lo, hi + 1)
<1> DEFINE x == TagItem(hi + 1)
           t == Append(s, x)
<1>0. x \in Items /\ x.kind = "tag" /\ x.n = hi + 1
  BY DEF TagItem, Items
<1>1. /\ Len(s) \in Nat /\ Len(t) = Len(s) + 1
      /\ \A i \in 1 .. Len(s) : t[i] = s[i]
      /\ t[Len(s) + 1] = x
  BY <1>0, AppendAt
<1>2. \A i \in 1 .. Len(t) : i \in 1 .. Len(s) \/ i = Len(s) + 1
  BY <1>1
<1> HIDE DEF t, x
<1>3. \A i \in 1 .. Len(s) : s[i].kind = "tag" => s[i].n \in lo + 1 .. hi
  BY DEF Tagged
<1>4. \A i \in 1 .. Len(t) : t[i].kind = "tag" => t[i].n \in lo + 1 .. hi + 1
  <2> SUFFICES ASSUME NEW i \in 1 .. Len(t), t[i].kind = "tag"
               PROVE  t[i].n \in lo + 1 .. hi + 1
    OBVIOUS
  <2>1. CASE i \in 1 .. Len(s)
    <3>1. s[i].n \in lo + 1 .. hi
      BY <1>1, <1>3, <2>1
    <3> QED
      BY <1>1, <2>1, <3>1
  <2>2. CASE i = Len(s) + 1
    BY <1>0, <1>1, <2>2
  <2> QED
    BY <1>2, <2>1, <2>2
<1>5. ASSUME NEW i \in 1 .. Len(t), NEW j \in 1 .. Len(t), i < j,
             t[i].kind = "tag", t[j].kind = "tag"
      PROVE  t[i].n < t[j].n
  <2>1. i \in 1 .. Len(s) /\ t[i] = s[i]
    BY <1>1, <1>5
  <2>2. s[i].n \in lo + 1 .. hi
    BY <1>3, <1>5, <2>1
  <2>3. CASE j \in 1 .. Len(s)
    BY <1>1, <1>5, <2>1, <2>3 DEF Tagged
  <2>4. CASE j = Len(s) + 1
    BY <1>0, <1>1, <2>1, <2>2, <2>4
  <2> QED
    BY <1>2, <2>3, <2>4
<1>6. ASSUME NEW j \in 1 .. Len(t), t[j].kind = "tag", NEW n \in lo + 1 .. t[j].n
      PROVE  \E i \in 1 .. j : t[i] = TagItem(n)
  <2>1. CASE j \in 1 .. Len(s)
    <3>1. PICK i \in 1 .. j : s[i] = TagItem(n)
      BY <1>1, <1>6, <2>1 DEF Tagged
    <3>2. i \in 1 .. Len(s)
      BY <1>1, <2>1
    <3> QED
      BY <1>1, <3>1, <3>2
  <2>2. CASE j = Len(s) + 1
    <3>1. n \in lo + 1 .. hi \/ n = hi + 1
      BY <1>0, <1>1, <2>2
    <3>2. CASE n \in lo + 1 .. hi
      <4>1. PICK i \in 1 .. Len(s) : s[i] = TagItem(n)
        BY <3>2 DEF Full
      <4>2. i \in 1 .. j
        BY <1>1, <2>2
      <4> QED
        BY <1>1, <4>1, <4>2
    <3>3. CASE n = hi + 1
      BY <1>1, <2>2, <3>3 DEF x
    <3> QED
      BY <3>1, <3>2, <3>3
  <2> QED
    BY <1>2, <2>1, <2>2
<1>7. ASSUME NEW n \in lo + 1 .. hi + 1
      PROVE  \E i \in 1 .. Len(t) : t[i] = TagItem(n)
  <2>1. Len(s) + 1 \in 1 .. Len(t)
    BY <1>1
  <2>2. CASE n = hi + 1
    BY <1>1, <2>1, <2>2 DEF x
  <2>3. CASE n \in lo + 1 .. hi
    <3>1. PICK i \in 1 .. Len(s) : s[i] = TagItem(n)
      BY <2>3 DEF Full
    <3>2. i \in 1 .. Len(t)
      BY <1>1
    <3> QED
      BY <1>1, <3>1, <3>2
  <2> QED
    BY <2>2, <2>3
<1> QED
  BY <1>4, <1>5, <1>6, <1>7 DEF Tagged, Full, t, x

(* Of a stream that has broken off there is a part, perhaps with something   *)
(* behind it that is no tag.                                                 *)
Cut(s, k, t) ==
  /\ k \in 0 .. Len(s)
  /\ t \in Seq(Items)
  /\ Len(t) >= k
  /\ \A i \in 1 .. k : t[i] = s[i]
  /\ \A i \in k + 1 .. Len(t) : t[i].kind = "cut"

(* A stream that is cut keeps the tags in front of the cut. *)
LEMMA CutTagged ==
  ASSUME NEW s \in Seq(Items), NEW t, NEW k, Cut(s, k, t),
         NEW lo \in Nat, NEW hi \in Nat, Tagged(s, lo, hi)
  PROVE  Tagged(t, lo, hi)
<1>1. /\ Len(s) \in Nat /\ Len(t) \in Nat /\ k \in Nat /\ k <= Len(s)
  BY LenProperties DEF Cut
<1>2. \A i \in 1 .. Len(t) :
        t[i].kind = "tag" => i \in 1 .. k /\ i \in 1 .. Len(s) /\ t[i] = s[i]
  <2> SUFFICES ASSUME NEW i \in 1 .. Len(t), t[i].kind = "tag"
               PROVE  i \in 1 .. k /\ i \in 1 .. Len(s) /\ t[i] = s[i]
    OBVIOUS
  <2>1. i \notin k + 1 .. Len(t)
    BY DEF Cut
  <2>2. i \in 1 .. k /\ i \in 1 .. Len(s)
    BY <1>1, <2>1
  <2> QED
    BY <2>2 DEF Cut
<1>3. ASSUME NEW j \in 1 .. Len(t), t[j].kind = "tag", NEW n \in lo + 1 .. t[j].n
      PROVE  \E i \in 1 .. j : t[i] = TagItem(n)
  <2>1. j \in 1 .. k /\ j \in 1 .. Len(s) /\ t[j] = s[j]
    BY <1>2, <1>3
  <2>2. PICK i \in 1 .. j : s[i] = TagItem(n)
    BY <1>3, <2>1 DEF Tagged
  <2>3. i \in 1 .. k
    BY <1>1, <2>1
  <2> QED
    BY <2>2, <2>3 DEF Cut
<1>4. \A i \in 1 .. Len(t) : t[i].kind = "tag" => t[i].n \in lo + 1 .. hi
  BY <1>2 DEF Tagged
<1>5. \A i, j \in 1 .. Len(t) :
        i < j /\ t[i].kind = "tag" /\ t[j].kind = "tag" => t[i].n < t[j].n
  BY <1>2 DEF Tagged
<1> QED
  BY <1>3, <1>4, <1>5 DEF Tagged

(* Writing something else. *)
LEMMA OtherWritten ==
  ASSUME NEW s \in Seq(Items), NEW x \in Items, x.kind # "tag",
         NEW lo \in Nat, NEW hi \in Nat, Tagged(s, lo, hi)
  PROVE  /\ Tagged(Append(s, x), lo, hi)
         /\ Full(s, lo, hi) => Full(Append(s, x), lo, hi)
<1> DEFINE t == Append(s, x)
<1>1. /\ Len(s) \in Nat /\ Len(t) = Len(s) + 1
      /\ \A i \in 1 .. Len(s) : t[i] = s[i]
      /\ t[Len(s) + 1] = x
  BY AppendAt
<1> HIDE DEF t
<1>2. \A i \in 1 .. Len(t) : t[i].kind = "tag" => i \in 1 .. Len(s) /\ t[i] = s[i]
  <2> SUFFICES ASSUME NEW i \in 1 .. Len(t), t[i].kind = "tag"
               PROVE  i \in 1 .. Len(s)
    BY <1>1
  <2> QED
    BY <1>1
<1>3. ASSUME NEW j \in 1 .. Len(t), t[j].kind = "tag", NEW n \in lo + 1 .. t[j].n
      PROVE  \E i \in 1 .. j : t[i] = TagItem(n)
  <2>1. j \in 1 .. Len(s) /\ t[j] = s[j]
    BY <1>2, <1>3
  <2>2. PICK i \in 1 .. j : s[i] = TagItem(n)
    BY <1>3, <2>1 DEF Tagged
  <2>3. i \in 1 .. Len(s)
    BY <1>1, <2>1
  <2> QED
    BY <1>1, <2>2, <2>3
<1>4. \A i \in 1 .. Len(t) : t[i].kind = "tag" => t[i].n \in lo + 1 .. hi
  BY <1>2 DEF Tagged
<1>5. \A i, j \in 1 .. Len(t) :
        i < j /\ t[i].kind = "tag" /\ t[j].kind = "tag" => t[i].n < t[j].n
  BY <1>2 DEF Tagged
<1>6. ASSUME Full(s, lo, hi), NEW n \in lo + 1 .. hi
      PROVE  \E i \in 1 .. Len(t) : t[i] = TagItem(n)
  <2>1. PICK i \in 1 .. Len(s) : s[i] = TagItem(n)
    BY <1>6 DEF Full
  <2>2. i \in 1 .. Len(t)
    BY <1>1
  <2> QED
    BY <1>1, <2>1, <2>2
<1> QED
  BY <1>3, <1>4, <1>5, <1>6 DEF Tagged, Full, t

(* No tag is on a stream that is empty. *)
LEMMA NothingWritten ==
  ASSUME NEW lo, NEW hi
  PROVE  Tagged(<<>>, lo, hi)
BY DEF Tagged

(* An acknowledgement is on a stream once at most. *)
OneAckEach(s) == \A i, j \in AckPlaces(s) : s[i].n = s[j].n => i = j

(* The acknowledgements behind the first item of a stream. *)
LEMMA AcksOfTail ==
  ASSUME NEW s \in Seq(Items), s # <<>>
  PROVE  /\ \A i \in AckPlaces(Tail(s)) : i + 1 \in AckPlaces(s) /\ s[i + 1] = Tail(s)[i]
         /\ \A i \in AckPlaces(s) \ {1} : i - 1 \in AckPlaces(Tail(s)) /\ Tail(s)[i - 1] = s[i]
         /\ 1 \in AckPlaces(s) <=> Head(s).kind = "ack"
         /\ Head(s) = s[1]
         /\ AckPlaces(s) \subseteq Nat /\ AckPlaces(Tail(s)) \subseteq Nat \ {0}
<1> DEFINE t == Tail(s)
<1>1. /\ Len(s) \in Nat /\ Len(s) >= 1 /\ Head(s) = s[1]
      /\ Len(t) = Len(s) - 1
      /\ \A i \in 1 .. Len(t) : t[i] = s[i + 1]
  BY TailAt
<1> HIDE DEF t
<1>2. ASSUME NEW i \in AckPlaces(t)
      PROVE  i + 1 \in AckPlaces(s) /\ s[i + 1] = t[i] /\ i \in Nat \ {0}
  <2>1. i \in 1 .. Len(t) /\ t[i].kind = "ack"
    BY DEF AckPlaces
  <2>2. i + 1 \in 1 .. Len(s) /\ t[i] = s[i + 1]
    BY <1>1, <2>1
  <2> QED
    BY <1>1, <2>1, <2>2 DEF AckPlaces
<1>3. ASSUME NEW i \in AckPlaces(s) \ {1}
      PROVE  i - 1 \in AckPlaces(t) /\ t[i - 1] = s[i]
  <2>1. i \in 1 .. Len(s) /\ i # 1 /\ s[i].kind = "ack"
    BY DEF AckPlaces
  <2>2. i - 1 \in 1 .. Len(t) /\ (i - 1) + 1 = i
    BY <1>1, <2>1
  <2>3. t[i - 1] = s[i]
    BY <1>1, <2>2
  <2> QED
    BY <2>1, <2>2, <2>3 DEF AckPlaces
<1>4. 1 \in AckPlaces(s) <=> Head(s).kind = "ack"
  BY <1>1 DEF AckPlaces
<1>5. AckPlaces(s) \subseteq Nat
  BY <1>1 DEF AckPlaces
<1> QED
  BY <1>1, <1>2, <1>3, <1>4, <1>5 DEF t

(* Taking an acknowledgement off a stream, or something else. *)
LEMMA AckTaken ==
  ASSUME NEW s \in Seq(Items), s # <<>>, Head(s).kind = "ack", OneAckEach(s)
  PROVE  /\ OneAckEach(Tail(s))
         /\ Head(s).n \notin Acks(Tail(s))
         /\ Acks(s) = Acks(Tail(s)) \cup {Head(s).n}
<1> DEFINE t == Tail(s)
           A == AckPlaces(s)
           B == AckPlaces(t)
<1>1. /\ \A i \in B : i + 1 \in A /\ s[i + 1] = t[i]
      /\ \A i \in A \ {1} : i - 1 \in B /\ t[i - 1] = s[i]
      /\ 1 \in A /\ Head(s) = s[1]
      /\ A \subseteq Nat /\ B \subseteq Nat \ {0}
  BY AcksOfTail
<1> HIDE DEF t, A, B
<1>2. \A i, j \in A : s[i].n = s[j].n => i = j
  BY DEF OneAckEach, A
<1>3. \A i, j \in B : t[i].n = t[j].n => i = j
  <2> SUFFICES ASSUME NEW i \in B, NEW j \in B, t[i].n = t[j].n
               PROVE  i = j
    OBVIOUS
  <2>1. i + 1 = j + 1
    BY <1>1, <1>2
  <2> QED
    BY <1>1, <2>1
<1>4. \A i \in B : t[i].n # s[1].n
  <2> SUFFICES ASSUME NEW i \in B, t[i].n = s[1].n
               PROVE  FALSE
    OBVIOUS
  <2>1. i + 1 = 1
    BY <1>1, <1>2
  <2> QED
    BY <1>1, <2>1
<1>5. Acks(t) = {t[i].n : i \in B} /\ Acks(s) = {s[i].n : i \in A}
  BY DEF Acks, A, B
<1>6. Acks(s) = Acks(t) \cup {s[1].n}
  BY <1>1, <1>5
<1>7. OneAckEach(t)
  BY <1>3 DEF OneAckEach, B
<1>8. s[1].n \notin Acks(t)
  BY <1>4, <1>5
<1> QED
  BY <1>1, <1>6, <1>7, <1>8 DEF t

(* Taking an item that is no acknowledgement leaves them all. *)
LEMMA NoAckTaken ==
  ASSUME NEW s \in Seq(Items), s # <<>>, Head(s).kind # "ack", OneAckEach(s)
  PROVE  OneAckEach(Tail(s)) /\ Acks(Tail(s)) = Acks(s)
<1> DEFINE t == Tail(s)
           A == AckPlaces(s)
           B == AckPlaces(t)
<1>1. /\ \A i \in B : i + 1 \in A /\ s[i + 1] = t[i]
      /\ \A i \in A : i - 1 \in B /\ t[i - 1] = s[i]
      /\ A \subseteq Nat /\ B \subseteq Nat \ {0}
  BY AcksOfTail
<1> HIDE DEF t, A, B
<1>2. \A i, j \in A : s[i].n = s[j].n => i = j
  BY DEF OneAckEach, A
<1>3. \A i, j \in B : t[i].n = t[j].n => i = j
  <2> SUFFICES ASSUME NEW i \in B, NEW j \in B, t[i].n = t[j].n
               PROVE  i = j
    OBVIOUS
  <2>1. i + 1 = j + 1
    BY <1>1, <1>2
  <2> QED
    BY <1>1, <2>1
<1>4. Acks(t) = {t[i].n : i \in B} /\ Acks(s) = {s[i].n : i \in A}
  BY DEF Acks, A, B
<1>5. Acks(s) = Acks(t)
  BY <1>1, <1>4
<1>6. OneAckEach(t)
  BY <1>3 DEF OneAckEach, B
<1> QED
  BY <1>5, <1>6 DEF t

(* Writing an acknowledgement, or something else. *)
LEMMA AckWritten ==
  ASSUME NEW s \in Seq(Items), NEW n \in Nat, n \notin Acks(s), OneAckEach(s)
  PROVE  /\ OneAckEach(Append(s, AckItem(n)))
         /\ Acks(Append(s, AckItem(n))) = Acks(s) \cup {n}
<1> DEFINE x == AckItem(n)
           t == Append(s, x)
           m == Len(s) + 1
<1>0. x \in Items /\ x.kind = "ack" /\ x.n = n
  BY DEF AckItem, Items
<1>1. /\ Len(s) \in Nat /\ Len(t) = m
      /\ \A i \in 1 .. Len(s) : t[i] = s[i]
      /\ t[m] = x
  BY <1>0, AppendAt
<1> HIDE DEF t, x
<1>2. \A i : i \in 1 .. m <=> i \in 1 .. Len(s) \/ i = m
  BY <1>1
<1>3. AckPlaces(t) = AckPlaces(s) \cup {m}
  BY <1>0, <1>1, <1>2 DEF AckPlaces
<1>4. \A i \in AckPlaces(s) : t[i] = s[i] /\ s[i].n # n
  BY <1>1 DEF AckPlaces, Acks
<1> HIDE DEF m
<1>5. Acks(t) = Acks(s) \cup {n}
  BY <1>0, <1>1, <1>3, <1>4 DEF Acks
<1>6. OneAckEach(t)
  BY <1>0, <1>1, <1>3, <1>4 DEF OneAckEach
<1> QED
  BY <1>5, <1>6 DEF t, x

(* Writing an item that is no acknowledgement adds none. *)
LEMMA NoAckWritten ==
  ASSUME NEW s \in Seq(Items), NEW x \in Items, x.kind # "ack", OneAckEach(s)
  PROVE  OneAckEach(Append(s, x)) /\ Acks(Append(s, x)) = Acks(s)
<1> DEFINE t == Append(s, x)
           m == Len(s) + 1
<1>1. /\ Len(s) \in Nat /\ Len(t) = m
      /\ \A i \in 1 .. Len(s) : t[i] = s[i]
      /\ t[m] = x
  BY AppendAt
<1> HIDE DEF t
<1>2. \A i : i \in 1 .. m <=> i \in 1 .. Len(s) \/ i = m
  BY <1>1
<1>3. AckPlaces(t) = AckPlaces(s)
  BY <1>1, <1>2 DEF AckPlaces
<1>4. \A i \in AckPlaces(s) : t[i] = s[i]
  BY <1>1 DEF AckPlaces
<1> QED
  BY <1>3, <1>4 DEF Acks, OneAckEach, t

(* A cut adds no acknowledgement. *)
LEMMA CutAcks ==
  ASSUME NEW s \in Seq(Items), NEW t, NEW k, Cut(s, k, t), OneAckEach(s)
  PROVE  OneAckEach(t) /\ Acks(t) \subseteq Acks(s)
<1>1. /\ Len(s) \in Nat /\ Len(t) \in Nat /\ k \in Nat /\ k <= Len(s)
  BY LenProperties DEF Cut
<1>2. \A i \in AckPlaces(t) : i \in AckPlaces(s) /\ t[i] = s[i]
  <2> SUFFICES ASSUME NEW i \in AckPlaces(t) PROVE i \in AckPlaces(s) /\ t[i] = s[i]
    OBVIOUS
  <2>1. i \in 1 .. Len(t) /\ t[i].kind = "ack"
    BY DEF AckPlaces
  <2>2. i \notin k + 1 .. Len(t)
    BY <2>1 DEF Cut
  <2>3. i \in 1 .. k /\ i \in 1 .. Len(s)
    BY <1>1, <2>1, <2>2
  <2>4. t[i] = s[i]
    BY <2>3 DEF Cut
  <2> QED
    BY <2>1, <2>3, <2>4 DEF AckPlaces
<1> QED
  BY <1>2 DEF Acks, OneAckEach

(* An empty stream has none. *)
LEMMA NoAcks == OneAckEach(<<>>) /\ Acks(<<>>) = {}
BY DEF AckPlaces, Acks, OneAckEach

(* What remains of a stream is a cut of it. *)
LEMMA RemainsCut ==
  ASSUME NEW s \in Seq(Items), NEW t \in Remains(s)
  PROVE  \E k : Cut(s, k, t)
<1>1. Len(s) \in Nat
  BY LenProperties
<1>2. CASE t = s
  BY <1>1, <1>2 DEF Cut
<1>3. ASSUME NEW k \in 0 .. Len(s) - 1, NEW part \in {<<>>, <<CutItem>>},
             t = SubSeq(s, 1, k) \o part
      PROVE  Cut(s, k, t)
  <2> DEFINE b == SubSeq(s, 1, k)
  <2>1. k \in Nat /\ k <= Len(s) /\ k \in Int /\ 1 \in Int
    BY <1>1
  <2>2. \A i \in 1 .. k : i \in 1 .. Len(s) /\ s[i] \in Items
    BY <1>1, <2>1, ElementOfSeq
  <2>3. /\ b \in Seq(Items) /\ Len(b) = IF 1 <= k THEN k - 1 + 1 ELSE 0
        /\ \A i \in 1 .. k - 1 + 1 : b[i] = s[1 + i - 1]
    BY <2>1, <2>2, SubSeqProperties
  <2>4. k - 1 + 1 = k /\ \A i \in 1 .. k : 1 + i - 1 = i
    BY <2>1
  <2> HIDE DEF b
  <2>5. Len(b) = k /\ \A i \in 1 .. k : b[i] = s[i]
    BY <2>1, <2>3, <2>4
  <2>6. CutItem \in Items /\ CutItem.kind = "cut"
    BY DEF CutItem, Items
  <2>7. /\ part \in Seq(Items) /\ Len(part) \in {0, 1}
        /\ \A i \in 1 .. Len(part) : part[i].kind = "cut"
    <3>1. CASE part = <<>>
      BY <3>1
    <3>2. CASE part = <<CutItem>>
      BY <2>6, <3>2
    <3> QED
      BY <3>1, <3>2
  <2>8. /\ b \o part \in Seq(Items) /\ Len(b \o part) = k + Len(part)
        /\ \A i \in 1 .. k + Len(part) :
             (b \o part)[i] = IF i <= k THEN b[i] ELSE part[i - k]
    BY <2>3, <2>5, <2>7, ConcatProperties
  <2>9. t = b \o part
    BY <1>3 DEF b
  <2>10. \A i \in 1 .. k : t[i] = s[i]
    <3> SUFFICES ASSUME NEW i \in 1 .. k PROVE t[i] = s[i]
      OBVIOUS
    <3>1. i \in 1 .. k + Len(part) /\ i <= k
      BY <2>1, <2>7
    <3> QED
      BY <2>5, <2>8, <2>9, <3>1
  <2>11. \A i \in k + 1 .. Len(t) : t[i].kind = "cut"
    <3> SUFFICES ASSUME NEW i \in k + 1 .. Len(t) PROVE t[i].kind = "cut"
      OBVIOUS
    <3>1. /\ i \in 1 .. k + Len(part) /\ ~(i <= k) /\ i - k \in 1 .. Len(part)
      BY <2>1, <2>7, <2>8, <2>9
    <3> QED
      BY <2>7, <2>8, <2>9, <3>1
  <2>12. k \in 0 .. Len(s) /\ Len(t) >= k /\ t \in Seq(Items)
    BY <1>1, <2>7, <2>8, <2>9
  <2> QED
    BY <2>10, <2>11, <2>12 DEF Cut
<1> QED
  BY <1>2, <1>3 DEF Remains

-----------------------------------------------------------------------------
(* The inductive invariant of the link: the types of its variables; what is *)
(* on the stream out; where the acknowledgements of the parsed tags are,    *)
(* which is one place each; and that an end that has ended has no threads.  *)
LinkTypes ==
  /\ peerAlive \in BOOLEAN
  /\ out \in Seq(Items) /\ in \in Seq(Items)
  /\ parsed \in Nat
  /\ others \in 0 .. MaxOthers
  /\ replies \in Nat

TagsOut ==
  /\ parsed <= written
  /\ Tagged(out, parsed, written)
  /\ alive /\ peerAlive => Full(out, parsed, written)

Awaited ==
  /\ unanswered \cup answered = 1 .. written
  /\ unanswered \cap answered = {}

AcksIn ==
  /\ answers \cup Acks(in) \cup answered \subseteq 1 .. parsed
  /\ answers \cap Acks(in) = {}
  /\ answers \cap answered = {}
  /\ Acks(in) \cap answered = {}
  /\ OneAckEach(in)
  /\ alive /\ peerAlive => 1 .. parsed \subseteq answers \cup Acks(in) \cup answered

Ended ==
  /\ ~peerAlive => answers = {}
  /\ ~alive => replies = 0

LinkInv == LinkTypes /\ TagsOut /\ Awaited /\ AcksIn /\ Ended

(* A call has a number before its tag is written. *)
LEMMA WrittenNat ==
  ASSUME TypeInv
  PROVE  written \in Nat /\ written <= sent /\ sent \in Nat /\ written <= MaxTags
BY SentTagsAssumption DEF TypeInv, QueuePart, AppOK, AppTypes, written

(* The threads of this end write nothing but in WriteTag, and read no        *)
(* acknowledgement but in ParseAck.                                         *)
LEMMA LocalKeeps ==
  ASSUME TypeInv, Local
  PROVE  written' = written /\ UNCHANGED <<unanswered, answered>> /\ alive
<1>t. sent \in Nat
  BY WrittenNat
<1>0. CASE CreateTag
  <2>1. appPc = "idle" /\ appPc' = "push" /\ sent' = sent + 1 /\ UNCHANGED ackVars /\ alive
    BY <1>0 DEF CreateTag
  <2>2. (sent + 1) - 1 = sent
    BY <1>t
  <2> QED
    BY <2>1, <2>2 DEF ackVars, written
<1>1. CASE PushTag \/ StartTimer \/ Quit
  BY <1>1 DEF PushTag, StartTimer, Quit, appVars, ackVars, written
<1>2. CASE TRY_Clear_SentTags_Queue
  BY <1>2
  DEF TRY_Clear_SentTags_Queue, TestSize, BeginErase, TestTag, MoveTag, ReadEnd, EraseTail,
      ClearDeadMemory, appVars, ackVars, written
<1>3. ASSUME NEW c \in checks, CheckAcknowledgement(c)
      PROVE  written' = written /\ UNCHANGED <<unanswered, answered>> /\ alive
  BY <1>3
  DEF CheckAcknowledgement, BeginCheck, CompareTag, MarkAcked, CheckDeadMemory, appVars, written
<1>4. CASE CheckTagList \/ \E n \in Expiring : Expire(n)
  BY <1>4
  DEF CheckTagList, Beat, VisitTag, HandleTimeOut, MarkTimedOut, BeatDeadMemory, Expire,
      appVars, ackVars, written
<1> QED
  BY <1>0, <1>1, <1>2, <1>3, <1>4 DEF Local

(* A step of the link is a step of the sending half, or leaves it alone.    *)
LEMMA StepOfSentTags ==
  ASSUME TypeInv, [LinkNext]_allVars
  PROVE  [Next]_vars
<1>1. CASE LocalStep
  BY <1>1 DEF LocalStep, Local, Next, SendTag
<1>2. CASE SendOverLink
  BY <1>2 DEF SendOverLink, Next, SendTag
<1>3. CASE ReceiveAck
  <2>1. ParseAck(Head(in).n)
    BY <1>3 DEF ReceiveAck
  <2>2. Head(in).n \in PeerAnswers
    BY <2>1, TagLinkAssumption DEF ParseAck, TypeInv, AckPart, AckTypes, Tags
  <2> QED
    BY <2>1, <2>2 DEF Next, ParseItem
<1>4. CASE ReceiveOther \/ ReceivePart
  BY <1>4 DEF ReceiveOther, ReceivePart, Next, ParseItem
<1>5. CASE TCPSendAck \/ Peer
  BY <1>5 DEF TCPSendAck, Peer, PeerReceive, PeerSendAck, PeerSendTag, PeerEnd
<1>6. CASE UNCHANGED allVars
  BY <1>6 DEF allVars
<1> QED
  BY <1>1, <1>2, <1>3, <1>4, <1>5, <1>6 DEF LinkNext, ReceiveItem

(* The link restricts the order of the steps of SentTags and adds no step   *)
(* to them, so what is proved of every behaviour of SentTags is true of the *)
(* sending half of a link.                                                  *)
THEOREM LinkIsSentTags == LinkSpec => Spec
<1>1. LinkInit => Init
  BY DEF LinkInit
<1>2. Init => TypeInv
  BY InitTypeInv
<1>3. TypeInv /\ [Next]_vars => TypeInv'
  BY NextTypeInv
<1>4. TypeInv /\ [LinkNext]_allVars => [Next]_vars
  BY StepOfSentTags
<1> QED
  BY <1>1, <1>2, <1>3, <1>4, PTL DEF LinkSpec, Spec

(* The parts of the invariant are about few variables each. *)
LEMMA PartsOfLink ==
  ASSUME LinkInv, written' = written
  PROVE  /\ UNCHANGED <<peerAlive, out, in, parsed, others, replies>> => LinkTypes'
         /\ UNCHANGED <<parsed, out, peerAlive>> /\ (alive' => alive) => TagsOut'
         /\ UNCHANGED <<unanswered, answered>> => Awaited'
         /\ /\ UNCHANGED <<in, parsed, answers, answered, peerAlive>>
            /\ alive' => alive
            => AcksIn'
BY DEF LinkInv, LinkTypes, TagsOut, Awaited, AcksIn, Acks, AckPlaces, OneAckEach

(* A stream that is cut keeps what the invariant says of it.                *)
LEMMA OutCut ==
  ASSUME TypeInv, LinkInv, written' = written, parsed' = parsed,
         ~alive', out' \in Remains(out)
  PROVE  TagsOut' /\ out' \in Seq(Items)
<1>1. PICK k : Cut(out, k, out')
  BY RemainsCut DEF LinkInv, LinkTypes
<1>2. Tagged(out', parsed, written)
  BY <1>1, CutTagged, WrittenNat DEF LinkInv, LinkTypes, TagsOut
<1> QED
  BY <1>1, <1>2 DEF Cut, LinkInv, TagsOut

LEMMA InitLinkInv == LinkInit => LinkInv
<1> SUFFICES ASSUME LinkInit
             PROVE  LinkInv
  OBVIOUS
<1>1. written = 0 /\ 1 .. 0 = {}
  BY DEF LinkInit, Init, written
<1>2. out = <<>> /\ in = <<>> /\ parsed = 0
  BY DEF LinkInit
<1>3. LinkTypes
  BY TagLinkAssumption DEF LinkInit, LinkTypes
<1>4. TagsOut
  BY <1>1, <1>2, NothingWritten DEF TagsOut, Full
<1>5. Awaited
  BY <1>1 DEF LinkInit, Init, Awaited
<1>6. AcksIn
  BY <1>1, NoAcks DEF LinkInit, Init, AcksIn
<1>7. Ended
  BY DEF LinkInit, Ended
<1> QED
  BY <1>3, <1>4, <1>5, <1>6, <1>7 DEF LinkInv

LEMMA LinkStep ==
  ASSUME TypeInv, LinkInv, [LinkNext]_allVars
  PROVE  LinkInv'
<1>0. /\ LinkTypes /\ TagsOut /\ Awaited /\ AcksIn /\ Ended
      /\ written \in Nat /\ sent \in Nat
  BY WrittenNat DEF LinkInv
<1>1. CASE LocalStep
  <2>1. written' = written /\ UNCHANGED <<unanswered, answered>> /\ alive
    BY <1>1, LocalKeeps DEF LocalStep
  <2>2. CASE UNCHANGED linkVars
    <3>1. UNCHANGED <<peerAlive, parsed, answers, others, out, in, replies>>
      BY <2>2 DEF linkVars, peerVars
    <3>2. Ended'
      BY <1>0, <1>1, <2>1, <3>1 DEF Ended, LocalStep, End, peerVars
    <3> QED
      BY <2>1, <3>1, <3>2, PartsOfLink DEF LinkInv
  <2>3. CASE ~alive' /\ End
    <3>1. /\ UNCHANGED <<peerAlive, parsed, answers, others>>
          /\ out' \in Remains(out) /\ in' = <<>> /\ replies' = 0
      BY <2>3 DEF End, peerVars
    <3>2. TagsOut' /\ out' \in Seq(Items)
      BY <2>1, <2>3, <3>1, OutCut
    <3>3. LinkTypes'
      BY <1>0, <3>1, <3>2 DEF LinkTypes
    <3>4. Awaited'
      BY <1>0, <2>1 DEF Awaited
    <3>5. OneAckEach(in') /\ Acks(in') = {}
      BY <3>1, NoAcks
    <3>6. AcksIn'
      BY <1>0, <2>1, <2>3, <3>1, <3>5 DEF AcksIn
    <3>7. Ended'
      BY <1>0, <3>1 DEF Ended
    <3> QED
      BY <3>2, <3>3, <3>4, <3>6, <3>7 DEF LinkInv
  <2> QED
    BY <1>1, <2>2, <2>3 DEF LocalStep
<1>2. CASE SendOverLink
  <2>1. /\ alive /\ alive' = alive /\ appPc = "write" /\ appPc' = "idle" /\ sent' = sent
        /\ unanswered' = unanswered \cup {sent} /\ UNCHANGED answered
        /\ Write(TagItem(sent)) /\ UNCHANGED <<peerAlive, parsed, answers, others, in, replies>>
    BY <1>2 DEF SendOverLink, WriteTag, peerVars
  <2>2. written' = written + 1 /\ sent = written + 1
    BY <1>0, <2>1 DEF written, TypeInv, QueuePart, AppOK
  <2>3. TagItem(sent) \in Items
    BY <1>0 DEF TagItem, Items
  <2>4. ASSUME peerAlive PROVE TagsOut' /\ out' \in Seq(Items)
    <3>1. out' = Append(out, TagItem(written + 1))
      BY <2>1, <2>2, <2>4 DEF Write
    <3>2. /\ Tagged(Append(out, TagItem(written + 1)), parsed, written + 1)
          /\ Full(Append(out, TagItem(written + 1)), parsed, written + 1)
      BY <1>0, <2>1, <2>4, TagWritten DEF LinkTypes, TagsOut
    <3>3. TagsOut'
      BY <1>0, <2>1, <2>2, <3>1, <3>2 DEF LinkTypes, TagsOut
    <3>4. out' \in Seq(Items)
      BY <1>0, <2>2, <2>3, <3>1 DEF LinkTypes
    <3> QED
      BY <3>3, <3>4
  <2>5. ASSUME ~peerAlive PROVE TagsOut' /\ out' \in Seq(Items)
    <3>1. out' = out
      BY <2>1, <2>5 DEF Write
    <3>2. Tagged(out, parsed, written + 1)
      BY <1>0 DEF Tagged, TagsOut, LinkTypes
    <3> QED
      BY <1>0, <2>1, <2>2, <2>5, <3>1, <3>2 DEF TagsOut, LinkTypes
  <2>6. TagsOut' /\ out' \in Seq(Items)
    BY <2>4, <2>5
  <2>7. LinkTypes'
    BY <1>0, <2>1, <2>6 DEF LinkTypes
  <2>8. Awaited'
    <3>1. 1 .. written + 1 = (1 .. written) \cup {sent} /\ sent \notin 1 .. written
      BY <1>0, <2>2
    <3> QED
      BY <1>0, <2>1, <2>2, <3>1 DEF Awaited
  <2>9. AcksIn'
    BY <1>0, <2>1 DEF AcksIn
  <2>10. Ended'
    BY <1>0, <2>1 DEF Ended
  <2> QED
    BY <2>6, <2>7, <2>8, <2>9, <2>10 DEF LinkInv
<1>3. CASE ReceiveAck
  <2> DEFINE n == Head(in).n
  <2>1. /\ in # <<>> /\ Head(in).kind = "ack" /\ in' = Tail(in)
        /\ UNCHANGED <<peerAlive, parsed, answers, others, out, replies>>
        /\ alive' = alive /\ sent' = sent /\ appPc' = appPc
        /\ n \in unanswered /\ unanswered' = unanswered \ {n} /\ answered' = answered \cup {n}
    BY <1>3 DEF ReceiveAck, ParseAck, appVars, peerVars
  <2>2. written' = written
    BY <2>1 DEF written
  <2>3. in' \in Seq(Items)
    BY <1>0, <2>1, TailAt DEF LinkTypes
  <2>4. OneAckEach(in') /\ n \notin Acks(in') /\ Acks(in) = Acks(in') \cup {n}
    BY <1>0, <2>1, AckTaken DEF LinkTypes, AcksIn
  <2> HIDE DEF n
  <2>5. LinkTypes' /\ TagsOut' /\ Ended'
    BY <1>0, <2>1, <2>2, <2>3 DEF LinkTypes, TagsOut, Ended
  <2>6. Awaited'
    BY <1>0, <2>1, <2>2 DEF Awaited
  <2>7. AcksIn'
    BY <1>0, <2>1, <2>4 DEF AcksIn
  <2> QED
    BY <2>5, <2>6, <2>7 DEF LinkInv
<1>4. CASE ReceiveOther
  <2>1. /\ in # <<>> /\ Head(in).kind # "ack" /\ in' = Tail(in) /\ replies' = replies + 1
        /\ UNCHANGED <<peerAlive, parsed, answers, others, out>>
        /\ UNCHANGED <<alive, sent, appPc, unanswered, answered>> /\ alive
    BY <1>4 DEF ReceiveOther, ParseOther, OtherItem, appVars, ackVars, peerVars
  <2>2. written' = written
    BY <2>1 DEF written
  <2>3. in' \in Seq(Items)
    BY <1>0, <2>1, TailAt DEF LinkTypes
  <2>4. OneAckEach(in') /\ Acks(in') = Acks(in)
    BY <1>0, <2>1, NoAckTaken DEF LinkTypes, AcksIn
  <2>5. LinkTypes' /\ TagsOut' /\ Ended'
    BY <1>0, <2>1, <2>2, <2>3 DEF LinkTypes, TagsOut, Ended
  <2>6. Awaited'
    BY <1>0, <2>1, <2>2 DEF Awaited
  <2>7. AcksIn'
    BY <1>0, <2>1, <2>4 DEF AcksIn
  <2> QED
    BY <2>5, <2>6, <2>7 DEF LinkInv
<1>5. CASE ReceivePart
  <2>1. /\ UNCHANGED <<peerAlive, parsed, answers, others, out, in, replies>>
        /\ UNCHANGED <<alive, sent, appPc, unanswered, answered>>
    BY <1>5 DEF ReceivePart, ParseOther, appVars, ackVars, linkVars, peerVars
  <2>2. written' = written
    BY <2>1 DEF written
  <2>3. Ended'
    BY <1>0, <2>1 DEF Ended
  <2> QED
    BY <2>1, <2>2, <2>3, PartsOfLink DEF LinkInv
<1>6. CASE TCPSendAck
  <2>1. /\ alive /\ replies > 0 /\ replies' = replies - 1 /\ Write(OtherItem)
        /\ UNCHANGED <<peerAlive, parsed, answers, others, in>>
        /\ UNCHANGED <<alive, sent, appPc, unanswered, answered>>
    BY <1>6 DEF TCPSendAck, vars, appVars, ackVars, peerVars
  <2>2. written' = written
    BY <2>1 DEF written
  <2>3. OtherItem \in Items /\ OtherItem.kind # "tag"
    BY DEF OtherItem, Items
  <2>4. out' \in Seq(Items) /\ TagsOut'
    <3>1. CASE peerAlive
      <4>1. out' = Append(out, OtherItem)
        BY <2>1, <3>1 DEF Write
      <4>2. /\ Tagged(out', parsed, written)
            /\ Full(out, parsed, written) => Full(out', parsed, written)
        BY <1>0, <2>3, <4>1, OtherWritten DEF LinkTypes, TagsOut
      <4> QED
        BY <1>0, <2>1, <2>2, <2>3, <4>1, <4>2 DEF LinkTypes, TagsOut
    <3>2. CASE ~peerAlive
      BY <1>0, <2>1, <2>2, <3>2 DEF LinkTypes, TagsOut, Write
    <3> QED
      BY <1>0, <3>1, <3>2 DEF LinkTypes
  <2>5. LinkTypes' /\ Ended'
    BY <1>0, <2>1, <2>4 DEF LinkTypes, Ended
  <2>6. Awaited' /\ AcksIn'
    BY <1>0, <2>1, <2>2 DEF Awaited, AcksIn
  <2> QED
    BY <2>4, <2>5, <2>6 DEF LinkInv
<1>7. CASE PeerReceive
  <2>1. /\ peerAlive /\ out # <<>> /\ out' = Tail(out)
        /\ parsed' = IF Head(out).kind = "tag" THEN parsed + 1 ELSE parsed
        /\ answers' = answers \cup Answered(Head(out))
        /\ UNCHANGED <<peerAlive, in, others, replies>>
        /\ UNCHANGED <<alive, sent, appPc, unanswered, answered>>
    BY <1>7 DEF PeerReceive, vars, appVars, ackVars
  <2>2. written' = written
    BY <2>1 DEF written
  <2>3. out' \in Seq(Items)
    BY <1>0, <2>1, TailAt DEF LinkTypes
  <2>4. ASSUME Head(out).kind = "tag" PROVE TagsOut' /\ AcksIn' /\ parsed' \in Nat
    <3>1. /\ Head(out).n = parsed + 1 /\ parsed + 1 <= written
          /\ Tagged(Tail(out), parsed + 1, written)
          /\ Full(out, parsed, written) => Full(Tail(out), parsed + 1, written)
      BY <1>0, <2>1, <2>4, TagTaken DEF LinkTypes, TagsOut
    <3>2. parsed' = parsed + 1 /\ answers' = answers \cup {parsed + 1}
      BY <2>1, <2>4, <3>1 DEF Answered
    <3>3. TagsOut'
      BY <1>0, <2>1, <2>2, <3>1, <3>2 DEF TagsOut
    <3>4. 1 .. parsed + 1 = (1 .. parsed) \cup {parsed + 1} /\ parsed + 1 \notin 1 .. parsed
      BY <1>0 DEF LinkTypes
    <3>5. AcksIn'
      BY <1>0, <2>1, <3>2, <3>4 DEF AcksIn
    <3> QED
      BY <1>0, <2>1, <2>3, <3>2, <3>3, <3>5 DEF LinkTypes
  <2>5. ASSUME Head(out).kind # "tag" PROVE TagsOut' /\ AcksIn' /\ parsed' \in Nat
    <3>1. /\ Tagged(Tail(out), parsed, written)
          /\ Full(out, parsed, written) => Full(Tail(out), parsed, written)
      BY <1>0, <2>1, <2>5, OtherTaken DEF LinkTypes, TagsOut
    <3>2. parsed' = parsed /\ answers' = answers
      BY <2>1, <2>5 DEF Answered
    <3>3. TagsOut'
      BY <1>0, <2>1, <2>2, <3>1, <3>2 DEF TagsOut
    <3>4. AcksIn'
      BY <1>0, <2>1, <3>2 DEF AcksIn
    <3> QED
      BY <1>0, <2>1, <2>3, <3>2, <3>3, <3>4 DEF LinkTypes
  <2>6. TagsOut' /\ AcksIn' /\ parsed' \in Nat
    BY <2>4, <2>5
  <2>7. LinkTypes' /\ Awaited' /\ Ended'
    BY <1>0, <2>1, <2>2, <2>3, <2>6 DEF LinkTypes, Awaited, Ended
  <2> QED
    BY <2>6, <2>7 DEF LinkInv
<1>8. ASSUME NEW n \in Tags, PeerSendAck(n)
      PROVE  LinkInv'
  <2>1. /\ peerAlive /\ n \in answers /\ answers' = answers \ {n} /\ PeerWrite(AckItem(n))
        /\ UNCHANGED <<peerAlive, out, parsed, others, replies>>
        /\ UNCHANGED <<alive, sent, appPc, unanswered, answered>>
    BY <1>8 DEF PeerSendAck, vars, appVars, ackVars
  <2>2. written' = written
    BY <2>1 DEF written
  <2>3. n \in Nat /\ n \notin Acks(in)
    BY <1>0, <2>1 DEF AcksIn, LinkTypes
  <2>4. ASSUME alive PROVE AcksIn' /\ in' \in Seq(Items)
    <3>1. in' = Append(in, AckItem(n)) /\ AckItem(n) \in Items
      BY <2>1, <2>3, <2>4 DEF PeerWrite, AckItem, Items
    <3>2. OneAckEach(in') /\ Acks(in') = Acks(in) \cup {n}
      BY <1>0, <2>3, <3>1, AckWritten DEF LinkTypes, AcksIn
    <3>3. AcksIn'
      BY <1>0, <2>1, <3>2 DEF AcksIn
    <3> QED
      BY <1>0, <3>1, <3>3 DEF LinkTypes
  <2>5. ASSUME ~alive PROVE AcksIn' /\ in' \in Seq(Items)
    <3>1. in' = in
      BY <2>1, <2>5 DEF PeerWrite
    <3> QED
      BY <1>0, <2>1, <2>5, <3>1 DEF AcksIn, LinkTypes
  <2>6. AcksIn' /\ in' \in Seq(Items)
    BY <2>4, <2>5
  <2>7. LinkTypes' /\ TagsOut' /\ Awaited' /\ Ended'
    BY <1>0, <2>1, <2>2, <2>6 DEF LinkTypes, TagsOut, Awaited, Ended
  <2> QED
    BY <2>6, <2>7 DEF LinkInv
<1>9. CASE PeerSendTag
  <2>1. /\ peerAlive /\ others < MaxOthers /\ others' = others + 1 /\ PeerWrite(OtherItem)
        /\ UNCHANGED <<peerAlive, out, parsed, answers, replies>>
        /\ UNCHANGED <<alive, sent, appPc, unanswered, answered>>
    BY <1>9 DEF PeerSendTag, vars, appVars, ackVars
  <2>2. written' = written
    BY <2>1 DEF written
  <2>3. OtherItem \in Items /\ OtherItem.kind # "ack"
    BY DEF OtherItem, Items
  <2>4. ASSUME alive PROVE AcksIn' /\ in' \in Seq(Items)
    <3>1. in' = Append(in, OtherItem)
      BY <2>1, <2>4 DEF PeerWrite
    <3>2. OneAckEach(in') /\ Acks(in') = Acks(in)
      BY <1>0, <2>3, <3>1, NoAckWritten DEF LinkTypes, AcksIn
    <3> QED
      BY <1>0, <2>1, <2>3, <3>1, <3>2 DEF LinkTypes, AcksIn
  <2>5. ASSUME ~alive PROVE AcksIn' /\ in' \in Seq(Items)
    BY <1>0, <2>1, <2>5 DEF PeerWrite, LinkTypes, AcksIn
  <2>6. AcksIn' /\ in' \in Seq(Items)
    BY <2>4, <2>5
  <2>7. LinkTypes' /\ TagsOut' /\ Awaited' /\ Ended'
    BY <1>0, <2>1, <2>2, <2>6, TagLinkAssumption DEF LinkTypes, TagsOut, Awaited, Ended
  <2> QED
    BY <2>6, <2>7 DEF LinkInv
<1>10. CASE PeerEnd
  <2>1. /\ peerAlive' = FALSE /\ answers' = {} /\ out' = <<>> /\ in' \in Remains(in)
        /\ UNCHANGED <<parsed, others, replies>>
        /\ UNCHANGED <<alive, sent, appPc, unanswered, answered>>
    BY <1>10 DEF PeerEnd, vars, appVars, ackVars
  <2>2. written' = written
    BY <2>1 DEF written
  <2>3. PICK k : Cut(in, k, in')
    BY <1>0, <2>1, RemainsCut DEF LinkTypes
  <2>4. OneAckEach(in') /\ Acks(in') \subseteq Acks(in) /\ in' \in Seq(Items)
    BY <1>0, <2>3, CutAcks DEF LinkTypes, AcksIn, Cut
  <2>5. LinkTypes' /\ Awaited' /\ Ended'
    <3>0. <<>> \in Seq(Items)
      OBVIOUS
    <3>1. LinkTypes'
      BY <1>0, <2>1, <2>4, <3>0 DEF LinkTypes
    <3>2. Awaited' /\ Ended'
      BY <1>0, <2>1, <2>2 DEF Awaited, Ended
    <3> QED
      BY <3>1, <3>2
  <2>6. TagsOut'
    BY <1>0, <2>1, <2>2, NothingWritten DEF TagsOut
  <2>7. AcksIn'
    BY <1>0, <2>1, <2>4 DEF AcksIn
  <2> QED
    BY <2>5, <2>6, <2>7 DEF LinkInv
<1>11. CASE UNCHANGED allVars
  <2>1. /\ UNCHANGED <<peerAlive, parsed, answers, others, out, in, replies>>
        /\ UNCHANGED <<alive, sent, appPc, unanswered, answered>>
    BY <1>11 DEF allVars, vars, appVars, ackVars, linkVars, peerVars
  <2>2. written' = written
    BY <2>1 DEF written
  <2>3. Ended'
    BY <1>0, <2>1 DEF Ended
  <2> QED
    BY <2>1, <2>2, <2>3, PartsOfLink DEF LinkInv
<1> QED
  BY <1>1, <1>2, <1>3, <1>4, <1>5, <1>6, <1>7, <1>8, <1>9, <1>10, <1>11
  DEF LinkNext, ReceiveItem, Peer

(* Tags are parsed in the order they were written in, and of every tag that  *)
(* was parsed the acknowledgement is in one place: in its TCPSendAck thread, *)
(* on the stream, or read; it can only get lost with a process.              *)
THEOREM LinkInvariant == LinkSpec => []LinkInv
<1>1. LinkSpec => []TypeInv
  BY LinkIsSentTags, TypeInvariant, PTL
<1>2. LinkInit => LinkInv
  BY InitLinkInv
<1>3. TypeInv /\ LinkInv /\ [LinkNext]_allVars => LinkInv'
  BY LinkStep
<1> QED
  BY <1>1, <1>2, <1>3, PTL DEF LinkSpec

(* The type of the link is part of its invariant. *)
THEOREM LinkTypeCorrect == LinkSpec => []LinkTypeOK
<1>1. TypeInv /\ LinkInv => LinkTypeOK
  <2> SUFFICES ASSUME TypeInv, LinkInv
               PROVE  LinkTypeOK
    OBVIOUS
  <2>1. /\ LinkTypes /\ TagsOut /\ Awaited /\ AcksIn /\ Ended /\ written \in Nat
    BY WrittenNat DEF LinkInv
  <2>2. parsed \in 0 .. written
    BY <2>1 DEF LinkTypes, TagsOut
  <2>3. Acks(in) \subseteq unanswered
    <3>1. 1 .. parsed \subseteq 1 .. written
      BY <2>1, <2>2
    <3> QED
      BY <2>1, <3>1 DEF AcksIn, Awaited
  <2>4. Len(in) \in Nat /\ DOMAIN in = 1 .. Len(in)
    BY <2>1, LenProperties DEF LinkTypes
  <2>5. \A i \in DOMAIN in : in[i].kind = "ack" => in[i].n \in unanswered
    BY <2>3, <2>4 DEF Acks, AckPlaces
  <2> QED
    BY <2>1, <2>2, <2>5 DEF LinkTypeOK, LinkTypes, AcksIn, Ended
<1>2. LinkSpec => []TypeInv
  BY LinkIsSentTags, TypeInvariant, PTL
<1> QED
  BY <1>1, <1>2, LinkInvariant, PTL

-----------------------------------------------------------------------------
(* While the identities are fresh, a walk that matches is at its own tag,   *)
(* and a tag that is marked since it was started has had its                *)
(* acknowledgement read, even if another walk was caught by a reallocation. *)
HitsOwn == \A c \in checks : c.hit => c.pos = c.n

MarksAnswered ==
  \A i \in 1 .. Len(queue) : Started(queue[i]) /\ queue[i].acked => i \in answered

MarksInv == FreshIds => HitsOwn /\ MarksAnswered

(* TAG_Q_CheckAck can only match the tag meant.                             *)
LEMMA OwnMatch ==
  ASSUME TypeInv, Fresh, sent <= AckIds, NEW c \in checks, c.pos > 0, Live(c), Matches(c)
  PROVE  c.pos = c.n
<1>1. /\ queue \in Seq(Objects) /\ Len(queue) \in Nat /\ Len(queue) <= sent
      /\ sent \in Nat /\ AckIds \in Nat \ {0} /\ c \in Checks
  BY QueueFacts, SentTagsAssumption DEF TypeInv, AckPart, AckTypes
<1>2. c.pos \in 1 .. Len(queue) /\ c.pos \in 1 .. sent
  BY <1>1 DEF Live, Checks
<1>3. c.n \in 1 .. sent
  BY <1>1 DEF Fresh, FreshChecks, FreshAcks
<1>4. \A i \in 1 .. sent : id[i] = i - 1
  <2>1. \A i \in 1 .. sent : (i - 1) % AckIds = i - 1
    BY <1>1
  <2> QED
    BY <2>1 DEF Fresh, FreshQueue
<1>5. id[c.pos] = id[c.n]
  BY <1>2 DEF Matches, Fresh, FreshQueue
<1> QED
  BY <1>1, <1>2, <1>3, <1>4, <1>5

LEMMA MarksStep ==
  ASSUME TypeInv, FreshInv, MarksInv, [Next]_vars
  PROVE  MarksInv'
<1> SUFFICES ASSUME FreshIds'
             PROVE  HitsOwn' /\ MarksAnswered'
  BY DEF MarksInv
<1>q. /\ queue \in Seq(Objects) /\ Len(queue) \in Nat
      /\ sent \in Nat /\ MaxTags \in Nat /\ AckIds \in Nat
      /\ appPc # "idle" => sent > 0
      /\ checks \subseteq Checks
  BY QueueFacts, SentTagsAssumption DEF TypeInv, AckPart, AckTypes
<1>e. /\ Fresh /\ ~erased /\ ~Clearing /\ ~Clearing'
      /\ ~(BeginErase \/ TestTag \/ MoveTag \/ ReadEnd \/ EraseTail \/ ClearDeadMemory)
  BY NotErased DEF FreshIds
<1>a. sent <= AckIds
  <2>2. sent' = sent \/ sent' = sent + 1
    BY <1>e
    DEF Next, SendTag, CreateTag, PushTag, StartTimer, WriteTag, ParseItem, ParseAck,
        ParseOther, TRY_Clear_SentTags_Queue, TestSize, CheckAcknowledgement, BeginCheck,
        CompareTag, MarkAcked, CheckDeadMemory, CheckTagList, Beat, VisitTag, HandleTimeOut,
        MarkTimedOut, BeatDeadMemory, Expire, Quit, vars, appVars
  <2> QED
    BY <1>q, <2>2 DEF FreshIds
<1>0. HitsOwn /\ MarksAnswered
  BY <1>a, <1>e DEF MarksInv, FreshIds
<1>1. CASE UNCHANGED <<queue, answered, checks>>
  BY <1>0, <1>1 DEF HitsOwn, MarksAnswered
<1>2. CASE PushTag
  <2>1. PICK yes \in BOOLEAN : Moved(yes)
    BY <1>2 DEF PushTag
  <2>2. PICK garbage \in BOOLEAN : queue' = Append(queue, NewObject(sent, garbage))
    BY <1>2, <1>e DEF PushTag, Clearing
  <2>3. ~Started(NewObject(sent, garbage)) /\ UNCHANGED answered
    BY <1>2 DEF NewObject, Started, PushTag
  <2>4. /\ Len(queue') = Len(queue) + 1 /\ ~Started(queue'[Len(queue) + 1])
        /\ \A i \in 1 .. Len(queue) : queue'[i] = queue[i]
    BY <1>q, <2>2, <2>3
  <2>5. PICK f \in Surjection(checks, checks') : \A c \in checks : SameWalk(c, f[c])
    BY <1>q, <2>1, MovedWalks
  <2>6. \A e \in checks' : \E c \in checks : e.n = c.n /\ e.pos = c.pos /\ e.hit = c.hit
    BY <2>5 DEF Surjection, SameWalk
  <2> HIDE <1>2
  <2>7. HitsOwn'
    BY <1>0, <2>6 DEF HitsOwn
  <2>8. ASSUME NEW i \in 1 .. Len(queue'), Started(queue'[i]), queue'[i].acked
        PROVE  i \in answered'
    <3>1. i \in 1 .. Len(queue)
      BY <1>q, <2>4, <2>8
    <3>2. queue'[i] = queue[i]
      BY <2>4, <3>1
    <3> QED
      BY <1>0, <2>3, <2>8, <3>1, <3>2 DEF MarksAnswered
  <2> QED
    BY <2>7, <2>8 DEF MarksAnswered
<1>3. CASE StartTimer
  <2>1. /\ appPc = "start" /\ Len(queue) = sent /\ sent \in 1 .. Len(queue)
        /\ queue[sent].n = sent /\ queue # <<>>
    BY <1>e, <1>3, <1>q DEF StartTimer, Fresh, FreshQueue
  <2> DEFINE o == [n |-> sent, acked |-> FALSE, timedOut |-> FALSE, timer |-> "running"]
  <2>2. queue' = [queue EXCEPT ![sent] = o] /\ UNCHANGED <<answered, checks>>
    BY <1>3, <2>1 DEF StartTimer, ackVars
  <2>3. ~o.acked
    OBVIOUS
  <2> HIDE DEF o
  <2>4. /\ Len(queue') = Len(queue) /\ queue'[sent] = o
        /\ \A i \in 1 .. Len(queue) : i # sent => queue'[i] = queue[i]
    BY <1>q, <2>1, <2>2
  <2> QED
    BY <1>0, <2>2, <2>3, <2>4 DEF HitsOwn, MarksAnswered
<1>4. ASSUME NEW n \in PeerAnswers, ParseAck(n) PROVE HitsOwn' /\ MarksAnswered'
  <2>1. /\ answered' = answered \cup {n}
        /\ checks' = checks \cup {NewCheck(n)} /\ UNCHANGED queue
    BY <1>4 DEF ParseAck, queueVars
  <2>2. ~NewCheck(n).hit
    BY DEF NewCheck
  <2> HIDE <1>4
  <2> QED
    BY <1>0, <2>1, <2>2 DEF HitsOwn, MarksAnswered
<1>5. ASSUME NEW c \in checks, BeginCheck(c) PROVE HitsOwn' /\ MarksAnswered'
  <2> DEFINE d == [c EXCEPT !.pos = 1, !.last = Len(queue)]
  <2>1. c \in Checks /\ c.pos = 0
    BY <1>5, <1>q DEF BeginCheck
  <2>2. ~c.hit
    BY <2>1 DEF TypeInv, AckPart, ChecksOK
  <2>3. checks' \subseteq checks \cup {d} /\ UNCHANGED <<queue, answered>>
    BY <1>5 DEF BeginCheck, queueVars
  <2>4. ~d.hit
    BY <2>1, <2>2 DEF Checks
  <2> HIDE DEF d
  <2> QED
    BY <1>0, <2>3, <2>4 DEF HitsOwn, MarksAnswered
<1>6. ASSUME NEW c \in checks, CompareTag(c) PROVE HitsOwn' /\ MarksAnswered'
  <2>1. c \in Checks /\ UNCHANGED <<queue, answered>> /\ c.pos > 0 /\ Live(c)
    BY <1>6, <1>q DEF CompareTag, queueVars
  <2>2. CASE Matches(c)
    <3> DEFINE d == [c EXCEPT !.hit = TRUE]
    <3>1. checks' = (checks \ {c}) \cup {d}
      BY <1>6, <2>2 DEF CompareTag
    <3>2. d.n = c.n /\ d.pos = c.pos
      BY <2>1 DEF Checks
    <3> HIDE DEF d
    <3>3. c.pos = c.n
      BY <1>a, <1>e, <2>1, <2>2, OwnMatch
    <3> QED
      BY <1>0, <2>1, <3>1, <3>2, <3>3 DEF HitsOwn, MarksAnswered
  <2>3. CASE ~Matches(c)
    <3> DEFINE d == [c EXCEPT !.pos = @ + 1, !.hit = FALSE]
    <3>1. checks' \subseteq checks \cup {d}
      BY <1>6, <2>3 DEF CompareTag, Advance
    <3>2. ~d.hit
      BY <2>1 DEF Checks
    <3> HIDE DEF d
    <3> QED
      BY <1>0, <2>1, <3>1, <3>2 DEF HitsOwn, MarksAnswered
  <2> QED
    BY <2>2, <2>3
<1>7. ASSUME NEW c \in checks, MarkAcked(c) PROVE HitsOwn' /\ MarksAnswered'
  <2>1. /\ c.hit /\ c.pos > 0 /\ c.pos <= Len(queue) /\ c.pos \in Nat
        /\ checks' = checks \ {c} /\ UNCHANGED answered
        /\ queue' = [queue EXCEPT ![c.pos].acked = TRUE]
    BY <1>7, <1>q DEF MarkAcked, Live, EndWalk, Checks, TypeInv, AckPart, ChecksOK
  <2>2. c.pos = c.n /\ c.n \in answered
    BY <1>0, <1>e, <2>1 DEF HitsOwn, Fresh, FreshChecks
  <2>3. c.pos \in 1 .. Len(queue)
    BY <1>q, <2>1
  <2>4. /\ Len(queue') = Len(queue)
        /\ \A i \in 1 .. Len(queue) :
              /\ queue'[i].timer = queue[i].timer
              /\ queue'[i].acked <=> queue[i].acked \/ i = c.pos
    BY <1>q, <2>1, <2>3, AckedSet
  <2> HIDE <1>7
  <2> QED
    BY <1>0, <2>1, <2>2, <2>4 DEF HitsOwn, MarksAnswered, Started
<1>8. CASE CheckTagList
  <2>1. UNCHANGED <<answered, checks>>
    BY <1>8
    DEF CheckTagList, Beat, VisitTag, HandleTimeOut, MarkTimedOut, BeatDeadMemory, ackVars
  <2>2. CASE MarkTimedOut
    <3>1. hb.pos \in 1 .. Len(queue) /\ queue' = [queue EXCEPT ![hb.pos].timedOut = TRUE]
      BY <1>q, <2>2 DEF MarkTimedOut, Live, TypeInv, BeatPart, BeatOK, Beats
    <3>2. /\ Len(queue') = Len(queue)
          /\ \A i \in 1 .. Len(queue) :
               queue'[i].timer = queue[i].timer /\ queue'[i].acked = queue[i].acked
      BY <1>q, <3>1, TimedOutSet
    <3> QED
      BY <1>0, <2>1, <3>2 DEF HitsOwn, MarksAnswered, Started
  <2> QED
    BY <1>1, <1>8, <2>1, <2>2
    DEF CheckTagList, Beat, VisitTag, HandleTimeOut, BeatDeadMemory, queueVars
<1>9. ASSUME NEW n \in Expiring, Expire(n) PROVE HitsOwn' /\ MarksAnswered'
  <2>1. UNCHANGED <<answered, checks>>
    BY <1>9 DEF Expire, ackVars
  <2>2. /\ Len(queue') = Len(queue)
        /\ \A i \in 1 .. Len(queue) :
             /\ queue'[i].acked = queue[i].acked
             /\ Started(queue'[i]) <=> Started(queue[i])
    BY <1>q, <1>9, TimerPassed
  <2> QED
    BY <1>0, <2>1, <2>2 DEF HitsOwn, MarksAnswered
<1>10. ASSUME NEW c \in checks, CheckDeadMemory(c) PROVE HitsOwn' /\ MarksAnswered'
  <2>1. checks' \subseteq checks /\ UNCHANGED <<queue, answered>>
    BY <1>10 DEF CheckDeadMemory, EndWalk, queueVars
  <2> QED
    BY <1>0, <2>1 DEF HitsOwn, MarksAnswered
<1>11. CASE CreateTag \/ WriteTag \/ ParseOther \/ TestSize \/ Quit \/ UNCHANGED vars
  BY <1>1, <1>11
  DEF CreateTag, WriteTag, ParseOther, TestSize, Quit, vars, queueVars, ackVars
<1> QED
  BY <1>e, <1>2, <1>3, <1>4, <1>5, <1>6, <1>7, <1>8, <1>9, <1>10, <1>11
  DEF Next, SendTag, ParseItem, TRY_Clear_SentTags_Queue, CheckAcknowledgement

(* A tag that is marked while the identities are fresh has been parsed by   *)
(* the other end: acknowledgements are of parsed tags.                      *)
THEOREM AckedWasDeliveredHolds == LinkSpec => []AckedWasDelivered
<1>1. Init => MarksInv
  BY DEF Init, MarksInv, HitsOwn, MarksAnswered
<1>2. Spec => []MarksInv
  BY <1>1, MarksStep, TypeInvariant, FreshInvariant, PTL DEF Spec
<1>3. TypeInv /\ FreshInv /\ MarksInv /\ LinkInv => AckedWasDelivered
  <2> SUFFICES ASSUME TypeInv, FreshInv, MarksInv, LinkInv, FreshIds, NEW i \in DOMAIN queue,
                      Started(queue[i]), queue[i].acked
               PROVE  queue[i].n \in 1 .. parsed
    BY DEF AckedWasDelivered
  <2>1. i \in 1 .. Len(queue) /\ queue[i].n = i
    BY QueueFacts DEF FreshInv, FreshIds, Fresh, FreshQueue
  <2>2. i \in answered
    BY <2>1 DEF MarksInv, MarksAnswered
  <2> QED
    BY <2>1, <2>2 DEF LinkInv, AcksIn
<1> QED
  BY <1>2, <1>3, LinkIsSentTags, TypeInvariant, FreshInvariant, LinkInvariant, PTL

(* When both ends are running and nothing is under way, every tag has been  *)
(* parsed and its acknowledgement read, and it is marked while identities   *)
(* are fresh and no walk was caught by a reallocation.                      *)
THEOREM AllAckedWhenDrainedHolds == LinkSpec => []AllAckedWhenDrained
<1>1. TypeInv /\ FreshInv /\ FreshAckExact /\ LinkInv => AllAckedWhenDrained
  <2> SUFFICES ASSUME TypeInv, FreshInv, FreshAckExact, LinkInv, alive, peerAlive, Drained
               PROVE  /\ parsed = sent /\ answered = 1 .. sent
                      /\ FreshIds /\ ~torn => \A i \in DOMAIN queue : queue[i].acked
    BY DEF AllAckedWhenDrained
  <2>0. /\ appPc = "idle" /\ out = <<>> /\ in = <<>> /\ answers = {} /\ checks = {}
        /\ written = sent /\ sent \in Nat
    BY WrittenNat DEF Drained, written
  <2>1. parsed = sent
    <3>1. parsed \in Nat /\ parsed <= sent /\ Full(out, parsed, sent)
      BY <2>0 DEF LinkInv, LinkTypes, TagsOut
    <3>2. Len(out) = 0
      BY <2>0
    <3>3. \A n \in parsed + 1 .. sent : FALSE
      BY <3>1, <3>2 DEF Full
    <3> QED
      BY <2>0, <3>1, <3>3
  <2>2. answered = 1 .. sent
    BY <2>0, <2>1, NoAcks DEF LinkInv, AcksIn
  <2>3. ASSUME FreshIds, ~torn, NEW i \in DOMAIN queue
        PROVE  queue[i].acked
    <3>1. /\ i \in 1 .. Len(queue) /\ Len(queue) = sent /\ queue[i].n = i /\ Fresh
      BY <2>0, <2>3, QueueFacts DEF FreshInv, FreshIds, Fresh, FreshQueue
    <3>2. i \in answered /\ Started(queue[i])
      BY <2>2, <3>1 DEF Fresh, FreshAcks
    <3> QED
      BY <2>0, <2>3, <3>1, <3>2 DEF FreshAckExact, FreshIds
  <2> QED
    BY <2>1, <2>2, <2>3
<1> QED
  BY <1>1, LinkIsSentTags, TypeInvariant, FreshInvariant, FreshAckExactHolds, LinkInvariant, PTL

(* A step of the link is a step of the exchange or none.                    *)
LEMMA ExchangeStep ==
  ASSUME TypeInv, LinkInv, [LinkNext]_allVars
  PROVE  [Exchange!Next]_(Exchange!vars)
<1>0. /\ LinkTypes /\ TagsOut /\ Awaited /\ AcksIn /\ sent \in Nat /\ written \in Nat
  BY WrittenNat DEF LinkInv
<1>n. written' = written /\ parsed' = parsed /\ answered' = answered =>
        UNCHANGED Exchange!vars
  BY DEF Exchange!vars
<1>1. CASE LocalStep
  <2>1. written' = written /\ answered' = answered
    BY <1>1, LocalKeeps DEF LocalStep
  <2>2. parsed' = parsed
    BY <1>1 DEF LocalStep, End, linkVars, peerVars
  <2> QED
    BY <1>n, <2>1, <2>2
<1>2. CASE SendOverLink
  <2>1. appPc = "write" /\ appPc' = "idle" /\ sent' = sent /\ UNCHANGED <<answered, parsed>>
    BY <1>2 DEF SendOverLink, WriteTag, peerVars
  <2>2. written' = written + 1
    BY <1>0, <2>1 DEF written, TypeInv, QueuePart, AppOK
  <2>3. Exchange!Send
    BY <2>1, <2>2 DEF Exchange!Send
  <2> QED
    BY <2>3 DEF Exchange!Next
<1>3. CASE ReceiveAck
  <2> DEFINE n == Head(in).n
  <2>1. /\ in # <<>> /\ Head(in).kind = "ack" /\ parsed' = parsed
        /\ sent' = sent /\ appPc' = appPc /\ answered' = answered \cup {n}
    BY <1>3 DEF ReceiveAck, ParseAck, appVars, peerVars
  <2>2. written' = written
    BY <2>1 DEF written
  <2>3. n \in Acks(in)
    BY <1>0, <2>1, AckTaken DEF LinkTypes, AcksIn
  <2> HIDE DEF n
  <2>4. n \in (1 .. parsed) \ answered
    BY <1>0, <2>3 DEF AcksIn
  <2>5. Exchange!Confirm
    BY <2>1, <2>2, <2>4 DEF Exchange!Confirm
  <2> QED
    BY <2>5 DEF Exchange!Next
<1>4. CASE ReceiveOther \/ ReceivePart \/ TCPSendAck \/ PeerSendTag \/ PeerEnd
           \/ \E n \in Tags : PeerSendAck(n)
  <2>1. UNCHANGED <<sent, appPc, answered, parsed>>
    BY <1>4
    DEF ReceiveOther, ReceivePart, ParseOther, TCPSendAck, PeerSendTag, PeerEnd, PeerSendAck,
        vars, appVars, ackVars, linkVars, peerVars
  <2> QED
    BY <1>n, <2>1 DEF written
<1>5. CASE PeerReceive
  <2>1. /\ out # <<>> /\ parsed' = IF Head(out).kind = "tag" THEN parsed + 1 ELSE parsed
        /\ UNCHANGED <<sent, appPc, answered>>
    BY <1>5 DEF PeerReceive, vars, appVars, ackVars
  <2>2. written' = written
    BY <2>1 DEF written
  <2>3. CASE Head(out).kind = "tag"
    <3>1. parsed + 1 <= written
      BY <1>0, <2>1, <2>3, TagTaken DEF LinkTypes, TagsOut
    <3>2. parsed < written
      BY <1>0, <3>1 DEF LinkTypes
    <3>3. Exchange!Parse
      BY <2>1, <2>2, <2>3, <3>2 DEF Exchange!Parse
    <3> QED
      BY <3>3 DEF Exchange!Next
  <2>4. CASE Head(out).kind # "tag"
    BY <1>n, <2>1, <2>2, <2>4
  <2> QED
    BY <2>3, <2>4
<1>6. CASE UNCHANGED allVars
  <2>1. UNCHANGED <<sent, appPc, answered, parsed>>
    BY <1>6 DEF allVars, vars, appVars, ackVars, linkVars, peerVars
  <2> QED
    BY <1>n, <2>1 DEF written
<1> QED
  BY <1>1, <1>2, <1>3, <1>4, <1>5, <1>6 DEF LinkNext, ReceiveItem, Peer

(* The link, with every thread of the sending half interleaved, implements   *)
(* the exchange of tags.                                                    *)
THEOREM LinkImplementsExchange == LinkSpec => ImplementsExchange
<1>1. LinkInit => Exchange!Init
  BY DEF LinkInit, Init, Exchange!Init, written
<1>2. TypeInv /\ LinkInv /\ [LinkNext]_allVars => [Exchange!Next]_(Exchange!vars)
  BY ExchangeStep
<1>3. LinkSpec => []TypeInv
  BY LinkIsSentTags, TypeInvariant, PTL
<1> QED
  BY <1>1, <1>2, <1>3, LinkInvariant, PTL DEF LinkSpec, ImplementsExchange, Exchange!Spec
=============================================================================
