--------------------------- MODULE SequenceLemmas ---------------------------
(***************************************************************************)
(* Induction for the proofs of this project: a non-empty set of natural    *)
(* numbers has a least element.  What should hold for every number is      *)
(* proved by taking the least one for which it does not.  With it, what    *)
(* FlattenSeq makes of a sequence of sequences; and what pieces, reversals, *)
(* prefixes and suffixes of sequences are.                                 *)
(***************************************************************************)
EXTENDS Naturals, SequencesExt, SequenceTheorems, WellFoundedInduction, TLAPS

(* Every non-empty set of natural numbers has a least element. *)
LEMMA LeastNat ==
  ASSUME NEW S \in SUBSET Nat, S # {}
  PROVE  \E n \in S : \A m \in S : n <= m
<1>1. PICK R : IsWellFoundedOn(R, Nat) /\ \A x, y \in Nat : y < x => <<y, x>> \in R
  <2> DEFINE R == OpToRel(<, Nat)
  <2>1. IsWellFoundedOn(R, Nat)
    BY NatLessThanWellFounded
  <2>2. \A x, y \in Nat : y < x => <<y, x>> \in R
    BY DEF OpToRel
  <2> HIDE DEF R
  <2> QED
    BY <2>1, <2>2
<1>2. PICK n \in S : \A m \in S : <<m, n>> \notin R
  BY <1>1, WFMin
<1>3. n \in Nat /\ \A m \in S : m \in Nat /\ ~(m < n)
  BY <1>1, <1>2
<1> QED
  BY <1>3

-----------------------------------------------------------------------------
(* Where the elements of two sequences are when they are joined. *)
LEMMA Joined ==
  ASSUME NEW S, NEW a \in Seq(S), NEW b \in Seq(S), NEW c, c = a \o b
  PROVE  /\ c \in Seq(S)
         /\ Len(a) \in Nat /\ Len(b) \in Nat /\ Len(c) = Len(a) + Len(b)
         /\ \A i \in 1 .. Len(a) : c[i] = a[i]
         /\ \A i \in 1 .. Len(b) : c[Len(a) + i] = b[i]
<1>1. Len(a) \in Nat /\ Len(b) \in Nat
  BY LenProperties
<1> QED
  BY <1>1, ConcatProperties

(* What a piece of a sequence is. *)
LEMMA Piece ==
  ASSUME NEW S, NEW w \in Seq(S), NEW m \in Nat \ {0}, NEW n \in Nat,
         m <= n, n <= Len(w), NEW u, u = SubSeq(w, m, n)
  PROVE  /\ u \in Seq(S) /\ Len(u) = n - m + 1
         /\ \A i \in 1 .. n - m + 1 : u[i] = w[m + i - 1]
<1>1. Len(w) \in Nat
  BY LenProperties
<1>2. \A i \in m .. n : i \in 1 .. Len(w)
  BY <1>1
<1>3. \A i \in m .. n : w[i] \in S
  BY <1>2, ElementOfSeq
<1> QED
  BY <1>3, SubSeqProperties

-----------------------------------------------------------------------------
(* What the reverse of a sequence is. *)
LEMMA Reversed ==
  ASSUME NEW S, NEW s \in Seq(S), NEW r, r = Reverse(s)
  PROVE  /\ r \in Seq(S) /\ Len(r) = Len(s)
         /\ \A i \in 1 .. Len(s) : r[i] = s[(Len(s) - i) + 1]
<1>1. PICK n \in Nat : n = Len(s)
  BY LenProperties
<1>2. \A i \in 1 .. n : (n - i) + 1 \in 1 .. n
  OBVIOUS
<1>3. \A i \in 1 .. n : s[(n - i) + 1] \in S
  BY <1>1, <1>2, ElementOfSeq
<1>4. r = [i \in 1 .. n |-> s[(n - i) + 1]]
  BY <1>1 DEF Reverse
<1> QED
  BY <1>1, <1>3, <1>4

(* The first n elements of two sequences are the same. *)
LEMMA SamePrefix ==
  ASSUME NEW S, NEW x \in Seq(S), NEW y \in Seq(S), NEW n \in Nat \ {0},
         n <= Len(x), n <= Len(y)
  PROVE  SubSeq(x, 1, n) = SubSeq(y, 1, n) <=> \A i \in 1 .. n : x[i] = y[i]
<1>1. PICK p : p = SubSeq(x, 1, n)
  OBVIOUS
<1>2. PICK q : q = SubSeq(y, 1, n)
  OBVIOUS
<1>3. p \in Seq(S) /\ Len(p) = n /\ \A i \in 1 .. n : p[i] = x[i]
  <2>1. 1 \in Nat \ {0} /\ 1 <= n /\ n - 1 + 1 = n /\ \A i \in 1 .. n : 1 + i - 1 = i
    OBVIOUS
  <2> QED
    BY <1>1, <2>1, Piece
<1>4. q \in Seq(S) /\ Len(q) = n /\ \A i \in 1 .. n : q[i] = y[i]
  <2>1. 1 \in Nat \ {0} /\ 1 <= n /\ n - 1 + 1 = n /\ \A i \in 1 .. n : 1 + i - 1 = i
    OBVIOUS
  <2> QED
    BY <1>2, <2>1, Piece
<1>5. ASSUME \A i \in 1 .. n : x[i] = y[i] PROVE p = q
  <2>1. p = [i \in 1 .. n |-> p[i]]
    BY <1>3
  <2>2. q = [i \in 1 .. n |-> q[i]]
    BY <1>4
  <2>3. \A i \in 1 .. n : p[i] = q[i]
    BY <1>3, <1>4, <1>5
  <2> QED
    BY <2>1, <2>2, <2>3
<1> QED
  BY <1>1, <1>2, <1>3, <1>4, <1>5

(* What is joined to a sequence is a suffix of the whole. *)
LEMMA SuffixOf ==
  ASSUME NEW S, NEW a \in Seq(S), NEW b \in Seq(S), Len(b) # 0, NEW c, c = a \o b
  PROVE  IsSuffix(b, c)
<1>1. /\ c \in Seq(S)
      /\ Len(a) \in Nat /\ Len(b) \in Nat /\ Len(c) = Len(a) + Len(b)
      /\ \A i \in 1 .. Len(b) : c[Len(a) + i] = b[i]
  BY Joined
<1>2. PICK x, y : x = Reverse(b) /\ y = Reverse(c)
  OBVIOUS
<1>3. x \in Seq(S) /\ Len(x) = Len(b) /\ \A i \in 1 .. Len(b) : x[i] = b[(Len(b) - i) + 1]
  BY <1>2, Reversed
<1>4. y \in Seq(S) /\ Len(y) = Len(c) /\ \A i \in 1 .. Len(c) : y[i] = c[(Len(c) - i) + 1]
  BY ZenonT(40), <1>1, <1>2, Reversed
<1>5. PICK l \in Nat, n \in Nat \ {0} : l = Len(a) /\ n = Len(b)
  BY <1>1
<1>6. ASSUME NEW i \in 1 .. n PROVE x[i] = y[i]
  <2>1. PICK j \in 1 .. n : j = (n - i) + 1
    OBVIOUS
  <2>2. x[i] = b[j]
    BY <1>3, <1>5, <2>1
  <2>3. PICK k \in Nat : k = Len(c) /\ k = l + n
    BY <1>1, <1>5
  <2>4. i \in 1 .. k /\ (k - i) + 1 = l + j
    BY <2>1, <2>3
  <2>5. y[i] = c[l + j]
    BY <1>4, <2>3, <2>4
  <2>6. c[l + j] = b[j]
    BY <1>1, <1>5
  <2> QED
    BY <2>2, <2>5, <2>6
<1>7. n <= Len(x) /\ n <= Len(y)
  BY <1>1, <1>3, <1>4, <1>5
<1>8. SubSeq(x, 1, n) = SubSeq(y, 1, n)
  BY <1>3, <1>4, <1>6, <1>7, SamePrefix
<1> QED
  BY <1>2, <1>3, <1>5, <1>7, <1>8 DEF IsSuffix, IsPrefix

(* A suffix ends like the whole. *)
LEMMA SuffixEnd ==
  ASSUME NEW S, NEW b \in Seq(S), Len(b) # 0, NEW c \in Seq(S), IsSuffix(b, c)
  PROVE  Len(b) <= Len(c) /\ c[Len(c)] = b[Len(b)]
<1>1. PICK n \in Nat \ {0}, k \in Nat : n = Len(b) /\ k = Len(c)
  BY LenProperties
<1>2. PICK x, y : x = Reverse(b) /\ y = Reverse(c)
  OBVIOUS
<1>3. x \in Seq(S) /\ Len(x) = n /\ \A i \in 1 .. n : x[i] = b[(n - i) + 1]
  BY <1>1, <1>2, Reversed
<1>4. y \in Seq(S) /\ Len(y) = k /\ \A i \in 1 .. k : y[i] = c[(k - i) + 1]
  BY <1>1, <1>2, Reversed
<1>5. n <= k /\ SubSeq(x, 1, n) = SubSeq(y, 1, n)
  BY <1>2, <1>3, <1>4 DEF IsSuffix, IsPrefix
<1>6. \A i \in 1 .. n : x[i] = y[i]
  BY <1>3, <1>4, <1>5, SamePrefix
<1>7. 1 \in 1 .. n /\ 1 \in 1 .. k /\ (n - 1) + 1 = n /\ (k - 1) + 1 = k
  BY <1>5
<1>8. x[1] = b[n] /\ y[1] = c[k]
  BY <1>3, <1>4, <1>7
<1> QED
  BY <1>1, <1>5, <1>6, <1>7, <1>8

-----------------------------------------------------------------------------
(* FlattenSeq is computed from the front: f holds what the first sequences   *)
(* of s are flattened to.                                                    *)
Computes(f, s, n) ==
  \A i \in 1 .. n : f[i] = IF i = 1 THEN s[i] ELSE f[i - 1] \o s[i]

Flattens(f, s, n, S) == f \in [1 .. n -> Seq(S)] /\ Computes(f, s, n)

(* The function that FlattenSeq computes exists. *)
LEMMA FlattenExists ==
  ASSUME NEW S, NEW s \in Seq(Seq(S)), NEW n \in 0 .. Len(s)
  PROVE  \E f : Flattens(f, s, n, S)
<1>l. Len(s) \in Nat
  BY LenProperties
<1> DEFINE Without == {k \in 0 .. Len(s) : ~ \E f : Flattens(f, s, k, S)}
<1>1. SUFFICES ASSUME Without # {} PROVE FALSE
  OBVIOUS
<1>2. Without \in SUBSET Nat
  BY <1>l
<1>3. PICK k \in Without : \A j \in Without : k <= j
  BY <1>1, <1>2, LeastNat
<1>4. k \in 0 .. Len(s) /\ ~ \E f : Flattens(f, s, k, S)
  BY <1>3
<1>5. CASE k = 0
  <2>1. Flattens([i \in 1 .. 0 |-> <<>>], s, 0, S)
    BY DEF Flattens, Computes
  <2> QED
    BY <1>4, <1>5, <2>1
<1>6. CASE k # 0
  <2>1. k \in 1 .. Len(s) /\ k - 1 \in 0 .. Len(s) /\ ~(k <= k - 1)
    BY <1>l, <1>4, <1>6
  <2>2. PICK f : Flattens(f, s, k - 1, S)
    BY <1>3, <2>1
  <2> DEFINE last == IF k = 1 THEN s[k] ELSE f[k - 1] \o s[k]
             g == [i \in 1 .. k |-> IF i = k THEN last ELSE f[i]]
  <2>3. s[k] \in Seq(S)
    BY <2>1, ElementOfSeq
  <2>4. last \in Seq(S)
    <3>1. CASE k = 1
      BY <2>3, <3>1
    <3>2. CASE k # 1
      <4>1. k - 1 \in 1 .. k - 1
        BY <2>1, <3>2
      <4>2. f[k - 1] \in Seq(S)
        BY <2>2, <4>1 DEF Flattens, Computes
      <4>3. f[k - 1] \o s[k] \in Seq(S)
        BY <2>3, <4>2, ConcatProperties
      <4> QED
        BY <3>2, <4>3
    <3> QED
      BY <3>1, <3>2
  <2> HIDE DEF last
  <2>5. \A i \in 1 .. k : i = k \/ i \in 1 .. k - 1
    BY <2>1
  <2>6. g \in [1 .. k -> Seq(S)]
    BY <2>2, <2>4, <2>5 DEF Flattens, Computes
  <2>7. \A i \in 1 .. k : g[i] = IF i = 1 THEN s[i] ELSE g[i - 1] \o s[i]
    <3> SUFFICES ASSUME NEW i \in 1 .. k PROVE g[i] = IF i = 1 THEN s[i] ELSE g[i - 1] \o s[i]
      OBVIOUS
    <3>1. i # 1 => i - 1 \in 1 .. k /\ i - 1 # k
      BY <2>1
    <3>2. i # 1 => g[i - 1] = f[i - 1]
      BY <3>1
    <3>3. CASE i = k
      BY <3>2, <3>3 DEF last
    <3>4. CASE i # k
      <4>1. i \in 1 .. k - 1
        BY <2>5, <3>4
      <4> QED
        BY <2>2, <3>2, <3>4, <4>1 DEF Flattens, Computes
    <3> QED
      BY <3>3, <3>4
  <2>8. Flattens(g, s, k, S)
    BY <2>6, <2>7 DEF Flattens, Computes
  <2> QED
    BY <1>4, <2>8
<1> QED
  BY <1>5, <1>6

(* There is only one such f. *)
LEMMA FlattenUnique ==
  ASSUME NEW S, NEW s, NEW n \in Nat, NEW f, Flattens(f, s, n, S),
         NEW g, Computes(g, s, n)
  PROVE  \A i \in 1 .. n : g[i] = f[i]
<1> DEFINE Apart == {i \in 1 .. n : g[i] # f[i]}
<1>1. SUFFICES ASSUME Apart # {} PROVE FALSE
  OBVIOUS
<1>2. Apart \in SUBSET Nat
  OBVIOUS
<1>3. PICK i \in Apart : \A j \in Apart : i <= j
  BY <1>1, <1>2, LeastNat
<1>4. i \in 1 .. n /\ g[i] # f[i]
  BY <1>3
<1>5. i # 1
  BY <1>4 DEF Flattens, Computes
<1>6. i - 1 \in 1 .. n /\ ~(i <= i - 1)
  BY <1>4, <1>5
<1>7. g[i - 1] = f[i - 1]
  BY <1>3, <1>6
<1> QED
  BY <1>4, <1>5, <1>7 DEF Flattens, Computes

(* FlattenSeq is its last value. *)
LEMMA FlattenIs ==
  ASSUME NEW S, NEW s \in Seq(Seq(S)), Len(s) # 0, NEW f, Flattens(f, s, Len(s), S)
  PROVE  FlattenSeq(s) = f[Len(s)]
<1>l. Len(s) \in Nat
  BY LenProperties
<1>1. f = [i \in 1 .. Len(s) |-> IF i = 1 THEN s[i] ELSE f[i - 1] \o s[i]]
  BY DEF Flattens, Computes
<1>2. ASSUME NEW h, h = [i \in 1 .. Len(s) |-> IF i = 1 THEN s[i] ELSE h[i - 1] \o s[i]]
      PROVE  h = f
  <2>1. Computes(h, s, Len(s))
    BY <1>2, Zenon DEF Computes
  <2>2. \A i \in 1 .. Len(s) : h[i] = f[i]
    BY <1>l, <2>1, FlattenUnique
  <2>3. h = [i \in 1 .. Len(s) |-> h[i]]
    BY <1>2, Zenon
  <2>4. f = [i \in 1 .. Len(s) |-> f[i]]
    BY DEF Flattens, Computes
  <2> QED
    BY <2>2, <2>3, <2>4
<1>3. f = CHOOSE h : h = [i \in 1 .. Len(s) |-> IF i = 1 THEN s[i] ELSE h[i - 1] \o s[i]]
  BY <1>1, <1>2, Zenon
<1> QED
  BY <1>3, Zenon DEF FlattenSeq

(* One more sequence comes behind what the others are flattened to.          *)
LEMMA FlattenAppend ==
  ASSUME NEW S, NEW s \in Seq(Seq(S)), NEW x \in Seq(S)
  PROVE  /\ FlattenSeq(s) \in Seq(S)
         /\ FlattenSeq(Append(s, x)) = FlattenSeq(s) \o x
<1> DEFINE t == Append(s, x)
           n == Len(s)
<1>1. /\ n \in Nat /\ t \in Seq(Seq(S)) /\ Len(t) = n + 1
      /\ \A i \in 1 .. n : t[i] = s[i]
      /\ t[n + 1] = x
  BY AppendProperties, LenProperties
<1> HIDE DEF t
<1>2. n + 1 \in 0 .. Len(t) /\ Len(t) # 0 /\ n + 1 \in 1 .. n + 1
  BY <1>1
<1>3. PICK g : Flattens(g, t, n + 1, S)
  BY <1>1, <1>2, FlattenExists
<1>4. FlattenSeq(t) = g[n + 1]
  BY <1>1, <1>2, <1>3, FlattenIs
<1>5. CASE n = 0
  <2>1. s = <<>> /\ <<>> \in Seq(S)
    BY <1>5, EmptySeq
  <2>2. FlattenSeq(s) = <<>>
    BY <1>5, <2>1 DEF FlattenSeq
  <2>3. g[n + 1] = x
    BY <1>1, <1>2, <1>3, <1>5 DEF Flattens, Computes
  <2> QED
    BY <1>4, <2>1, <2>2, <2>3, ConcatEmptySeq DEF t
<1>6. CASE n # 0
  <2>1. n \in 1 .. n /\ n \in 1 .. n + 1 /\ n + 1 # 1 /\ (n + 1) - 1 = n /\ n \in 0 .. Len(s)
    BY <1>1, <1>6
  <2>2. PICK f : Flattens(f, s, n, S)
    BY <2>1, FlattenExists
  <2>3. FlattenSeq(s) = f[n]
    BY <1>6, <2>2, FlattenIs
  <2>4. \A i \in 1 .. n : i \in 1 .. n + 1 /\ t[i] = s[i]
    BY <1>1
  <2>5. Computes(g, s, n)
    BY <1>3, <2>4 DEF Flattens, Computes
  <2>6. g[n] = f[n]
    <3>1. \A i \in 1 .. n : g[i] = f[i]
      BY <1>1, <2>2, <2>5, FlattenUnique
    <3> QED
      BY <2>1, <3>1
  <2>7. g[n + 1] = g[n] \o x
    BY <1>1, <1>2, <1>3, <2>1 DEF Flattens, Computes
  <2>8. f[n] \in Seq(S)
    BY <2>1, <2>2 DEF Flattens, Computes
  <2> QED
    BY <1>4, <2>3, <2>6, <2>7, <2>8 DEF t
<1> QED
  BY <1>5, <1>6

(* Where the sequences are in what they are flattened to: off[i] is how much *)
(* comes before the one behind the first i.                                  *)
Placed(s, c, off) ==
  /\ off[0] = 0 /\ off[Len(s)] = Len(c)
  /\ \A i \in 1 .. Len(s) :
       /\ off[i] = off[i - 1] + Len(s[i])
       /\ off[i] <= Len(c)
       /\ \A x \in 1 .. Len(s[i]) : c[off[i - 1] + x] = s[i][x]

(* Every sequence is found again in what they are flattened to.              *)
LEMMA FlattenPlaces ==
  ASSUME NEW S, NEW t \in Seq(Seq(S))
  PROVE  \E off \in [0 .. Len(t) -> Nat] : Placed(t, FlattenSeq(t), off)
<1> DEFINE P(s) == \E off \in [0 .. Len(s) -> Nat] : Placed(s, FlattenSeq(s), off)
           Without == {n \in Nat : \E s \in Seq(Seq(S)) : Len(s) = n /\ ~P(s)}
<1>1. SUFFICES ASSUME Without # {} PROVE FALSE
  <2>1. Len(t) \in Nat
    BY LenProperties
  <2> QED
    BY <2>1
<1>2. PICK n \in Without : \A m \in Without : n <= m
  BY <1>1, LeastNat
<1>3. PICK s \in Seq(Seq(S)) : Len(s) = n /\ ~P(s)
  BY <1>2
<1>4. n \in Nat
  BY <1>2
<1>5. CASE n = 0
  <2>1. s = <<>>
    BY <1>3, <1>5, EmptySeq
  <2>2. FlattenSeq(s) = <<>>
    BY <1>3, <1>5, <2>1 DEF FlattenSeq
  <2> DEFINE off == [i \in 0 .. 0 |-> 0]
  <2>3. off \in [0 .. Len(s) -> Nat] /\ off[0] = 0
    BY <1>3, <1>5
  <2>4. Placed(s, FlattenSeq(s), off)
    BY <1>3, <1>5, <2>1, <2>2, <2>3 DEF Placed
  <2> QED
    BY <1>3, <2>3, <2>4
<1>6. CASE n # 0
  <2>0. s # <<>>
    BY <1>3, <1>6, EmptySeq
  <2>1. PICK r \in Seq(Seq(S)), e \in Seq(S) : s = Append(r, e)
    BY <2>0, SequenceEmptyOrAppend
  <2>2. /\ Len(r) \in Nat /\ Len(s) = Len(r) + 1 /\ Len(e) \in Nat
        /\ \A i \in 1 .. Len(r) : s[i] = r[i]
        /\ s[Len(r) + 1] = e
    BY <2>1, AppendProperties, LenProperties
  <2>3. P(r)
    BY SMTT(30), <1>2, <1>3, <2>2
  <2>4. PICK f \in [0 .. Len(r) -> Nat] : Placed(r, FlattenSeq(r), f)
    BY <2>3
  <2>c. PICK c \in Seq(S) : c = FlattenSeq(r) /\ FlattenSeq(s) = c \o e
    BY <2>1, FlattenAppend
  <2>d. PICK d : d = c \o e
    OBVIOUS
  <2>5. /\ Len(c) \in Nat /\ Len(d) = Len(c) + Len(e)
        /\ \A i \in 1 .. Len(c) : d[i] = c[i]
        /\ \A i \in 1 .. Len(e) : d[Len(c) + i] = e[i]
    BY <2>2, <2>d, ConcatProperties, LenProperties
  <2> DEFINE g == [i \in 0 .. Len(s) |-> IF i = Len(s) THEN Len(c) + Len(e) ELSE f[i]]
  <2>6. g \in [0 .. Len(s) -> Nat]
    BY <2>2, <2>5
  <2>7. /\ g[Len(s)] = Len(c) + Len(e)
        /\ \A i \in 0 .. Len(r) : g[i] = f[i]
    BY <2>2
  <2> HIDE DEF g
  <2>8. f[0] = 0 /\ f[Len(r)] = Len(c)
    BY <2>4, <2>c DEF Placed
  <2>9. g[0] = 0
    BY <2>2, <2>7, <2>8
  <2>10. ASSUME NEW i \in 1 .. Len(s)
         PROVE  /\ g[i] = g[i - 1] + Len(s[i])
                /\ g[i] <= Len(d)
                /\ \A x \in 1 .. Len(s[i]) : d[g[i - 1] + x] = s[i][x]
    <3>1. CASE i = Len(s)
      <4>1. /\ i - 1 = Len(r) /\ Len(r) \in 0 .. Len(r) /\ s[i] = e
        BY <2>2, <3>1
      <4>2. g[i - 1] = Len(c)
        BY <2>7, <2>8, <4>1
      <4>3. g[i] = Len(c) + Len(e)
        BY <2>7, <3>1
      <4> QED
        BY <2>2, <2>5, <4>1, <4>2, <4>3
    <3>2. CASE i # Len(s)
      <4>1. i \in 1 .. Len(r) /\ i \in 0 .. Len(r) /\ i - 1 \in 0 .. Len(r) /\ s[i] = r[i]
        BY <2>2, <3>2
      <4>2. PICK q \in Seq(S) : q = r[i] /\ q = s[i]
        BY <4>1, ElementOfSeq
      <4>l. Len(q) \in Nat
        BY LenProperties
      <4>3. /\ f[i] = f[i - 1] + Len(q) /\ f[i] <= Len(c)
            /\ \A x \in 1 .. Len(q) : c[f[i - 1] + x] = q[x]
        BY <2>4, <2>c, <4>1, <4>2 DEF Placed
      <4>4. PICK a \in Nat, b \in Nat : a = f[i - 1] /\ b = f[i] /\ g[i - 1] = a /\ g[i] = b
        BY <2>7, <4>1
      <4>5. b = a + Len(q) /\ b <= Len(c) /\ \A x \in 1 .. Len(q) : c[a + x] = q[x]
        BY <4>3, <4>4
      <4>6. \A x \in 1 .. Len(q) : a + x \in 1 .. Len(c)
        BY <2>5, <4>l, <4>5
      <4>7. \A x \in 1 .. Len(q) : d[a + x] = q[x]
        BY <2>5, <4>5, <4>6
      <4>8. b <= Len(d)
        BY <2>2, <2>5, <4>5
      <4> QED
        BY <4>2, <4>4, <4>5, <4>7, <4>8
    <3> QED
      BY <3>1, <3>2
  <2>11. Placed(s, d, g)
    BY <2>2, <2>5, <2>7, <2>9, <2>10 DEF Placed
  <2> QED
    BY <1>3, <2>6, <2>11, <2>c, <2>d
<1> QED
  BY <1>4, <1>5, <1>6

(* A sequence without the elements behind k up to e. *)
Without(q, k, e) == SubSeq(q, 1, k) \o SubSeq(q, e + 1, Len(q))

IsWithout(r, q, k, e) ==
  /\ Len(r) = k + (Len(q) - e)
  /\ \A i \in 1 .. k : i \in 1 .. Len(r) /\ r[i] = q[i]
  /\ \A i \in e + 1 .. Len(q) : k + (i - e) \in 1 .. Len(r) /\ r[k + (i - e)] = q[i]
  /\ \A i \in 1 .. Len(r) : \E j \in 1 .. Len(q) :
       r[i] = q[j] /\ (i <= k => j = i) /\ (i > k => j = e + (i - k))

LEMMA ClosedUp ==
  ASSUME NEW S, NEW q \in Seq(S), NEW k \in Nat, NEW e \in Nat, k <= e, e <= Len(q)
  PROVE  Without(q, k, e) \in Seq(S) /\ IsWithout(Without(q, k, e), q, k, e)
<1>r. PICK r : r = Without(q, k, e)
  OBVIOUS
<1> DEFINE a == SubSeq(q, 1, k)
           b == SubSeq(q, e + 1, Len(q))
<1>0. Len(q) \in Nat
  BY LenProperties
<1>1. a \in Seq(S) /\ Len(a) = k /\ \A i \in 1 .. k : a[i] = q[i]
  <2>1. CASE k = 0
    BY <2>1, SMT
  <2>2. CASE k > 0
    <3>1. Len(a) = k - 1 + 1 /\ \A i \in 1 .. k - 1 + 1 : a[i] = q[1 + i - 1]
      BY <1>0, <2>2, Piece
    <3>2. a \in Seq(S)
      BY <1>0, <2>2, Piece
    <3> QED
      BY <3>1, <3>2
  <2> QED
    BY <2>1, <2>2
<1>2. /\ b \in Seq(S) /\ Len(b) = Len(q) - e
      /\ \A i \in 1 .. Len(q) - e : b[i] = q[e + i]
  <2>1. CASE e = Len(q)
    BY <1>0, <2>1, SMT
  <2>2. CASE e < Len(q)
    <3>1. b \in Seq(S) /\ Len(b) = Len(q) - (e + 1) + 1
      BY <1>0, <2>2, Piece
    <3>2. \A i \in 1 .. Len(q) - (e + 1) + 1 : b[i] = q[(e + 1) + i - 1]
      BY <1>0, <2>2, Piece
    <3> QED
      BY <1>0, <3>1, <3>2
  <2> QED
    BY <1>0, <2>1, <2>2
<1>3. r = a \o b /\ k \in Nat /\ e \in Nat /\ k <= e /\ e <= Len(q)
  BY <1>r DEF Without
<1> HIDE DEF a, b
<1>4. PICK n \in Nat : n = Len(q)
  BY <1>0
<1>5. /\ k \in Nat /\ e \in Nat /\ k <= e /\ e <= n
      /\ a \in Seq(S) /\ Len(a) = k /\ \A i \in 1 .. k : a[i] = q[i]
      /\ b \in Seq(S) /\ Len(b) = n - e /\ \A i \in 1 .. n - e : b[i] = q[e + i]
      /\ r = a \o b
  BY <1>1, <1>2, <1>3, <1>4
<1>6. a \in Seq(S) /\ b \in Seq(S) /\ r = a \o b
  BY <1>5
<1>7. /\ r \in Seq(S)
      /\ Len(a) \in Nat /\ Len(b) \in Nat /\ Len(r) = Len(a) + Len(b)
      /\ \A i \in 1 .. Len(a) : r[i] = a[i]
      /\ \A i \in 1 .. Len(b) : r[Len(a) + i] = b[i]
  BY ONLY <1>6, Joined
<1>8. k \in Nat /\ n \in Nat /\ e \in Nat
  OBVIOUS
<1>9. /\ r \in Seq(S) /\ Len(r) = k + (n - e) /\ e <= n
      /\ \A i \in 1 .. k : r[i] = q[i]
      /\ \A i \in 1 .. n - e : r[k + i] = q[e + i]
  BY ONLY <1>5, <1>7, <1>8
<1>10. /\ \A i \in 1 .. k : i \in 1 .. Len(r) /\ r[i] = q[i]
      /\ \A i \in 1 .. n - e : r[k + i] = q[e + i]
  BY ONLY <1>9, <1>8
<1>11. \A i \in e + 1 .. n : k + (i - e) \in 1 .. Len(r) /\ r[k + (i - e)] = q[i]
  <2> SUFFICES ASSUME NEW i \in e + 1 .. n
               PROVE  k + (i - e) \in 1 .. Len(r) /\ r[k + (i - e)] = q[i]
    OBVIOUS
  <2>1. PICK j \in 1 .. n - e : i = e + j
    <3>1. i - e \in 1 .. n - e /\ i = e + (i - e)
      BY <1>8
    <3> QED
      BY <3>1
  <2>2. i - e = j /\ k + j \in 1 .. Len(r)
    BY ONLY <1>8, <1>9, <2>1
  <2> QED
    BY <1>10, <2>1, <2>2
<1>12. \A i \in 1 .. Len(r) : \E j \in 1 .. n :
        r[i] = q[j] /\ (i <= k => j = i) /\ (i > k => j = e + (i - k))
  <2> SUFFICES ASSUME NEW i \in 1 .. Len(r)
               PROVE  \E j \in 1 .. n :
                        r[i] = q[j] /\ (i <= k => j = i) /\ (i > k => j = e + (i - k))
    OBVIOUS
  <2>0. i \in 1 .. k + (n - e)
    BY <1>9
  <2>1. CASE i <= k
    <3>1. i \in 1 .. k /\ i \in 1 .. n
      BY <1>8, <1>9, <2>0, <2>1
    <3> QED
      BY <1>10, <2>1, <3>1
  <2>2. CASE i > k
    <3>1. PICK m \in 1 .. n - e : i = k + m
      <4>1. i - k \in 1 .. n - e /\ i = k + (i - k)
        BY <2>0, <2>2
      <4> QED
        BY <4>1
    <3>2. e + m \in 1 .. n /\ i - k = m
      BY <1>8, <1>9, <3>1
    <3> QED
      BY ONLY <1>8, <1>10, <2>2, <3>1, <3>2
  <2> QED
    BY ONLY <1>8, <2>0, <2>1, <2>2
<1> QED
  BY <1>4, <1>9, <1>10, <1>11, <1>12, <1>r DEF IsWithout
=============================================================================
