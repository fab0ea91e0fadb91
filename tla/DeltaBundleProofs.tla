------------------------- MODULE DeltaBundleProofs --------------------------
(* Theorems about DeltaBundle: that the ranges of a query are the changed      *)
(* blocks, and that the writers put every block of a bundle where it belongs,  *)
(* for every size of the disk and every size of a page.                        *)
EXTENDS DeltaBundle, LeastElement

(* --------------------------- the order of offsets -------------------------- *)

\* Records that their offsets tell apart.
Apart(R) ==
  /\ IsFiniteSet(R) /\ \A r \in R : r.offset \in Int
  /\ \A r, q \in R : r.offset = q.offset => r = q

Before(R, r) == {q \in R : q.offset < r.offset}

LEMMA RankBounds ==
  ASSUME NEW R, Apart(R), NEW r \in R
  PROVE  /\ IsFiniteSet(Before(R, r)) /\ Rank(R, r) = Cardinality(Before(R, r)) + 1
         /\ Rank(R, r) \in 1..Cardinality(R) /\ Cardinality(R) \in Nat
<1>1. Before(R, r) \in SUBSET R /\ r \notin Before(R, r)
  BY DEF Before, Apart
<1>2. /\ IsFiniteSet(Before(R, r)) /\ Cardinality(Before(R, r)) <= Cardinality(R)
      /\ Cardinality(R) = Cardinality(Before(R, r)) => R = Before(R, r)
  BY <1>1, FS_Subset DEF Apart
<1>3. Cardinality(R) \in Nat /\ Cardinality(Before(R, r)) \in Nat
  BY <1>2, FS_CardinalityType DEF Apart
<1>4. Rank(R, r) = Cardinality(Before(R, r)) + 1
  BY DEF Rank, Before
<1> QED BY <1>1, <1>2, <1>3, <1>4

LEMMA RankGrows ==
  ASSUME NEW R, Apart(R), NEW r \in R, NEW q \in R, r.offset < q.offset
  PROVE  Rank(R, r) < Rank(R, q)
<1>1. Before(R, r) \in SUBSET Before(R, q) /\ r \in Before(R, q) /\ r \notin Before(R, r)
  BY DEF Before, Apart
<1>2. /\ Rank(R, r) = Cardinality(Before(R, r)) + 1 /\ Rank(R, q) = Cardinality(Before(R, q)) + 1
      /\ IsFiniteSet(Before(R, q)) /\ IsFiniteSet(Before(R, r))
  BY RankBounds
<1>3. /\ Cardinality(Before(R, r)) <= Cardinality(Before(R, q))
      /\ Cardinality(Before(R, r)) # Cardinality(Before(R, q))
  BY <1>1, <1>2, FS_Subset
<1>4. Cardinality(Before(R, r)) \in Nat /\ Cardinality(Before(R, q)) \in Nat
  BY <1>2, FS_CardinalityType
<1> QED BY <1>2, <1>3, <1>4

\* The records have the ranks from 1 on, one each.
LEMMA RankOnto ==
  ASSUME NEW R, Apart(R), NEW i \in 1..Cardinality(R)
  PROVE  \E r \in R : Rank(R, r) = i
<1> DEFINE n == Cardinality(R)
           f == [r \in R |-> Rank(R, r)]
<1>1. n \in Nat
  BY FS_CardinalityType DEF Apart
<1>2. \A r \in R : Rank(R, r) \in 1..n
  BY RankBounds
<1>3. ASSUME NEW r \in R, NEW q \in R, Rank(R, r) = Rank(R, q) PROVE r = q
  <2>1. CASE r.offset < q.offset
    <3>1. Rank(R, r) < Rank(R, q)
      BY <2>1, RankGrows
    <3> QED BY <1>2, <1>3, <3>1
  <2>2. CASE q.offset < r.offset
    <3>1. Rank(R, q) < Rank(R, r)
      BY <2>2, RankGrows
    <3> QED BY <1>2, <1>3, <3>1
  <2> QED BY <2>1, <2>2 DEF Apart
<1>4. f \in Injection(R, 1..n)
  BY <1>2, <1>3 DEF Injection, IsInjective
<1>5. IsFiniteSet(1..n) /\ Cardinality(1..n) = n
  BY <1>1, FS_Interval
<1>6. f \in Surjection(R, 1..n)
  <2> HIDE DEF f
  <2> QED BY <1>4, <1>5, FS_Injection
<1>7. \E r \in R : f[r] = i
  BY <1>6 DEF Surjection
<1> QED BY <1>7

\* seq lists the records of R in the order of their offsets.
Orders(R, seq) ==
  /\ seq \in [1..Cardinality(R) -> R] /\ \A r \in R : \E i \in DOMAIN seq : seq[i] = r
  /\ \A i, j \in DOMAIN seq : i < j => seq[i].offset < seq[j].offset

LEMMA InOrderOrders ==
  ASSUME NEW R, Apart(R)
  PROVE  Orders(R, InOrder(R))
<1> DEFINE n == Cardinality(R)
           s == InOrder(R)
<1>1. \A i \in 1..n : s[i] \in R /\ Rank(R, s[i]) = i
  BY RankOnto DEF InOrder
<1>2. s = [i \in 1..n |-> s[i]] /\ DOMAIN s = 1..n
  BY DEF InOrder
<1>3. s \in [1..n -> R]
  BY <1>1, <1>2
<1>4. ASSUME NEW r \in R, NEW q \in R, Rank(R, r) <= Rank(R, q)
      PROVE  r = q \/ r.offset < q.offset
  <2>1. q.offset < r.offset => Rank(R, q) < Rank(R, r)
    BY RankGrows
  <2>2. Rank(R, r) \in Int /\ Rank(R, q) \in Int
    BY RankBounds
  <2> QED BY <1>4, <2>1, <2>2 DEF Apart
<1>5. ASSUME NEW r \in R PROVE \E i \in DOMAIN s : s[i] = r
  <2> DEFINE i == Rank(R, r)
  <2>1. i \in 1..n
    BY RankBounds
  <2>2. s[i] \in R /\ Rank(R, s[i]) = Rank(R, r)
    BY <1>1, <2>1
  <2>3. s[i] = r
    <3>1. ~(s[i].offset < r.offset) /\ ~(r.offset < s[i].offset)
      <4> HIDE DEF s, i
      <4>1. Rank(R, r) \in Int
        BY RankBounds
      <4> QED BY <2>2, <4>1, RankGrows
    <3> QED BY <2>2, <3>1 DEF Apart
  <2> QED BY <1>2, <2>1, <2>3
<1>6. ASSUME NEW i \in DOMAIN s, NEW j \in DOMAIN s, i < j PROVE s[i].offset < s[j].offset
  <2>1. s[i] \in R /\ s[j] \in R /\ Rank(R, s[i]) = i /\ Rank(R, s[j]) = j
    BY <1>1, <1>2
  <2>2. i \in Int /\ j \in Int
    BY <1>2
  <2> HIDE DEF s
  <2> QED BY <1>4, <1>6, <2>1, <2>2
<1> HIDE DEF s
<1> QED BY <1>3, <1>5, <1>6 DEF Orders, s

\* Sorting leaves what is in order as it is.
LEMMA OrdersUnique ==
  ASSUME NEW R, Apart(R), NEW seq, Orders(R, seq)
  PROVE  InOrder(R) = seq
<1> DEFINE n == Cardinality(R)
<1>0. n \in Nat /\ DOMAIN seq = 1..n /\ seq \in [1..n -> R]
  BY FS_CardinalityType DEF Apart, Orders
<1>1. ASSUME NEW i \in 1..n PROVE Rank(R, seq[i]) = i
  <2> DEFINE S == Before(R, seq[i])
             f == [j \in 1..(i - 1) |-> seq[j]]
  <2>1. \A j, k \in 1..n : j < k => seq[j].offset < seq[k].offset
    BY <1>0 DEF Orders
  <2>2. \A j \in 1..(i - 1) : j \in 1..n /\ f[j] \in S
    BY <1>0, <2>1 DEF Before
  <2>3. ASSUME NEW q \in S PROVE \E j \in 1..(i - 1) : f[j] = q
    <3>1. PICK j \in 1..n : seq[j] = q
      BY <1>0 DEF Orders, Before
    <3>2. seq[j].offset < seq[i].offset /\ seq[j].offset \in Int /\ seq[i].offset \in Int
      BY <1>0, <3>1 DEF Before, Apart
    <3>3. ~(i < j) /\ i # j
      BY <2>1, <3>2
    <3> QED BY <1>0, <3>1, <3>3
  <2>4. \A j, k \in 1..(i - 1) : f[j] = f[k] => j = k
    <3> SUFFICES ASSUME NEW j \in 1..(i - 1), NEW k \in 1..(i - 1), f[j] = f[k], j # k
                 PROVE  FALSE
      OBVIOUS
    <3>1. seq[j] = seq[k] /\ seq[j].offset \in Int /\ j \in 1..n /\ k \in 1..n
      BY <1>0, <2>2 DEF Apart
    <3>2. j < k \/ k < j
      BY <1>0
    <3> QED BY <2>1, <3>1, <3>2
  <2>5. f \in [1..(i - 1) -> S] /\ DOMAIN f = 1..(i - 1)
    BY <2>2
  <2>6. f \in Surjection(1..(i - 1), S) /\ f \in Injection(1..(i - 1), S)
    <3> HIDE DEF f, S
    <3> QED BY <2>3, <2>4, <2>5 DEF Surjection, Injection, IsInjective
  <2>7. IsFiniteSet(1..(i - 1)) /\ Cardinality(1..(i - 1)) = i - 1
    <3>1. i - 1 \in Int /\ i - 1 >= 0 /\ 1 \in Int
      BY <1>0
    <3>2. /\ IsFiniteSet(1..(i - 1))
          /\ Cardinality(1..(i - 1)) = IF 1 > i - 1 THEN 0 ELSE (i - 1) - 1 + 1
      BY <3>1, FS_Interval
    <3> QED BY <3>1, <3>2
  <2>8. Cardinality(S) = i - 1
    <3> HIDE DEF f, S
    <3> QED BY <2>6, <2>7, FS_Surjection
  <2>9. seq[i] \in R
    BY <1>0
  <2>10. Rank(R, seq[i]) = Cardinality(S) + 1
    BY <2>9, RankBounds
  <2> QED BY <1>0, <2>8, <2>10
<1>2. ASSUME NEW i \in 1..n PROVE InOrder(R)[i] = seq[i]
  <2>1. InOrder(R)[i] \in R /\ Rank(R, InOrder(R)[i]) = i
    BY RankOnto DEF InOrder
  <2>2. seq[i] \in R /\ Rank(R, seq[i]) = i
    BY <1>0, <1>1
  <2> DEFINE r == InOrder(R)[i]
             q == seq[i]
  <2>3. r \in R /\ q \in R /\ Rank(R, r) = Rank(R, q) /\ Rank(R, r) \in Int
    BY <2>1, <2>2
  <2> HIDE DEF r, q
  <2>4. ~(r.offset < q.offset) /\ ~(q.offset < r.offset)
    BY <2>3, RankGrows
  <2>5. r = q
    BY <2>3, <2>4 DEF Apart
  <2> QED BY <2>5 DEF r, q
<1>3. InOrder(R) = [i \in 1..n |-> InOrder(R)[i]]
  BY DEF InOrder
<1>4. seq = [i \in 1..n |-> seq[i]]
  BY <1>0
<1> QED BY <1>2, <1>3, <1>4

(* -------------------------------- the payload ------------------------------ *)

\* Ranges that lie on the disk.
OnDisk == {r \in Ranges : End(r) <= Size}

LEMMA ReadTyped ==
  ASSUME NEW r \in OnDisk
  PROVE  /\ Read(r) \in Seq(Blocks) /\ Len(Read(r)) = r.length /\ r.length \in Nat \ {0}
         /\ \A b \in 0..(r.length - 1) : Read(r)[b + 1] = r.offset + b
<1>1. /\ r.offset \in 0..(Size - 1) /\ r.length \in 1..Size /\ r.offset + r.length <= Size
      /\ Size \in Nat
  BY DeltaBundleAssumption DEF OnDisk, Ranges, End, Blocks
<1>2. \A i \in 1..r.length : r.offset + i - 1 \in Blocks
  BY <1>1 DEF Blocks
<1>3. Read(r) \in [1..r.length -> Blocks]
  BY <1>2 DEF Read
<1>4. \A b \in 0..(r.length - 1) : Read(r)[b + 1] = r.offset + b
  BY <1>1 DEF Read
<1>5. Read(r) \in Seq(Blocks) /\ Len(Read(r)) = r.length
  <2> DEFINE f == Read(r)
             l == r.length
  <2>1. f \in [1..l -> Blocks] /\ l \in Nat
    BY <1>1, <1>3
  <2> HIDE DEF f, l
  <2>2. f \in Seq(Blocks) /\ Len(f) = l
    BY <2>1
  <2> QED BY <2>2 DEF f, l
<1> QED BY <1>1, <1>4, <1>5

\* The recursion in FlattenSeq: f[i] is made of the first i sequences.
Flattens(seqs, n, f) ==
  f = [i \in 1..n |-> IF i = 1 THEN seqs[i] ELSE f[i - 1] \o seqs[i]]

LEMMA FlattensExists ==
  ASSUME NEW seqs, NEW n \in Nat
  PROVE  \E f : Flattens(seqs, n, f)
<1> DEFINE T == {k \in Nat : ~ \E f : Flattens(seqs, k, f)}
<1>1. 0 \notin T
  <2>1. Flattens(seqs, 0, [i \in 1..0 |-> <<>>])
    BY DEF Flattens
  <2> QED BY <2>1
<1>2. ASSUME NEW k \in Nat, k # 0, k \in T PROVE k - 1 \in T
  <2> SUFFICES ASSUME NEW f, Flattens(seqs, k - 1, f) PROVE FALSE
    BY <1>2
  <2> DEFINE g == [i \in 1..k |-> IF i < k THEN f[i]
                                   ELSE IF k = 1 THEN seqs[k] ELSE f[k - 1] \o seqs[k]]
             h == [i \in 1..k |-> IF i = 1 THEN seqs[i] ELSE g[i - 1] \o seqs[i]]
  <2>1. \A i \in 1..(k - 1) : f[i] = IF i = 1 THEN seqs[i] ELSE f[i - 1] \o seqs[i]
    BY DEF Flattens
  <2>2. \A i \in 1..k : g[i] = IF i = 1 THEN seqs[i] ELSE g[i - 1] \o seqs[i]
    <3> SUFFICES ASSUME NEW i \in 1..k
                 PROVE  g[i] = IF i = 1 THEN seqs[i] ELSE g[i - 1] \o seqs[i]
      OBVIOUS
    <3>1. i # 1 => g[i - 1] = f[i - 1]
      BY <1>2
    <3>2. CASE i < k
      <4>1. g[i] = f[i] /\ i \in 1..(k - 1)
        BY <1>2, <3>2
      <4> QED BY <2>1, <3>1, <4>1
    <3>3. CASE i = k
      BY <3>1, <3>3
    <3> QED BY <1>2, <3>2, <3>3
  <2>3. g = h
    <3>1. \A i \in 1..k : h[i] = g[i]
      BY <2>2
    <3> QED BY <3>1
  <2> QED BY <1>2, <2>3 DEF Flattens
<1>3. T = {}
  <2> SUFFICES ASSUME T # {} PROVE FALSE
    OBVIOUS
  <2>1. PICK k \in T : \A y \in T : k <= y
    <3>1. T \in SUBSET Nat
      OBVIOUS
    <3> HIDE DEF T
    <3> QED BY <3>1, LeastExists
  <2>2. k \in Nat /\ k # 0
    BY <1>1, <2>1
  <2>3. k - 1 \in T
    BY <1>2, <2>1, <2>2
  <2> QED BY <2>1, <2>2, <2>3
<1> QED BY <1>3

LEMMA FlattenUnfolds ==
  ASSUME NEW seqs, Len(seqs) \in Nat \ {0}
  PROVE  \E f : Flattens(seqs, Len(seqs), f) /\ FlattenSeq(seqs) = f[Len(seqs)]
<1> DEFINE flatten[i \in 1..Len(seqs)] ==
             IF i = 1 THEN seqs[i] ELSE flatten[i - 1] \o seqs[i]
<1>1. FlattenSeq(seqs) = flatten[Len(seqs)]
  BY DEF FlattenSeq
<1>2. flatten = CHOOSE f : Flattens(seqs, Len(seqs), f)
  BY DEF Flattens
<1>3. Flattens(seqs, Len(seqs), flatten)
  <2> HIDE DEF flatten
  <2> QED BY <1>2, FlattensExists
<1> QED BY <1>1, <1>3

\* What is flattened depends only on the sequences up to there.
LEMMA FlattensAgree ==
  ASSUME NEW s, NEW t, NEW n \in Nat, NEW k \in 0..n, NEW f, NEW g,
         Flattens(s, n, f), Flattens(t, k, g), \A i \in 1..k : s[i] = t[i]
  PROVE  \A i \in 1..k : f[i] = g[i]
<1> DEFINE T == {i \in 1..k : f[i] # g[i]}
<1>1. \A i \in 1..k : /\ f[i] = (IF i = 1 THEN s[i] ELSE f[i - 1] \o s[i])
                      /\ g[i] = (IF i = 1 THEN s[i] ELSE g[i - 1] \o s[i])
  <2>1. \A i \in 1..n : f[i] = IF i = 1 THEN s[i] ELSE f[i - 1] \o s[i]
    BY DEF Flattens
  <2>2. \A i \in 1..k : g[i] = IF i = 1 THEN t[i] ELSE g[i - 1] \o t[i]
    BY DEF Flattens
  <2>3. \A i \in 1..k : i \in 1..n
    OBVIOUS
  <2> QED BY <2>1, <2>2, <2>3
<1>2. T = {}
  <2> SUFFICES ASSUME T # {} PROVE FALSE
    OBVIOUS
  <2>1. PICK i \in T : \A y \in T : i <= y
    <3>1. T \in SUBSET Nat
      OBVIOUS
    <3> HIDE DEF T
    <3> QED BY <3>1, LeastExists
  <2>2. i \in 1..k /\ f[i] # g[i] /\ i # 1
    BY <1>1, <2>1
  <2>3. i - 1 \in 1..k /\ i - 1 \notin T
    <3>1. i - 1 \in 1..k /\ ~(i <= i - 1)
      BY <2>2
    <3> HIDE DEF T
    <3> QED BY <2>1, <3>1
  <2>4. f[i - 1] = g[i - 1]
    BY <2>3
  <2> QED BY <1>1, <2>2, <2>4
<1> QED BY <1>2

\* The payload of the first k ranges of a document.
Upto(doc, k) == Payload(SubSeq(doc, 1, k))

Pieces(doc) == [i \in DOMAIN doc |-> Read(doc[i])]

LEMMA PiecesOfPrefix ==
  ASSUME NEW doc \in Seq(OnDisk), NEW k \in 0..Len(doc)
  PROVE  /\ Len(Pieces(SubSeq(doc, 1, k))) = k
         /\ \A i \in 1..k : Pieces(SubSeq(doc, 1, k))[i] = Read(doc[i])
         /\ Upto(doc, k) = FlattenSeq(Pieces(SubSeq(doc, 1, k)))
         /\ k = 0 => Upto(doc, k) = <<>>
<1> DEFINE d == SubSeq(doc, 1, k)
<1>1. Len(d) = k /\ DOMAIN d = 1..k /\ \A i \in 1..k : d[i] = doc[i]
  OBVIOUS
<1>2. k \in Nat
  OBVIOUS
<1> HIDE DEF d
<1>3. Pieces(d) = [i \in 1..k |-> Read(d[i])]
  BY <1>1 DEF Pieces
<1>4. Len(Pieces(d)) = k /\ \A i \in 1..k : Pieces(d)[i] = Read(doc[i])
  BY <1>1, <1>2, <1>3
<1>5. Upto(doc, k) = FlattenSeq(Pieces(d))
  BY DEF Upto, Payload, Pieces, d
<1>6. ASSUME k = 0 PROVE Upto(doc, k) = <<>>
  <2>1. Pieces(d) = <<>>
    BY <1>3, <1>6
  <2> QED BY <1>4, <1>5, <1>6, <2>1 DEF FlattenSeq
<1> QED BY <1>4, <1>5, <1>6 DEF d

\* A range more appends its data.
LEMMA PayloadGrows ==
  ASSUME NEW doc \in Seq(OnDisk), NEW k \in 1..Len(doc)
  PROVE  Upto(doc, k) = Upto(doc, k - 1) \o Read(doc[k])
<1> DEFINE s == Pieces(SubSeq(doc, 1, k))
           t == Pieces(SubSeq(doc, 1, k - 1))
<1>0. k \in Nat \ {0} /\ k - 1 \in 0..Len(doc) /\ k \in 0..Len(doc)
  OBVIOUS
<1>1. /\ Len(s) = k /\ Len(t) = k - 1 /\ Upto(doc, k) = FlattenSeq(s)
      /\ \A i \in 1..k : s[i] = Read(doc[i])
      /\ \A i \in 1..(k - 1) : t[i] = Read(doc[i])
      /\ Upto(doc, k - 1) = FlattenSeq(t)
  BY <1>0, PiecesOfPrefix
<1>2. Read(doc[k]) \in Seq(Blocks)
  <2>1. doc[k] \in OnDisk
    OBVIOUS
  <2> QED BY <2>1, ReadTyped
<1> HIDE DEF s, t
<1>3. PICK f : Flattens(s, k, f) /\ Upto(doc, k) = f[k]
  BY <1>0, <1>1, FlattenUnfolds
<1>4. f[k] = (IF k = 1 THEN s[k] ELSE f[k - 1] \o s[k]) /\ s[k] = Read(doc[k])
  <2>1. \A i \in 1..k : f[i] = IF i = 1 THEN s[i] ELSE f[i - 1] \o s[i]
    BY <1>3 DEF Flattens
  <2>2. k \in 1..k
    BY <1>0
  <2> QED BY <1>1, <2>1, <2>2
<1>5. CASE k = 1
  <2>1. Upto(doc, k - 1) = <<>>
    <3>1. k - 1 = 0
      BY <1>5
    <3> QED BY <1>0, <3>1, PiecesOfPrefix
  <2>2. Upto(doc, k) = Read(doc[k])
    BY <1>3, <1>4, <1>5
  <2> QED BY <1>2, <2>1, <2>2
<1>6. CASE k # 1
  <2> DEFINE j == k - 1
  <2>1. /\ j \in Nat \ {0} /\ j \in 0..k /\ j \in 1..j /\ j \in 0..Len(doc) /\ k \in Nat
        /\ \A i \in 1..j : i \in 1..k
    BY <1>0, <1>6
  <2>2. Len(t) = j /\ Upto(doc, j) = FlattenSeq(t) /\ \A i \in 1..j : t[i] = Read(doc[i])
    BY <1>1
  <2>3. f[k] = f[j] \o Read(doc[k])
    BY <1>4, <1>6
  <2> HIDE DEF j
  <2>4. PICK g : Flattens(t, j, g) /\ FlattenSeq(t) = g[j]
    BY <2>1, <2>2, FlattenUnfolds
  <2>5. \A i \in 1..j : s[i] = t[i]
    BY <1>1, <2>1, <2>2
  <2>6. \A i \in 1..j : f[i] = g[i]
    BY <1>3, <2>1, <2>4, <2>5, FlattensAgree
  <2>7. f[j] = Upto(doc, j)
    BY <2>1, <2>2, <2>4, <2>6
  <2> QED BY <1>3, <2>3, <2>7 DEF j
<1> QED BY <1>5, <1>6

LEMMA PayloadTyped ==
  ASSUME NEW doc \in Seq(OnDisk)
  PROVE  \A k \in 0..Len(doc) : Upto(doc, k) \in Seq(Blocks)
<1> DEFINE T == {k \in 0..Len(doc) : Upto(doc, k) \notin Seq(Blocks)}
<1> SUFFICES ASSUME T # {} PROVE FALSE
  OBVIOUS
<1>1. PICK k \in T : \A y \in T : k <= y
  <2>1. T \in SUBSET Nat
    OBVIOUS
  <2> HIDE DEF T
  <2> QED BY <2>1, LeastExists
<1>2. k \in 0..Len(doc) /\ Upto(doc, k) \notin Seq(Blocks)
  BY <1>1
<1>3. k # 0
  <2>1. k = 0 => Upto(doc, k) = <<>>
    BY <1>2, PiecesOfPrefix
  <2>2. <<>> \in Seq(Blocks)
    OBVIOUS
  <2> QED BY <1>2, <2>1, <2>2
<1>4. k \in 1..Len(doc) /\ k - 1 \in 0..Len(doc) /\ ~(k <= k - 1)
  BY <1>2, <1>3
<1>5. k - 1 \notin T
  <2> HIDE DEF T
  <2> QED BY <1>1, <1>4
<1>6. Upto(doc, k - 1) \in Seq(Blocks)
  BY <1>4, <1>5
<1>7. Read(doc[k]) \in Seq(Blocks)
  <2>1. doc[k] \in OnDisk
    BY <1>4
  <2> QED BY <2>1, ReadTyped
<1>8. Upto(doc, k) = Upto(doc, k - 1) \o Read(doc[k])
  BY <1>4, PayloadGrows
<1> QED BY <1>2, <1>6, <1>7, <1>8

\* s begins with t.
Begins(t, s) == Len(t) <= Len(s) /\ \A x \in 1..Len(t) : s[x] = t[x]

\* What is packed of the first ranges is where the whole payload begins.
LEMMA PayloadPrefix ==
  ASSUME NEW doc \in Seq(OnDisk), NEW i \in 0..Len(doc)
  PROVE  \A k \in i..Len(doc) : Begins(Upto(doc, i), Upto(doc, k))
<1> DEFINE T == {k \in i..Len(doc) : ~Begins(Upto(doc, i), Upto(doc, k))}
<1> SUFFICES ASSUME T # {} PROVE FALSE
  OBVIOUS
<1>1. PICK k \in T : \A y \in T : k <= y
  <2>1. T \in SUBSET Nat
    OBVIOUS
  <2> HIDE DEF T
  <2> QED BY <2>1, LeastExists
<1>2. k \in i..Len(doc) /\ ~Begins(Upto(doc, i), Upto(doc, k))
  BY <1>1
<1>3. Upto(doc, i) \in Seq(Blocks)
  BY PayloadTyped
<1>4. k # i
  BY <1>2, <1>3 DEF Begins
<1>5. k \in 1..Len(doc) /\ k - 1 \in i..Len(doc) /\ k - 1 \in 0..Len(doc) /\ ~(k <= k - 1)
  BY <1>2, <1>4
<1>6. k - 1 \notin T
  <2> HIDE DEF T
  <2> QED BY <1>1, <1>5
<1>7. Begins(Upto(doc, i), Upto(doc, k - 1))
  BY <1>5, <1>6
<1>8. Upto(doc, k - 1) \in Seq(Blocks) /\ Upto(doc, k) = Upto(doc, k - 1) \o Read(doc[k])
  BY <1>5, PayloadTyped, PayloadGrows
<1>9. Read(doc[k]) \in Seq(Blocks)
  <2>1. doc[k] \in OnDisk
    BY <1>5
  <2> QED BY <2>1, ReadTyped
<1> DEFINE a == Upto(doc, i)
           b == Upto(doc, k - 1)
           c == Read(doc[k])
<1>10. a \in Seq(Blocks) /\ b \in Seq(Blocks) /\ c \in Seq(Blocks) /\ Begins(a, b)
       /\ Upto(doc, k) = b \o c
  BY <1>3, <1>7, <1>8, <1>9
<1>11. ~Begins(a, b \o c)
  BY <1>2, <1>10
<1> HIDE DEF a, b, c
<1>12. /\ Len(b \o c) = Len(b) + Len(c) /\ \A x \in 1..Len(b) : (b \o c)[x] = b[x]
       /\ Len(a) \in Nat /\ Len(b) \in Nat /\ Len(c) \in Nat
  BY <1>10
<1>13. Begins(a, b \o c)
  BY <1>10, <1>12 DEF Begins
<1> QED BY <1>11, <1>13

LEMMA Concatenation ==
  ASSUME NEW S, NEW a \in Seq(S), NEW b \in Seq(S)
  PROVE  /\ a \o b \in Seq(S) /\ Len(a \o b) = Len(a) + Len(b)
         /\ \A i \in 1..Len(a) : (a \o b)[i] = a[i]
         /\ \A i \in 1..Len(b) : (a \o b)[Len(a) + i] = b[i]
<1>1. a \o b \in Seq(S) /\ Len(a \o b) = Len(a) + Len(b)
  OBVIOUS
<1>2. \A i \in 1..Len(a) : (a \o b)[i] = a[i]
  OBVIOUS
<1>3. \A i \in 1..Len(b) : (a \o b)[Len(a) + i] = b[i]
  OBVIOUS
<1> QED BY <1>1, <1>2, <1>3

\* Where the data of a range is in the payload.
LEMMA PayloadAt ==
  ASSUME NEW doc \in Seq(OnDisk), NEW i \in 1..Len(doc), NEW start, start = Len(Upto(doc, i - 1))
  PROVE  /\ start \in Nat /\ Payload(doc) \in Seq(Blocks)
         /\ start + doc[i].length <= Len(Payload(doc))
         /\ \A b \in 0..(doc[i].length - 1) : Payload(doc)[start + b + 1] = doc[i].offset + b
<1> DEFINE n == Len(doc)
           before == Upto(doc, i - 1)
           r == doc[i]
<1>0. n \in Nat /\ i \in 0..n /\ i - 1 \in 0..n /\ n \in i..n /\ n \in 0..n /\ r \in OnDisk
  OBVIOUS
<1>1. Payload(doc) = Upto(doc, n)
  <2>1. SubSeq(doc, 1, Len(doc)) = doc
    OBVIOUS
  <2> QED BY <2>1 DEF Upto
<1>2. /\ before \in Seq(Blocks) /\ Upto(doc, i) \in Seq(Blocks) /\ Payload(doc) \in Seq(Blocks)
  BY <1>0, <1>1, PayloadTyped
<1>3. Upto(doc, i) = before \o Read(r)
  BY PayloadGrows
<1>4. /\ Read(r) \in Seq(Blocks) /\ Len(Read(r)) = r.length /\ r.length \in Nat \ {0}
      /\ \A b \in 0..(r.length - 1) : Read(r)[b + 1] = r.offset + b
  BY <1>0, ReadTyped
<1>5. Begins(Upto(doc, i), Payload(doc))
  BY <1>0, <1>1, PayloadPrefix
<1> DEFINE c == Read(r)
           l == r.length
           o == r.offset
           p == Payload(doc)
<1>6. /\ start = Len(before) /\ before \in Seq(Blocks) /\ c \in Seq(Blocks) /\ Len(c) = l
      /\ l \in Nat \ {0} /\ Begins(before \o c, p) /\ p \in Seq(Blocks)
      /\ \A b \in 0..(l - 1) : c[b + 1] = o + b
  BY <1>2, <1>3, <1>4, <1>5
<1> HIDE DEF before, c, l, o, p
<1>7. /\ Len(before \o c) = start + l /\ start \in Nat
      /\ \A x \in 1..l : (before \o c)[start + x] = c[x]
  <2>0. before \in Seq(Blocks) /\ c \in Seq(Blocks)
    BY <1>6
  <2>1. \A x \in 1..Len(c) : (before \o c)[Len(before) + x] = c[x]
    BY <2>0, Concatenation
  <2>2. Len(before \o c) = Len(before) + Len(c) /\ Len(before) \in Nat
    BY <2>0, Concatenation
  <2> QED BY <1>6, <2>1, <2>2
<1>8. start + l <= Len(p) /\ \A x \in 1..(start + l) : p[x] = (before \o c)[x]
  BY <1>6, <1>7 DEF Begins
<1>9. ASSUME NEW b \in 0..(l - 1) PROVE p[start + b + 1] = o + b
  <2>1. /\ b + 1 \in 1..l /\ start + (b + 1) \in 1..(start + l)
        /\ start + (b + 1) = start + b + 1
    BY <1>6, <1>7
  <2>2. p[start + (b + 1)] = c[b + 1]
    BY <1>7, <1>8, <2>1
  <2> QED BY <1>6, <2>1, <2>2
<1> QED BY <1>6, <1>7, <1>8, <1>9 DEF p, l, o

(* --------------------------- the inductive invariant ----------------------- *)

\* The ranges found so far are the changed blocks before the cursor.
QueryInv ==
  /\ changed \subseteq Blocks /\ cursor \in 0..Size
  /\ found \subseteq Ranges /\ \A r \in found : End(r) <= cursor
  /\ Disjoint(found)
  /\ Covered(found) = changed \cap 0..(cursor - 1)
  /\ stage # "query" => cursor = Size
  /\ stage \in {"query", "pack", "send", "apply", "done", "refused"}

\* The document that was packed lists the ranges of the query, one time each.
Listing(doc) ==
  /\ doc \in [1..Cardinality(found) -> found]
  /\ \A r \in found : \E i \in DOMAIN doc : doc[i] = r
  /\ \A i, j \in DOMAIN doc : doc[i] = doc[j] => i = j
  /\ ~AnyOrder => doc = InOrder(found)

Packed(doc) ==
  /\ Listing(doc)
  /\ bundle.entries = Entries(doc) /\ bundle.payload = Payload(doc)

BundleInv ==
  /\ stage \in {"query", "pack"} => bundle = NoBundle
  /\ bundle # NoBundle \/ stage \in {"send", "apply", "done"} => \E doc : Packed(doc)

\* What a writer goes through, and where it is: only with an intact payload.
Plans == {LocalPlan(bundle.entries), RemotePlan(bundle.entries)}
Writing == stage = "apply" /\ plan # <<>>

WriterInv ==
  /\ payload \in Seq(Data) /\ volume \in [Blocks -> Data]
  /\ at \in (1..(Size + 1)) \X (0..Size)
  /\ stage = "apply" /\ plan = <<>> => at = <<1, 0>>
  /\ Writing => /\ payload = bundle.payload /\ plan \in Plans
                /\ at[1] \in 1..Len(plan) /\ at[2] \in 0..(plan[at[1]].length - 1)

BundlesInv == QueryInv /\ BundleInv /\ WriterInv

\* The blocks of the plan up to where the writer is.
Written ==
  {b \in Blocks : \E j \in DOMAIN plan :
     \/ j < at[1] /\ b \in plan[j].offset..(plan[j].offset + plan[j].length - 1)
     \/ j = at[1] /\ b \in plan[j].offset..(plan[j].offset + at[2] - 1)}

\* The volume when the ranges are packed in order.
VolumeInv ==
  /\ \A b \in Blocks : volume[b] \in {b, Stale} /\ (b \notin changed => volume[b] = Stale)
  /\ Writing => \A b \in Written : volume[b] = b
  /\ AppliedExact

(* --------------------------------- the query ------------------------------- *)

LEMMA RangeFields ==
  ASSUME NEW r \in Ranges
  PROVE  /\ r.offset \in Blocks /\ r.offset \in Nat /\ r.length \in 1..Size /\ r.length \in Nat \ {0}
         /\ End(r) = r.offset + r.length /\ End(r) \in Nat
BY DeltaBundleAssumption DEF Ranges, Blocks, End

\* Ranges that do not overlap begin at different blocks, so there are at most Size.
LEMMA FoundApart ==
  ASSUME QueryInv
  PROVE  Apart(found) /\ Cardinality(found) \in 0..Size
<1>1. \A r \in found : r.offset \in Blocks /\ r.offset \in Nat /\ r.length \in Nat \ {0}
  BY RangeFields DEF QueryInv
<1>2. ASSUME NEW r \in found, NEW q \in found, r.offset = q.offset PROVE r = q
  <2>1. r # q => End(r) <= q.offset \/ End(q) <= r.offset
    BY DEF QueryInv, Disjoint
  <2> QED BY <1>1, <1>2, <2>1 DEF End
<1> DEFINE f == [r \in found |-> r.offset]
<1>3. f \in Injection(found, Blocks)
  BY <1>1, <1>2 DEF Injection, IsInjective
<1>4. IsFiniteSet(Blocks) /\ Cardinality(Blocks) = Size
  <2>1. Size \in Nat /\ Size - 1 \in Int
    BY DeltaBundleAssumption
  <2>2. /\ IsFiniteSet(0..(Size - 1))
        /\ Cardinality(0..(Size - 1)) = IF 0 > Size - 1 THEN 0 ELSE (Size - 1) - 0 + 1
    BY <2>1, FS_Interval
  <2> QED BY <2>1, <2>2 DEF Blocks
<1>5. IsFiniteSet(found) /\ Cardinality(found) <= Size
  <2> HIDE DEF f
  <2> QED BY <1>3, <1>4, FS_Injection
<1>6. Cardinality(found) \in Nat
  BY <1>5, FS_CardinalityType
<1> QED BY <1>1, <1>2, <1>5, <1>6, DeltaBundleAssumption DEF Apart

LEMMA CoveredUnion ==
  ASSUME NEW R, NEW Q
  PROVE  Covered(R \cup Q) = Covered(R) \cup Covered(Q)
BY DEF Covered

LEMMA QueryPageKept ==
  ASSUME QueryInv, QueryPage
  PROVE  QueryInv'
<1>1. /\ stage = "query" /\ cursor < Size /\ Size \in Nat /\ cursor \in 0..Size
      /\ UNCHANGED <<changed, stage, bundle, payload, plan, at, volume>>
  BY DeltaBundleAssumption DEF QueryPage, QueryInv
<1>2. PICK end \in (cursor + 1)..Size : \E page \in Pages(cursor, end) :
        found' = found \cup page /\ cursor' = end
  BY DEF QueryPage
<1>2a. PICK page \in Pages(cursor, end) : found' = found \cup page /\ cursor' = end
  BY <1>2
<1>3. /\ page \subseteq Ranges /\ \A r \in page : r.offset >= cursor /\ End(r) <= end
      /\ Disjoint(page) /\ Covered(page) = changed \cap cursor..(end - 1)
  BY <1>2a DEF Pages
<1>4. /\ found \subseteq Ranges /\ \A r \in found : End(r) <= cursor
      /\ Disjoint(found) /\ Covered(found) = changed \cap 0..(cursor - 1)
      /\ changed \subseteq Blocks
  BY DEF QueryInv
<1>5. found' \subseteq Ranges /\ \A r \in found' : End(r) <= cursor'
  <2>1. \A r \in found : End(r) \in Nat
    BY <1>4, RangeFields
  <2> QED BY <1>1, <1>2a, <1>3, <1>4, <2>1
<1>6. Disjoint(found')
  <2> SUFFICES ASSUME NEW r \in found', NEW q \in found', r # q
               PROVE  End(r) <= q.offset \/ End(q) <= r.offset
    BY DEF Disjoint
  <2>1. CASE (r \in found /\ q \in found) \/ (r \in page /\ q \in page)
    BY <1>3, <1>4, <2>1 DEF Disjoint
  <2>2. ASSUME NEW x \in found, NEW y \in page PROVE End(x) <= y.offset
    <3>1. End(x) \in Nat /\ y.offset \in Nat /\ End(x) <= cursor /\ cursor <= y.offset
      BY <1>1, <1>3, <1>4, RangeFields
    <3> QED BY <1>1, <3>1
  <2> QED BY <1>2a, <2>1, <2>2
<1>7. Covered(found') = changed' \cap 0..(cursor' - 1)
  <2>1. Covered(found') = Covered(found) \cup Covered(page)
    BY <1>2a, CoveredUnion
  <2>2. 0..(end - 1) = 0..(cursor - 1) \cup cursor..(end - 1)
    BY <1>1, <1>2a
  <2> QED BY <1>1, <1>2a, <1>3, <1>4, <2>1, <2>2
<1>8. cursor' \in 0..Size
  BY <1>1, <1>2a
<1> QED BY <1>1, <1>4, <1>5, <1>6, <1>7, <1>8 DEF QueryInv

LEMMA QueryKept ==
  ASSUME QueryInv, [Next]_vars
  PROVE  QueryInv'
<1>1. CASE QueryPage
  BY <1>1, QueryPageKept
<1>2. CASE QueryEnds
  <2>1. cursor = Size
    BY <1>2, DeltaBundleAssumption DEF QueryEnds, QueryInv
  <2> QED BY <1>2, <2>1 DEF QueryEnds, QueryInv
<1>3. CASE Pack \/ Send \/ Start \/ WriteBlock \/ Retry
  <2>1. /\ UNCHANGED <<changed, cursor, found>> /\ stage # "query"
        /\ stage' \in {"send", "apply", "done", "refused"}
    <3>1. CASE Pack
      BY <3>1 DEF Pack
    <3>2. CASE Send
      BY <3>2 DEF Send
    <3>3. CASE Start
      BY <3>3 DEF Start
    <3>4. CASE WriteBlock
      BY <3>4 DEF WriteBlock
    <3>5. CASE Retry
      BY <3>5 DEF Retry
    <3> QED BY <1>3, <3>1, <3>2, <3>3, <3>4, <3>5
  <2> QED BY <2>1 DEF QueryInv
<1>4. CASE UNCHANGED vars
  BY <1>4 DEF vars, QueryInv
<1> QED BY <1>1, <1>2, <1>3, <1>4 DEF Next

LEMMA QueryInit ==
  ASSUME Init
  PROVE  QueryInv
<1>1. Size \in Nat
  BY DeltaBundleAssumption
<1>2. Covered({}) = {} /\ 0..(0 - 1) = {}
  BY DEF Covered
<1> QED BY <1>1, <1>2 DEF Init, QueryInv, Disjoint

LEMMA QueryMeans ==
  ASSUME QueryInv
  PROVE  QueryExact
<1>1. changed \cap 0..(Size - 1) = changed
  BY DEF QueryInv, Blocks
<1> QED BY <1>1 DEF QueryInv, QueryExact

(* --------------------------------- the bundle ------------------------------ *)

\* A document as the writer's proofs use it: ranges on the disk, sorted or not.
LEMMA ListingTyped ==
  ASSUME QueryInv, NEW doc, Listing(doc)
  PROVE  /\ doc \in Seq(OnDisk) /\ Len(doc) = Cardinality(found) /\ Len(doc) \in 0..Size
         /\ DOMAIN doc = 1..Len(doc) /\ \A i \in 1..Len(doc) : doc[i] \in found
         /\ \A i, j \in 1..Len(doc) : doc[i].offset = doc[j].offset => i = j
<1> DEFINE n == Cardinality(found)
<1>1. n \in 0..Size /\ n \in Nat /\ Apart(found)
  BY FoundApart, DeltaBundleAssumption
<1>2. found \subseteq OnDisk
  <2> SUFFICES ASSUME NEW r \in found PROVE r \in OnDisk
    OBVIOUS
  <2>1. r \in Ranges /\ End(r) <= cursor /\ cursor \in 0..Size
    BY DEF QueryInv
  <2>2. End(r) \in Nat /\ Size \in Nat
    BY <2>1, RangeFields, DeltaBundleAssumption
  <2> QED BY <2>1, <2>2 DEF OnDisk
<1>3. doc \in [1..n -> found]
  BY DEF Listing
<1> HIDE DEF n
<1>4. doc \in Seq(OnDisk) /\ Len(doc) = n /\ DOMAIN doc = 1..n
  BY <1>1, <1>2, <1>3
<1>6. \A i \in 1..n : doc[i] \in found
  BY <1>3
<1>5. ASSUME NEW i \in 1..n, NEW j \in 1..n, doc[i].offset = doc[j].offset PROVE i = j
  <2>1. doc[i] = doc[j]
    BY <1>1, <1>5, <1>6 DEF Apart
  <2> QED BY <1>4, <2>1 DEF Listing
<1> QED BY <1>1, <1>4, <1>5, <1>6 DEF n

LEMMA OrderedLists ==
  ASSUME QueryInv
  PROVE  Listing(InOrder(found)) /\ Orders(found, InOrder(found))
<1> DEFINE n == Cardinality(found)
           doc == InOrder(found)
<1>1. Apart(found) /\ n \in Nat
  BY FoundApart, DeltaBundleAssumption
<1>2. Orders(found, doc)
  BY <1>1, InOrderOrders
<1>3. DOMAIN doc = 1..n /\ doc \in [1..n -> found]
  BY <1>2 DEF Orders
<1> HIDE DEF doc
<1>4. ASSUME NEW i \in 1..n, NEW j \in 1..n, doc[i] = doc[j] PROVE i = j
  <2>1. doc[i].offset \in Int
    BY <1>1, <1>3 DEF Apart
  <2>2. ~(i < j) /\ ~(j < i)
    BY <1>2, <1>3, <1>4, <2>1 DEF Orders
  <2> QED BY <1>1, <2>2
<1> QED BY <1>2, <1>3, <1>4 DEF Listing, Orders, doc

\* Both ways to write a document down list the ranges.
LEMMA DocumentLists ==
  ASSUME QueryInv, NEW doc, doc \in (IF AnyOrder THEN SetToSeqs(found) ELSE {InOrder(found)})
  PROVE  Listing(doc)
<1> DEFINE n == Cardinality(found)
<1>1. Apart(found) /\ n \in Nat
  BY FoundApart, DeltaBundleAssumption
<1>2. CASE AnyOrder
  <2>1. doc \in [1..n -> found] /\ \A i, j \in 1..n : i # j => doc[i] # doc[j]
    BY <1>2 DEF SetToSeqs
  <2>2. DOMAIN doc = 1..n
    BY <2>1
  <2>3. doc \in Injection(1..n, found)
    BY <2>1, <2>2 DEF Injection, IsInjective
  <2>4. IsFiniteSet(1..n) /\ Cardinality(1..n) = Cardinality(found)
    BY <1>1, FS_Interval
  <2>5. doc \in Surjection(1..n, found)
    <3> HIDE DEF n
    <3> QED BY <1>1, <2>3, <2>4, FS_Injection DEF Apart
  <2>6. \A r \in found : \E i \in 1..n : doc[i] = r
    BY <2>5 DEF Surjection
  <2> QED BY <1>2, <2>1, <2>2, <2>6 DEF Listing
<1>3. CASE ~AnyOrder
  BY <1>3, OrderedLists
<1> QED BY <1>2, <1>3

LEMMA EntryFields ==
  ASSUME NEW doc, NEW i \in DOMAIN doc
  PROVE  LET e == Entries(doc)[i]
         IN /\ e.offset = doc[i].offset /\ e.length = doc[i].length
            /\ e.payload_offset = Len(Upto(doc, i - 1)) /\ e.sha256 = Read(doc[i])
BY DEF Entries, Upto

\* Sorting the entries of a bundle gives each of them once.
LEMMA EntriesApart ==
  ASSUME QueryInv, NEW doc, Listing(doc)
  PROVE  /\ Apart(ToSet(Entries(doc))) /\ Cardinality(ToSet(Entries(doc))) = Len(doc)
         /\ Orders(ToSet(Entries(doc)), SortEntries(Entries(doc)))
<1> DEFINE n == Len(doc)
           e == Entries(doc)
           E == ToSet(e)
<1>1. /\ n \in Nat /\ DOMAIN doc = 1..n
      /\ \A i \in 1..n : doc[i] \in Ranges /\ doc[i].offset \in Nat
      /\ \A i, j \in 1..n : doc[i].offset = doc[j].offset => i = j
  BY ListingTyped, RangeFields DEF QueryInv
<1>2. DOMAIN e = 1..n /\ e = [i \in 1..n |-> e[i]]
  BY <1>1 DEF Entries
<1>3. \A i \in 1..n : e[i].offset = doc[i].offset
  BY <1>1, EntryFields
<1>4. E = {e[i] : i \in 1..n}
  BY <1>2 DEF ToSet
<1> HIDE DEF e, n, E
<1>5. e \in Surjection(1..n, E) /\ e \in Injection(1..n, E)
  <2>1. e \in [1..n -> E]
    BY <1>2, <1>4
  <2>2. \A i, j \in 1..n : e[i] = e[j] => i = j
    BY <1>1, <1>3
  <2> QED BY <1>2, <1>4, <2>1, <2>2 DEF Surjection, Injection, IsInjective
<1>6. IsFiniteSet(1..n) /\ Cardinality(1..n) = n
  BY <1>1, FS_Interval
<1>7. IsFiniteSet(E) /\ Cardinality(E) = n
  BY <1>5, <1>6, FS_Surjection
<1>8. Apart(E)
  BY <1>1, <1>3, <1>4, <1>7 DEF Apart
<1> QED BY <1>7, <1>8, InOrderOrders DEF E, e, n, SortEntries

\* What either writer goes through: stretches of the disk, as many as ranges.
LEMMA PlanTyped ==
  ASSUME QueryInv, NEW doc, Packed(doc), NEW steps \in Plans
  PROVE  /\ Len(steps) = Len(doc) /\ DOMAIN steps = 1..Len(doc)
         /\ \A i \in 1..Len(doc) :
              /\ steps[i].offset \in Nat /\ steps[i].length \in 1..Size
              /\ steps[i].offset + steps[i].length <= Size
              /\ steps[i].payload_offset \in Nat
              /\ \E r \in found : steps[i].offset = r.offset /\ steps[i].length = r.length
<1> DEFINE n == Len(doc)
           e == Entries(doc)
           E == ToSet(e)
           sorted == SortEntries(e)
<1>1. /\ n \in Nat /\ DOMAIN doc = 1..n /\ doc \in Seq(OnDisk)
      /\ \A i \in 1..n : doc[i] \in found
  BY ListingTyped DEF Packed
<1>2. ASSUME NEW r \in found
      PROVE  r.offset \in Nat /\ r.length \in 1..Size /\ r.offset + r.length <= Size
  <2>1. r \in Ranges /\ End(r) <= cursor /\ cursor \in 0..Size /\ Size \in Nat
    BY DeltaBundleAssumption DEF QueryInv
  <2> QED BY <2>1, RangeFields
<1>3. DOMAIN e = 1..n /\ e = [i \in 1..n |-> e[i]]
  BY <1>1 DEF Entries
<1>4. ASSUME NEW i \in 1..n
      PROVE  /\ \E r \in found : e[i].offset = r.offset /\ e[i].length = r.length
             /\ e[i].payload_offset \in Nat
  <2>1. /\ e[i].offset = doc[i].offset /\ e[i].length = doc[i].length
        /\ e[i].payload_offset = Len(Upto(doc, i - 1))
    BY <1>1, EntryFields
  <2>2. Len(Upto(doc, i - 1)) \in Nat
    BY <1>1, PayloadAt
  <2> QED BY <1>1, <2>1, <2>2
<1>5. sorted \in [1..n -> E] /\ E = {e[i] : i \in 1..n} /\ DOMAIN sorted = 1..n
  <2>1. Orders(E, sorted) /\ Cardinality(E) = n
    BY EntriesApart DEF Packed
  <2>2. E = {e[i] : i \in 1..n}
    BY <1>3 DEF ToSet
  <2> HIDE DEF sorted, E, n
  <2> QED BY <2>1, <2>2 DEF Orders
<1>6. ASSUME NEW i \in 1..n
      PROVE  /\ \E r \in found : sorted[i].offset = r.offset /\ sorted[i].length = r.length
             /\ sorted[i].payload_offset \in Nat
  <2> HIDE DEF sorted, E, e, n
  <2>1. \E j \in 1..n : sorted[i] = e[j]
    BY <1>5
  <2> QED BY <1>4, <2>1
<1>7. CASE steps = sorted
  <2>1. Len(sorted) = n
    <3> HIDE DEF sorted, E, n
    <3> QED BY <1>1, <1>5
  <2> HIDE DEF sorted
  <2> QED BY <1>2, <1>5, <1>6, <1>7, <2>1
<1>8. CASE steps = LocalPlan(e)
  <2> DEFINE step(i) == [e[i] EXCEPT !.offset = sorted[i].offset, !.length = sorted[i].length]
  <2>1. steps = [i \in 1..n |-> step(i)]
    BY <1>3, <1>8 DEF LocalPlan
  <2>2. \A i \in 1..n : e[i] = [offset |-> doc[i].offset, length |-> doc[i].length,
                                payload_offset |-> e[i].payload_offset, sha256 |-> e[i].sha256]
    BY <1>1 DEF Entries
  <2> HIDE DEF sorted, e, n
  <2>5. \A i \in 1..n : /\ step(i).offset = sorted[i].offset /\ step(i).length = sorted[i].length
                        /\ step(i).payload_offset = e[i].payload_offset
    BY <2>2
  <2> HIDE DEF step
  <2>3. DOMAIN steps = 1..n /\ Len(steps) = n
    BY <1>1, <2>1
  <2>4. ASSUME NEW i \in 1..n
        PROVE  /\ steps[i].offset = sorted[i].offset /\ steps[i].length = sorted[i].length
               /\ steps[i].payload_offset = e[i].payload_offset
    BY <2>1, <2>5
  <2>6. ASSUME NEW i \in 1..n
        PROVE  /\ steps[i].offset \in Nat /\ steps[i].length \in 1..Size
               /\ steps[i].offset + steps[i].length <= Size
               /\ \E r \in found : steps[i].offset = r.offset /\ steps[i].length = r.length
    <3>1. PICK r \in found : sorted[i].offset = r.offset /\ sorted[i].length = r.length
      BY <1>6
    <3> QED BY <1>2, <2>4, <3>1
  <2>7. \A i \in 1..n : steps[i].payload_offset \in Nat
    BY <1>4, <2>4
  <2> QED BY <2>3, <2>6, <2>7 DEF n
<1> QED BY <1>7, <1>8 DEF Plans, Packed, RemotePlan

\* Of a bundle packed in order both writers make the same, its entries.
LEMMA PlanExact ==
  ASSUME QueryInv, ~AnyOrder, NEW doc, Packed(doc), NEW steps \in Plans
  PROVE  steps = Entries(doc)
<1> DEFINE n == Len(doc)
           e == Entries(doc)
           E == ToSet(e)
<1>1. /\ n = Cardinality(found) /\ n \in Nat /\ DOMAIN doc = 1..n
  BY ListingTyped DEF Packed
<1>2. \A i, j \in 1..n : i < j => doc[i].offset < doc[j].offset
  <2>1. doc = InOrder(found)
    BY DEF Packed, Listing
  <2>2. Orders(found, doc)
    BY <2>1, FoundApart, InOrderOrders
  <2> QED BY <1>1, <2>2 DEF Orders
<1>3. DOMAIN e = 1..n /\ e = [i \in 1..n |-> e[i]]
  BY <1>1 DEF Entries
<1>4. \A i \in 1..n : e[i].offset = doc[i].offset
  BY <1>1, EntryFields
<1>5. Apart(E) /\ Cardinality(E) = n
  BY EntriesApart DEF Packed
<1>6. E = {e[i] : i \in 1..n}
  BY <1>3 DEF ToSet
<1>7. Orders(E, e)
  <2> HIDE DEF e, n, E
  <2> QED BY <1>2, <1>3, <1>4, <1>5, <1>6 DEF Orders
<1>8. SortEntries(e) = e
  BY <1>5, <1>7, OrdersUnique DEF SortEntries
<1>9. LocalPlan(e) = e
  <2>1. LocalPlan(e) = [i \in 1..n |-> [e[i] EXCEPT !.offset = e[i].offset, !.length = e[i].length]]
    BY <1>3, <1>8 DEF LocalPlan
  <2>2. \A i \in 1..n : [e[i] EXCEPT !.offset = e[i].offset, !.length = e[i].length] = e[i]
    BY <1>1 DEF Entries
  <2> HIDE DEF e, n
  <2> QED BY <1>3, <2>1, <2>2
<1> QED BY <1>8, <1>9 DEF Plans, Packed, RemotePlan

LEMMA BundleInit ==
  ASSUME Init
  PROVE  BundleInv /\ WriterInv
<1>1. Size \in Nat
  BY DeltaBundleAssumption
<1>2. volume \in [Blocks -> Data]
  BY DEF Init, Data
<1> QED BY <1>1, <1>2 DEF Init, BundleInv, WriterInv, Writing

\* From the bundle on, only the writer and the transfer move.
LEMMA BundleKept ==
  ASSUME QueryInv, BundleInv, [Next]_vars
  PROVE  BundleInv'
<1>1. CASE QueryPage \/ QueryEnds
  <2>1. /\ bundle' = bundle /\ stage \in {"query"} /\ stage' \in {"query", "pack", "refused"}
    BY <1>1 DEF QueryPage, QueryEnds
  <2> QED BY <2>1 DEF BundleInv
<1>2. CASE Pack
  <2>1. PICK doc \in (IF AnyOrder THEN SetToSeqs(found) ELSE {InOrder(found)}) :
          bundle' = [entries |-> Entries(doc), payload |-> Payload(doc)]
    BY <1>2 DEF Pack
  <2>2. Listing(doc)
    BY <2>1, DocumentLists
  <2>3. found' = found /\ stage' = "send"
    BY <1>2 DEF Pack
  <2>4. Packed(doc)'
    BY <2>1, <2>2, <2>3 DEF Packed, Listing
  <2> QED BY <2>3, <2>4 DEF BundleInv
<1>3. CASE Send \/ Start \/ WriteBlock \/ Retry
  <2>1. /\ UNCHANGED <<bundle, found>> /\ stage' \in {"send", "apply", "done", "refused"}
        /\ bundle # NoBundle \/ stage \in {"send", "apply"}
    <3>1. CASE Send
      BY <3>1 DEF Send
    <3>2. CASE Start
      BY <3>2 DEF Start
    <3>3. CASE WriteBlock
      BY <3>3 DEF WriteBlock
    <3>4. CASE Retry
      BY <3>4 DEF Retry
    <3> QED BY <1>3, <3>1, <3>2, <3>3, <3>4
  <2>2. PICK doc : Packed(doc)
    BY <2>1 DEF BundleInv
  <2>3. Packed(doc)'
    BY <2>1, <2>2 DEF Packed, Listing
  <2> QED BY <2>1, <2>3 DEF BundleInv
<1>4. CASE UNCHANGED vars
  BY <1>4 DEF vars, BundleInv, Packed, Listing
<1> QED BY <1>1, <1>2, <1>3, <1>4 DEF Next

(* --------------------------------- the writer ------------------------------ *)

LEMMA PackedPayload ==
  ASSUME QueryInv, NEW doc, Packed(doc)
  PROVE  bundle.payload \in Seq(Blocks) /\ bundle.payload = Payload(doc)
<1>1. doc \in Seq(OnDisk)
  BY ListingTyped DEF Packed
<1>2. Upto(doc, Len(doc)) \in Seq(Blocks) /\ SubSeq(doc, 1, Len(doc)) = doc
  BY <1>1, PayloadTyped
<1> QED BY <1>2 DEF Packed, Upto

\* What is sent arrives as a sequence of blocks, some of which may be damaged.
LEMMA ArrivalsTyped ==
  ASSUME NEW p \in Seq(Blocks), NEW arrived \in Arrivals(p)
  PROVE  arrived \in Seq(Data)
<1>1. Blocks \subseteq Data /\ Damaged \in Data
  BY DEF Data
<1>2. p \in Seq(Data) /\ DOMAIN p = 1..Len(p) /\ Len(p) \in Nat
  BY <1>1
<1>3. CASE \E i \in DOMAIN p : arrived = [p EXCEPT ![i] = Damaged]
  <2>1. p \in [1..Len(p) -> Data]
    BY <1>2
  <2>2. arrived \in [1..Len(p) -> Data]
    BY <1>1, <1>2, <1>3, <2>1
  <2> QED BY <1>2, <2>2
<1>4. CASE \E n \in 0..(Len(p) - 1) : arrived = SubSeq(p, 1, n)
  <2>1. PICK n \in 0..(Len(p) - 1) : arrived = SubSeq(p, 1, n)
    BY <1>4
  <2>2. n \in Nat /\ n <= Len(p)
    BY <1>2, <2>1
  <2>3. SubSeq(p, 1, n) \in Seq(Data)
    BY <1>2, <2>2
  <2> QED BY <2>1, <2>3
<1> QED BY <1>2, <1>3, <1>4 DEF Arrivals

\* Where a writer is that has checked the payload.
LEMMA WriterAt ==
  ASSUME QueryInv, BundleInv, WriterInv, Writing
  PROVE  \E doc :
           /\ Packed(doc) /\ plan \in Plans /\ payload = Payload(doc) /\ payload \in Seq(Blocks)
           /\ Len(plan) = Len(doc) /\ DOMAIN plan = 1..Len(doc) /\ Len(doc) \in 0..Size
           /\ at = <<at[1], at[2]>> /\ at[1] \in 1..Len(doc)
           /\ LET r == plan[at[1]]
              IN /\ r.offset \in Nat /\ r.length \in 1..Size /\ r.offset + r.length <= Size
                 /\ r.payload_offset \in Nat
                 /\ at[2] \in 0..(r.length - 1) /\ r.offset + at[2] \in Blocks
                 /\ \E q \in found : r.offset = q.offset /\ r.length = q.length
<1>1. PICK doc : Packed(doc)
  BY DEF BundleInv, Writing
<1>2. /\ payload = bundle.payload /\ plan \in Plans /\ at[1] \in 1..Len(plan)
      /\ at[2] \in 0..(plan[at[1]].length - 1) /\ at \in (1..(Size + 1)) \X (0..Size)
  BY DEF WriterInv
<1>3. at = <<at[1], at[2]>>
  BY <1>2
<1>4. payload = Payload(doc) /\ payload \in Seq(Blocks)
  BY <1>1, <1>2, PackedPayload
<1>5. Len(doc) \in 0..Size
  BY <1>1, ListingTyped DEF Packed
<1>6. /\ Len(plan) = Len(doc) /\ DOMAIN plan = 1..Len(doc)
      /\ \A i \in 1..Len(doc) :
           /\ plan[i].offset \in Nat /\ plan[i].length \in 1..Size
           /\ plan[i].offset + plan[i].length <= Size
           /\ plan[i].payload_offset \in Nat
           /\ \E r \in found : plan[i].offset = r.offset /\ plan[i].length = r.length
  BY <1>1, <1>2, PlanTyped
<1>7. at[1] \in 1..Len(doc)
  BY <1>2, <1>6
<1> DEFINE r == plan[at[1]]
<1>8. /\ r.offset \in Nat /\ r.length \in 1..Size /\ r.offset + r.length <= Size
      /\ r.payload_offset \in Nat /\ at[2] \in 0..(r.length - 1)
      /\ \E q \in found : r.offset = q.offset /\ r.length = q.length
  BY <1>2, <1>6, <1>7
<1>9. r.offset + at[2] \in Blocks
  <2> HIDE DEF r
  <2> QED BY <1>8, DeltaBundleAssumption DEF Blocks
<1> QED BY <1>1, <1>2, <1>3, <1>4, <1>5, <1>6, <1>7, <1>8, <1>9

\* The outcomes of writing a block.
Source == plan[at[1]].payload_offset + at[2] + 1
Target == plan[at[1]].offset + at[2]
LastOfRange == at[2] = plan[at[1]].length - 1

LEMMA WriteOutcomes ==
  ASSUME WriteBlock
  PROVE  /\ Writing /\ UNCHANGED <<changed, cursor, found, bundle, payload, plan>>
         /\ \/ Source > Len(payload) /\ stage' = "refused" /\ UNCHANGED <<at, volume>>
            \/ /\ ~(Source > Len(payload))
               /\ volume' = [volume EXCEPT ![Target] = payload[Source]]
               /\ at' = IF LastOfRange THEN <<at[1] + 1, 0>> ELSE <<at[1], at[2] + 1>>
               /\ stage' \in {"apply", "done", "refused"}
               /\ stage' = "apply" => ~(LastOfRange /\ at[1] = Len(plan))
               /\ stage' = "done" => LastOfRange /\ at[1] = Len(plan)
BY DEF WriteBlock, Writing, Source, Target, LastOfRange

LEMMA WriteBlockKept ==
  ASSUME QueryInv, BundleInv, WriterInv, WriteBlock
  PROVE  WriterInv'
<1>1. /\ Writing /\ UNCHANGED <<bundle, payload, plan>>
      /\ \/ Source > Len(payload) /\ stage' = "refused" /\ UNCHANGED <<at, volume>>
         \/ /\ ~(Source > Len(payload))
            /\ volume' = [volume EXCEPT ![Target] = payload[Source]]
            /\ at' = IF LastOfRange THEN <<at[1] + 1, 0>> ELSE <<at[1], at[2] + 1>>
            /\ stage' \in {"apply", "done", "refused"}
            /\ stage' = "apply" => ~(LastOfRange /\ at[1] = Len(plan))
  BY WriteOutcomes
<1>2. PICK doc :
        /\ Packed(doc) /\ plan \in Plans /\ payload = Payload(doc) /\ payload \in Seq(Blocks)
        /\ Len(plan) = Len(doc) /\ DOMAIN plan = 1..Len(doc) /\ Len(doc) \in 0..Size
        /\ at[1] \in 1..Len(doc)
        /\ plan[at[1]].length \in 1..Size /\ plan[at[1]].payload_offset \in Nat
        /\ at[2] \in 0..(plan[at[1]].length - 1) /\ Target \in Blocks
  BY <1>1, WriterAt DEF Target
<1>3. /\ payload \in Seq(Data) /\ volume \in [Blocks -> Data] /\ plan # <<>>
      /\ at \in (1..(Size + 1)) \X (0..Size) /\ payload = bundle.payload
  BY <1>1 DEF WriterInv, Writing
<1>4. CASE stage' = "refused" /\ UNCHANGED <<at, volume>>
  BY <1>1, <1>3, <1>4 DEF WriterInv, Writing
<1>5. CASE /\ ~(Source > Len(payload))
           /\ volume' = [volume EXCEPT ![Target] = payload[Source]]
           /\ at' = IF LastOfRange THEN <<at[1] + 1, 0>> ELSE <<at[1], at[2] + 1>>
           /\ stage' \in {"apply", "done", "refused"}
           /\ stage' = "apply" => ~(LastOfRange /\ at[1] = Len(plan))
  <2>0. Size \in Nat
    BY DeltaBundleAssumption
  <2>1. Source \in 1..Len(payload)
    <3>1. /\ plan[at[1]].payload_offset \in Nat /\ plan[at[1]].length \in Nat
          /\ at[2] \in 0..(plan[at[1]].length - 1)
      BY <1>2, <2>0
    <3>2. Len(payload) \in Nat /\ ~(Source > Len(payload))
      BY <1>3, <1>5
    <3>3. at[2] \in Nat
      BY <3>1
    <3> DEFINE o == plan[at[1]].payload_offset
               b == at[2]
    <3>4. Source = o + b + 1
      BY DEF Source
    <3> HIDE DEF o, b
    <3> QED BY <3>1, <3>2, <3>3, <3>4 DEF o, b
  <2>2. payload[Source] \in Data
    BY <1>3, <2>1
  <2>3. volume' \in [Blocks -> Data]
    BY <1>2, <1>3, <1>5, <2>2
  <2>4. CASE LastOfRange
    <3>1. at' = <<at[1] + 1, 0>> /\ at'[1] = at[1] + 1 /\ at'[2] = 0
      BY <1>5, <2>4
    <3>2. at' \in (1..(Size + 1)) \X (0..Size)
      BY <1>2, <2>0, <3>1
    <3>3. ASSUME stage' = "apply"
          PROVE  at'[1] \in 1..Len(plan) /\ at'[2] \in 0..(plan[at'[1]].length - 1)
      <4>1. at[1] # Len(plan)
        BY <1>5, <2>4, <3>3
      <4>2. at[1] + 1 \in 1..Len(doc)
        BY <1>2, <4>1
      <4>3. plan[at[1] + 1].length \in 1..Size
        BY <1>2, <4>2, PlanTyped
      <4> QED BY <1>2, <2>0, <3>1, <4>2, <4>3
    <3> QED BY <1>1, <1>2, <1>3, <2>3, <3>2, <3>3 DEF WriterInv, Writing, Plans
  <2>5. CASE ~LastOfRange
    <3>1. at' = <<at[1], at[2] + 1>> /\ at'[1] = at[1] /\ at'[2] = at[2] + 1
      BY <1>5, <2>5
    <3>2. at[2] + 1 \in 0..(plan[at[1]].length - 1)
      <4> DEFINE l == plan[at[1]].length
                 b == at[2]
      <4>1. l \in 1..Size /\ b \in 0..(l - 1) /\ b # l - 1
        BY <1>2, <2>5 DEF LastOfRange
      <4> HIDE DEF l, b
      <4>2. b + 1 \in 0..(l - 1)
        BY <2>0, <4>1
      <4> QED BY <4>2 DEF l, b
    <3>3. at' \in (1..(Size + 1)) \X (0..Size)
      <4>0. /\ at[1] \in 1..Len(doc) /\ Len(doc) \in 0..Size
            /\ plan[at[1]].length \in 1..Size
        BY <1>2
      <4>1. at[1] \in 1..(Size + 1) /\ at[2] + 1 \in 0..Size
        <5> DEFINE l == plan[at[1]].length
                   m == Len(doc)
                   i == at[1]
                   b == at[2] + 1
        <5>1. i \in 1..m /\ m \in 0..Size /\ l \in 1..Size /\ b \in 0..(l - 1)
          BY <3>2, <4>0
        <5> HIDE DEF i, m, l, b
        <5>2. i \in 1..(Size + 1) /\ b \in 0..Size
          BY <2>0, <5>1
        <5> QED BY <5>2 DEF i, b
      <4>2. <<at[1], at[2] + 1>> \in (1..(Size + 1)) \X (0..Size)
        BY <4>1
      <4> QED BY <3>1, <4>2
    <3> QED BY <1>1, <1>2, <1>3, <2>3, <3>1, <3>2, <3>3 DEF WriterInv, Writing, Plans
  <2> QED BY <2>4, <2>5
<1> QED BY <1>1, <1>4, <1>5

LEMMA StartKept ==
  ASSUME QueryInv, BundleInv, WriterInv, Start
  PROVE  WriterInv'
<1>1. /\ stage = "apply" /\ plan = <<>> /\ plan' \in Plans
      /\ UNCHANGED <<changed, cursor, found, bundle, payload, at, volume>>
      /\ stage' = "apply" => payload = bundle.payload /\ bundle.entries # <<>>
  BY DEF Start, Plans
<1>2. at = <<1, 0>>
  BY <1>1 DEF WriterInv
<1>3. PICK doc : Packed(doc)
  BY <1>1 DEF BundleInv
<1>4. /\ Len(plan') = Len(doc)
      /\ \A i \in 1..Len(doc) : plan'[i].length \in 1..Size
  BY <1>1, <1>3, PlanTyped
<1>5. ASSUME stage' = "apply"
      PROVE  at'[1] \in 1..Len(plan') /\ at'[2] \in 0..(plan'[at'[1]].length - 1)
  <2>1. Len(doc) \in Nat /\ DOMAIN doc = 1..Len(doc)
    BY <1>3, ListingTyped, DeltaBundleAssumption DEF Packed
  <2>2. Len(doc) # 0
    <3> SUFFICES ASSUME Len(doc) = 0 PROVE FALSE
      OBVIOUS
    <3>1. Entries(doc) = <<>>
      BY <2>1 DEF Entries
    <3> QED BY <1>1, <1>3, <1>5, <3>1 DEF Packed
  <2>3. 1 \in 1..Len(doc)
    BY <2>1, <2>2
  <2>4. plan'[1].length \in 1..Size /\ Size \in Nat
    BY <1>4, <2>3, DeltaBundleAssumption
  <2>5. at'[1] = 1 /\ at'[2] = 0
    BY <1>1, <1>2
  <2> QED BY <1>4, <2>3, <2>4, <2>5
<1> QED BY <1>1, <1>2, <1>5 DEF WriterInv, Writing, Plans

LEMMA WriterKept ==
  ASSUME QueryInv, BundleInv, WriterInv, [Next]_vars
  PROVE  WriterInv'
<1>1. CASE QueryPage \/ QueryEnds \/ Pack \/ Retry
  <2>1. /\ UNCHANGED <<payload, at, volume>> /\ stage' # "apply"
    BY <1>1 DEF QueryPage, QueryEnds, Pack, Retry
  <2> QED BY <2>1 DEF WriterInv, Writing
<1>2. CASE Send
  <2>1. /\ stage = "send" /\ payload' \in Arrivals(bundle.payload)
        /\ plan' = <<>> /\ at' = <<1, 0>> /\ volume' = volume
    BY <1>2 DEF Send
  <2>2. PICK doc : Packed(doc)
    BY <2>1 DEF BundleInv
  <2>3. payload' \in Seq(Data)
    BY <2>1, <2>2, PackedPayload, ArrivalsTyped
  <2> QED BY <2>1, <2>3, DeltaBundleAssumption DEF WriterInv, Writing
<1>3. CASE Start
  BY <1>3, StartKept
<1>4. CASE WriteBlock
  BY <1>4, WriteBlockKept
<1>5. CASE UNCHANGED vars
  BY <1>5 DEF vars, WriterInv, Writing, Plans
<1> QED BY <1>1, <1>2, <1>3, <1>4, <1>5 DEF Next

LEMMA BundlesTyped ==
  ASSUME BundlesInv
  PROVE  TypeOK
<1>1. bundle.payload \in Seq(Blocks)
  <2>1. CASE bundle = NoBundle
    BY <2>1 DEF NoBundle
  <2>2. CASE bundle # NoBundle
    <3>1. PICK doc : Packed(doc)
      BY <2>2 DEF BundlesInv, BundleInv
    <3> QED BY <3>1, PackedPayload DEF BundlesInv
  <2> QED BY <2>1, <2>2
<1> QED BY <1>1 DEF BundlesInv, QueryInv, WriterInv, TypeOK

(* --------------------------------- the volume ------------------------------ *)

\* Of a bundle packed in order the next block is the one that belongs there, and
\* it is one that changed.
LEMMA BlockBelongs ==
  ASSUME ~AnyOrder, QueryInv, BundleInv, WriterInv, Writing
  PROVE  /\ Source \in 1..Len(payload) /\ payload[Source] = Target
         /\ Target \in Blocks /\ Target \in changed
<1>1. PICK doc :
        /\ Packed(doc) /\ plan \in Plans /\ payload = Payload(doc)
        /\ Len(plan) = Len(doc) /\ Len(doc) \in 0..Size
        /\ at[1] \in 1..Len(doc)
        /\ plan[at[1]].offset \in Nat /\ plan[at[1]].length \in 1..Size
        /\ at[2] \in 0..(plan[at[1]].length - 1) /\ Target \in Blocks
        /\ \E q \in found : plan[at[1]].offset = q.offset /\ plan[at[1]].length = q.length
  BY WriterAt DEF Target
<1> DEFINE i == at[1]
           b == at[2]
           start == Len(Upto(doc, i - 1))
<1>2. doc \in Seq(OnDisk) /\ i \in 1..Len(doc) /\ i \in DOMAIN doc
  BY <1>1, ListingTyped DEF Packed
<1>3. plan = Entries(doc)
  BY <1>1, PlanExact
<1>4. plan[i].offset = doc[i].offset /\ plan[i].length = doc[i].length /\ plan[i].payload_offset = start
  BY <1>2, <1>3, EntryFields
<1>5. /\ start \in Nat /\ start + doc[i].length <= Len(payload) /\ payload \in Seq(Blocks)
      /\ \A k \in 0..(doc[i].length - 1) : payload[start + k + 1] = doc[i].offset + k
  BY <1>1, <1>2, PayloadAt
<1>6. Source = start + b + 1 /\ Target = doc[i].offset + b /\ b \in 0..(doc[i].length - 1)
  BY <1>1, <1>4 DEF Source, Target
<1>7. payload[Source] = Target
  BY <1>5, <1>6
<1>8. Source \in 1..Len(payload)
  <2>1. doc[i].length \in 1..Size /\ Size \in Nat /\ Len(payload) \in Nat
    BY <1>1, <1>4, <1>5, DeltaBundleAssumption
  <2> HIDE DEF start, b, i
  <2> QED BY <1>5, <1>6, <2>1
<1>9. Target \in changed
  <2>1. PICK q \in found : plan[at[1]].offset = q.offset /\ plan[at[1]].length = q.length
    BY <1>1
  <2>2. Target \in q.offset..(End(q) - 1)
    <3> DEFINE o == plan[at[1]].offset
               l == plan[at[1]].length
    <3>1. Target = o + b /\ o = q.offset /\ o + l = End(q)
      BY <2>1 DEF Target, End
    <3>2. o \in Nat /\ l \in Nat /\ b \in 0..(l - 1)
      BY <1>1, DeltaBundleAssumption
    <3> HIDE DEF o, l, b
    <3> QED BY <3>1, <3>2
  <2>3. Target \in Covered(found)
    BY <2>2 DEF Covered
  <2> QED BY <2>3 DEF QueryInv
<1> QED BY <1>1, <1>7, <1>8, <1>9

\* A block more is written.
LEMMA WrittenGrows ==
  ASSUME QueryInv, BundleInv, WriterInv, Writing, plan' = plan,
         at' = IF LastOfRange THEN <<at[1] + 1, 0>> ELSE <<at[1], at[2] + 1>>
  PROVE  Written' \subseteq Written \cup {Target}
<1> SUFFICES ASSUME NEW c \in Written' PROVE c \in Written \cup {Target}
  OBVIOUS
<1>1. PICK doc :
        /\ Packed(doc) /\ plan \in Plans /\ DOMAIN plan = 1..Len(doc) /\ Len(doc) \in 0..Size
        /\ at[1] \in 1..Len(doc) /\ at[2] \in 0..(plan[at[1]].length - 1)
  BY WriterAt
<1>2. \A j \in 1..Len(doc) : plan[j].offset \in Nat /\ plan[j].length \in 1..Size
  BY <1>1, PlanTyped
<1>3. c \in Blocks /\ c \in Int
  BY DEF Written, Blocks
<1>4. PICK j \in 1..Len(doc) :
        \/ j < at'[1] /\ c \in plan[j].offset..(plan[j].offset + plan[j].length - 1)
        \/ j = at'[1] /\ c \in plan[j].offset..(plan[j].offset + at'[2] - 1)
  BY <1>1 DEF Written
<1> DEFINE o == plan[j].offset
           l == plan[j].length
<1>5. o \in Nat /\ l \in Nat /\ at[1] \in Nat /\ at[2] \in Nat /\ j \in Nat
  BY <1>1, <1>2, DeltaBundleAssumption
<1>6. CASE j < at[1]
  <2>1. c \in o..(o + l - 1)
    BY <1>4, <1>5, <1>6
  <2> QED BY <1>1, <1>3, <1>6, <2>1 DEF Written
<1>7. CASE j = at[1] /\ c \in o..(o + at[2] - 1)
  BY <1>1, <1>3, <1>7 DEF Written
<1>8. CASE ~(j < at[1]) /\ ~(j = at[1] /\ c \in o..(o + at[2] - 1))
  <2>1. CASE LastOfRange
    <3>1. at'[1] = at[1] + 1 /\ at'[2] = 0 /\ at[2] = plan[at[1]].length - 1
      BY <2>1 DEF LastOfRange
    <3>2. ~(c \in o..(o + 0 - 1))
      BY <1>5
    <3>3. j = at[1] /\ c \in o..(o + l - 1)
      <4>1. (j < at[1] + 1 /\ c \in o..(o + l - 1)) \/ (j = at[1] + 1 /\ c \in o..(o + 0 - 1))
        BY <1>4, <3>1
      <4> HIDE DEF o, l
      <4> QED BY <1>5, <1>8, <3>2, <4>1
    <3>4. at[2] = l - 1
      BY <3>1, <3>3
    <3>5. c = o + at[2]
      <4> HIDE DEF o, l
      <4> QED BY <1>3, <1>5, <1>8, <3>3, <3>4
    <3> QED BY <3>3, <3>5 DEF Target
  <2>2. CASE ~LastOfRange
    <3>1. at'[1] = at[1] /\ at'[2] = at[2] + 1
      BY <2>2
    <3>2. j = at[1] /\ c \in o..(o + (at[2] + 1) - 1)
      <4>1. (j < at[1] /\ c \in o..(o + l - 1)) \/ (j = at[1] /\ c \in o..(o + (at[2] + 1) - 1))
        BY <1>4, <3>1
      <4> HIDE DEF o, l
      <4> QED BY <1>5, <1>8, <4>1
    <3>3. c = o + at[2]
      <4> HIDE DEF o, l
      <4> QED BY <1>3, <1>5, <1>8, <3>2
    <3> QED BY <3>2, <3>3 DEF Target
  <2> QED BY <2>1, <2>2
<1> QED BY <1>6, <1>7, <1>8

\* With the last block every changed block is written.
LEMMA WrittenAll ==
  ASSUME ~AnyOrder, QueryInv, BundleInv, WriterInv, Writing, LastOfRange, at[1] = Len(plan)
  PROVE  changed \subseteq Written \cup {Target}
<1> SUFFICES ASSUME NEW c \in changed PROVE c \in Written \cup {Target}
  OBVIOUS
<1>1. PICK doc :
        /\ Packed(doc) /\ plan \in Plans /\ DOMAIN plan = 1..Len(doc) /\ Len(plan) = Len(doc)
        /\ Len(doc) \in 0..Size /\ at[2] \in 0..(plan[at[1]].length - 1)
  BY WriterAt
<1>2. c \in Blocks /\ c \in Int /\ c \in Covered(found)
  <2>1. stage # "query"
    BY DEF Writing
  <2>2. c \in Blocks /\ cursor = Size /\ Covered(found) = changed \cap 0..(cursor - 1)
    BY <2>1 DEF QueryInv
  <2> QED BY <2>2 DEF Blocks
<1>3. PICK q \in found : c \in q.offset..(End(q) - 1)
  BY <1>2 DEF Covered
<1>4. DOMAIN doc = 1..Len(doc) /\ Listing(doc)
  BY <1>1, ListingTyped DEF Packed
<1>5. PICK j \in 1..Len(doc) : doc[j] = q
  BY <1>4 DEF Listing
<1>6. plan[j].offset = q.offset /\ plan[j].length = q.length
  <2>1. plan = Entries(doc)
    BY <1>1, PlanExact
  <2> QED BY <1>4, <1>5, <2>1, EntryFields
<1> DEFINE o == q.offset
           l == q.length
<1>7. o \in Nat /\ l \in Nat /\ End(q) = o + l
  BY RangeFields DEF QueryInv
<1>8. c \in o..(o + l - 1)
  BY <1>3, <1>7
<1>9. CASE j # at[1]
  <2>1. j < at[1]
    BY <1>1, <1>9, DeltaBundleAssumption
  <2> QED BY <1>1, <1>2, <1>6, <1>8, <2>1 DEF Written
<1>10. CASE j = at[1]
  <2>1. at[2] = l - 1 /\ Target = o + at[2]
    BY <1>6, <1>10 DEF LastOfRange, Target
  <2>2. CASE c = Target
    BY <2>2
  <2>3. CASE c # Target
    <3>1. c \in o..(o + at[2] - 1)
      <4> HIDE DEF o, l
      <4> QED BY <1>2, <1>7, <1>8, <2>1, <2>3
    <3> QED BY <1>1, <1>2, <1>6, <1>10, <3>1 DEF Written
  <2> QED BY <2>2, <2>3
<1> QED BY <1>9, <1>10

LEMMA WriteBlockVolume ==
  ASSUME ~AnyOrder, QueryInv, BundleInv, WriterInv, VolumeInv, WriteBlock
  PROVE  VolumeInv'
<1>1. /\ Writing /\ UNCHANGED <<changed, cursor, found, bundle, payload, plan>>
      /\ \/ Source > Len(payload) /\ stage' = "refused" /\ UNCHANGED <<at, volume>>
         \/ /\ ~(Source > Len(payload))
            /\ volume' = [volume EXCEPT ![Target] = payload[Source]]
            /\ at' = IF LastOfRange THEN <<at[1] + 1, 0>> ELSE <<at[1], at[2] + 1>>
            /\ stage' = "done" => LastOfRange /\ at[1] = Len(plan)
  BY WriteOutcomes
<1>2. /\ Source \in 1..Len(payload) /\ payload[Source] = Target
      /\ Target \in Blocks /\ Target \in changed
  BY <1>1, BlockBelongs
<1>3. Len(payload) \in Nat /\ volume \in [Blocks -> Data] /\ changed \subseteq Blocks
  BY DEF WriterInv, QueryInv
<1>4. /\ volume' = [volume EXCEPT ![Target] = Target]
      /\ at' = IF LastOfRange THEN <<at[1] + 1, 0>> ELSE <<at[1], at[2] + 1>>
      /\ stage' = "done" => LastOfRange /\ at[1] = Len(plan)
  BY <1>1, <1>2, <1>3
<1>5. \A b \in Blocks : volume'[b] = IF b = Target THEN Target ELSE volume[b]
  BY <1>3, <1>4
<1>6. /\ \A b \in Blocks : volume[b] \in {b, Stale} /\ (b \notin changed => volume[b] = Stale)
      /\ \A b \in Written : volume[b] = b
  BY <1>1 DEF VolumeInv
<1>7. \A b \in Blocks : volume'[b] \in {b, Stale} /\ (b \notin changed' => volume'[b] = Stale)
  BY <1>1, <1>2, <1>5, <1>6
<1>8. \A b \in Written \cup {Target} : b \in Blocks /\ volume'[b] = b
  <2>1. Written \subseteq Blocks
    BY DEF Written
  <2> QED BY <1>2, <1>5, <1>6, <2>1
<1>9. \A b \in Written' : volume'[b] = b
  BY <1>1, <1>4, <1>8, WrittenGrows
<1>10. AppliedExact'
  <2> SUFFICES ASSUME stage' = "done"
               PROVE  volume' = [b \in Blocks |-> IF b \in changed' THEN b ELSE Stale]
    BY DEF AppliedExact
  <2>1. changed \subseteq Written \cup {Target}
    BY <1>1, <1>4, WrittenAll
  <2>2. \A b \in Blocks : volume'[b] = IF b \in changed THEN b ELSE Stale
    BY <1>1, <1>7, <1>8, <2>1
  <2>3. volume' = [b \in Blocks |-> volume'[b]]
    BY <1>3, <1>4
  <2> QED BY <1>1, <2>2, <2>3
<1> QED BY <1>7, <1>9, <1>10 DEF VolumeInv

LEMMA VolumeKept ==
  ASSUME ~AnyOrder, QueryInv, BundleInv, WriterInv, VolumeInv, [Next]_vars
  PROVE  VolumeInv'
<1>1. CASE QueryPage \/ QueryEnds \/ Pack \/ Send \/ Retry
  <2>1. UNCHANGED <<changed, volume>> /\ ~Writing' /\ stage' # "done"
    BY <1>1 DEF QueryPage, QueryEnds, Pack, Send, Retry, Writing
  <2> QED BY <2>1 DEF VolumeInv, AppliedExact
<1>2. CASE Start
  <2>1. /\ stage = "apply" /\ plan = <<>> /\ plan' \in Plans
        /\ UNCHANGED <<changed, cursor, found, bundle, payload, at, volume>>
        /\ stage' = "done" => bundle.entries = <<>>
    BY <1>2 DEF Start, Plans
  <2>2. at = <<1, 0>> /\ volume \in [Blocks -> Data]
    BY <2>1 DEF WriterInv
  <2>3. PICK doc : Packed(doc)
    BY <2>1 DEF BundleInv
  <2>4. DOMAIN plan' = 1..Len(doc) /\ \A i \in 1..Len(doc) : plan'[i].offset \in Nat
    BY <2>1, <2>3, PlanTyped
  <2>5. Len(doc) \in Nat /\ DOMAIN doc = 1..Len(doc) /\ Listing(doc)
    BY <2>3, ListingTyped, DeltaBundleAssumption DEF Packed
  <2>6. Written' = {}
    <3>1. \A j \in DOMAIN plan' : ~(j < 1) /\ \A b \in Blocks : ~(b \in plan'[j].offset..(plan'[j].offset + 0 - 1))
      BY <2>4, <2>5 DEF Blocks
    <3>2. at'[1] = 1 /\ at'[2] = 0
      BY <2>1, <2>2
    <3> QED BY <3>1, <3>2 DEF Written
  <2>7. AppliedExact'
    <3> SUFFICES ASSUME stage' = "done"
                 PROVE  volume' = [b \in Blocks |-> IF b \in changed' THEN b ELSE Stale]
      BY DEF AppliedExact
    <3>1. DOMAIN Entries(doc) = DOMAIN doc /\ Entries(doc) = <<>>
      BY <2>1, <2>3 DEF Packed, Entries
    <3>2. DOMAIN doc = {}
      BY <3>1
    <3>3. found = {}
      BY <2>5, <3>2 DEF Listing
    <3>4. changed = {}
      <4>1. cursor = Size /\ Covered(found) = changed \cap 0..(cursor - 1) /\ changed \subseteq Blocks
        BY <2>1 DEF QueryInv
      <4> QED BY <3>3, <4>1 DEF Covered, Blocks
    <3>5. \A b \in Blocks : volume[b] = Stale
      BY <3>4 DEF VolumeInv
    <3> QED BY <2>1, <2>2, <3>4, <3>5
  <2> QED BY <2>1, <2>6, <2>7 DEF VolumeInv
<1>3. CASE WriteBlock
  BY <1>3, WriteBlockVolume
<1>4. CASE UNCHANGED vars
  BY <1>4 DEF vars, VolumeInv, Writing, Written, AppliedExact
<1> QED BY <1>1, <1>2, <1>3, <1>4 DEF Next

(* ------------------------------- the comparison ---------------------------- *)

\* The fold over the ranges with numbers in s.
Folds(seq, D, f) ==
  f = [s \in SUBSET D |-> IF s = {} THEN <<>> ELSE MergeRange(f[s \ {Max(s)}], seq[Max(s)])]

LEMMA MaxOf ==
  ASSUME NEW k \in Nat, NEW s \in SUBSET (1..k), k \in s
  PROVE  Max(s) = k
<1>1. \A y \in s : y <= k
  OBVIOUS
<1>2. \A x \in s : (\A y \in s : x >= y) => x = k
  BY <1>1
<1> QED BY <1>1, <1>2 DEF Max

LEMMA FoldsExists ==
  ASSUME NEW seq, NEW n \in Nat
  PROVE  \E f : Folds(seq, 1..n, f)
<1> DEFINE T == {k \in Nat : ~ \E f : Folds(seq, 1..k, f)}
<1>1. 0 \notin T
  <2>1. 1..0 = {}
    OBVIOUS
  <2>2. Folds(seq, 1..0, [s \in SUBSET (1..0) |-> <<>>])
    BY <2>1 DEF Folds
  <2> QED BY <2>2
<1>2. ASSUME NEW k \in Nat, k # 0, k \in T PROVE k - 1 \in T
  <2> SUFFICES ASSUME NEW f, Folds(seq, 1..(k - 1), f) PROVE FALSE
    BY <1>2
  <2> DEFINE g == [s \in SUBSET (1..k) |-> IF k \in s THEN MergeRange(f[s \ {k}], seq[k]) ELSE f[s]]
             h == [s \in SUBSET (1..k) |->
                     IF s = {} THEN <<>> ELSE MergeRange(g[s \ {Max(s)}], seq[Max(s)])]
  <2>1. \A s \in SUBSET (1..(k - 1)) :
          f[s] = IF s = {} THEN <<>> ELSE MergeRange(f[s \ {Max(s)}], seq[Max(s)])
    BY DEF Folds
  <2>2. ASSUME NEW s \in SUBSET (1..k) PROVE h[s] = g[s]
    <3>1. CASE k \in s
      <4>1. Max(s) = k /\ s # {}
        BY <3>1, MaxOf
      <4>2. s \ {k} \in SUBSET (1..k) /\ k \notin s \ {k}
        OBVIOUS
      <4>3. g[s \ {k}] = f[s \ {k}]
        BY <4>2
      <4> QED BY <3>1, <4>1, <4>3
    <3>2. CASE k \notin s /\ s # {}
      <4>1. s \in SUBSET (1..(k - 1))
        BY <1>2, <3>2
      <4>2. s \ {Max(s)} \in SUBSET (1..k) /\ k \notin s \ {Max(s)}
        BY <3>2
      <4>3. g[s \ {Max(s)}] = f[s \ {Max(s)}]
        BY <4>2
      <4> QED BY <2>1, <3>2, <4>1, <4>3
    <3>3. CASE s = {}
      <4>1. f[{}] = <<>>
        BY <2>1
      <4> QED BY <3>3, <4>1
    <3> QED BY <3>1, <3>2, <3>3
  <2>3. g = h
    BY <2>2
  <2> QED BY <1>2, <2>3 DEF Folds
<1>3. T = {}
  <2> SUFFICES ASSUME T # {} PROVE FALSE
    OBVIOUS
  <2>1. PICK k \in T : \A y \in T : k <= y
    <3>1. T \in SUBSET Nat
      OBVIOUS
    <3> HIDE DEF T
    <3> QED BY <3>1, LeastExists
  <2>2. k \in Nat /\ k # 0
    BY <1>1, <2>1
  <2>3. k - 1 \in T
    BY <1>2, <2>1, <2>2
  <2> QED BY <2>1, <2>2, <2>3
<1> QED BY <1>3

LEMMA MergeUnfolds ==
  ASSUME NEW seq, DOMAIN seq = 1..Len(seq)
  PROVE  \E f : Folds(seq, 1..Len(seq), f) /\ Merge(seq) = f[1..Len(seq)]
<1> DEFINE D == 1..Len(seq)
           iter[s \in SUBSET D] ==
             IF s = {} THEN <<>> ELSE MergeRange(iter[s \ {Max(s)}], seq[Max(s)])
<1>1. Merge(seq) = iter[D]
  BY DEF Merge, FoldLeft, MapThenFoldSet
<1>2. iter = CHOOSE f : Folds(seq, D, f)
  BY DEF Folds
<1>3. Folds(seq, D, iter)
  <2> HIDE DEF iter
  <2> QED BY <1>2, FoldsExists
<1> QED BY <1>1, <1>3

Gaps(m) == \A i \in DOMAIN m \ {1} : m[i].offset > End(m[i - 1])

LEMMA RawFields ==
  ASSUME NEW r \in RawRanges
  PROVE  /\ r.offset \in Nat /\ r.length \in Nat /\ End(r) = r.offset + r.length
         /\ End(r) \in Nat /\ End(r) <= Size
         /\ r.length = 0 => Covered({r}) = {}
         /\ r.length # 0 => r \in OnDisk
<1>1. /\ r = [offset |-> r.offset, length |-> r.length]
      /\ r.offset \in 0..Size /\ r.length \in 0..Size /\ End(r) <= Size /\ Size \in Nat
      /\ End(r) = r.offset + r.length
  BY DeltaBundleAssumption DEF RawRanges, End
<1>2. r.length = 0 => r.offset..(End(r) - 1) = {}
  BY <1>1
<1>3. r.length # 0 => r.offset \in Blocks /\ r.length \in 1..Size
  BY <1>1 DEF Blocks
<1>4. r.length # 0 => r \in OnDisk
  BY <1>1, <1>3 DEF OnDisk, Ranges
<1>5. Covered({r}) = r.offset..(End(r) - 1)
  BY DEF Covered
<1> QED BY <1>1, <1>2, <1>4, <1>5

\* An empty range changes nothing; one that does not begin before the last of the
\* merged ranges makes it longer, lies in it or is a new one.
LEMMA MergeStep ==
  ASSUME NEW m \in Seq(OnDisk), NEW r \in RawRanges, Gaps(m),
         m # <<>> => Last(m).offset <= r.offset
  PROVE  LET next == MergeRange(m, r)
         IN /\ next \in Seq(OnDisk) /\ Gaps(next)
            /\ next # <<>> => Last(next).offset <= r.offset
            /\ Covered(ToSet(next)) = Covered(ToSet(m)) \cup Covered({r})
<1> DEFINE n == Len(m)
           next == MergeRange(m, r)
<1>5. n \in Nat /\ DOMAIN m = 1..n /\ \A i \in 1..n : m[i] \in OnDisk
  OBVIOUS
<1>6. \A q \in OnDisk : /\ q.offset \in Nat /\ q.length \in Nat \ {0} /\ End(q) <= Size
                         /\ End(q) = q.offset + q.length /\ End(q) \in Nat /\ q \in Ranges
  <2> SUFFICES ASSUME NEW q \in OnDisk
               PROVE  /\ q.offset \in Nat /\ q.length \in Nat \ {0} /\ End(q) <= Size
                      /\ End(q) = q.offset + q.length /\ End(q) \in Nat /\ q \in Ranges
    OBVIOUS
  <2>1. q \in Ranges /\ End(q) <= Size
    BY DEF OnDisk
  <2> QED BY <2>1, RangeFields
<1>7. /\ r.offset \in Nat /\ r.length \in Nat /\ End(r) = r.offset + r.length
      /\ End(r) \in Nat /\ End(r) <= Size /\ Size \in Nat
  BY RawFields, DeltaBundleAssumption
<1>0. /\ n \in Nat /\ DOMAIN m = 1..n /\ \A i \in 1..n : m[i] \in OnDisk
      /\ Size \in Nat
      /\ \A q \in OnDisk : /\ q.offset \in Nat /\ q.length \in Nat \ {0} /\ End(q) <= Size
                           /\ End(q) = q.offset + q.length /\ End(q) \in Nat /\ q \in Ranges
      /\ r.offset \in Nat /\ r.length \in Nat /\ End(r) = r.offset + r.length
      /\ End(r) \in Nat /\ End(r) <= Size
  BY <1>5, <1>6, <1>7
<1>3. CASE r.length = 0
  <2>1. next = m
    BY <1>3 DEF MergeRange
  <2> QED BY <1>3, <2>1, RawFields
<1>4. r.length # 0 => r \in OnDisk
  BY RawFields
<1>1. CASE r.length # 0 /\ (m = <<>> \/ r.offset > End(Last(m)))
  <2>1. next = Append(m, r)
    BY <1>1 DEF MergeRange
  <2> DEFINE a == Append(m, r)
  <2>2. /\ a \in Seq(OnDisk) /\ Len(a) = n + 1 /\ DOMAIN a = 1..(n + 1)
        /\ \A i \in 1..n : a[i] = m[i]
        /\ a[n + 1] = r
    BY <1>1, <1>4
  <2>3. n # 0 => r.offset > End(m[n])
    <3>1. n # 0 => m # <<>>
      OBVIOUS
    <3> QED BY <1>1, <3>1 DEF Last
  <2> HIDE DEF a, n
  <2>4. Gaps(a)
    <3> SUFFICES ASSUME NEW i \in 2..(n + 1) PROVE a[i].offset > End(a[i - 1])
      BY <1>5, <2>2 DEF Gaps
    <3>1. CASE i = n + 1
      <4>1. n # 0 /\ i - 1 = n /\ n \in 1..n
        BY <1>0, <3>1
      <4> QED BY <2>2, <2>3, <3>1, <4>1
    <3>2. CASE i # n + 1
      <4>1. i \in 1..n /\ i - 1 \in 1..n /\ i # 1
        BY <1>5, <3>2
      <4>2. m[i].offset > End(m[i - 1])
        BY <1>5, <4>1 DEF Gaps
      <4> QED BY <2>2, <4>1, <4>2
    <3> QED BY <3>1, <3>2
  <2>5. ToSet(a) = ToSet(m) \cup {r}
    <3>1. \A i \in 1..(n + 1) : i \in 1..n \/ i = n + 1
      BY <1>0
    <3>2. \A i \in 1..n : i \in 1..(n + 1)
      BY <1>0
    <3>3. n + 1 \in 1..(n + 1)
      BY <1>0
    <3> QED BY <1>0, <2>2, <3>1, <3>2, <3>3 DEF ToSet
  <2>6. Last(a).offset <= r.offset
    <3>1. Len(a) # 0
      BY <1>0, <2>2
    <3> QED BY <1>0, <2>2, <3>1 DEF Last
  <2> QED BY <2>1, <2>2, <2>4, <2>5, <2>6, CoveredUnion DEF a
<1>2. CASE r.length # 0 /\ m # <<>> /\ ~(r.offset > End(Last(m)))
  <2> DEFINE last == m[n]
             end == IF End(r) > End(last) THEN End(r) ELSE End(last)
             q == [last EXCEPT !.length = IF End(r) > End(last)
                                            THEN End(r) - last.offset ELSE @]
             b == SubSeq(m, 1, n - 1) \o <<q>>
             F == {m[i] : i \in 1..(n - 1)}
  <2>1. n \in 1..n /\ n # 0 /\ n - 1 \in Nat
    BY <1>2
  <2>2. last \in OnDisk /\ Last(m) = last /\ r.offset <= End(last) /\ last.offset <= r.offset
    <3>1. last \in OnDisk /\ Last(m) = last
      BY <1>0, <2>1 DEF Last
    <3> HIDE DEF last
    <3> QED BY <1>0, <1>2, <3>1
  <2>3. next = b
    BY <1>2, <2>2 DEF MergeRange, Front
  <2>4. q \in OnDisk /\ q.offset = last.offset /\ End(q) = end
    <3>1. last \in Ranges /\ last = [offset |-> last.offset, length |-> last.length]
      BY <1>0, <2>2 DEF Ranges
    <3>2. q = [offset |-> last.offset, length |-> end - last.offset]
      <4>1. CASE End(r) > End(last)
        <5> HIDE DEF last
        <5> QED BY <3>1, <4>1
      <4>2. CASE ~(End(r) > End(last))
        <5>1. last.length = End(last) - last.offset
          <6> HIDE DEF last
          <6> QED BY <1>0, <2>2
        <5>2. q = last
          <6> HIDE DEF last
          <6> QED BY <3>1, <4>2
        <5> HIDE DEF last, q
        <5> QED BY <3>1, <4>2, <5>1, <5>2
      <4> QED BY <4>1, <4>2
    <3> HIDE DEF last, q
    <3>3. end - last.offset \in 1..Size /\ last.offset \in Blocks /\ end <= Size
      BY <1>0, <2>2, <3>1, RangeFields
    <3> HIDE DEF end
    <3>4. q \in Ranges /\ End(q) = last.offset + (end - last.offset)
      BY <3>2, <3>3 DEF Ranges, End
    <3>5. End(q) = end
      <4>1. end \in Int
        BY <1>0, <2>2 DEF end
      <4> QED BY <1>0, <2>2, <3>4, <4>1
    <3> QED BY <1>0, <3>2, <3>3, <3>4, <3>5 DEF OnDisk
  <2> HIDE DEF q
  <2>5. /\ b \in Seq(OnDisk) /\ Len(b) = n /\ DOMAIN b = 1..n /\ b[n] = q
        /\ \A i \in 1..(n - 1) : b[i] = m[i]
    <3> DEFINE f == SubSeq(m, 1, n - 1)
    <3>1. f \in Seq(OnDisk) /\ Len(f) = n - 1 /\ \A i \in 1..(n - 1) : f[i] = m[i]
      <4> SUFFICES ASSUME NEW k \in 0..Len(m)
                   PROVE  /\ SubSeq(m, 1, k) \in Seq(OnDisk)
                          /\ Len(SubSeq(m, 1, k)) = k
                          /\ \A i \in 1..k : SubSeq(m, 1, k)[i] = m[i]
        <5>1. n - 1 \in 0..Len(m)
          BY <1>0, <2>1
        <5> QED BY <5>1
      <4>1. /\ SubSeq(m, 1, k) \in Seq(OnDisk)
            /\ Len(SubSeq(m, 1, k)) = k
        OBVIOUS
      <4>2. \A i \in 1..k : SubSeq(m, 1, k)[i] = m[i]
        OBVIOUS
      <4> QED BY <4>1, <4>2
    <3>2. <<q>> \in Seq(OnDisk) /\ Len(<<q>>) = 1 /\ <<q>>[1] = q
      BY <2>4
    <3> HIDE DEF f
    <3>3. /\ f \o <<q>> \in Seq(OnDisk) /\ Len(f \o <<q>>) = n
          /\ \A i \in 1..(n - 1) : (f \o <<q>>)[i] = f[i]
          /\ (f \o <<q>>)[n] = q
      <4> HIDE DEF n
      <4> DEFINE one == <<q>>
                 c == f \o one
      <4>1. f \in Seq(OnDisk) /\ one \in Seq(OnDisk) /\ Len(one) = 1 /\ one[1] = q
        BY <3>1, <3>2
      <4> HIDE DEF one
      <4>2. /\ c \in Seq(OnDisk) /\ Len(c) = Len(f) + Len(one)
            /\ \A i \in 1..Len(f) : c[i] = f[i]
            /\ \A i \in 1..Len(one) : c[Len(f) + i] = one[i]
        <5> DEFINE S == OnDisk
        <5>1. f \in Seq(S) /\ one \in Seq(S)
          BY <4>1
        <5> HIDE DEF S
        <5>2. /\ c \in Seq(S) /\ Len(c) = Len(f) + Len(one)
              /\ \A i \in 1..Len(f) : c[i] = f[i]
              /\ \A i \in 1..Len(one) : c[Len(f) + i] = one[i]
          BY <5>1, Concatenation
        <5> QED BY <5>2 DEF S
      <4> HIDE DEF c
      <4>3. Len(f) + 1 = n /\ 1 \in 1..Len(one)
        BY <1>0, <2>1, <3>1, <4>1
      <4>4. c[n] = q
        BY <4>1, <4>2, <4>3
      <4> QED BY <3>1, <4>1, <4>2, <4>3, <4>4 DEF c, one
    <3>4. DOMAIN (f \o <<q>>) = 1..n
      BY <3>3
    <3> QED BY <3>1, <3>3, <3>4 DEF f
  <2> HIDE DEF b, n
  <2>6. Gaps(b)
    <3> SUFFICES ASSUME NEW i \in DOMAIN b \ {1} PROVE b[i].offset > End(b[i - 1])
      BY DEF Gaps
    <3>0. DOMAIN b = 1..n /\ n \in Nat
      BY <1>5, <2>5
    <3>1. i \in 1..n /\ i # 1 /\ i - 1 \in 1..(n - 1)
      BY <3>0
    <3>2. m[i].offset > End(m[i - 1]) /\ b[i - 1] = m[i - 1]
      BY <1>5, <2>5, <3>1 DEF Gaps
    <3>3. b[i].offset = m[i].offset
      <4>1. CASE i = n
        BY <2>4, <2>5, <4>1
      <4>2. CASE i # n
        <5>1. i \in 1..(n - 1)
          BY <1>0, <3>1, <4>2
        <5> QED BY <2>5, <5>1
      <4> QED BY <4>1, <4>2
    <3> QED BY <3>2, <3>3
  <2>7. ToSet(b) = F \cup {q} /\ ToSet(m) = F \cup {last}
    <3>1. /\ \A i \in 1..n : i \in 1..(n - 1) \/ i = n
          /\ \A i \in 1..(n - 1) : i \in 1..n
      BY <1>0, <2>1
    <3> QED BY <1>0, <2>1, <2>5, <3>1 DEF ToSet
  <2>8. Covered({q}) = Covered({last}) \cup Covered({r})
    <3>1. \A x : Covered({x}) = x.offset..(End(x) - 1)
      BY DEF Covered
    <3> HIDE DEF last
    <3>2. q.offset..(End(q) - 1) = last.offset..(End(last) - 1) \cup r.offset..(End(r) - 1)
      BY <1>0, <2>2, <2>4
    <3> QED BY <3>1, <3>2
  <2>9. Covered(ToSet(b)) = Covered(ToSet(m)) \cup Covered({r})
    <3> HIDE DEF F, last
    <3>1. Covered(F \cup {q}) = Covered(F) \cup Covered({q})
      BY CoveredUnion
    <3>2. Covered(F \cup {last}) = Covered(F) \cup Covered({last})
      BY CoveredUnion
    <3> QED BY <2>7, <2>8, <3>1, <3>2
  <2>10. Last(b).offset <= r.offset
    <3>1. Len(b) # 0
      BY <2>1, <2>5
    <3> QED BY <2>2, <2>4, <2>5, <3>1 DEF Last
  <2> QED BY <2>3, <2>5, <2>6, <2>9, <2>10
<1> QED BY <1>1, <1>2, <1>3

\* As Sort-Object leaves the ranges.
Sorted(seq) ==
  /\ seq \in Seq(RawRanges)
  /\ \A i, j \in 1..Len(seq) : i < j => Precedes(seq[i], seq[j])

\* What the fold has made of the first k ranges.
MergedUpto(seq, k, m) ==
  /\ m \in Seq(OnDisk) /\ Gaps(m)
  /\ Covered(ToSet(m)) = Covered({seq[i] : i \in 1..k})
  /\ m # <<>> => k # 0 /\ Last(m).offset <= seq[k].offset

\* Merging sorted ranges, however they overlap, gives ranges apart from each other
\* that cover the same blocks.
LEMMA MergeMeans ==
  ASSUME NEW seq, Sorted(seq)
  PROVE  Covered(ToSet(Merge(seq))) = Covered(ToSet(seq)) /\ Gaps(Merge(seq))
<1> DEFINE n == Len(seq)
<1>1. /\ n \in Nat /\ DOMAIN seq = 1..n /\ \A i \in 1..n : seq[i] \in RawRanges
  BY DEF Sorted
<1>3. PICK f : Folds(seq, 1..n, f) /\ Merge(seq) = f[1..n]
  BY <1>1, MergeUnfolds
<1> HIDE DEF n
<1>4. \A i, j \in 1..n : i < j => seq[i].offset <= seq[j].offset
  <2> SUFFICES ASSUME NEW i \in 1..n, NEW j \in 1..n, i < j PROVE seq[i].offset <= seq[j].offset
    OBVIOUS
  <2>1. Precedes(seq[i], seq[j])
    BY DEF Sorted, n
  <2>2. seq[i].offset \in Nat /\ seq[j].offset \in Nat
    BY <1>1, RawFields
  <2> QED BY <2>1, <2>2 DEF Precedes
<1> DEFINE T == {k \in 0..n : ~MergedUpto(seq, k, f[1..k])}
<1>5. 0 \notin T
  <2>1. 1..0 = {} /\ {} \in SUBSET (1..n)
    OBVIOUS
  <2>2. f[{}] = <<>>
    BY <1>3, <2>1 DEF Folds
  <2>3. /\ <<>> \in Seq(OnDisk) /\ ToSet(<<>>) = {} /\ Gaps(<<>>)
        /\ {seq[i] : i \in 1..0} = {}
    BY DEF ToSet, Gaps
  <2>4. MergedUpto(seq, 0, f[1..0])
    BY <2>1, <2>2, <2>3 DEF MergedUpto
  <2> QED BY <2>4
<1>6. ASSUME NEW k \in 1..n, MergedUpto(seq, k - 1, f[1..(k - 1)])
      PROVE  MergedUpto(seq, k, f[1..k])
  <2> DEFINE m == f[1..(k - 1)]
             r == seq[k]
  <2>0. k \in Nat /\ k - 1 \in Nat /\ r \in RawRanges
    BY <1>1
  <2>1. f[1..k] = MergeRange(m, r)
    <3>1. 1..k \in SUBSET (1..n) /\ 1..k # {} /\ (1..k) \ {k} = 1..(k - 1)
      BY <1>1
    <3>2. Max(1..k) = k
      BY <1>1, MaxOf
    <3>3. \A s \in SUBSET (1..n) :
            f[s] = IF s = {} THEN <<>> ELSE MergeRange(f[s \ {Max(s)}], seq[Max(s)])
      BY <1>3 DEF Folds
    <3>4. f[1..k] = MergeRange(f[(1..k) \ {Max(1..k)}], seq[Max(1..k)])
      BY <3>1, <3>3
    <3> QED BY <3>1, <3>2, <3>4
  <2> HIDE DEF m
  <2>2. /\ m \in Seq(OnDisk) /\ Gaps(m)
        /\ Covered(ToSet(m)) = Covered({seq[i] : i \in 1..(k - 1)})
        /\ m # <<>> => k - 1 # 0 /\ Last(m).offset <= seq[k - 1].offset
    BY <1>6 DEF MergedUpto, m
  <2>3. m # <<>> => Last(m).offset <= r.offset
    <3> SUFFICES ASSUME m # <<>> PROVE Last(m).offset <= r.offset
      OBVIOUS
    <3>1. k - 1 \in 1..n /\ k \in 1..n /\ k - 1 < k
      BY <1>1, <2>0, <2>2
    <3>2. seq[k - 1].offset <= r.offset /\ Last(m).offset <= seq[k - 1].offset
      BY <1>4, <2>2, <3>1
    <3>3. seq[k - 1].offset \in Nat /\ r.offset \in Nat /\ Last(m).offset \in Nat
      <4>1. Last(m) \in OnDisk
        BY <2>2 DEF Last
      <4>2. Last(m).offset \in Nat
        BY <4>1, RangeFields DEF OnDisk
      <4> QED BY <1>1, <3>1, <4>2, RawFields
    <3> QED BY <3>2, <3>3
  <2> DEFINE next == MergeRange(m, r)
  <2>4. /\ next \in Seq(OnDisk) /\ Gaps(next)
        /\ next # <<>> => Last(next).offset <= r.offset
        /\ Covered(ToSet(next)) = Covered(ToSet(m)) \cup Covered({r})
    BY <2>0, <2>2, <2>3, MergeStep
  <2>5. {seq[i] : i \in 1..k} = {seq[i] : i \in 1..(k - 1)} \cup {r}
    <3>1. /\ \A i \in 1..k : i \in 1..(k - 1) \/ i = k
          /\ \A i \in 1..(k - 1) : i \in 1..k
          /\ k \in 1..k
      BY <2>0
    <3> QED BY <3>1
  <2>6. Covered({seq[i] : i \in 1..k}) = Covered({seq[i] : i \in 1..(k - 1)}) \cup Covered({r})
    BY <2>5, CoveredUnion
  <2> HIDE DEF next
  <2>7. MergedUpto(seq, k, next)
    <3>1. next \in Seq(OnDisk) /\ Gaps(next)
      BY <2>4
    <3>2. Covered(ToSet(next)) = Covered({seq[i] : i \in 1..k})
      BY <2>2, <2>4, <2>6
    <3>3. next # <<>> => k # 0 /\ Last(next).offset <= seq[k].offset
      BY <1>1, <2>4
    <3> QED BY <3>1, <3>2, <3>3 DEF MergedUpto
  <2> QED BY <2>1, <2>7 DEF next
<1>7. T = {}
  <2> SUFFICES ASSUME T # {} PROVE FALSE
    OBVIOUS
  <2>1. PICK k \in T : \A y \in T : k <= y
    <3>1. T \in SUBSET Nat
      BY <1>1
    <3> HIDE DEF T
    <3> QED BY <3>1, LeastExists
  <2>2. k \in 0..n /\ k # 0 /\ ~MergedUpto(seq, k, f[1..k])
    BY <1>5, <2>1
  <2>3. k \in 1..n /\ k - 1 \in 0..n /\ ~(k <= k - 1)
    BY <1>1, <2>2
  <2>4. k - 1 \notin T
    <3> HIDE DEF T
    <3> QED BY <2>1, <2>3
  <2>5. MergedUpto(seq, k - 1, f[1..(k - 1)])
    BY <2>3, <2>4
  <2> QED BY <1>6, <2>2, <2>3, <2>5
<1>8. MergedUpto(seq, n, Merge(seq))
  <2>1. n \in 0..n
    BY <1>1
  <2> QED BY <1>3, <1>7, <2>1
<1>9. {seq[i] : i \in 1..n} = ToSet(seq)
  BY <1>1 DEF ToSet
<1> QED BY <1>8, <1>9 DEF MergedUpto

LEMMA PrecedesTransitive ==
  ASSUME NEW r \in RawRanges, NEW q \in RawRanges, NEW x \in RawRanges
  PROVE  /\ Precedes(r, q) /\ Precedes(q, x) => Precedes(r, x)
         /\ Precedes(r, q) \/ Precedes(q, r)
<1>1. /\ r.offset \in Nat /\ q.offset \in Nat /\ x.offset \in Nat
      /\ r.length \in Nat /\ q.length \in Nat /\ x.length \in Nat
  BY RawFields
<1> QED BY <1>1 DEF Precedes

\* A range has a place among sorted ones.
LEMMA PlaceExists ==
  ASSUME NEW seq, Sorted(seq), NEW r \in RawRanges
  PROVE  /\ Place(seq, r) \in 0..Len(seq)
         /\ \A i \in 1..Place(seq, r) : Precedes(seq[i], r)
         /\ \A i \in (Place(seq, r) + 1)..Len(seq) : ~Precedes(seq[i], r)
<1> DEFINE n == Len(seq)
           T == {k \in 0..n : \A i \in (k + 1)..n : ~Precedes(seq[i], r)}
<1>1. n \in Nat /\ \A i \in 1..n : seq[i] \in RawRanges
  BY DEF Sorted
<1> HIDE DEF n
<1>2. n \in T
  <2>1. (n + 1)..n = {} /\ n \in 0..n
    BY <1>1
  <2> QED BY <2>1
<1>3. PICK k \in T : \A y \in T : k <= y
  <2>1. T \in SUBSET Nat
    BY <1>1
  <2> HIDE DEF T
  <2> QED BY <1>2, <2>1, LeastExists
<1>4. k \in 0..n /\ \A i \in (k + 1)..n : ~Precedes(seq[i], r)
  OBVIOUS
<1>5. ASSUME NEW i \in 1..k PROVE Precedes(seq[i], r)
  <2>1. k \in 1..n /\ i \in 1..n /\ k - 1 \in 0..n /\ ~(k <= k - 1)
    BY <1>1, <1>4
  <2>2. k - 1 \notin T
    <3> HIDE DEF T
    <3> QED BY <1>3, <2>1
  <2>3. Precedes(seq[k], r)
    <3>1. PICK j \in (k - 1 + 1)..n : Precedes(seq[j], r)
      BY <2>1, <2>2
    <3>2. j = k \/ j \in (k + 1)..n
      BY <1>1, <2>1
    <3> QED BY <1>4, <3>1, <3>2
  <2>4. CASE i = k
    BY <2>3, <2>4
  <2>5. CASE i # k
    <3>1. Precedes(seq[i], seq[k])
      BY <2>1, <2>5 DEF Sorted, n
    <3> QED BY <1>1, <2>1, <2>3, <3>1, PrecedesTransitive
  <2> QED BY <2>4, <2>5
<1> QED BY <1>4, <1>5 DEF Place, n

\* Sorted ranges with one more are sorted, and they are those ranges and that one.
LEMMA InsertSorted ==
  ASSUME NEW seq, Sorted(seq), NEW r \in RawRanges
  PROVE  Sorted(Insert(seq, r)) /\ ToSet(Insert(seq, r)) = ToSet(seq) \cup {r}
<1> DEFINE n == Len(seq)
           k == Place(seq, r)
           a == SubSeq(seq, 1, k)
           z == SubSeq(seq, k + 1, n)
           one == <<r>>
           b == a \o one
           c == b \o z
<1>1. seq \in Seq(RawRanges) /\ n \in Nat /\ DOMAIN seq = 1..n /\ \A i \in 1..n : seq[i] \in RawRanges
  BY DEF Sorted
<1>2. /\ k \in 0..n /\ \A i \in 1..k : Precedes(seq[i], r)
      /\ \A i \in (k + 1)..n : ~Precedes(seq[i], r)
  BY PlaceExists
<1>3. Insert(seq, r) = c
  <2>1. (k + 1) - 1 = k
    BY <1>2
  <2>2. Insert(seq, r) = SubSeq(seq, 1, (k + 1) - 1) \o <<r>> \o SubSeq(seq, k + 1, n)
    BY DEF Insert, InsertAt
  <2> HIDE DEF k, n
  <2> QED BY <2>1, <2>2
<1> HIDE DEF k
<1>4. /\ a \in Seq(RawRanges) /\ Len(a) = k /\ \A i \in 1..k : a[i] = seq[i]
  <2>1. a \in Seq(RawRanges) /\ Len(a) = k
    BY <1>1, <1>2
  <2>2. \A i \in 1..k : a[i] = seq[i]
    BY <1>1, <1>2
  <2> QED BY <2>1, <2>2
<1>5. /\ z \in Seq(RawRanges) /\ Len(z) = n - k /\ \A i \in 1..(n - k) : z[i] = seq[k + i]
  <2>1. z \in Seq(RawRanges) /\ Len(z) = n - k
    <3>1. ASSUME NEW S, NEW t \in Seq(S), NEW p \in 1..(Len(t) + 1)
          PROVE  SubSeq(t, p, Len(t)) \in Seq(S) /\ Len(SubSeq(t, p, Len(t))) = Len(t) + 1 - p
      OBVIOUS
    <3>2. k + 1 \in 1..(n + 1) /\ n + 1 - (k + 1) = n - k
      <4>1. n \in Nat /\ k \in 0..n
        BY <1>1, <1>2
      <4> HIDE DEF n
      <4> QED BY <4>1
    <3> QED BY <1>1, <3>1, <3>2
  <2>2. \A i \in 1..(n - k) : z[i] = seq[k + i]
    BY <1>1, <1>2
  <2> QED BY <2>1, <2>2
<1>6. one \in Seq(RawRanges) /\ Len(one) = 1 /\ one[1] = r
  OBVIOUS
<1> HIDE DEF a, z, one
<1>7. /\ b \in Seq(RawRanges) /\ Len(b) = k + 1
      /\ \A i \in 1..k : b[i] = seq[i]
      /\ b[k + 1] = r
  <2>1. /\ b \in Seq(RawRanges) /\ Len(b) = Len(a) + Len(one)
        /\ \A i \in 1..Len(a) : b[i] = a[i]
        /\ \A i \in 1..Len(one) : b[Len(a) + i] = one[i]
    <3> DEFINE S == RawRanges
    <3>1. a \in Seq(S) /\ one \in Seq(S)
      BY <1>4, <1>6
    <3> HIDE DEF S
    <3>2. /\ b \in Seq(S) /\ Len(b) = Len(a) + Len(one)
          /\ \A i \in 1..Len(a) : b[i] = a[i]
          /\ \A i \in 1..Len(one) : b[Len(a) + i] = one[i]
      BY <3>1, Concatenation
    <3> QED BY <3>2 DEF S
  <2> HIDE DEF b
  <2>2. 1 \in 1..Len(one)
    BY <1>6
  <2> QED BY <1>2, <1>4, <1>6, <2>1, <2>2
<1> HIDE DEF b
<1>8. /\ c \in Seq(RawRanges) /\ Len(c) = n + 1
      /\ \A i \in 1..k : c[i] = seq[i]
      /\ c[k + 1] = r
      /\ \A i \in (k + 1)..n : c[i + 1] = seq[i]
  <2>1. /\ c \in Seq(RawRanges) /\ Len(c) = Len(b) + Len(z)
        /\ \A i \in 1..Len(b) : c[i] = b[i]
        /\ \A i \in 1..Len(z) : c[Len(b) + i] = z[i]
    <3> DEFINE S == RawRanges
    <3>1. b \in Seq(S) /\ z \in Seq(S)
      BY <1>5, <1>7
    <3> HIDE DEF S
    <3>2. /\ c \in Seq(S) /\ Len(c) = Len(b) + Len(z)
          /\ \A i \in 1..Len(b) : c[i] = b[i]
          /\ \A i \in 1..Len(z) : c[Len(b) + i] = z[i]
      BY <3>1, Concatenation
    <3> QED BY <3>2 DEF S
  <2> HIDE DEF c
  <2>2. /\ Len(c) = n + 1 /\ k + 1 \in 1..Len(b)
        /\ \A i \in 1..k : i \in 1..Len(b)
    BY <1>1, <1>2, <1>5, <1>7, <2>1
  <2>3. \A i \in 1..k : c[i] = seq[i]
    BY <1>7, <2>1, <2>2
  <2>4. c[k + 1] = r
    BY <1>7, <2>1, <2>2
  <2>5. ASSUME NEW i \in (k + 1)..n PROVE c[i + 1] = seq[i]
    <3>1. i - k \in 1..(n - k) /\ k + 1 + (i - k) = i + 1 /\ k + (i - k) = i
      BY <1>1, <1>2
    <3>2. c[Len(b) + (i - k)] = z[i - k] /\ z[i - k] = seq[k + (i - k)]
      BY <1>5, <2>1, <3>1
    <3> QED BY <1>7, <3>1, <3>2
  <2> QED BY <2>1, <2>2, <2>3, <2>4, <2>5
<1> HIDE DEF c, n
<1>9. ASSUME NEW i \in 1..(n + 1), NEW j \in 1..(n + 1), i < j PROVE Precedes(c[i], c[j])
  <2>1. CASE j <= k
    <3>1. i \in 1..k /\ j \in 1..k /\ i \in 1..n /\ j \in 1..n
      BY <1>1, <1>2, <1>9, <2>1
    <3> QED BY <1>8, <1>9, <3>1 DEF Sorted, n
  <2>2. CASE j = k + 1
    <3>1. i \in 1..k
      BY <1>1, <1>2, <1>9, <2>2
    <3> QED BY <1>2, <1>8, <2>2, <3>1
  <2>3. CASE j > k + 1
    <3>1. j - 1 \in (k + 1)..n /\ j - 1 + 1 = j /\ j - 1 \in 1..n
      BY <1>1, <1>2, <1>9, <2>3
    <3>2. c[j] = seq[j - 1] /\ seq[j - 1] \in RawRanges /\ ~Precedes(seq[j - 1], r)
      BY <1>1, <1>2, <1>8, <3>1
    <3>3. Precedes(r, seq[j - 1])
      BY <3>2, PrecedesTransitive
    <3>4. CASE i <= k
      <4>1. i \in 1..k /\ i \in 1..n
        BY <1>1, <1>2, <3>4
      <4> QED BY <1>1, <1>2, <1>8, <3>2, <3>3, <4>1, PrecedesTransitive
    <3>5. CASE i = k + 1
      BY <1>8, <3>2, <3>3, <3>5
    <3>6. CASE i > k + 1
      <4>1. i - 1 \in (k + 1)..n /\ i - 1 + 1 = i /\ i - 1 \in 1..n /\ i - 1 < j - 1
        BY <1>1, <1>2, <1>9, <3>6
      <4>2. c[i] = seq[i - 1]
        BY <1>8, <4>1
      <4>3. Precedes(seq[i - 1], seq[j - 1])
        BY <3>1, <4>1 DEF Sorted, n
      <4> QED BY <3>2, <4>2, <4>3
    <3> QED BY <1>2, <3>4, <3>5, <3>6
  <2> QED BY <1>2, <2>1, <2>2, <2>3
<1>10. Sorted(c)
  BY <1>8, <1>9 DEF Sorted
<1>11. ToSet(c) = ToSet(seq) \cup {r}
  <2>1. DOMAIN c = 1..(n + 1)
    BY <1>8
  <2>2. ASSUME NEW i \in 1..(n + 1) PROVE c[i] \in {seq[j] : j \in 1..n} \cup {r}
    <3>1. CASE i <= k
      <4>1. i \in 1..k /\ i \in 1..n
        BY <1>1, <1>2, <3>1
      <4> QED BY <1>8, <4>1
    <3>2. CASE i = k + 1
      BY <1>8, <3>2
    <3>3. CASE i > k + 1
      <4>1. i - 1 \in (k + 1)..n /\ i - 1 + 1 = i /\ i - 1 \in 1..n
        BY <1>1, <1>2, <3>3
      <4>2. c[i - 1 + 1] = seq[i - 1]
        BY <1>8, <4>1
      <4> QED BY <4>1, <4>2
    <3> QED BY <1>2, <3>1, <3>2, <3>3
  <2>3. ASSUME NEW j \in 1..n PROVE seq[j] \in {c[i] : i \in 1..(n + 1)}
    <3>1. CASE j <= k
      <4>1. j \in 1..k /\ j \in 1..(n + 1)
        BY <1>1, <1>2, <3>1
      <4> QED BY <1>8, <4>1
    <3>2. CASE j > k
      <4>1. j \in (k + 1)..n /\ j + 1 \in 1..(n + 1)
        BY <1>1, <1>2, <3>2
      <4>2. c[j + 1] = seq[j]
        BY <1>8, <4>1
      <4> QED BY <4>1, <4>2
    <3> QED BY <1>2, <3>1, <3>2
  <2>4. k + 1 \in 1..(n + 1) /\ c[k + 1] = r
    BY <1>1, <1>2, <1>8
  <2> QED BY <1>1, <2>1, <2>2, <2>3, <2>4 DEF ToSet
<1> QED BY <1>3, <1>10, <1>11

LEMMA FoundSorted ==
  ASSUME QueryInv
  PROVE  Sorted(InOrder(found)) /\ ToSet(InOrder(found)) = found
<1> DEFINE doc == InOrder(found)
           n == Len(doc)
<1>1. Listing(doc) /\ Orders(found, doc)
  BY OrderedLists
<1>2. /\ doc \in Seq(OnDisk) /\ n \in Nat /\ DOMAIN doc = 1..n
      /\ \A i \in 1..n : doc[i] \in found
  <2>1. /\ doc \in Seq(OnDisk) /\ Len(doc) \in 0..Size /\ DOMAIN doc = 1..Len(doc)
        /\ \A i \in 1..Len(doc) : doc[i] \in found
    BY <1>1, ListingTyped
  <2> HIDE DEF doc
  <2> QED BY <2>1, DeltaBundleAssumption
<1> HIDE DEF doc
<1>3. OnDisk \subseteq RawRanges
  <2> SUFFICES ASSUME NEW r \in OnDisk PROVE r \in RawRanges
    OBVIOUS
  <2>1. r = [offset |-> r.offset, length |-> r.length] /\ End(r) <= Size /\ r \in Ranges
    BY DEF OnDisk, Ranges
  <2>2. r.offset \in 0..Size /\ r.length \in 0..Size
    BY <2>1, DeltaBundleAssumption DEF Ranges, Blocks
  <2> QED BY <2>1, <2>2 DEF RawRanges
<1>4. doc \in Seq(RawRanges)
  BY <1>2, <1>3
<1>5. \A i, j \in 1..n : i < j => Precedes(doc[i], doc[j])
  BY <1>1, <1>2 DEF Orders, Precedes
<1>6. ToSet(doc) = found
  BY <1>1, <1>2 DEF Orders, ToSet
<1> QED BY <1>4, <1>5, <1>6 DEF Sorted, doc

(* -------------------------------- theorems --------------------------------- *)

LEMMA BundlesStep ==
  ASSUME BundlesInv, [Next]_vars
  PROVE  BundlesInv'
BY QueryKept, BundleKept, WriterKept DEF BundlesInv

LEMMA BundlesInit ==
  ASSUME Init
  PROVE  BundlesInv
BY QueryInit, BundleInit DEF BundlesInv

\* The types, for every size of disk and of page and every order of the document.
THEOREM BundleTyping == Spec => []TypeOK
<1>1. Init => BundlesInv
  BY BundlesInit
<1>2. BundlesInv /\ [Next]_vars => BundlesInv'
  BY BundlesStep
<1>3. BundlesInv => TypeOK
  BY BundlesTyped
<1> QED BY <1>1, <1>2, <1>3, PTL DEF Spec

\* Whatever pages the changed ranges come in, what the query finds is the changed
\* blocks, once each.
THEOREM BundleQueryExact == Spec => []QueryExact
<1>1. Init => BundlesInv
  BY BundlesInit
<1>2. BundlesInv /\ [Next]_vars => BundlesInv'
  BY BundlesStep
<1>3. BundlesInv => QueryExact
  BY QueryMeans DEF BundlesInv
<1> QED BY <1>1, <1>2, <1>3, PTL DEF Spec

\* A writer that succeeds has made the volume the source's, by either plan, when
\* the document has its ranges in order.
THEOREM BundleAppliedExact ==
  ASSUME ~AnyOrder
  PROVE  Spec => []AppliedExact
<1>1. Init => BundlesInv /\ VolumeInv
  BY BundlesInit DEF Init, VolumeInv, Writing, AppliedExact
<1>2. BundlesInv /\ VolumeInv /\ [Next]_vars => (BundlesInv /\ VolumeInv)'
  BY BundlesStep, VolumeKept DEF BundlesInv
<1>3. VolumeInv => AppliedExact
  BY DEF VolumeInv
<1> QED BY <1>1, <1>2, <1>3, PTL DEF Spec

\* No block is ever on the volume at another's place or damaged, not for a moment,
\* when the document has its ranges in order.
THEOREM BundleNothingMisplaced ==
  ASSUME ~AnyOrder
  PROVE  Spec => []NothingMisplaced
<1>1. Init => BundlesInv /\ VolumeInv
  BY BundlesInit DEF Init, VolumeInv, Writing, AppliedExact
<1>2. BundlesInv /\ VolumeInv /\ [Next]_vars => (BundlesInv /\ VolumeInv)'
  BY BundlesStep, VolumeKept DEF BundlesInv
<1>3. VolumeInv => NothingMisplaced
  BY DEF VolumeInv, NothingMisplaced
<1> QED BY <1>1, <1>2, <1>3, PTL DEF Spec

\* Whatever ranges an answer is made of, empty, repeated, nested and overlapping ones
\* among them, merging the sorted ones gives ranges apart from each other that cover
\* the same blocks.
THEOREM MergeOfAnyRanges ==
  ASSUME NEW seq, Sorted(seq)
  PROVE  /\ Covered(ToSet(Merge(seq))) = Covered(ToSet(seq))
         /\ \A i \in DOMAIN Merge(seq) \ {1} :
              Merge(seq)[i].offset > End(Merge(seq)[i - 1])
BY MergeMeans DEF Gaps

\* Merging gives the maximal runs of changed blocks, however the ranges were cut and
\* whichever redundant ones come with them: rct-compare.ps1 calls two answers
\* equivalent exactly when they cover the same.
THEOREM BundleMergeCanonical == Spec => []MergeCanonical
<1>1. Init => BundlesInv
  BY BundlesInit
<1>2. BundlesInv /\ [Next]_vars => BundlesInv'
  BY BundlesStep
<1>3. BundlesInv => MergeCanonical
  <2> SUFFICES ASSUME BundlesInv, stage = "pack", NEW r \in Redundant, NEW q \in Redundant
               PROVE  LET merged == Merge(Insert(Insert(InOrder(found), r), q))
                      IN /\ Covered(ToSet(merged)) = changed
                         /\ \A i \in DOMAIN merged \ {1} : merged[i].offset > End(merged[i - 1])
    BY DEF MergeCanonical
  <2> DEFINE doc == InOrder(found)
             more == Insert(doc, r)
             all == Insert(more, q)
  <2>1. QueryInv /\ stage # "query"
    BY DEF BundlesInv
  <2>2. r \in RawRanges /\ q \in RawRanges /\ Covered({r}) \subseteq changed /\ Covered({q}) \subseteq changed
    BY DEF Redundant
  <2>3. Sorted(doc) /\ ToSet(doc) = found
    BY <2>1, FoundSorted
  <2> HIDE DEF doc
  <2>4. Sorted(more) /\ ToSet(more) = found \cup {r}
    BY <2>2, <2>3, InsertSorted
  <2> HIDE DEF more
  <2>5. Sorted(all) /\ ToSet(all) = (found \cup {r}) \cup {q}
    BY <2>2, <2>4, InsertSorted
  <2> HIDE DEF all
  <2>6. Covered(found) = changed
    BY <2>1, QueryMeans DEF QueryExact, QueryInv, Blocks
  <2>7. Covered(ToSet(all)) = changed
    <3>1. Covered((found \cup {r}) \cup {q}) = Covered(found \cup {r}) \cup Covered({q})
      BY CoveredUnion
    <3>2. Covered(found \cup {r}) = Covered(found) \cup Covered({r})
      BY CoveredUnion
    <3> QED BY <2>2, <2>5, <2>6, <3>1, <3>2
  <2>8. Covered(ToSet(Merge(all))) = changed /\ Gaps(Merge(all))
    BY <2>5, <2>7, MergeMeans
  <2> QED BY <2>8 DEF Gaps, all, more, doc
<1> QED BY <1>1, <1>2, <1>3, PTL DEF Spec
=============================================================================
