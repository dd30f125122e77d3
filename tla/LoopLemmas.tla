---------------------------- MODULE LoopLemmas ----------------------------
(***************************************************************************)
(* What the proofs need to know of loops: a loop over a finite set of ids  *)
(* in order visits members of the set, and the concatenation of what its   *)
(* rounds produce is a sequence of what each produces.                     *)
(*                                                                         *)
(* Both are statements about all lengths.  They are proved by the least    *)
(* counterexample: a set of naturals that is not empty has a least member, *)
(* and the one before it is none.                                          *)
(***************************************************************************)
EXTENDS Integers, SequencesExt, FiniteSetTheorems, WellFoundedInduction, TLAPS

\* A set of naturals that is not empty has a least member.
LEMMA LeastNatural ==
  ASSUME NEW S, S \subseteq Nat, S # {}
  PROVE  \E n \in S : \A m \in S : n <= m
<1> DEFINE Less == {p \in Nat \X Nat : p[1] < p[2]}
<1>1. IsWellFoundedOn(Less, Nat)
  BY NatLessThanWellFounded DEF OpToRel
<1>2. \A m, n \in Nat : m < n => <<m, n>> \in Less
  OBVIOUS
<1> HIDE DEF Less
<1>3. \E n \in S : \A m \in S : <<m, n>> \notin Less
  BY <1>1, WFMin
<1>4. PICK n \in S : \A m \in S : <<m, n>> \notin Less
  BY <1>3
<1>5. ASSUME NEW m \in S PROVE n <= m
  <2>1. m \in Nat /\ n \in Nat /\ ~(m < n)
    BY <1>2, <1>4
  <2> QED
    BY <2>1
<1> QED
  BY <1>5

\* The partial concatenations of a sequence of sequences.
Partial(ss, f) == f = [i \in 1..Len(ss) |-> IF i = 1 THEN ss[i] ELSE f[i - 1] \o ss[i]]

LEMMA PartialExists ==
  ASSUME NEW W, NEW ss \in Seq(Seq(W))
  PROVE  \E f : Partial(ss, f)
<1> DEFINE P(n) == \E f : f = [i \in 1..n |-> IF i = 1 THEN ss[i] ELSE f[i - 1] \o ss[i]]
           Bad == {n \in Nat : ~P(n)}
<1>1. ASSUME Bad # {} PROVE FALSE
  <2>1. PICK n \in Bad : \A m \in Bad : n <= m
    BY <1>1, LeastNatural
  <2>2. CASE n = 0
    <3> DEFINE f == [i \in 1..0 |-> 0]
    <3>1. f = [i \in 1..n |-> IF i = 1 THEN ss[i] ELSE f[i - 1] \o ss[i]]
      BY <2>2
    <3> QED
      BY <2>1, <3>1
  <2>3. CASE n # 0
    <3>1. n - 1 \in Nat /\ n - 1 \notin Bad
      <4>1. n \in Nat /\ n - 1 \in Nat /\ ~(n <= n - 1)
        BY <2>1, <2>3
      <4> QED
        BY <2>1, <4>1
    <3>2. PICK f : f = [i \in 1..(n - 1) |-> IF i = 1 THEN ss[i] ELSE f[i - 1] \o ss[i]]
      BY <3>1
    <3> DEFINE g == [i \in 1..n |-> IF i = n THEN IF n = 1 THEN ss[n] ELSE f[n - 1] \o ss[n]
                                    ELSE f[i]]
    <3>3. ASSUME NEW i \in 1..n PROVE g[i] = IF i = 1 THEN ss[i] ELSE g[i - 1] \o ss[i]
      <4>1. CASE i = n
        <5>1. CASE n = 1
          BY <4>1, <5>1
        <5>2. CASE n # 1
          <6>1. i - 1 \in 1..n /\ i - 1 # n /\ i # 1
            BY <2>3, <4>1, <5>2
          <6>2. g[i - 1] = f[n - 1]
            BY <4>1, <6>1
          <6>3. g[i] = f[n - 1] \o ss[n]
            BY <4>1, <5>2
          <6> QED
            BY <4>1, <6>1, <6>2, <6>3
        <5> QED
          BY <5>1, <5>2
      <4>2. CASE i # n
        <5>1. i \in 1..(n - 1)
          BY <4>2
        <5>2. g[i] = f[i]
          BY <4>2
        <5>3. f[i] = IF i = 1 THEN ss[i] ELSE f[i - 1] \o ss[i]
          BY <3>2, <5>1
        <5>4. i # 1 => g[i - 1] = f[i - 1]
          BY <5>1
        <5> QED
          BY <5>2, <5>3, <5>4
      <4> QED
        BY <4>1, <4>2
    <3>4. g = [i \in 1..n |-> IF i = 1 THEN ss[i] ELSE g[i - 1] \o ss[i]]
      <4>1. g = [i \in 1..n |-> g[i]]
        OBVIOUS
      <4> HIDE DEF g
      <4> QED
        BY <3>3, <4>1
    <3> QED
      BY <2>1, <3>4
  <2> QED
    BY <2>2, <2>3
<1>2. Len(ss) \in Nat
  OBVIOUS
<1> QED
  BY <1>1, <1>2 DEF Partial

\* The concatenation of sequences over a set is a sequence over it.
LEMMA FlattenSeqType ==
  ASSUME NEW W, NEW ss \in Seq(Seq(W))
  PROVE  FlattenSeq(ss) \in Seq(W)
<1>1. CASE Len(ss) = 0
  <2>1. ss = <<>>
    BY <1>1
  <2> QED
    BY <1>1, <2>1 DEF FlattenSeq
<1>2. CASE Len(ss) # 0
  <2> DEFINE f == CHOOSE f : Partial(ss, f)
  <2>1. Partial(ss, f)
    BY PartialExists
  <2>2. FlattenSeq(ss) = f[Len(ss)]
    BY <1>2 DEF FlattenSeq, Partial
  <2> HIDE DEF f
  <2> DEFINE Bad == {n \in 1..Len(ss) : f[n] \notin Seq(W)}
  <2>3. ASSUME Bad # {} PROVE FALSE
    <3>1. PICK n \in Bad : \A m \in Bad : n <= m
      <4>1. Bad \subseteq Nat
        OBVIOUS
      <4> HIDE DEF Bad
      <4> QED
        BY <2>3, <4>1, LeastNatural
    <3>2. f[n] = IF n = 1 THEN ss[n] ELSE f[n - 1] \o ss[n]
      BY <2>1, <3>1 DEF Partial
    <3>3. ss[n] \in Seq(W)
      BY <3>1
    <3>4. n # 1 => f[n - 1] \in Seq(W)
      BY <3>1
    <3>5. n # 1 => f[n - 1] \o ss[n] \in Seq(W)
      BY <3>3, <3>4
    <3> QED
      BY <3>1, <3>2, <3>3, <3>5
  <2>4. Len(ss) \in 1..Len(ss)
    BY <1>2
  <2> QED
    BY <2>2, <2>3, <2>4
<1> QED
  BY <1>1, <1>2

\* What every round has and appending keeps, the concatenation has.
LEMMA FlattenSeqClosed ==
  ASSUME NEW A, NEW W \in SUBSET Seq(A), <<>> \in W,
         \A a, b \in W : a \o b \in W, NEW ss \in Seq(W)
  PROVE  FlattenSeq(ss) \in W
<1>1. ss \in Seq(Seq(A)) /\ Len(ss) \in Nat
  OBVIOUS
<1>2. CASE Len(ss) = 0
  <2>1. ss = <<>>
    BY <1>2
  <2> QED
    BY <1>2, <2>1 DEF FlattenSeq
<1>3. CASE Len(ss) # 0
  <2> DEFINE f == CHOOSE f : Partial(ss, f)
  <2>1. Partial(ss, f)
    BY <1>1, PartialExists
  <2>2. FlattenSeq(ss) = f[Len(ss)]
    BY <1>3 DEF FlattenSeq, Partial
  <2> HIDE DEF f
  <2> DEFINE Bad == {n \in 1..Len(ss) : f[n] \notin W}
  <2>3. ASSUME Bad # {} PROVE FALSE
    <3>1. PICK n \in Bad : \A m \in Bad : n <= m
      <4>1. Bad \subseteq Nat
        OBVIOUS
      <4> HIDE DEF Bad
      <4> QED
        BY <2>3, <4>1, LeastNatural
    <3>2. f[n] = IF n = 1 THEN ss[n] ELSE f[n - 1] \o ss[n]
      BY <2>1, <3>1 DEF Partial
    <3>3. ss[n] \in W
      BY <3>1
    <3>4. n # 1 => f[n - 1] \in W
      BY <3>1
    <3>5. n # 1 => f[n - 1] \o ss[n] \in W
      BY <3>3, <3>4
    <3> QED
      BY <3>1, <3>2, <3>3, <3>5
  <2>4. Len(ss) \in 1..Len(ss)
    BY <1>1, <1>3
  <2> QED
    BY <2>2, <2>3, <2>4
<1> QED
  BY <1>2, <1>3

\* Everything a round produces is in the concatenation.
LEMMA FlattenSeqCovers ==
  ASSUME NEW W, NEW ss \in Seq(Seq(W)), NEW r \in DOMAIN ss, NEW m \in DOMAIN ss[r]
  PROVE  \E n \in DOMAIN FlattenSeq(ss) : FlattenSeq(ss)[n] = ss[r][m]
<1>1. Len(ss) # 0 /\ Len(ss) \in Nat /\ DOMAIN ss = 1..Len(ss)
  OBVIOUS
<1> DEFINE f == CHOOSE f : Partial(ss, f)
           Has(n) == /\ f[n] \in Seq(W)
                     /\ r <= n => \E i \in DOMAIN f[n] : f[n][i] = ss[r][m]
           Bad == {n \in 1..Len(ss) : ~Has(n)}
<1>2. Partial(ss, f)
  BY PartialExists
<1>3. FlattenSeq(ss) = f[Len(ss)]
  BY <1>1 DEF FlattenSeq, Partial
<1> HIDE DEF f
<1>4. ASSUME Bad # {} PROVE FALSE
  <2>1. PICK n \in Bad : \A k \in Bad : n <= k
    <3>1. Bad \subseteq Nat
      OBVIOUS
    <3> HIDE DEF Bad
    <3> QED
      BY <1>4, <3>1, LeastNatural
  <2>2. n \in 1..Len(ss) /\ ~Has(n)
    BY <2>1
  <2>3. f[n] = IF n = 1 THEN ss[n] ELSE f[n - 1] \o ss[n]
    BY <1>2, <2>2 DEF Partial
  <2>4. ss[n] \in Seq(W) /\ ss[r] \in Seq(W) /\ r \in 1..Len(ss)
    BY <2>2
  <2>5. CASE n = 1
    <3>1. f[n] = ss[n]
      BY <2>3, <2>5
    <3>2. r <= n => r = n
      BY <2>2, <2>4, <2>5
    <3> QED
      BY <2>2, <2>4, <3>1, <3>2
  <2>6. CASE n # 1
    <3>1. n - 1 \in 1..Len(ss) /\ n - 1 \notin Bad
      <4>1. n - 1 \in 1..Len(ss) /\ n \in Nat /\ n - 1 \in Nat /\ ~(n <= n - 1)
        BY <2>2, <2>6
      <4> HIDE DEF Bad
      <4> QED
        BY <2>1, <4>1
    <3>2. Has(n - 1)
      BY <3>1
    <3>3. PICK before \in Seq(W), last \in Seq(W) : before = f[n - 1] /\ last = ss[n]
      BY <2>4, <3>2
    <3>4. f[n] = before \o last
      BY <2>3, <2>6, <3>3
    <3>5. /\ f[n] \in Seq(W) /\ DOMAIN f[n] = 1..(Len(before) + Len(last))
          /\ \A i \in DOMAIN before : i \in DOMAIN f[n] /\ f[n][i] = before[i]
          /\ \A i \in DOMAIN last : Len(before) + i \in DOMAIN f[n]
                                    /\ f[n][Len(before) + i] = last[i]
      BY <3>4
    <3>6. ASSUME r <= n PROVE \E i \in DOMAIN f[n] : f[n][i] = ss[r][m]
      <4>1. CASE r = n
        BY <3>3, <3>5, <4>1
      <4>2. CASE r # n
        <5>1. r <= n - 1
          BY <2>2, <2>4, <3>6, <4>2
        <5>2. PICK i \in DOMAIN f[n - 1] : f[n - 1][i] = ss[r][m]
          BY <3>2, <5>1
        <5> QED
          BY <3>3, <3>5, <5>2
      <4> QED
        BY <4>1, <4>2
    <3> QED
      BY <2>2, <3>5, <3>6
  <2> QED
    BY <2>5, <2>6
<1>5. Len(ss) \in 1..Len(ss) /\ r <= Len(ss)
  BY <1>1
<1>6. Has(Len(ss))
  <2>1. Len(ss) \notin Bad
    <3> HIDE DEF Bad
    <3> QED
      BY <1>4
  <2> QED
    BY <1>5, <2>1
<1> QED
  BY <1>3, <1>5, <1>6

\* Everything in the concatenation is of a round, after what comes before it in
\* that round.
LEMMA FlattenSeqOrder ==
  ASSUME NEW W, NEW ss \in Seq(Seq(W)), NEW n \in DOMAIN FlattenSeq(ss)
  PROVE  \E r \in DOMAIN ss : \E m \in DOMAIN ss[r] :
           /\ FlattenSeq(ss)[n] = ss[r][m]
           /\ \A l \in 1..(m - 1) : \E p \in 1..(n - 1) : FlattenSeq(ss)[p] = ss[r][l]
<1> DEFINE f == CHOOSE f : Partial(ss, f)
           From(s, i, r) == \E m \in DOMAIN ss[r] :
             /\ s[i] = ss[r][m]
             /\ \A l \in 1..(m - 1) : \E p \in 1..(i - 1) : s[p] = ss[r][l]
           Fits(k) == f[k] \in Seq(W) /\ \A i \in DOMAIN f[k] : \E r \in DOMAIN ss : From(f[k], i, r)
           Bad == {k \in 1..Len(ss) : ~Fits(k)}
<1>1. CASE Len(ss) = 0
  <2>1. FlattenSeq(ss) = <<>>
    BY <1>1 DEF FlattenSeq
  <2> QED
    BY <2>1
<1>2. CASE Len(ss) # 0
  <2>1. Len(ss) \in Nat /\ DOMAIN ss = 1..Len(ss)
    OBVIOUS
  <2>2. Partial(ss, f)
    BY PartialExists
  <2>3. FlattenSeq(ss) = f[Len(ss)]
    BY <1>2 DEF FlattenSeq, Partial
  <2> HIDE DEF f
  <2>4. ASSUME Bad # {} PROVE FALSE
    <3>1. PICK k \in Bad : \A l \in Bad : k <= l
      <4>1. Bad \subseteq Nat
        OBVIOUS
      <4> HIDE DEF Bad
      <4> QED
        BY <2>4, <4>1, LeastNatural
    <3>2. k \in 1..Len(ss) /\ ~Fits(k)
      BY <3>1
    <3>3. f[k] = IF k = 1 THEN ss[k] ELSE f[k - 1] \o ss[k]
      BY <2>2, <3>2 DEF Partial
    <3>4. ss[k] \in Seq(W) /\ k \in DOMAIN ss
      BY <2>1, <3>2
    <3>5. CASE k = 1
      <4>1. f[k] = ss[k]
        BY <3>3, <3>5
      <4>2. \A i \in DOMAIN f[k] : From(f[k], i, k)
        BY <4>1
      <4> QED
        BY <3>2, <3>4, <4>1, <4>2
    <3>6. CASE k # 1
      <4>1. k - 1 \in 1..Len(ss) /\ k - 1 \notin Bad
        <5>1. k - 1 \in 1..Len(ss) /\ k \in Nat /\ k - 1 \in Nat /\ ~(k <= k - 1)
          BY <3>2, <3>6
        <5> HIDE DEF Bad
        <5> QED
          BY <3>1, <5>1
      <4>2. Fits(k - 1)
        BY <4>1
      <4>3. PICK before \in Seq(W), last \in Seq(W) : before = f[k - 1] /\ last = ss[k]
        BY <3>4, <4>2
      <4>4. f[k] = before \o last
        BY <3>3, <3>6, <4>3
      <4>5. PICK b \in Nat, e \in Nat : b = Len(before) /\ e = Len(last)
        OBVIOUS
      <4>6. /\ f[k] \in Seq(W) /\ DOMAIN f[k] = 1..(b + e)
            /\ DOMAIN before = 1..b /\ DOMAIN last = 1..e
            /\ \A i \in 1..b : f[k][i] = before[i]
            /\ \A i \in 1..e : f[k][b + i] = last[i]
        BY <4>4, <4>5
      <4>7. ASSUME NEW i \in 1..b PROVE \E r \in DOMAIN ss : From(f[k], i, r)
        <5>1. PICK r \in DOMAIN ss : From(before, i, r)
          BY <4>2, <4>3, <4>6
        <5>2. \A p \in 1..(i - 1) : f[k][p] = before[p]
          BY <4>5, <4>6
        <5>3. PICK m \in DOMAIN ss[r] :
                /\ before[i] = ss[r][m]
                /\ \A l \in 1..(m - 1) : \E p \in 1..(i - 1) : before[p] = ss[r][l]
          BY <5>1
        <5>4. \A l \in 1..(m - 1) : \E p \in 1..(i - 1) : f[k][p] = ss[r][l]
          BY <5>2, <5>3
        <5>5. f[k][i] = ss[r][m]
          BY <4>6, <5>3
        <5>6. From(f[k], i, r)
          BY <5>4, <5>5
        <5> HIDE DEF From
        <5> QED
          BY <5>6
      <4>8. ASSUME NEW i \in 1..e PROVE From(f[k], b + i, k)
        <5>1. \A l \in 1..(i - 1) : /\ b + l \in 1..((b + i) - 1) /\ l \in 1..e
          BY <4>5
        <5>2. \A l \in 1..(i - 1) : f[k][b + l] = ss[k][l]
          BY <4>3, <4>6, <5>1
        <5>3. f[k][b + i] = ss[k][i] /\ i \in DOMAIN ss[k]
          BY <4>3, <4>6
        <5> QED
          BY <5>1, <5>2, <5>3
      <4>9. \A i \in DOMAIN f[k] : i \in 1..b \/ \E l \in 1..e : i = b + l
        <5>1. ASSUME NEW i \in 1..(b + e), i \notin 1..b PROVE i - b \in 1..e /\ i = b + (i - b)
          BY <4>5, <5>1
        <5> QED
          BY <4>6, <5>1
      <4>10. \A i \in DOMAIN f[k] : \E r \in DOMAIN ss : From(f[k], i, r)
        <5> HIDE DEF From
        <5> QED
          BY <3>4, <4>7, <4>8, <4>9
      <4> QED
        BY <3>2, <4>6, <4>10
    <3> QED
      BY <3>5, <3>6
  <2>5. Len(ss) \in 1..Len(ss)
    BY <1>2, <2>1
  <2>6. Fits(Len(ss))
    <3>1. Len(ss) \notin Bad
      <4> HIDE DEF Bad
      <4> QED
        BY <2>4
    <3> QED
      BY <2>5, <3>1
  <2> QED
    BY <2>3, <2>6
<1> QED
  BY <1>1, <1>2

-----------------------------------------------------------------------------
\* A finite set of naturals has a member of every rank.
LEMMA RankExists ==
  ASSUME NEW S \in SUBSET Nat, IsFiniteSet(S), NEW i \in 1..Cardinality(S)
  PROVE  \E j \in S : Cardinality({k \in S : k < j}) = i - 1
<1> DEFINE Below(j) == {k \in S : k < j}
           Bad == {n \in 1..Cardinality(S) : ~\E j \in S : Cardinality(Below(j)) = n - 1}
<1>a. Cardinality(S) \in Nat
  BY FS_CardinalityType
<1>b. \A j \in S : Below(j) \in SUBSET S /\ IsFiniteSet(Below(j))
  BY FS_Subset
<1>1. ASSUME Bad # {} PROVE FALSE
  <2>1. Bad \subseteq Nat
    BY <1>a
  <2> HIDE DEF Bad
  <2>2. PICK n \in Bad : \A m \in Bad : n <= m
    BY <1>1, <2>1, LeastNatural
  <2> USE DEF Bad
  <2>3. n \in 1..Cardinality(S) /\ ~\E j \in S : Cardinality(Below(j)) = n - 1
    BY <2>2
  <2>4. CASE n = 1
    <3>1. S # {}
      BY <2>3, FS_EmptySet
    <3>2. PICK j \in S : \A k \in S : j <= k
      BY <3>1, LeastNatural
    <3>3. Below(j) = {}
      <4>1. ASSUME NEW k \in S PROVE ~(k < j)
        <5>1. k \in Nat /\ j \in Nat /\ j <= k
          BY <3>2
        <5> QED
          BY <5>1
      <4> QED
        BY <4>1
    <3>4. Cardinality(Below(j)) = 0
      BY <3>3, FS_EmptySet
    <3> QED
      BY <2>3, <2>4, <3>4
  <2>5. CASE n # 1
    <3>1. n - 1 \in 1..Cardinality(S) /\ n - 1 \notin Bad
      <4>1. n - 1 \in 1..Cardinality(S) /\ n \in Nat /\ n - 1 \in Nat /\ ~(n <= n - 1)
        BY <1>a, <2>3, <2>5
      <4> HIDE DEF Bad
      <4> QED
        BY <2>2, <4>1
    <3>2. PICK j \in S : Cardinality(Below(j)) = n - 2
      <4>1. PICK j \in S : Cardinality(Below(j)) = (n - 1) - 1
        BY <3>1
      <4>2. (n - 1) - 1 = n - 2
        BY <1>a, <2>3
      <4> QED
        BY <4>1, <4>2
    <3> DEFINE Above == {k \in S : j < k}
    <3>3. Above # {}
      <4>1. SUFFICES ASSUME Above = {} PROVE FALSE
        OBVIOUS
      <4>2. S = Below(j) \cup {j}
        <5>1. ASSUME NEW k \in S PROVE k \in Below(j) \cup {j}
          <6>1. k \in Nat /\ j \in Nat /\ ~(j < k)
            BY <4>1
          <6> QED
            BY <6>1
        <5> QED
          BY <5>1
      <4>3. Cardinality(S) = (n - 2) + 1
        <5>1. j \notin Below(j)
          OBVIOUS
        <5> HIDE DEF Below
        <5> QED
          BY <1>b, <3>2, <4>2, <5>1, FS_AddElement
      <4> QED
        BY <1>a, <2>3, <4>3
    <3>4. PICK l \in Above : \A k \in Above : l <= k
      <4>1. Above \subseteq Nat
        OBVIOUS
      <4> HIDE DEF Above
      <4> QED
        BY <3>3, <4>1, LeastNatural
    <3>5. Below(l) = Below(j) \cup {j}
      <4>1. ASSUME NEW k \in S PROVE k < l <=> k < j \/ k = j
        <5>1. k \in Nat /\ j \in Nat /\ l \in Nat /\ j < l
          BY <3>4
        <5>2. j < k => l <= k
          BY <3>4
        <5> QED
          BY <5>1, <5>2
      <4> QED
        BY <4>1
    <3>6. j \notin Below(j)
      OBVIOUS
    <3>7. Cardinality(Below(l)) = (n - 2) + 1
      <4> HIDE DEF Below
      <4> QED
        BY <1>b, <3>2, <3>5, <3>6, FS_AddElement
    <3>8. (n - 2) + 1 = n - 1
      BY <1>a, <2>3
    <3>9. l \in S
      BY <3>4
    <3> QED
      BY <2>3, <3>7, <3>8, <3>9
  <2> QED
    BY <2>4, <2>5
<1>2. i \notin Bad
  <2> HIDE DEF Bad
  <2> QED
    BY <1>1
<1> QED
  BY <1>2

\* Every member of a finite set of naturals has a rank, and no other has it.
LEMMA RankOf ==
  ASSUME NEW S \in SUBSET Nat, IsFiniteSet(S), NEW j \in S
  PROVE  /\ Cardinality({k \in S : k < j}) \in Nat
         /\ Cardinality({k \in S : k < j}) + 1 \in 1..Cardinality(S)
         /\ \A l \in S : Cardinality({k \in S : k < l}) = Cardinality({k \in S : k < j}) => l = j
<1> DEFINE Below(l) == {k \in S : k < l}
<1>1. ASSUME NEW l \in S
      PROVE  /\ IsFiniteSet(Below(l)) /\ Cardinality(Below(l)) \in Nat
             /\ IsFiniteSet(Below(l) \cup {l})
             /\ Cardinality(Below(l) \cup {l}) = Cardinality(Below(l)) + 1
  <2>1. Below(l) \in SUBSET S
    OBVIOUS
  <2>2. IsFiniteSet(Below(l))
    BY <2>1, FS_Subset
  <2>3. l \notin Below(l)
    OBVIOUS
  <2> HIDE DEF Below
  <2> QED
    BY <2>2, <2>3, FS_AddElement, FS_CardinalityType
<1>2. ASSUME NEW l \in S, NEW m \in S, l < m
      PROVE  Cardinality(Below(l)) < Cardinality(Below(m))
  <2>1. Below(l) \cup {l} \subseteq Below(m)
    <3>1. ASSUME NEW k \in S, k < l PROVE k < m
      <4>1. k \in Nat /\ l \in Nat /\ m \in Nat
        OBVIOUS
      <4> QED
        BY <1>2, <3>1, <4>1
    <3> QED
      BY <1>2, <3>1
  <2>2. Cardinality(Below(l) \cup {l}) <= Cardinality(Below(m))
    <3> HIDE DEF Below
    <3> QED
      BY <1>1, <2>1, FS_Subset
  <2> HIDE DEF Below
  <2>3. /\ Cardinality(Below(l)) \in Nat /\ Cardinality(Below(m)) \in Nat
        /\ Cardinality(Below(l)) + 1 <= Cardinality(Below(m))
    BY <1>1, <2>2
  <2> QED
    BY <2>3
<1>3. Cardinality(Below(j)) + 1 \in 1..Cardinality(S)
  <2>1. Below(j) \cup {j} \subseteq S
    OBVIOUS
  <2> HIDE DEF Below
  <2>2. Cardinality(Below(j) \cup {j}) <= Cardinality(S) /\ Cardinality(S) \in Nat
    BY <2>1, FS_Subset, FS_CardinalityType
  <2> QED
    BY <1>1, <2>2
<1>4. ASSUME NEW l \in S, Cardinality(Below(l)) = Cardinality(Below(j)) PROVE l = j
  <2> HIDE DEF Below
  <2>1. ~(l < j) /\ ~(j < l)
    <3>1. Cardinality(Below(l)) \in Nat /\ Cardinality(Below(j)) \in Nat
      BY <1>1
    <3> QED
      BY <1>2, <1>4, <3>1
  <2>2. l \in Nat /\ j \in Nat
    OBVIOUS
  <2> QED
    BY <2>1, <2>2
<1> QED
  BY <1>1, <1>3, <1>4

=============================================================================
