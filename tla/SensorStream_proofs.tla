------------------------- MODULE SensorStream_proofs -------------------------
(***************************************************************************)
(* However long the camera's stream and however it is cut into words: the  *)
(* newest record waits and all before it are delivered, and every step of  *)
(* the thread is one that RecordStream promises.                           *)
(***************************************************************************)
EXTENDS SensorStream, SequenceFacts, FiniteSetTheorems

-----------------------------------------------------------------------------
(* The places where records begin *)

UpTo(s, k) == {x \in StartsOf(s) : x <= k}
NthStart(s, n) ==
  CHOOSE k \in StartsOf(s) : Cardinality({x \in StartsOf(s) : x <= k}) = n

LEMMA RecordsForm ==
  ASSUME NEW s
  PROVE  RecordsOf(s) = [n \in 1..Cardinality(StartsOf(s)) |->
                           RecordAt(s, NthStart(s, n))]
  BY DEF RecordsOf, NthStart

LEMMA StartsFinite ==
  ASSUME NEW s \in Seq(Tokens)
  PROVE  /\ StartsOf(s) \subseteq 1..Len(s)
         /\ IsFiniteSet(StartsOf(s))
         /\ Cardinality(StartsOf(s)) \in Nat
<1>1. StartsOf(s) \subseteq 1..Len(s)
  BY DEF StartsOf
<1>2. IsFiniteSet(1..Len(s))
  BY FS_Interval
<1>3. IsFiniteSet(StartsOf(s))
  BY <1>1, <1>2, FS_Subset
<1>. QED BY <1>1, <1>3, FS_CardinalityType

LEMMA UpToFinite ==
  ASSUME NEW s \in Seq(Tokens), NEW k
  PROVE  /\ IsFiniteSet(UpTo(s, k))
         /\ Cardinality(UpTo(s, k)) \in Nat
         /\ Cardinality(UpTo(s, k)) <= Cardinality(StartsOf(s))
         /\ Cardinality(UpTo(s, k)) = Cardinality(StartsOf(s))
              => UpTo(s, k) = StartsOf(s)
<1>1. UpTo(s, k) \in SUBSET StartsOf(s)
  BY DEF UpTo
<1>2. IsFiniteSet(StartsOf(s))
  BY StartsFinite
<1>3. IsFiniteSet(UpTo(s, k))
  BY <1>1, <1>2, FS_Subset
<1>4. Cardinality(UpTo(s, k)) <= Cardinality(StartsOf(s))
  BY <1>1, <1>2, FS_Subset
<1>5. Cardinality(StartsOf(s)) = Cardinality(UpTo(s, k))
        => StartsOf(s) = UpTo(s, k)
  BY <1>1, <1>2, FS_Subset
<1>. QED BY <1>3, <1>4, <1>5, FS_CardinalityType

\* Of two places where records begin, the later one counts more.
LEMMA LaterCountsMore ==
  ASSUME NEW s \in Seq(Tokens), NEW j \in StartsOf(s), NEW k \in StartsOf(s),
         j < k
  PROVE  Cardinality(UpTo(s, j)) < Cardinality(UpTo(s, k))
<1>1. j \in Nat /\ k \in Nat /\ StartsOf(s) \subseteq Nat
  BY StartsFinite
<1>2. UpTo(s, j) \in SUBSET UpTo(s, k)
  BY <1>1 DEF UpTo
<1>3. UpTo(s, k) # UpTo(s, j)
  BY <1>1 DEF UpTo
<1>4. IsFiniteSet(UpTo(s, k)) /\ Cardinality(UpTo(s, k)) \in Nat
      /\ Cardinality(UpTo(s, j)) \in Nat
  BY UpToFinite
<1>5. Cardinality(UpTo(s, j)) <= Cardinality(UpTo(s, k))
  BY <1>2, <1>4, FS_Subset
<1>6. Cardinality(UpTo(s, k)) # Cardinality(UpTo(s, j))
  BY <1>2, <1>3, <1>4, FS_Subset
<1>. QED BY <1>4, <1>5, <1>6

\* A place that counts n is the n-th one.
LEMMA NthUnique ==
  ASSUME NEW s \in Seq(Tokens), NEW k \in StartsOf(s)
  PROVE  NthStart(s, Cardinality(UpTo(s, k))) = k
<1>. DEFINE n == Cardinality(UpTo(s, k))
            j == NthStart(s, n)
<1>1. j \in StartsOf(s) /\ Cardinality(UpTo(s, j)) = n
  BY DEF NthStart, UpTo
<1>2. ~(j < k)
  <2>. SUFFICES ASSUME j < k PROVE FALSE
    OBVIOUS
  <2>1. Cardinality(UpTo(s, j)) < Cardinality(UpTo(s, k))
    BY <1>1, LaterCountsMore
  <2>. QED BY <1>1, <2>1, UpToFinite
<1>3. ~(k < j)
  <2>. SUFFICES ASSUME k < j PROVE FALSE
    OBVIOUS
  <2>1. Cardinality(UpTo(s, k)) < Cardinality(UpTo(s, j))
    BY <1>1, LaterCountsMore
  <2>. QED BY <1>1, <2>1, UpToFinite
<1>4. j \in Nat /\ k \in Nat
  BY <1>1, StartsFinite
<1>. QED BY <1>2, <1>3, <1>4

\* There is an n-th place for every n up to their number.
LEMMA NthExists ==
  ASSUME NEW s \in Seq(Tokens), NEW n \in 1..Cardinality(StartsOf(s))
  PROVE  /\ NthStart(s, n) \in StartsOf(s)
         /\ Cardinality(UpTo(s, NthStart(s, n))) = n
<1>. DEFINE Many == {k \in StartsOf(s) : n <= Cardinality(UpTo(s, k))}
<1>1. StartsOf(s) \subseteq 1..Len(s) /\ IsFiniteSet(StartsOf(s))
      /\ Cardinality(StartsOf(s)) \in Nat /\ Len(s) \in Nat
  BY StartsFinite
<1>2. StartsOf(s) # {}
  BY <1>1, FS_EmptySet
<1>3. Many # {}
  <2>0. StartsOf(s) \subseteq 0..Len(s)
    BY <1>1
  <2>1. Max(StartsOf(s)) \in StartsOf(s)
        /\ \A x \in StartsOf(s) : x <= Max(StartsOf(s))
    BY <1>1, <1>2, <2>0, GreatestIs
  <2>2. UpTo(s, Max(StartsOf(s))) = StartsOf(s)
    BY <2>1 DEF UpTo
  <2>. QED BY <1>1, <2>1, <2>2
<1>4. PICK k : k = Min(Many)
  OBVIOUS
<1>5. k \in Many /\ \A x \in Many : k <= x
  <2>1. Many \subseteq Nat
    BY <1>1
  <2>. HIDE DEF Many
  <2>. QED BY <1>3, <1>4, <2>1, LeastIs
<1>6. k \in StartsOf(s) /\ n <= Cardinality(UpTo(s, k)) /\ k \in Nat
  BY <1>1, <1>5
<1>7. Cardinality(UpTo(s, k)) = n
  <2>. DEFINE Before == UpTo(s, k) \ {k}
  <2>1. SUFFICES ASSUME Cardinality(UpTo(s, k)) # n PROVE FALSE
    OBVIOUS
  <2>2. IsFiniteSet(UpTo(s, k)) /\ Cardinality(UpTo(s, k)) \in Nat
    BY UpToFinite
  <2>3. k \in UpTo(s, k)
    BY <1>6 DEF UpTo
  <2>4. IsFiniteSet(Before)
        /\ Cardinality(Before) = Cardinality(UpTo(s, k)) - 1
    BY <2>2, <2>3, FS_RemoveElement
  <2>5. n <= Cardinality(Before) /\ Cardinality(Before) \in Nat
    BY <1>6, <2>1, <2>2, <2>4
  <2>6. Before # {}
    <3>1. Cardinality(Before) # 0
      BY <2>5
    <3>2. Cardinality({}) = 0
      BY FS_EmptySet
    <3>. QED BY <3>1, <3>2
  <2>7. Before \subseteq 0..Len(s)
    BY <1>1 DEF UpTo
  <2>8. PICK j \in Before : \A x \in Before : x <= j
    BY <1>1, <2>6, <2>7, GreatestIs
  <2>9. j \in StartsOf(s) /\ j < k /\ j \in Nat
    BY <1>1, <1>6, <2>8 DEF UpTo
  <2>10. UpTo(s, j) = Before
    BY <1>1, <1>6, <2>8, <2>9 DEF UpTo
  <2>11. j \in Many
    BY <2>5, <2>9, <2>10
  <2>. QED BY <1>5, <1>6, <2>9, <2>11
<1>. QED BY <1>6, <1>7, NthUnique

\* The last of them.
LEMMA LastStart ==
  ASSUME NEW s \in Seq(Tokens), StartsOf(s) # {}
  PROVE  LET k == NthStart(s, Cardinality(StartsOf(s)))
         IN k \in StartsOf(s) /\ \A x \in StartsOf(s) : x <= k
<1>. DEFINE n == Cardinality(StartsOf(s))
            k == NthStart(s, n)
<1>1. n \in Nat /\ n # 0
  BY StartsFinite, FS_EmptySet, StartsOf(s) # {}
<1>2. k \in StartsOf(s) /\ Cardinality(UpTo(s, k)) = n
  BY <1>1, NthExists
<1>3. UpTo(s, k) = StartsOf(s)
  BY <1>2, UpToFinite
<1>. QED BY <1>2, <1>3 DEF UpTo

-----------------------------------------------------------------------------
(* Records stay when the stream grows *)

Extends(s, t) ==
  /\ s \in Seq(Tokens) /\ t \in Seq(Tokens)
  /\ Len(s) <= Len(t)
  /\ \A i \in 1..Len(s) : t[i] = s[i]

LEMMA ConcatExtends ==
  ASSUME NEW s \in Seq(Tokens), NEW w \in Seq(Tokens)
  PROVE  Extends(s, s \o w)
  BY DEF Extends

LEMMA StartsStay ==
  ASSUME NEW s, NEW t, Extends(s, t)
  PROVE  /\ StartsOf(s) = {x \in StartsOf(t) : x <= Len(s)}
         /\ StartsOf(s) \subseteq StartsOf(t)
         /\ Cardinality(StartsOf(s)) <= Cardinality(StartsOf(t))
         /\ \A k \in StartsOf(s) : UpTo(s, k) = UpTo(t, k)
<1>1. s \in Seq(Tokens) /\ t \in Seq(Tokens) /\ Len(s) <= Len(t)
      /\ \A i \in 1..Len(s) : t[i] = s[i]
  BY Extends(s, t) DEF Extends
<1>2. StartsOf(s) = {x \in StartsOf(t) : x <= Len(s)}
  BY <1>1 DEF StartsOf
<1>3. IsFiniteSet(StartsOf(t)) /\ StartsOf(s) \in SUBSET StartsOf(t)
  BY <1>1, <1>2, StartsFinite
<1>4. Cardinality(StartsOf(s)) <= Cardinality(StartsOf(t))
  BY <1>3, FS_Subset
<1>5. ASSUME NEW k \in StartsOf(s)
      PROVE  UpTo(s, k) = UpTo(t, k)
  <2>1. StartsOf(s) \subseteq 1..Len(s) /\ StartsOf(t) \subseteq 1..Len(t)
    BY <1>1, StartsFinite
  <2>2. Len(s) \in Nat /\ Len(t) \in Nat
    BY <1>1
  <2>. QED BY <1>2, <2>1, <2>2 DEF UpTo
<1>. QED BY <1>2, <1>3, <1>4, <1>5

LEMMA NthStays ==
  ASSUME NEW s, NEW t, Extends(s, t),
         NEW n \in 1..Cardinality(StartsOf(s))
  PROVE  NthStart(t, n) = NthStart(s, n)
<1>1. s \in Seq(Tokens) /\ t \in Seq(Tokens)
  BY Extends(s, t) DEF Extends
<1>2. PICK k : k = NthStart(s, n)
  OBVIOUS
<1>3. k \in StartsOf(s) /\ Cardinality(UpTo(s, k)) = n
  BY <1>1, <1>2, NthExists
<1>4. k \in StartsOf(t) /\ Cardinality(UpTo(t, k)) = n
  BY <1>3, StartsStay, Extends(s, t)
<1>5. NthStart(t, Cardinality(UpTo(t, k))) = k
  BY <1>1, <1>4, NthUnique
<1>. QED BY <1>2, <1>4, <1>5

\* What a record is, and where it ends.
LEMMA RecordEnds ==
  ASSUME NEW s \in Seq(Tokens), NEW k \in StartsOf(s)
  PROVE  /\ (\A x \in StartsOf(s) : x <= k) =>
              RecordAt(s, k) = SubSeq(s, k, Len(s))
         /\ \A next \in StartsOf(s) :
              k < next /\ (\A x \in StartsOf(s) : k < x => next <= x) =>
                RecordAt(s, k) = SubSeq(s, k, next - 1)
<1>. DEFINE later == {x \in StartsOf(s) : x > k}
<1>1. StartsOf(s) \subseteq Nat /\ k \in Nat
  BY StartsFinite
<1>2. ASSUME \A x \in StartsOf(s) : x <= k
      PROVE  RecordAt(s, k) = SubSeq(s, k, Len(s))
  <2>1. later = {}
    BY <1>1, <1>2
  <2>. QED BY <2>1 DEF RecordAt
<1>3. ASSUME NEW next \in StartsOf(s), k < next,
             \A x \in StartsOf(s) : k < x => next <= x
      PROVE  RecordAt(s, k) = SubSeq(s, k, next - 1)
  <2>1. later \subseteq Nat /\ next \in later
    BY <1>1, <1>3
  <2>2. Min(later) \in later /\ \A x \in later : Min(later) <= x
    <3>. HIDE DEF later
    <3>. QED BY <2>1, LeastIs
  <2>3. Min(later) = next
    BY <1>1, <1>3, <2>1, <2>2
  <2>4. later # {}
    BY <2>1
  <2>. QED BY <2>3, <2>4 DEF RecordAt
<1>. QED BY <1>2, <1>3

LEMMA SamePart ==
  ASSUME NEW s, NEW t, Extends(s, t), NEW a \in 1..Len(s), NEW b \in 0..Len(s)
  PROVE  SubSeq(t, a, b) = SubSeq(s, a, b)
<1>1. s \in Seq(Tokens) /\ t \in Seq(Tokens) /\ Len(s) <= Len(t)
      /\ \A i \in 1..Len(s) : t[i] = s[i]
  BY Extends(s, t) DEF Extends
<1>2. Len(s) \in Nat /\ Len(t) \in Nat
  BY <1>1
<1>3. PICK u : u = SubSeq(s, a, b)
  OBVIOUS
<1>4. PICK v : v = SubSeq(t, a, b)
  OBVIOUS
<1>5. u \in Seq(Tokens) /\ v \in Seq(Tokens) /\ Len(u) = Len(v)
  BY <1>1, <1>2, <1>3, <1>4
<1>6. ASSUME NEW i \in 1..Len(u) PROVE u[i] = v[i]
  BY <1>1, <1>2, <1>3, <1>4
<1>7. u = v
  BY <1>5, <1>6
<1>. QED BY <1>3, <1>4, <1>7

\* A record that another one follows is the same in a longer stream.
LEMMA RecordStays ==
  ASSUME NEW s, NEW t, Extends(s, t),
         NEW n \in 1..Cardinality(StartsOf(s)) - 1
  PROVE  RecordAt(t, NthStart(t, n)) = RecordAt(s, NthStart(s, n))
<1>1. s \in Seq(Tokens) /\ t \in Seq(Tokens) /\ Len(s) <= Len(t)
      /\ \A i \in 1..Len(s) : t[i] = s[i]
  BY Extends(s, t) DEF Extends
<1>2. Cardinality(StartsOf(s)) \in Nat
  BY <1>1, StartsFinite
<1>3. PICK k : k = NthStart(s, n)
  OBVIOUS
<1>4. k \in StartsOf(s) /\ Cardinality(UpTo(s, k)) = n
  BY <1>1, <1>2, <1>3, NthExists
<1>5. NthStart(t, n) = k
  BY <1>2, <1>3, NthStays, Extends(s, t)
<1>6. StartsOf(s) \subseteq 1..Len(s) /\ StartsOf(t) \subseteq 1..Len(t)
      /\ k \in Nat /\ Len(s) \in Nat /\ Len(t) \in Nat
  BY <1>1, <1>4, StartsFinite
<1>7. PICK later : later = {x \in StartsOf(s) : k < x}
  OBVIOUS
<1>8. later # {}
  <2>1. SUFFICES ASSUME later = {} PROVE FALSE
    OBVIOUS
  <2>2. UpTo(s, k) = StartsOf(s)
    BY <1>6, <1>7, <2>1 DEF UpTo
  <2>. QED BY <1>2, <1>4, <2>2
<1>9. PICK next \in later : \A x \in later : next <= x
  <2>1. later \subseteq Nat
    BY <1>6, <1>7
  <2>. QED BY <1>8, <2>1, LeastIs
<1>10. next \in StartsOf(s) /\ k < next /\ next \in Nat /\ next <= Len(s)
  BY <1>6, <1>7, <1>9
<1>11. RecordAt(s, k) = SubSeq(s, k, next - 1)
  BY <1>1, <1>4, <1>7, <1>9, <1>10, RecordEnds
<1>12. RecordAt(t, k) = SubSeq(t, k, next - 1)
  <2>1. k \in StartsOf(t) /\ next \in StartsOf(t)
    BY <1>4, <1>10, StartsStay, Extends(s, t)
  <2>2. ASSUME NEW x \in StartsOf(t), k < x PROVE next <= x
    <3>1. CASE x <= Len(s)
      BY <1>7, <1>9, <2>2, <3>1, StartsStay, Extends(s, t)
    <3>2. CASE ~(x <= Len(s))
      BY <1>6, <1>10, <3>2
    <3>. QED BY <3>1, <3>2
  <2>. QED BY <1>1, <1>10, <2>1, <2>2, RecordEnds
<1>13. SubSeq(t, k, next - 1) = SubSeq(s, k, next - 1)
  <2>1. k \in 1..Len(s) /\ next - 1 \in 1..Len(s)
    BY <1>6, <1>10, <1>4
  <2>. QED BY <2>1, SamePart, Extends(s, t)
<1>. QED BY <1>3, <1>5, <1>11, <1>12, <1>13

\* The newest record is the stream from its header on.
LEMMA NewestRecord ==
  ASSUME NEW s \in Seq(Tokens), StartsOf(s) # {}
  PROVE  LET n == Cardinality(StartsOf(s))
         IN RecordAt(s, NthStart(s, n)) = SubSeq(s, NthStart(s, n), Len(s))
<1>1. PICK k : k = NthStart(s, Cardinality(StartsOf(s)))
  OBVIOUS
<1>2. k \in StartsOf(s) /\ \A x \in StartsOf(s) : x <= k
  BY <1>1, LastStart, StartsOf(s) # {}
<1>. QED BY <1>1, <1>2, RecordEnds

LEMMA RecordsType ==
  ASSUME NEW s \in Seq(Tokens)
  PROVE  /\ RecordsOf(s) \in Seq(Seq(Tokens))
         /\ Len(RecordsOf(s)) = Cardinality(StartsOf(s))
         /\ \A n \in 1..Len(RecordsOf(s)) :
              RecordsOf(s)[n] = RecordAt(s, NthStart(s, n))
<1>1. PICK n : n = Cardinality(StartsOf(s))
  OBVIOUS
<1>2. n \in Nat
  BY <1>1, StartsFinite
<1>3. ASSUME NEW i \in 1..n
      PROVE  RecordAt(s, NthStart(s, i)) \in Seq(Tokens)
  <2>1. PICK k : k = NthStart(s, i)
    OBVIOUS
  <2>2. k \in StartsOf(s)
    BY <1>1, <1>3, <2>1, NthExists
  <2>3. StartsOf(s) \subseteq 1..Len(s) /\ Len(s) \in Nat /\ k \in 1..Len(s)
    BY <2>2, StartsFinite
  <2>4. CASE \A x \in StartsOf(s) : x <= k
    <3>1. RecordAt(s, k) = SubSeq(s, k, Len(s))
      BY <2>2, <2>4, RecordEnds
    <3>2. SubSeq(s, k, Len(s)) \in Seq(Tokens)
      BY <2>3
    <3>. QED BY <2>1, <3>1, <3>2
  <2>5. CASE \E x \in StartsOf(s) : ~(x <= k)
    <3>1. PICK later : later = {x \in StartsOf(s) : k < x}
      OBVIOUS
    <3>2. later \subseteq Nat /\ later # {}
      BY <2>3, <2>5, <3>1
    <3>3. PICK next \in later : \A x \in later : next <= x
      BY <3>2, LeastIs
    <3>4. RecordAt(s, k) = SubSeq(s, k, next - 1)
      BY <2>2, <3>1, <3>3, RecordEnds
    <3>5. next \in 1..Len(s)
      BY <2>3, <3>1, <3>3
    <3>6. SubSeq(s, k, next - 1) \in Seq(Tokens)
      BY <2>3, <3>5
    <3>. QED BY <2>1, <3>4, <3>6
  <2>. QED BY <2>4, <2>5
<1>4. RecordsOf(s) = [i \in 1..n |-> RecordAt(s, NthStart(s, i))]
  BY <1>1, RecordsForm
<1>. QED BY <1>1, <1>2, <1>3, <1>4

LEMMA AllButLastIs ==
  ASSUME NEW X, NEW r \in Seq(X)
  PROVE  /\ AllButLast(r) \in Seq(X)
         /\ Len(AllButLast(r)) = IF r = <<>> THEN 0 ELSE Len(r) - 1
         /\ \A i \in 1..Len(AllButLast(r)) : AllButLast(r)[i] = r[i]
<1>1. CASE r = <<>>
  BY <1>1 DEF AllButLast
<1>2. CASE r # <<>>
  <2>0. r \in Seq(X)
    OBVIOUS
  <2>1. Len(r) \in Nat /\ Len(r) >= 1
    BY <1>2, <2>0
  <2>2. AllButLast(r) = SubSeq(r, 1, Len(r) - 1)
    BY <1>2 DEF AllButLast, Front
  <2>3. PICK n : n = Len(r) - 1
    OBVIOUS
  <2>4. n \in Nat /\ n <= Len(r)
    BY <2>1, <2>3
  <2>5. SubSeq(r, 1, n) \in Seq(X) /\ Len(SubSeq(r, 1, n)) = n
        /\ \A i \in 1..n : SubSeq(r, 1, n)[i] = r[i]
    BY <2>0, <2>4, FirstPart
  <2>. QED BY <1>2, <2>2, <2>3, <2>5
<1>. QED BY <1>1, <1>2

\* The records of a longer stream begin with all but the newest of a shorter.
LEMMA RecordsStay ==
  ASSUME NEW s, NEW t, Extends(s, t)
  PROVE  /\ Len(RecordsOf(s)) <= Len(RecordsOf(t))
         /\ \A i \in 1..Len(RecordsOf(s)) - 1 :
              RecordsOf(t)[i] = RecordsOf(s)[i]
<1>1. s \in Seq(Tokens) /\ t \in Seq(Tokens)
  BY Extends(s, t) DEF Extends
<1>2. Len(RecordsOf(s)) = Cardinality(StartsOf(s))
      /\ Len(RecordsOf(t)) = Cardinality(StartsOf(t))
      /\ Cardinality(StartsOf(s)) \in Nat /\ Cardinality(StartsOf(t)) \in Nat
  BY <1>1, RecordsType, StartsFinite
<1>3. Cardinality(StartsOf(s)) <= Cardinality(StartsOf(t))
  BY StartsStay, Extends(s, t)
<1>4. ASSUME NEW i \in 1..Len(RecordsOf(s)) - 1
      PROVE  RecordsOf(t)[i] = RecordsOf(s)[i]
  <2>1. i \in 1..Len(RecordsOf(s)) /\ i \in 1..Len(RecordsOf(t))
    BY <1>2, <1>3
  <2>2. RecordsOf(s)[i] = RecordAt(s, NthStart(s, i))
    BY <1>1, <2>1, RecordsType
  <2>3. RecordsOf(t)[i] = RecordAt(t, NthStart(t, i))
    BY <1>1, <2>1, RecordsType
  <2>4. RecordAt(t, NthStart(t, i)) = RecordAt(s, NthStart(s, i))
    BY <1>2, RecordStays, Extends(s, t)
  <2>. QED BY <2>2, <2>3, <2>4
<1>. QED BY <1>2, <1>3, <1>4

LEMMA NewestIs ==
  ASSUME NEW s \in Seq(Tokens), StartsOf(s) # {}
  PROVE  LET k == NthStart(s, Cardinality(StartsOf(s)))
         IN /\ RecordsOf(s) # <<>>
            /\ Last(RecordsOf(s)) = SubSeq(s, k, Len(s))
            /\ k \in 1..Len(s)
<1>1. PICK n : n = Cardinality(StartsOf(s))
  OBVIOUS
<1>2. n \in Nat /\ n # 0
  BY <1>1, StartsFinite, FS_EmptySet, StartsOf(s) # {}
<1>3. Len(RecordsOf(s)) = n
  BY <1>1, RecordsType
<1>4. RecordsOf(s)[n] = RecordAt(s, NthStart(s, n))
  <2>1. n \in 1..Len(RecordsOf(s))
    BY <1>2, <1>3
  <2>. QED BY <2>1, RecordsType
<1>5. RecordAt(s, NthStart(s, n)) = SubSeq(s, NthStart(s, n), Len(s))
  BY <1>1, NewestRecord, StartsOf(s) # {}
<1>6. NthStart(s, n) \in 1..Len(s)
  BY <1>1, LastStart, StartsFinite, StartsOf(s) # {}
<1>7. RecordsOf(s) # <<>>
  BY <1>2, <1>3
<1>. QED BY <1>1, <1>3, <1>4, <1>5, <1>6, <1>7 DEF Last

LEMMA NoRecords ==
  ASSUME NEW s \in Seq(Tokens)
  PROVE  StartsOf(s) = {} <=> RecordsOf(s) = <<>>
<1>1. Len(RecordsOf(s)) = Cardinality(StartsOf(s))
      /\ RecordsOf(s) \in Seq(Seq(Tokens))
  BY RecordsType
<1>2. Cardinality(StartsOf(s)) = 0 <=> StartsOf(s) = {}
  BY StartsFinite, FS_EmptySet
<1>. QED BY <1>1, <1>2

\* A token that begins no record belongs to the newest one.
LEMMA TokenContinues ==
  ASSUME NEW s \in Seq(Tokens), NEW token \in Tokens \ Headers
  PROVE  LET t == Append(s, token)
         IN /\ StartsOf(t) = StartsOf(s)
            /\ AllButLast(RecordsOf(t)) = AllButLast(RecordsOf(s))
            /\ StartsOf(s) # {} =>
                 Last(RecordsOf(t)) = Append(Last(RecordsOf(s)), token)
<1>0. s \in Seq(Tokens) /\ token \in Tokens /\ token \notin Headers
  OBVIOUS
<1>1. PICK t : t = Append(s, token)
  OBVIOUS
<1>2. t \in Seq(Tokens) /\ Len(t) = Len(s) + 1 /\ t[Len(s) + 1] = token
      /\ \A i \in 1..Len(s) : t[i] = s[i]
  BY <1>1
<1>3. Extends(s, t)
  BY <1>2 DEF Extends
<1>4. StartsOf(t) = StartsOf(s)
  BY <1>2 DEF StartsOf
<1>5. Len(RecordsOf(t)) = Len(RecordsOf(s))
  BY <1>2, <1>4, RecordsType
<1>6. AllButLast(RecordsOf(t)) = AllButLast(RecordsOf(s))
  <2>1. RecordsOf(s) \in Seq(Seq(Tokens)) /\ RecordsOf(t) \in Seq(Seq(Tokens))
    BY <1>2, RecordsType
  <2>2. PICK u : u = AllButLast(RecordsOf(s))
    OBVIOUS
  <2>3. PICK v : v = AllButLast(RecordsOf(t))
    OBVIOUS
  <2>4. u \in Seq(Seq(Tokens)) /\ v \in Seq(Seq(Tokens)) /\ Len(u) = Len(v)
    BY <1>5, <2>1, <2>2, <2>3, AllButLastIs
  <2>5. ASSUME NEW i \in 1..Len(u) PROVE u[i] = v[i]
    <3>1. i \in 1..Len(RecordsOf(s)) - 1
      BY <2>1, <2>2, <2>5, AllButLastIs
    <3>2. RecordsOf(t)[i] = RecordsOf(s)[i]
      BY <1>3, <3>1, RecordsStay
    <3>. QED BY <2>1, <2>2, <2>3, <2>4, <3>2, AllButLastIs
  <2>. QED BY <2>2, <2>3, <2>4, <2>5, SameSeq
<1>7. ASSUME StartsOf(s) # {}
      PROVE  Last(RecordsOf(t)) = Append(Last(RecordsOf(s)), token)
  <2>1. PICK n : n = Cardinality(StartsOf(s))
    OBVIOUS
  <2>2. n \in Nat /\ n # 0
    BY <1>7, <2>1, StartsFinite, FS_EmptySet
  <2>3. PICK k : k = NthStart(s, n)
    OBVIOUS
  <2>4. NthStart(t, n) = k
    BY <1>3, <2>1, <2>2, <2>3, NthStays
  <2>5. Last(RecordsOf(s)) = SubSeq(s, k, Len(s)) /\ k \in 1..Len(s)
    BY <1>7, <2>1, <2>3, NewestIs
  <2>6. Last(RecordsOf(t)) = SubSeq(t, k, Len(t))
    BY <1>2, <1>4, <1>7, <2>1, <2>4, NewestIs
  <2>7. SubSeq(t, k, Len(t)) = Append(SubSeq(s, k, Len(s)), token)
    <3>1. PICK u : u = SubSeq(t, k, Len(t))
      OBVIOUS
    <3>2. PICK v : v = SubSeq(s, k, Len(s))
      OBVIOUS
    <3>3. u \in Seq(Tokens) /\ Len(u) = Len(s) - k + 2
          /\ \A i \in 1..Len(u) : u[i] = t[k + i - 1]
      BY <1>2, <2>5, <3>1
    <3>4. v \in Seq(Tokens) /\ Len(v) = Len(s) - k + 1
          /\ \A i \in 1..Len(v) : v[i] = s[k + i - 1]
      BY <2>5, <3>2
    <3>5. Append(v, token) \in Seq(Tokens) /\ Len(Append(v, token)) = Len(u)
      <4>1. Len(s) \in Nat /\ Len(v) \in Nat /\ k \in Nat
        BY <1>0, <2>5, <3>4
      <4>2. Append(v, token) \in Seq(Tokens)
            /\ Len(Append(v, token)) = Len(v) + 1
        BY <1>0, <3>4
      <4>. QED BY <3>3, <3>4, <4>1, <4>2
    <3>6. ASSUME NEW i \in 1..Len(u) PROVE u[i] = Append(v, token)[i]
      <4>1. Len(s) \in Nat /\ Len(v) \in Nat /\ k \in 1..Len(s)
            /\ Len(v) = Len(s) - k + 1 /\ Len(u) = Len(v) + 1
        BY <1>0, <2>5, <3>3, <3>4
      <4>2. u[i] = t[k + i - 1]
        BY <3>3
      <4>3. CASE i = Len(u)
        <5>1. k + i - 1 = Len(s) + 1 /\ i = Len(v) + 1
          BY <4>1, <4>3
        <5>2. u[i] = token
          BY <1>2, <4>2, <5>1
        <5>3. Append(v, token)[Len(v) + 1] = token
          BY <1>0, <3>4, AppendIs
        <5>. QED BY <5>1, <5>2, <5>3
      <4>4. CASE i # Len(u)
        <5>1. k + i - 1 \in 1..Len(s) /\ i \in 1..Len(v)
          BY <4>1, <4>4
        <5>2. u[i] = s[k + i - 1]
          BY <1>2, <4>2, <5>1
        <5>3. Append(v, token)[i] = v[i]
          BY <1>0, <3>4, <5>1, AppendIs
        <5>. QED BY <3>4, <5>1, <5>2, <5>3
      <4>. QED BY <4>3, <4>4
    <3>7. u = Append(v, token)
      BY <3>3, <3>5, <3>6, SameSeq
    <3>. QED BY <3>1, <3>2, <3>7
  <2>. QED BY <2>5, <2>6, <2>7
<1>. QED BY <1>1, <1>4, <1>6, <1>7

\* A token that begins a record completes the one before it.
LEMMA TokenBegins ==
  ASSUME NEW s \in Seq(Tokens), NEW token \in Headers
  PROVE  RecordsOf(Append(s, token)) = Append(RecordsOf(s), <<token>>)
<1>1. PICK t : t = Append(s, token)
  OBVIOUS
<1>0. token \in Tokens /\ token \in Headers /\ s \in Seq(Tokens)
      /\ Len(s) \in Nat
  BY DEF Tokens
<1>2. t \in Seq(Tokens) /\ Len(t) = Len(s) + 1 /\ t[Len(s) + 1] = token
      /\ \A i \in 1..Len(s) : t[i] = s[i]
  BY <1>0, <1>1, AppendIs
<1>3. Extends(s, t)
  BY <1>0, <1>2 DEF Extends
<1>4. PICK m : m = Len(s) + 1
  OBVIOUS
<1>5. StartsOf(t) = StartsOf(s) \cup {m} /\ m \notin StartsOf(s)
      /\ m \in Nat /\ \A x \in StartsOf(s) : x \in Nat /\ x < m
  BY <1>0, <1>2, <1>4, StartsFinite DEF StartsOf
<1>6. PICK n : n = Cardinality(StartsOf(s))
  OBVIOUS
<1>7. n \in Nat /\ Cardinality(StartsOf(t)) = n + 1
  BY <1>5, <1>6, StartsFinite, FS_AddElement
<1>8. Len(RecordsOf(s)) = n /\ Len(RecordsOf(t)) = n + 1
      /\ RecordsOf(s) \in Seq(Seq(Tokens)) /\ RecordsOf(t) \in Seq(Seq(Tokens))
  BY <1>2, <1>6, <1>7, RecordsType
<1>9. NthStart(t, n + 1) = m /\ m \in StartsOf(t)
  <2>1. UpTo(t, m) = StartsOf(t)
    BY <1>5 DEF UpTo
  <2>. QED BY <1>2, <1>5, <1>7, <2>1, NthUnique
<1>10. RecordsOf(t)[n + 1] = <<token>>
  <2>1. RecordsOf(t)[n + 1] = RecordAt(t, m)
    <3>1. n + 1 \in 1..Len(RecordsOf(t))
      BY <1>7, <1>8
    <3>. QED BY <1>2, <1>9, <3>1, RecordsType
  <2>2. RecordAt(t, m) = SubSeq(t, m, m)
    <3>1. \A x \in StartsOf(t) : x <= m
      BY <1>5
    <3>. QED BY <1>2, <1>4, <1>9, <3>1, RecordEnds
  <2>3. SubSeq(t, m, m) = <<token>>
    <3>1. PICK u : u = SubSeq(t, m, m)
      OBVIOUS
    <3>2. m \in 1..Len(t) /\ m \in Nat /\ t[m] = token
      BY <1>0, <1>2, <1>4
    <3>3. u \in Seq(Tokens) /\ Len(u) = 1
      BY <1>2, <3>1, <3>2
    <3>4. u[1] = token
      BY <1>2, <3>1, <3>2, <3>3
    <3>5. <<token>> \in Seq(Tokens) /\ Len(<<token>>) = 1
          /\ <<token>>[1] = token
      BY <1>0
    <3>6. \A i \in 1..Len(u) : u[i] = <<token>>[i]
      BY <3>3, <3>4, <3>5
    <3>. QED BY <3>1, <3>3, <3>5, <3>6, SameSeq
  <2>. QED BY <2>1, <2>2, <2>3
<1>11. ASSUME NEW i \in 1..n PROVE RecordsOf(t)[i] = RecordsOf(s)[i]
  <2>1. CASE i # n
    <3>1. i \in 1..Len(RecordsOf(s)) - 1
      BY <1>7, <1>8, <2>1
    <3>. QED BY <1>3, <3>1, RecordsStay
  <2>2. CASE i = n
    <3>1. StartsOf(s) # {}
      <4>1. n # 0
        BY <1>7, <2>2
      <4>. QED BY <1>6, <4>1, FS_EmptySet
    <3>2. PICK k : k = NthStart(s, n)
      OBVIOUS
    <3>3. k \in StartsOf(s) /\ \A x \in StartsOf(s) : x <= k
      BY <1>6, <3>1, <3>2, LastStart
    <3>4. RecordsOf(s)[n] = SubSeq(s, k, Len(s))
      BY <1>6, <1>8, <2>2, <3>1, <3>2, NewestRecord, RecordsType
    <3>5. NthStart(t, n) = k
      BY <1>3, <1>6, <2>2, <3>2, NthStays
    <3>6. RecordsOf(t)[n] = RecordAt(t, k)
      <4>1. n \in 1..Len(RecordsOf(t))
        BY <1>7, <1>8, <2>2
      <4>. QED BY <1>2, <3>5, <4>1, RecordsType
    <3>7. RecordAt(t, k) = SubSeq(t, k, m - 1)
      <4>1. k \in StartsOf(t) /\ k < m
        BY <1>5, <3>3
      <4>2. \A x \in StartsOf(t) : k < x => m <= x
        BY <1>5, <3>3
      <4>. QED BY <1>2, <1>9, <4>1, <4>2, RecordEnds
    <3>8. SubSeq(t, k, Len(s)) = SubSeq(s, k, Len(s))
      <4>1. k \in 1..Len(s) /\ Len(s) \in 0..Len(s)
        BY <1>0, <3>3, StartsFinite
      <4>. QED BY <1>3, <4>1, SamePart
    <3>9. m - 1 = Len(s)
      BY <1>0, <1>4
    <3>. QED BY <2>2, <3>4, <3>6, <3>7, <3>8, <3>9
  <2>. QED BY <2>1, <2>2
<1>12. RecordsOf(t) = Append(RecordsOf(s), <<token>>)
  <2>1. <<token>> \in Seq(Tokens)
    BY <1>0
  <2>2. PICK v : v = Append(RecordsOf(s), <<token>>)
    OBVIOUS
  <2>3. v \in Seq(Seq(Tokens)) /\ Len(v) = n + 1 /\ v[n + 1] = <<token>>
        /\ \A i \in 1..n : v[i] = RecordsOf(s)[i]
    BY <1>8, <2>1, <2>2, AppendIs
  <2>4. ASSUME NEW i \in 1..Len(RecordsOf(t)) PROVE RecordsOf(t)[i] = v[i]
    <3>1. CASE i = n + 1
      BY <1>10, <2>3, <3>1
    <3>2. CASE i # n + 1
      <4>1. i \in 1..n
        BY <1>7, <1>8, <3>2
      <4>. QED BY <1>11, <2>3, <4>1
    <3>. QED BY <3>1, <3>2
  <2>. QED BY <1>8, <2>2, <2>3, <2>4, SameSeq
<1>. QED BY <1>1, <1>12

-----------------------------------------------------------------------------
(* What is left of a word *)

\* The tokens of a text that the inner loop comes to.
Seen(text) == IF text # <<>> /\ Last(text) = Empty THEN Front(text) ELSE text

\* The count of empty tokens that Kept leaves out.
LEMMA KeptIs ==
  ASSUME NEW word \in Seq(Tokens), NEW m \in 0..2, m <= Len(word),
         \A i \in Len(word) - m + 1..Len(word) : word[i] = Empty,
         m = 2 \/ m = Len(word) \/ word[Len(word) - m] # Empty
  PROVE  Kept(word) = SubSeq(word, 1, Len(word) - m)
<1>. DEFINE gone == {n \in 0..Min({2, Len(word)}) :
                       \A i \in Len(word) - n + 1..Len(word) :
                         word[i] = Empty}
<1>0. Len(word) \in Nat /\ m \in 0..2 /\ m <= Len(word)
      /\ (\A i \in Len(word) - m + 1..Len(word) : word[i] = Empty)
      /\ (m = 2 \/ m = Len(word) \/ word[Len(word) - m] # Empty)
  OBVIOUS
<1>1. PICK least : least = Min({2, Len(word)})
  OBVIOUS
<1>2. least \in {2, Len(word)} /\ least <= 2 /\ least <= Len(word)
  <2>1. {2, Len(word)} \subseteq Nat /\ {2, Len(word)} # {}
    BY <1>0
  <2>. QED BY <1>1, <2>1, LeastIs
<1>3. m \in gone
  <2>1. m \in 0..least
    BY <1>0, <1>2
  <2>. QED BY <1>0, <1>1, <2>1
<1>4. ASSUME NEW n \in gone PROVE n <= m
  <2>1. n \in 0..least /\ \A i \in Len(word) - n + 1..Len(word) : word[i] = Empty
    BY <1>1
  <2>2. SUFFICES ASSUME ~(n <= m) PROVE FALSE
    OBVIOUS
  <2>3. m # 2 /\ m # Len(word) /\ Len(word) - m \in Len(word) - n + 1..Len(word)
    BY <1>0, <1>2, <2>1, <2>2
  <2>. QED BY <1>0, <2>1, <2>3
<1>5. Max(gone) \in gone /\ \A n \in gone : n <= Max(gone)
  <2>1. gone \subseteq 0..least
    BY <1>1, Zenon
  <2>2. least \in Nat
    BY <1>0, <1>2
  <2>. HIDE DEF gone
  <2>3. gone # {}
    BY <1>3
  <2>. QED BY <2>1, <2>2, <2>3, GreatestIs
<1>6. Max(gone) = m
  <2>1. Max(gone) \in 0..least
    BY <1>1, <1>5, Zenon
  <2>. HIDE DEF gone
  <2>2. Max(gone) <= m /\ m <= Max(gone)
    BY <1>3, <1>4, <1>5
  <2>. QED BY <1>0, <1>2, <2>1, <2>2
<1>. QED BY <1>6 DEF Kept

\* What run makes of a word has the tokens in it that Kept says.
LEMMA WordIsSeen ==
  ASSUME NEW word \in Seq(Tokens), AsText(word) # <<>>
  PROVE  LET text == AsText(IF Len(word) > 1 /\ Last(word) = Empty
                            THEN Front(word) ELSE word)
         IN /\ text \in Seq(Tokens) /\ text # <<Empty>>
            /\ Seen(text) = Kept(word) /\ Kept(word) \in Seq(Tokens)
<1>1. PICK len : len = Len(word)
  OBVIOUS
<1>2. word \in Seq(Tokens) /\ len \in Nat /\ len >= 1 /\ word # <<Empty>>
      /\ word # <<>>
  <2>1. word # <<>> /\ word # <<Empty>>
    BY AsText(word) # <<>> DEF AsText
  <2>. QED BY <1>1, <2>1
<1>3. PICK cut : cut = SubSeq(word, 1, len - 1)
  OBVIOUS
<1>4. cut \in Seq(Tokens) /\ Len(cut) = len - 1
      /\ \A i \in 1..len - 1 : cut[i] = word[i]
  <2>1. len - 1 \in Nat /\ len - 1 <= Len(word)
    BY <1>1, <1>2
  <2>. QED BY <1>2, <1>3, <2>1, FirstPart
<1>5. CASE word[len] # Empty
  <2>1. Kept(word) = SubSeq(word, 1, len - 0)
    <3>1. \A i \in len - 0 + 1..len : word[i] = Empty
      BY <1>2
    <3>2. 0 \in 0..2 /\ 0 <= len /\ word[len - 0] # Empty
      BY <1>2, <1>5
    <3>. QED BY <1>1, <1>2, <3>1, <3>2, KeptIs
  <2>2. Kept(word) = word
    BY <1>1, <1>2, <2>1
  <2>. QED BY <1>1, <1>2, <1>5, <2>2 DEF AsText, Seen, Last
<1>6. CASE word[len] = Empty
  <2>1. len >= 2
    <3>1. SUFFICES ASSUME len = 1 PROVE FALSE
      BY <1>2
    <3>2. word = <<Empty>>
      <4>1. Empty \in Tokens
        BY DEF Tokens
      <4>2. <<Empty>> \in Seq(Tokens) /\ Len(<<Empty>>) = 1
            /\ <<Empty>>[1] = Empty
        BY <4>1
      <4>3. \A i \in 1..Len(word) : word[i] = <<Empty>>[i]
        BY <1>1, <1>6, <3>1, <4>2
      <4>. QED BY <1>1, <1>2, <3>1, <4>2, <4>3, SameSeq
    <3>. QED BY <1>2, <3>2
  <2>2. Len(word) > 1 /\ Last(word) = Empty /\ Front(word) = cut
    BY <1>1, <1>3, <1>6, <2>1 DEF Last, Front
  <2>3. CASE word[len - 1] # Empty
    <3>1. Kept(word) = SubSeq(word, 1, len - 1)
      <4>1. \A i \in len - 1 + 1..len : word[i] = Empty
        BY <1>2, <1>6
      <4>2. 1 \in 0..2 /\ 1 <= len /\ word[len - 1] # Empty
        BY <1>2, <2>1, <2>3
      <4>. QED BY <1>1, <1>2, <4>1, <4>2, KeptIs
    <3>2. cut # <<>> /\ Last(cut) # Empty
      BY <1>2, <1>4, <2>1, <2>3 DEF Last
    <3>3. cut # <<Empty>>
      <4>1. Len(<<Empty>>) = 1 /\ <<Empty>>[1] = Empty
        OBVIOUS
      <4>2. Last(<<Empty>>) = Empty
        BY <4>1 DEF Last
      <4>. QED BY <3>2, <4>2
    <3>4. AsText(cut) = cut /\ Seen(cut) = cut
      BY <3>2, <3>3 DEF AsText, Seen
    <3>. QED BY <1>3, <1>4, <2>2, <3>1, <3>3, <3>4
  <2>4. CASE word[len - 1] = Empty
    <3>1. Kept(word) = SubSeq(word, 1, len - 2)
      <4>1. \A i \in len - 2 + 1..len : word[i] = Empty
        BY <1>2, <1>6, <2>4
      <4>2. 2 \in 0..2 /\ 2 <= len
        BY <2>1
      <4>. QED BY <1>1, <1>2, <4>1, <4>2, KeptIs
    <3>2. PICK two : two = SubSeq(word, 1, len - 2)
      OBVIOUS
    <3>3. two \in Seq(Tokens) /\ Len(two) = len - 2
          /\ \A i \in 1..len - 2 : two[i] = word[i]
      <4>1. len - 2 \in Nat /\ len - 2 <= Len(word)
        BY <1>1, <1>2, <2>1
      <4>. QED BY <1>2, <3>2, <4>1, FirstPart
    <3>4. CASE len = 2
      <4>1. cut = <<Empty>>
        <5>1. Empty \in Tokens
          BY DEF Tokens
        <5>2. <<Empty>> \in Seq(Tokens) /\ Len(<<Empty>>) = 1
              /\ <<Empty>>[1] = Empty
          BY <5>1
        <5>3. \A i \in 1..Len(cut) : cut[i] = <<Empty>>[i]
          BY <1>4, <2>4, <3>4, <5>2
        <5>. QED BY <1>4, <3>4, <5>2, <5>3, SameSeq
      <4>2. two = <<>>
        BY <3>3, <3>4
      <4>3. AsText(cut) = <<>> /\ Seen(<<>>) = <<>>
        BY <4>1 DEF AsText, Seen
      <4>4. <<>> \in Seq(Tokens) /\ <<>> # <<Empty>>
        OBVIOUS
      <4>. QED BY <2>2, <3>1, <3>2, <4>2, <4>3, <4>4
    <3>5. CASE len # 2
      <4>1. Len(cut) >= 2 /\ cut[len - 1] = Empty
        BY <1>2, <1>4, <2>1, <2>4, <3>5
      <4>2. cut # <<>> /\ cut # <<Empty>> /\ Last(cut) = Empty
        BY <1>4, <4>1 DEF Last
      <4>3. AsText(cut) = cut /\ Seen(cut) = SubSeq(cut, 1, len - 2)
        <5>1. Len(cut) - 1 = len - 2
          BY <1>2, <1>4
        <5>. QED BY <4>2, <5>1 DEF AsText, Seen, Front
      <4>4. SubSeq(cut, 1, len - 2) = two
        <5>1. len - 2 \in Nat /\ len - 2 <= Len(cut)
          BY <1>2, <1>4, <2>1
        <5>2. PICK u : u = SubSeq(cut, 1, len - 2)
          OBVIOUS
        <5>3. u \in Seq(Tokens) /\ Len(u) = len - 2
              /\ \A i \in 1..len - 2 : u[i] = cut[i]
          BY <1>4, <5>1, <5>2, FirstPart
        <5>4. \A i \in 1..Len(u) : u[i] = two[i]
          BY <1>2, <1>4, <3>3, <5>3
        <5>. QED BY <3>3, <5>2, <5>3, <5>4, SameSeq
      <4>. QED BY <1>4, <2>2, <3>1, <3>2, <3>3, <4>2, <4>3, <4>4
    <3>. QED BY <3>4, <3>5
  <2>. QED BY <2>3, <2>4
<1>. QED BY <1>5, <1>6

\* A turn of the inner loop takes the first token that is left.
LEMMA RestIsSeen ==
  ASSUME NEW text \in Seq(Tokens), text # <<>>, text # <<Empty>>
  PROVE  LET rest == AsText(Tail(text))
         IN /\ Head(text) \in Tokens
            /\ rest \in Seq(Tokens) /\ rest # <<Empty>>
            /\ Seen(rest) \in Seq(Tokens)
            /\ Seen(text) = <<Head(text)>> \o Seen(rest)
<1>1. PICK len : len = Len(text)
  OBVIOUS
<1>2. PICK tail : tail = Tail(text)
  OBVIOUS
<1>3. text \in Seq(Tokens) /\ len \in Nat /\ len >= 1
      /\ text # <<>> /\ text # <<Empty>>
  BY <1>1
<1>4. tail \in Seq(Tokens) /\ Len(tail) = len - 1
      /\ \A i \in 1..len - 1 : tail[i] = text[i + 1]
  BY <1>1, <1>2, <1>3
<1>5. PICK head : head = Head(text)
  OBVIOUS
<1>6. head \in Tokens /\ head = text[1]
  BY <1>1, <1>3, <1>5
<1>7. Empty \in Tokens
  BY DEF Tokens
<1>8. CASE len = 1
  <2>1. tail = <<>>
    BY <1>4, <1>8
  <2>2. text = <<head>>
    <3>1. <<head>> \in Seq(Tokens) /\ Len(<<head>>) = 1 /\ <<head>>[1] = head
      BY <1>6
    <3>2. \A i \in 1..Len(text) : text[i] = <<head>>[i]
      BY <1>1, <1>6, <1>8, <3>1
    <3>. QED BY <1>1, <1>3, <1>8, <3>1, <3>2, SameSeq
  <2>3. Last(text) # Empty
    <3>1. head # Empty
      BY <1>3, <2>2
    <3>. QED BY <1>1, <1>6, <1>8, <3>1 DEF Last
  <2>4. Seen(text) = text
    BY <2>3 DEF Seen
  <2>5. AsText(tail) = <<>> /\ <<>> # <<Empty>> /\ <<>> \in Seq(Tokens)
    BY <2>1 DEF AsText
  <2>6. Seen(<<>>) = <<>>
    BY DEF Seen
  <2>7. <<head>> \o <<>> = <<head>>
    BY <1>6
  <2>. QED BY <1>2, <1>5, <1>6, <2>2, <2>4, <2>5, <2>6, <2>7
<1>9. CASE len # 1 /\ tail = <<Empty>>
  <2>1. AsText(tail) = <<>> /\ <<>> # <<Empty>> /\ <<>> \in Seq(Tokens)
    BY <1>9 DEF AsText
  <2>2. Seen(<<>>) = <<>>
    BY DEF Seen
  <2>3. len = 2 /\ text[2] = Empty
    <3>1. Len(tail) = 1 /\ tail[1] = Empty
      BY <1>9
    <3>2. len = 2
      <4>1. Len(tail) = len - 1
        BY <1>4
      <4>2. Len(tail) = 1
        BY <3>1
      <4>3. len \in Nat
        BY <1>3
      <4>4. len - 1 = 1
        BY <4>1, <4>2
      <4>. QED BY <4>3, <4>4
    <3>3. tail[1] = text[1 + 1]
      BY <1>4, <3>2
    <3>. QED BY <3>1, <3>2, <3>3
  <2>4. Seen(text) = SubSeq(text, 1, 1)
    <3>1. Last(text) = Empty /\ Len(text) - 1 = 1
      BY <1>1, <2>3 DEF Last
    <3>. QED BY <1>3, <3>1 DEF Seen, Front
  <2>5. SubSeq(text, 1, 1) = <<head>>
    <3>1. PICK u : u = SubSeq(text, 1, 1)
      OBVIOUS
    <3>2. u \in Seq(Tokens) /\ Len(u) = 1 /\ u[1] = head
      BY <1>1, <1>3, <1>6, <3>1, FirstPart
    <3>3. <<head>> \in Seq(Tokens) /\ Len(<<head>>) = 1 /\ <<head>>[1] = head
      BY <1>6
    <3>4. \A i \in 1..Len(u) : u[i] = <<head>>[i]
      BY <3>2, <3>3
    <3>. QED BY <3>1, <3>2, <3>3, <3>4, SameSeq
  <2>6. <<head>> \o <<>> = <<head>>
    BY <1>6
  <2>. QED BY <1>2, <1>5, <1>6, <2>1, <2>2, <2>4, <2>5, <2>6
<1>10. CASE len # 1 /\ tail # <<Empty>>
  <2>1. AsText(tail) = tail /\ tail # <<>> /\ len - 1 \in Nat /\ len >= 2
    BY <1>3, <1>4, <1>10 DEF AsText
  <2>2. Last(tail) = Last(text)
    BY <1>1, <1>3, <1>4, <2>1 DEF Last
  <2>3. CASE Last(text) # Empty
    <3>1. Seen(text) = text /\ Seen(tail) = tail
      BY <2>2, <2>3 DEF Seen
    <3>2. text = <<head>> \o tail
      BY <1>2, <1>3, <1>5
    <3>. QED BY <1>2, <1>4, <1>5, <1>6, <1>10, <2>1, <3>1, <3>2
  <2>4. CASE Last(text) = Empty
    <3>1. Seen(text) = SubSeq(text, 1, len - 1)
      BY <1>1, <1>3, <2>4 DEF Seen, Front
    <3>2. Seen(tail) = SubSeq(tail, 1, len - 2)
      <4>1. Len(tail) - 1 = len - 2
        BY <1>3, <1>4
      <4>. QED BY <2>1, <2>2, <2>4, <4>1 DEF Seen, Front
    <3>3. PICK u : u = SubSeq(text, 1, len - 1)
      OBVIOUS
    <3>4. PICK v : v = SubSeq(tail, 1, len - 2)
      OBVIOUS
    <3>5. u \in Seq(Tokens) /\ Len(u) = len - 1
          /\ \A i \in 1..len - 1 : u[i] = text[i]
      <4>1. len - 1 \in Nat /\ len - 1 <= Len(text)
        BY <1>1, <1>3, <2>1
      <4>. QED BY <1>3, <3>3, <4>1, FirstPart
    <3>6. v \in Seq(Tokens) /\ Len(v) = len - 2
          /\ \A i \in 1..len - 2 : v[i] = tail[i]
      <4>1. len - 2 \in Nat /\ len - 2 <= Len(tail)
        BY <1>3, <1>4, <2>1
      <4>. QED BY <1>4, <3>4, <4>1, FirstPart
    <3>7. PICK w : w = <<head>> \o v
      OBVIOUS
    <3>8. w \in Seq(Tokens) /\ Len(w) = len - 1 /\ w[1] = head
          /\ \A i \in 1..len - 2 : w[i + 1] = v[i]
      BY <1>3, <1>6, <2>1, <3>6, <3>7, ConcatToken
    <3>9. ASSUME NEW i \in 1..Len(u) PROVE u[i] = w[i]
      <4>1. CASE i = 1
        BY <1>6, <3>5, <3>8, <4>1
      <4>2. CASE i # 1
        <5>1. PICK k : k = i - 1
          OBVIOUS
        <5>2. k \in 1..len - 2 /\ k \in 1..len - 1 /\ i = k + 1
              /\ i \in 1..len - 1
          BY <1>3, <2>1, <3>5, <4>2, <5>1
        <5>3. u[k + 1] = text[k + 1] /\ v[k] = tail[k]
              /\ tail[k] = text[k + 1]
          BY <1>4, <3>5, <3>6, <5>2
        <5>4. w[k + 1] = v[k]
          BY <3>8, <5>2
        <5>. QED BY <5>2, <5>3, <5>4
      <4>. QED BY <4>1, <4>2
    <3>10. u = w
      BY <3>5, <3>8, <3>9, SameSeq
    <3>. QED BY <1>2, <1>4, <1>5, <1>6, <1>10, <2>1, <3>1, <3>2, <3>3, <3>4,
                <3>6, <3>7, <3>10
  <2>. QED BY <2>3, <2>4
<1>. QED BY <1>8, <1>9, <1>10

-----------------------------------------------------------------------------
(* The inductive invariant *)

TypeInv ==
  /\ stream \in Seq(Tokens) /\ data \in Seq(Tokens)
  /\ found_header \in BOOLEAN
  /\ present \in [Known -> BOOLEAN]

\* What the thread has made of the tokens it has taken.
Told(taken) ==
  /\ found_header <=> StartsOf(taken) # {}
  /\ previous_partial = IF StartsOf(taken) = {} THEN <<>>
                        ELSE Last(RecordsOf(taken))
  /\ delivered = AllButLast(RecordsOf(taken))

\* The stream is what it has taken and what is left of the last word.
TakenInv ==
  /\ data # <<Empty>>
  /\ \E taken \in Seq(Tokens) : stream = taken \o Seen(data) /\ Told(taken)

\* What the delivered records say of the targets.
ViewInv ==
  /\ keys = Known \cup {Head(delivered[k]) : k \in DOMAIN delivered}
  /\ \A t \in Known :
       LET of == {k \in DOMAIN delivered : Head(delivered[k]) = t}
       IN present[t] <=> of # {} /\ ~Absent(delivered[Max(of)])

StreamInv == TypeInv /\ TakenInv /\ ViewInv

LEMMA EmptyStream == StartsOf(<<>>) = {} /\ RecordsOf(<<>>) = <<>>
<1>1. <<>> \in Seq(Tokens) /\ StartsOf(<<>>) = {}
  BY DEF StartsOf
<1>. QED BY <1>1, NoRecords

LEMMA StreamInit == Init => StreamInv
<1>. SUFFICES ASSUME Init PROVE StreamInv
  OBVIOUS
<1>1. TypeInv
  <2>1. stream = <<>> /\ data = <<>> /\ found_header = FALSE
        /\ present = [t \in Known |-> FALSE]
    BY DEF Init
  <2>2. <<>> \in Seq(Tokens) /\ [t \in Known |-> FALSE] \in [Known -> BOOLEAN]
    OBVIOUS
  <2>. QED BY <2>1, <2>2 DEF TypeInv
<1>2. TakenInv
  <2>1. data = <<>> /\ stream = <<>> /\ Seen(data) = <<>>
    BY DEF Init, Seen
  <2>2. <<>> \in Seq(Tokens) /\ <<>> \o <<>> = <<>>
    OBVIOUS
  <2>3. Told(<<>>)
    BY EmptyStream DEF Init, Told, AllButLast
  <2>. QED BY <2>1, <2>2, <2>3 DEF TakenInv
<1>3. ViewInv
  <2>1. delivered = <<>> /\ keys = Known /\ present = [t \in Known |-> FALSE]
    BY DEF Init
  <2>2. DOMAIN delivered = {}
    BY <2>1
  <2>. QED BY <2>1, <2>2 DEF ViewInv
<1>. QED BY <1>1, <1>2, <1>3 DEF StreamInv

\* A delivered record is the last word about its target.
LEMMA EmitView ==
  ASSUME ViewInv, TypeInv, delivered \in Seq(Seq(Tokens)),
         NEW record \in Seq(Tokens), Emit(record)
  PROVE  ViewInv' /\ present' \in [Known -> BOOLEAN]
<1>1. PICK n : n = Len(delivered)
  OBVIOUS
<1>2. n \in Nat /\ DOMAIN delivered = 1..n
      /\ delivered \in Seq(Seq(Tokens))
  BY <1>1, delivered \in Seq(Seq(Tokens))
<1>3. keys' = keys \cup {Head(record)}
      /\ present' = [t \in Known |-> IF t = Head(record) THEN ~Absent(record)
                                     ELSE present[t]]
      /\ delivered' = Append(delivered, record)
  BY Emit(record) DEF Emit
<1>4. DOMAIN delivered' = 1..n + 1 /\ delivered'[n + 1] = record
      /\ \A k \in 1..n : delivered'[k] = delivered[k]
  BY <1>1, <1>2, <1>3, AppendIs
<1>5. present' \in [Known -> BOOLEAN]
  <2>1. present \in [Known -> BOOLEAN]
    BY TypeInv DEF TypeInv
  <2>. QED BY <1>3, <2>1 DEF Absent
<1>6. keys' = Known \cup {Head(delivered'[k]) : k \in DOMAIN delivered'}
  <2>1. keys = Known \cup {Head(delivered[k]) : k \in 1..n}
    BY <1>2, ViewInv DEF ViewInv
  <2>2. {Head(delivered'[k]) : k \in 1..n + 1}
          = {Head(delivered[k]) : k \in 1..n} \cup {Head(record)}
    <3>1. \A k \in 1..n + 1 : k \in 1..n \/ k = n + 1
      BY <1>2
    <3>2. n + 1 \in 1..n + 1 /\ \A k \in 1..n : k \in 1..n + 1
      BY <1>2
    <3>. QED BY <1>4, <3>1, <3>2
  <2>. QED BY <1>3, <1>4, <2>1, <2>2
<1>7. ASSUME NEW t \in Known
      PROVE  LET of == {k \in DOMAIN delivered' : Head(delivered'[k]) = t}
             IN present'[t] <=> of # {} /\ ~Absent(delivered'[Max(of)])
  <2>1. PICK of : of = {k \in 1..n : Head(delivered[k]) = t}
    OBVIOUS
  <2>2. PICK now : now = {k \in 1..n + 1 : Head(delivered'[k]) = t}
    OBVIOUS
  <2>3. present[t] <=> of # {} /\ ~Absent(delivered[Max(of)])
    BY <1>2, <2>1, ViewInv DEF ViewInv
  <2>4. CASE t = Head(record)
    <3>1. n + 1 \in now /\ now \subseteq 0..n + 1 /\ n + 1 \in Nat
      BY <1>2, <1>4, <2>2, <2>4
    <3>2. Max(now) \in now /\ \A k \in now : k <= Max(now)
      BY <3>1, GreatestIs
    <3>3. Max(now) = n + 1
      <4>1. Max(now) \in 0..n + 1 /\ n + 1 <= Max(now)
        BY <3>1, <3>2, Zenon
      <4>. QED BY <1>2, <4>1
    <3>4. present'[t] = ~Absent(record)
      BY <1>3, <2>4
    <3>5. delivered'[Max(now)] = record
      BY <1>4, <3>3
    <3>6. now # {}
      BY <3>1
    <3>. QED BY <1>4, <2>2, <3>4, <3>5, <3>6, Zenon
  <2>5. CASE t # Head(record)
    <3>1. now = of
      BY <1>2, <1>4, <2>1, <2>2, <2>5
    <3>2. present'[t] = present[t]
      BY <1>3, <2>5
    <3>3. of # {} => delivered'[Max(of)] = delivered[Max(of)]
      <4>1. of \subseteq 0..n
        BY <1>2, <2>1
      <4>2. of # {} => Max(of) \in of
        BY <1>2, <4>1, GreatestIs
      <4>. QED BY <1>4, <2>1, <4>2
    <3>4. now = {k \in DOMAIN delivered' : Head(delivered'[k]) = t}
      BY <1>4, <2>2, Zenon
    <3>5. present'[t] <=> now # {} /\ ~Absent(delivered'[Max(now)])
      BY <2>3, <3>1, <3>2, <3>3, Zenon
    <3>. QED BY <3>4, <3>5, Zenon
  <2>. QED BY <2>4, <2>5
<1>8. ViewInv'
  BY <1>6, <1>7, Zenon DEF ViewInv
<1>. QED BY <1>5, <1>8

LEMMA ToldDelivered ==
  ASSUME NEW taken \in Seq(Tokens), Told(taken)
  PROVE  delivered \in Seq(Seq(Tokens))
  BY Told(taken), RecordsType, AllButLastIs DEF Told

LEMMA LastAppended ==
  ASSUME NEW X, NEW r \in Seq(X), NEW e \in X
  PROVE  AllButLast(Append(r, e)) = r /\ Last(Append(r, e)) = e
<1>1. PICK u : u = Append(r, e)
  OBVIOUS
<1>2. u \in Seq(X) /\ Len(u) = Len(r) + 1 /\ u[Len(r) + 1] = e
      /\ (\A i \in 1..Len(r) : u[i] = r[i]) /\ Len(r) \in Nat
  BY <1>1, AppendIs
<1>3. u # <<>>
  BY <1>2
<1>4. PICK v : v = AllButLast(u)
  OBVIOUS
<1>5. v \in Seq(X) /\ Len(v) = Len(r) /\ \A i \in 1..Len(v) : v[i] = u[i]
  BY <1>2, <1>3, <1>4, AllButLastIs
<1>6. \A i \in 1..Len(v) : v[i] = r[i]
  BY <1>2, <1>5
<1>7. v = r
  BY <1>5, <1>6, SameSeq
<1>. QED BY <1>1, <1>2, <1>4, <1>7 DEF Last

LEMMA PutLastBack ==
  ASSUME NEW X, NEW r \in Seq(X), r # <<>>
  PROVE  r = Append(AllButLast(r), Last(r)) /\ Last(r) \in X
<1>1. r \in Seq(X) /\ r # <<>> /\ Len(r) \in Nat /\ Len(r) >= 1
  OBVIOUS
<1>2. Last(r) \in X /\ Last(r) = r[Len(r)]
  BY <1>1 DEF Last
<1>3. PICK v : v = AllButLast(r)
  OBVIOUS
<1>4. v \in Seq(X) /\ Len(v) = Len(r) - 1 /\ \A i \in 1..Len(v) : v[i] = r[i]
  BY <1>1, <1>3, AllButLastIs
<1>5. PICK u : u = Append(v, Last(r))
  OBVIOUS
<1>6. u \in Seq(X) /\ Len(u) = Len(v) + 1 /\ u[Len(v) + 1] = Last(r)
      /\ \A i \in 1..Len(v) : u[i] = v[i]
  BY <1>2, <1>4, <1>5, AppendIs
<1>7. ASSUME NEW i \in 1..Len(r) PROVE r[i] = u[i]
  <2>1. CASE i = Len(r)
    <3>1. i = Len(v) + 1
      BY <1>1, <1>4, <2>1
    <3>. QED BY <1>2, <1>6, <2>1, <3>1
  <2>2. CASE i # Len(r)
    <3>1. i \in 1..Len(v)
      BY <1>1, <1>4, <2>2
    <3>. QED BY <1>4, <1>6, <3>1
  <2>. QED BY <2>1, <2>2
<1>8. Len(u) = Len(r)
  BY <1>1, <1>4, <1>6
<1>9. r = u
  BY <1>1, <1>6, <1>7, <1>8, SameSeq
<1>. QED BY <1>2, <1>3, <1>5, <1>9

\* After a turn of the inner loop one more token has been taken.
LEMMA TokenTold ==
  ASSUME NEW taken \in Seq(Tokens), Told(taken),
         NEW token \in Tokens, token = Head(data), TakeToken
  PROVE  Told(Append(taken, token))'
<1>1. token = Head(data)
  OBVIOUS
<1>2. PICK more : more = Append(taken, token)
  OBVIOUS
<1>3. token \in Tokens
  OBVIOUS
<1>4. PICK known : known = RecordsOf(taken)
  OBVIOUS
<1>5. known \in Seq(Seq(Tokens))
      /\ (StartsOf(taken) = {} <=> known = <<>>)
  BY <1>4, RecordsType, NoRecords
<1>6. /\ found_header <=> StartsOf(taken) # {}
      /\ previous_partial = IF StartsOf(taken) = {} THEN <<>> ELSE Last(known)
      /\ delivered = AllButLast(known)
  BY <1>4, Told(taken) DEF Told
<1>7. SUFFICES /\ found_header' <=> StartsOf(more) # {}
               /\ previous_partial' = IF StartsOf(more) = {} THEN <<>>
                                      ELSE Last(RecordsOf(more))
               /\ delivered' = AllButLast(RecordsOf(more))
  <2>1. Told(more)' <=> /\ found_header' <=> StartsOf(more) # {}
                        /\ previous_partial' =
                             IF StartsOf(more) = {} THEN <<>>
                             ELSE Last(RecordsOf(more))
                        /\ delivered' = AllButLast(RecordsOf(more))
    BY DEF Told
  <2>. QED BY <1>2, <1>7, <2>1
<1>8. CASE token \in Headers
  <2>1. found_header' = TRUE /\ previous_partial' = <<token>>
        /\ IF found_header THEN Emit(previous_partial) ELSE UNCHANGED delivered
    BY <1>1, <1>8, TakeToken DEF TakeToken
  <2>2. RecordsOf(more) = Append(known, <<token>>) /\ <<token>> \in Seq(Tokens)
    BY <1>2, <1>3, <1>4, <1>8, TokenBegins
  <2>3. AllButLast(RecordsOf(more)) = known /\ Last(RecordsOf(more)) = <<token>>
    <3>1. /\ AllButLast(Append(known, <<token>>)) = known
          /\ Last(Append(known, <<token>>)) = <<token>>
      BY <1>5, <2>2, LastAppended
    <3>. QED BY <2>2, <3>1
  <2>4. StartsOf(more) # {}
    <3>1. more \in Seq(Tokens)
      BY <1>2, <1>3
    <3>2. RecordsOf(more) # <<>>
      BY <1>5, <2>2
    <3>. QED BY <3>1, <3>2, NoRecords
  <2>5. delivered' = known
    <3>1. CASE StartsOf(taken) = {}
      BY <1>5, <1>6, <2>1, <3>1 DEF AllButLast
    <3>2. CASE StartsOf(taken) # {}
      <4>1. delivered' = Append(AllButLast(known), Last(known))
        BY <1>6, <2>1, <3>2 DEF Emit
      <4>. QED BY <1>5, <3>2, <4>1, PutLastBack
    <3>. QED BY <3>1, <3>2
  <2>. QED BY <2>1, <2>3, <2>4, <2>5
<1>9. CASE token \notin Headers
  <2>1. /\ found_header' = found_header /\ delivered' = delivered
        /\ previous_partial' = IF found_header
                               THEN Append(previous_partial, token)
                               ELSE previous_partial
    BY <1>1, <1>9, TakeToken DEF TakeToken
  <2>2. /\ StartsOf(more) = StartsOf(taken)
        /\ AllButLast(RecordsOf(more)) = AllButLast(known)
        /\ StartsOf(taken) # {} =>
             Last(RecordsOf(more)) = Append(Last(known), token)
    BY <1>2, <1>3, <1>4, <1>9, TokenContinues
  <2>. QED BY <1>6, <2>1, <2>2
<1>. QED BY <1>8, <1>9

-----------------------------------------------------------------------------
(* Every step keeps it *)

LEMMA WordsType ==
  ASSUME NEW word \in Words
  PROVE  word \in Seq(Tokens) /\ AsText(word) # <<>>
<1>1. word \in BoundedSeq(Tokens, MaxTokens - Len(stream))
      /\ AsText(word) # <<>>
  BY DEF Words
<1>2. PICK m \in 0..MaxTokens - Len(stream) : word \in [1..m -> Tokens]
  BY <1>1, Zenon DEF BoundedSeq, SeqOf
<1>3. m \in Nat
  OBVIOUS
<1>. QED BY <1>1, <1>2, <1>3

\* A word arrives: what has been taken of the stream stays.
LEMMA StreamReceive ==
  ASSUME StreamInv, NEW word \in Words, Receive(word)
  PROVE  StreamInv'
<1>1. PICK text : text = AsText(IF Len(word) > 1 /\ Last(word) = Empty
                                THEN Front(word) ELSE word)
  OBVIOUS
<1>2. PICK kept : kept = Kept(word)
  OBVIOUS
<1>3. text \in Seq(Tokens) /\ text # <<Empty>> /\ Seen(text) = kept
      /\ kept \in Seq(Tokens)
  BY <1>1, <1>2, WordsType, WordIsSeen
<1>4. /\ data = <<>> /\ stream' = stream \o kept /\ data' = text
      /\ found_header' = found_header
      /\ previous_partial' = previous_partial
      /\ keys' = keys /\ present' = present /\ delivered' = delivered
  BY <1>1, <1>2, Receive(word) DEF Receive
<1>5. TypeInv /\ TakenInv /\ ViewInv
  BY StreamInv DEF StreamInv
<1>6. stream \in Seq(Tokens) /\ Told(stream)
  <2>1. PICK taken \in Seq(Tokens) : stream = taken \o Seen(data)
                                     /\ Told(taken)
    BY <1>5 DEF TakenInv
  <2>2. Seen(data) = <<>>
    BY <1>4 DEF Seen
  <2>3. stream = taken
    BY <2>1, <2>2
  <2>. QED BY <2>1, <2>3
<1>7. TypeInv'
  <2>1. stream' \in Seq(Tokens)
    BY <1>3, <1>4, <1>6
  <2>. QED BY <1>3, <1>4, <1>5, <2>1 DEF TypeInv
<1>8. TakenInv'
  <2>1. PICK taken : taken = stream
    OBVIOUS
  <2>2. taken \in Seq(Tokens) /\ Told(taken)
    BY <1>6, <2>1
  <2>3. Told(taken)'
    BY <1>4, <2>2 DEF Told
  <2>4. stream' = taken \o Seen(data') /\ data' # <<Empty>>
    BY <1>3, <1>4, <2>1
  <2>. QED BY <2>2, <2>3, <2>4 DEF TakenInv
<1>9. ViewInv'
  BY <1>4, <1>5, Zenon DEF ViewInv
<1>. QED BY <1>7, <1>8, <1>9 DEF StreamInv

\* What a turn of the inner loop takes, and what it leaves.
LEMMA Taken ==
  ASSUME StreamInv, TakeToken
  PROVE  \E taken \in Seq(Tokens), token \in Tokens :
           /\ token = Head(data)
           /\ Told(taken) /\ Told(Append(taken, token))'
           /\ stream = Append(taken, token) \o Seen(data')
           /\ Seen(data') \in Seq(Tokens)
           /\ data' \in Seq(Tokens) /\ data' # <<Empty>>
<1>1. data \in Seq(Tokens) /\ data # <<Empty>> /\ data # <<>>
      /\ data' = AsText(Tail(data))
  BY StreamInv, TakeToken DEF StreamInv, TypeInv, TakenInv, TakeToken
<1>2. PICK taken \in Seq(Tokens) : stream = taken \o Seen(data) /\ Told(taken)
  BY StreamInv DEF StreamInv, TakenInv
<1>3. PICK token : token = Head(data)
  OBVIOUS
<1>4. PICK rest : rest = Seen(data')
  OBVIOUS
<1>5. /\ token \in Tokens /\ data' \in Seq(Tokens) /\ data' # <<Empty>>
      /\ rest \in Seq(Tokens) /\ Seen(data) = <<token>> \o rest
  BY <1>1, <1>3, <1>4, RestIsSeen
<1>6. taken \o (<<token>> \o rest) = Append(taken, token) \o rest
  BY <1>5, ConcatMoves
<1>7. Told(Append(taken, token))'
  BY <1>2, <1>3, <1>5, TakeToken, TokenTold
<1>8. stream = Append(taken, token) \o Seen(data')
  BY <1>2, <1>4, <1>5, <1>6
<1>. QED BY <1>2, <1>3, <1>4, <1>5, <1>7, <1>8

\* A token is taken: the cut in the stream moves by one place.
LEMMA StreamTake ==
  ASSUME StreamInv, TakeToken
  PROVE  StreamInv'
<1>1. PICK taken \in Seq(Tokens), token \in Tokens :
           /\ token = Head(data)
           /\ Told(taken) /\ Told(Append(taken, token))'
           /\ stream = Append(taken, token) \o Seen(data')
           /\ Seen(data') \in Seq(Tokens)
           /\ data' \in Seq(Tokens) /\ data' # <<Empty>>
  BY StreamInv, TakeToken, Taken
<1>2. TypeInv /\ TakenInv /\ ViewInv
  BY StreamInv DEF StreamInv
<1>3. stream' = stream /\ found_header' \in BOOLEAN
  BY <1>2, TakeToken DEF TakeToken, TypeInv
<1>4. TakenInv'
  <2>1. Append(taken, token) \in Seq(Tokens)
    BY <1>1, AppendIs
  <2>2. stream' = Append(taken, token) \o Seen(data')
    BY <1>1, <1>3
  <2>. QED BY <1>1, <2>1, <2>2 DEF TakenInv
<1>5. ViewInv' /\ present' \in [Known -> BOOLEAN]
  <2>1. CASE Head(data) \in Headers /\ found_header
    <3>1. Emit(previous_partial)
      BY <2>1, TakeToken DEF TakeToken
    <3>2. previous_partial \in Seq(Tokens) /\ delivered \in Seq(Seq(Tokens))
      <4>1. StartsOf(taken) # {}
            /\ previous_partial = Last(RecordsOf(taken))
        BY <1>1, <2>1 DEF Told
      <4>2. RecordsOf(taken) \in Seq(Seq(Tokens)) /\ RecordsOf(taken) # <<>>
        BY <4>1, RecordsType, NoRecords
      <4>3. Last(RecordsOf(taken)) \in Seq(Tokens)
        BY <4>2, PutLastBack
      <4>. QED BY <1>1, <4>1, <4>3, ToldDelivered
    <3>. QED BY <1>2, <3>1, <3>2, EmitView
  <2>2. CASE ~(Head(data) \in Headers /\ found_header)
    <3>1. keys' = keys /\ present' = present /\ delivered' = delivered
      BY <2>2, TakeToken DEF TakeToken
    <3>2. ViewInv'
      BY <1>2, <3>1, Zenon DEF ViewInv
    <3>. QED BY <1>2, <3>1, <3>2 DEF TypeInv
  <2>. QED BY <2>1, <2>2
<1>6. TypeInv'
  BY <1>1, <1>2, <1>3, <1>5 DEF TypeInv
<1>. QED BY <1>4, <1>5, <1>6 DEF StreamInv

LEMMA StreamStep == StreamInv /\ [Next]_vars => StreamInv'
<1>. SUFFICES ASSUME StreamInv, [Next]_vars PROVE StreamInv'
  OBVIOUS
<1>1. CASE TakeToken
  BY <1>1, StreamTake
<1>2. ASSUME NEW word \in Words, Receive(word) PROVE StreamInv'
  BY <1>2, StreamReceive
<1>3. CASE UNCHANGED vars
  <2>1. /\ stream' = stream /\ data' = data /\ found_header' = found_header
        /\ previous_partial' = previous_partial /\ keys' = keys
        /\ present' = present /\ delivered' = delivered
    BY <1>3 DEF vars
  <2>2. TypeInv' /\ TakenInv'
    BY <2>1, StreamInv DEF StreamInv, TypeInv, TakenInv, Told
  <2>3. ViewInv'
    BY <2>1, StreamInv, Zenon DEF StreamInv, ViewInv
  <2>. QED BY <2>2, <2>3 DEF StreamInv
<1>. QED BY <1>1, <1>2, <1>3 DEF Next

\* Whatever the camera sends and however it is cut: what has been taken of the
\* stream, the partial record, the delivered ones and the targets in view agree.
THEOREM StreamInvariant == Spec => []StreamInv
<1>. QED BY StreamInit, StreamStep, PTL DEF Spec

-----------------------------------------------------------------------------
(* What the invariant is for *)

\* Between two words all of the stream has been taken.
LEMMA InvWaits == StreamInv => NewestWaits
<1>. SUFFICES ASSUME StreamInv, data = <<>> PROVE
       /\ delivered = CompleteRecords
       /\ keys = Known \cup {Head(delivered[k]) : k \in DOMAIN delivered}
       /\ \A t \in Known :
            LET of == {k \in DOMAIN delivered : Head(delivered[k]) = t}
            IN present[t] <=> of # {} /\ ~Absent(delivered[Max(of)])
  BY DEF NewestWaits
<1>1. PICK taken \in Seq(Tokens) : stream = taken \o Seen(data) /\ Told(taken)
  BY StreamInv DEF StreamInv, TakenInv
<1>2. Seen(data) = <<>>
  BY data = <<>> DEF Seen
<1>3. stream = taken
  BY <1>1, <1>2
<1>4. delivered = CompleteRecords
  BY <1>1, <1>3 DEF Told, CompleteRecords
<1>5. ViewInv
  BY StreamInv DEF StreamInv
<1>. QED BY <1>4, <1>5, Zenon DEF ViewInv

\* While the thread of a sensor waits for the camera, the newest record and no
\* other has not been delivered, and the targets are in view as the delivered
\* records say: for every stream, of any length and cut anywhere.
THEOREM NewestWaitsHolds == Spec => []NewestWaits
<1>. QED BY StreamInvariant, InvWaits, PTL

-----------------------------------------------------------------------------
(* The refinement *)

\* A word completes records; those that were complete stay.
LEMMA ReceiveCompletes ==
  ASSUME StreamInv, NEW word \in Words, Receive(word)
  PROVE  Promise!Complete \/ UNCHANGED Promise!vars
<1>1. PICK kept : kept = Kept(word)
  OBVIOUS
<1>2. stream' = stream \o kept /\ delivered' = delivered
      /\ stream \in Seq(Tokens) /\ kept \in Seq(Tokens)
  BY <1>1, StreamInv, Receive(word), WordsType, WordIsSeen
     DEF Receive, StreamInv, TypeInv
<1>3. PICK t : t = stream \o kept
  OBVIOUS
<1>4. Extends(stream, t) /\ t \in Seq(Tokens)
  BY <1>2, <1>3, ConcatExtends DEF Extends
<1>5. PICK old : old = RecordsOf(stream)
  OBVIOUS
<1>6. PICK new : new = RecordsOf(t)
  OBVIOUS
<1>7. old \in Seq(Seq(Tokens)) /\ new \in Seq(Seq(Tokens))
      /\ Len(old) <= Len(new) /\ Len(old) \in Nat /\ Len(new) \in Nat
      /\ \A i \in 1..Len(old) - 1 : new[i] = old[i]
  <2>1. old \in Seq(Seq(Tokens)) /\ new \in Seq(Seq(Tokens))
    BY <1>2, <1>4, <1>5, <1>6, RecordsType
  <2>2. Len(old) <= Len(new) /\ \A i \in 1..Len(old) - 1 : new[i] = old[i]
    BY <1>4, <1>5, <1>6, RecordsStay
  <2>. QED BY <2>1, <2>2
<1>8. PICK c : c = AllButLast(old)
  OBVIOUS
<1>9. PICK d : d = AllButLast(new)
  OBVIOUS
<1>10. CompleteRecords = c /\ CompleteRecords' = d
  BY <1>2, <1>3, <1>5, <1>6, <1>8, <1>9 DEF CompleteRecords
<1>11. c \in Seq(Seq(Tokens)) /\ d \in Seq(Seq(Tokens))
       /\ Len(c) = (IF old = <<>> THEN 0 ELSE Len(old) - 1)
       /\ Len(d) = (IF new = <<>> THEN 0 ELSE Len(new) - 1)
       /\ (\A i \in 1..Len(c) : c[i] = old[i])
       /\ \A i \in 1..Len(d) : d[i] = new[i]
  BY <1>7, <1>8, <1>9, AllButLastIs
<1>12. Len(c) <= Len(d) /\ Len(c) \in Nat /\ Len(d) \in Nat
  <2>1. old # <<>> => Len(old) >= 1 /\ new # <<>>
    BY <1>7
  <2>2. new # <<>> => Len(new) >= 1
    BY <1>7
  <2>. QED BY <1>7, <1>11, <2>1, <2>2
<1>13. ASSUME NEW i \in 1..Len(c) PROVE c[i] = d[i]
  <2>1. i \in 1..Len(old) - 1 /\ i \in 1..Len(d)
    <3>1. old # <<>>
      BY <1>11
    <3>2. Len(c) = Len(old) - 1
      BY <1>11, <3>1
    <3>. QED BY <1>12, <3>2
  <2>. QED BY <1>7, <1>11, <2>1
<1>14. IsPrefix(c, d)
  <2>1. PICK u : u = SubSeq(d, 1, Len(c))
    OBVIOUS
  <2>2. u \in Seq(Seq(Tokens)) /\ Len(u) = Len(c)
        /\ \A i \in 1..Len(c) : u[i] = d[i]
    BY <1>11, <1>12, <2>1, FirstPart
  <2>3. PICK v : v = SubSeq(c, 1, Len(c))
    OBVIOUS
  <2>4. v \in Seq(Seq(Tokens)) /\ Len(v) = Len(c)
        /\ \A i \in 1..Len(c) : v[i] = c[i]
    BY <1>11, <1>12, <2>3, FirstPart
  <2>5. \A i \in 1..Len(u) : u[i] = v[i]
    BY <1>13, <2>2, <2>4
  <2>6. u = v
    BY <2>2, <2>4, <2>5, SameSeq
  <2>. QED BY <1>12, <2>1, <2>3, <2>6 DEF IsPrefix
<1>15. Promise!IsPrefix(c, d)
  BY <1>14 DEF IsPrefix, Promise!IsPrefix
<1>16. CASE c = d
  BY <1>2, <1>10, <1>16 DEF Promise!vars
<1>17. CASE c # d
  BY <1>2, <1>10, <1>15, <1>17 DEF Promise!Complete
<1>. QED BY <1>16, <1>17

\* A token that begins a record delivers the complete record that comes next.
LEMMA TakeDelivers ==
  ASSUME StreamInv, TakeToken
  PROVE  Promise!Deliver \/ UNCHANGED Promise!vars
<1>1. PICK taken \in Seq(Tokens), token \in Tokens :
           /\ token = Head(data)
           /\ Told(taken) /\ Told(Append(taken, token))'
           /\ stream = Append(taken, token) \o Seen(data')
           /\ Seen(data') \in Seq(Tokens)
           /\ data' \in Seq(Tokens) /\ data' # <<Empty>>
  BY StreamInv, TakeToken, Taken
<1>2. CompleteRecords' = CompleteRecords
  BY TakeToken DEF TakeToken, CompleteRecords
<1>3. CASE ~(token \in Headers /\ found_header)
  <2>1. delivered' = delivered
    BY <1>1, <1>3, TakeToken DEF TakeToken
  <2>. QED BY <1>2, <2>1 DEF Promise!vars
<1>4. CASE token \in Headers /\ found_header
  <2>1. PICK more : more = Append(taken, token)
    OBVIOUS
  <2>2. more \in Seq(Tokens)
    BY <1>1, <2>1, AppendIs
  <2>3. PICK known : known = RecordsOf(taken)
    OBVIOUS
  <2>4. known \in Seq(Seq(Tokens)) /\ known # <<>>
        /\ delivered = AllButLast(known) /\ previous_partial = Last(known)
    BY <1>1, <1>4, <2>3, RecordsType, NoRecords DEF Told
  <2>5. delivered' = Append(delivered, previous_partial)
    BY <1>1, <1>4, TakeToken DEF TakeToken, Emit
  <2>6. PICK begun : begun = RecordsOf(more)
    OBVIOUS
  <2>7. begun = Append(known, <<token>>) /\ <<token>> \in Seq(Tokens)
    BY <1>4, <2>1, <2>3, <2>6, TokenBegins
  <2>8. PICK all : all = RecordsOf(stream)
    OBVIOUS
  <2>9. stream \in Seq(Tokens) /\ Extends(more, stream)
    <3>1. stream = more \o Seen(data')
      BY <1>1, <2>1
    <3>2. Extends(more, more \o Seen(data'))
      BY <1>1, <2>2, ConcatExtends
    <3>. QED BY <3>1, <3>2 DEF Extends
  <2>10. PICK n : n = Len(known)
    OBVIOUS
  <2>11. n \in Nat /\ n >= 1
    BY <2>4, <2>10
  <2>12. Len(begun) = n + 1 /\ \A i \in 1..n : begun[i] = known[i]
    BY <2>4, <2>7, <2>10, AppendIs
  <2>13. Len(begun) <= Len(all)
         /\ \A i \in 1..Len(begun) - 1 : all[i] = begun[i]
    BY <2>6, <2>8, <2>9, RecordsStay
  <2>14. all \in Seq(Seq(Tokens)) /\ Len(all) \in Nat /\ n + 1 <= Len(all)
         /\ all[n] = Last(known)
    <3>1. all \in Seq(Seq(Tokens)) /\ Len(all) \in Nat
      BY <2>8, <2>9, RecordsType
    <3>2. n \in 1..n /\ n \in 1..Len(begun) - 1
      BY <2>11, <2>12
    <3>3. all[n] = known[n]
      BY <2>12, <2>13, <3>2
    <3>. QED BY <2>10, <2>12, <2>13, <3>1, <3>3 DEF Last
  <2>15. PICK c : c = AllButLast(all)
    OBVIOUS
  <2>16. n <= Len(c) /\ c[n] = Last(known)
    <3>1. all # <<>>
      BY <2>11, <2>14
    <3>2. Len(c) = Len(all) - 1 /\ \A i \in 1..Len(c) : c[i] = all[i]
      BY <2>14, <2>15, <3>1, AllButLastIs
    <3>3. n \in 1..Len(c)
      BY <2>11, <2>14, <3>2
    <3>. QED BY <2>14, <3>2, <3>3
  <2>17. Len(delivered) = n - 1
    BY <2>4, <2>10, AllButLastIs
  <2>18. CompleteRecords = c
    BY <2>8, <2>15 DEF CompleteRecords
  <2>19. Len(delivered) < Len(c) /\ c[Len(delivered) + 1] = previous_partial
    <3>1. Len(delivered) + 1 = n /\ Len(c) \in Nat
      BY <2>11, <2>14, <2>15, <2>17, AllButLastIs
    <3>. QED BY <2>4, <2>11, <2>16, <2>17, <3>1
  <2>. QED BY <1>2, <2>5, <2>18, <2>19 DEF Promise!Deliver
<1>. QED BY <1>3, <1>4

LEMMA PromiseInit == Init => Promise!Init
<1>. SUFFICES ASSUME Init PROVE Promise!Init
  OBVIOUS
<1>1. stream = <<>> /\ delivered = <<>>
  BY DEF Init
<1>2. CompleteRecords = <<>>
  BY <1>1, EmptyStream DEF CompleteRecords, AllButLast
<1>. QED BY <1>1, <1>2 DEF Promise!Init

\* Each step is a step of RecordStream, or a stutter.
LEMMA PromiseStep ==
  StreamInv /\ [Next]_vars => [Promise!Next]_Promise!vars
<1>. SUFFICES ASSUME StreamInv, [Next]_vars
              PROVE  Promise!Next \/ UNCHANGED Promise!vars
  OBVIOUS
<1>1. CASE TakeToken
  BY <1>1, TakeDelivers DEF Promise!Next
<1>2. ASSUME NEW word \in Words, Receive(word)
      PROVE  Promise!Next \/ UNCHANGED Promise!vars
  BY <1>2, ReceiveCompletes DEF Promise!Next
<1>3. CASE UNCHANGED vars
  BY <1>3 DEF vars, Promise!vars, CompleteRecords
<1>. QED BY <1>1, <1>2, <1>3 DEF Next

\* Every step of the sensor thread is one of RecordStream: complete records
\* only grow, and each is delivered once, whole and in the camera's order.
THEOREM ThreadKeepsPromise == Spec => Promise!Safety
<1>. QED BY PromiseInit, PromiseStep, StreamInvariant, PTL
         DEF Spec, Promise!Safety

=============================================================================
