---------------------------- MODULE SequenceFacts ----------------------------
(***************************************************************************)
(* Least and greatest places, and what SubSeq, Append and \o return: the   *)
(* facts that the proofs about texts and streams share.                    *)
(***************************************************************************)
EXTENDS Integers, Sequences, SequencesExt, WellFoundedInduction, TLAPS

-----------------------------------------------------------------------------
(* Least and greatest elements *)

\* A set of naturals has a least element.
LEMMA LeastIs ==
  ASSUME NEW S, S \subseteq Nat, S # {}
  PROVE  Min(S) \in S /\ \A x \in S : Min(S) <= x
<1>. DEFINE less == OpToRel(<, Nat)
<1>1. IsWellFoundedOn(less, Nat)
  BY NatLessThanWellFounded
<1>2. \A x, m \in Nat : <<x, m>> \in less <=> x < m
  BY DEF OpToRel
<1>3. S \subseteq Nat /\ S # {}
  OBVIOUS
<1>. HIDE DEF less
<1>4. PICK m \in S : \A x \in S : <<x, m>> \notin less
  BY <1>1, <1>3, WFMin
<1>5. ASSUME NEW x \in S PROVE m <= x
  <2>1. m \in Nat /\ x \in Nat
    BY <1>3
  <2>2. ~(x < m)
    BY <1>2, <1>4, <2>1
  <2>. QED BY <2>1, <2>2
<1>6. \E y \in S : \A x \in S : y <= x
  BY <1>5
<1>. QED BY <1>6 DEF Min

\* A bounded one has a greatest element.
LEMMA GreatestIs ==
  ASSUME NEW n \in Nat, NEW S, S \subseteq 0..n, S # {}
  PROVE  Max(S) \in S /\ \A x \in S : x <= Max(S)
<1>. DEFINE R == {n - x : x \in S}
<1>0. n \in Nat /\ S \subseteq 0..n /\ S # {}
  OBVIOUS
<1>1. R \subseteq Nat /\ R # {}
  <2>1. \A x \in S : n - x \in Nat
    BY <1>0
  <2>2. R # {}
    BY <1>0, Zenon
  <2>. QED BY <2>1, <2>2, Zenon
<1>2. Min(R) \in R /\ \A y \in R : Min(R) <= y
  BY <1>1, LeastIs
<1>3. PICK m \in S : Min(R) = n - m
  BY <1>2
<1>4. \A x \in S : m >= x
  <2>1. ASSUME NEW x \in S PROVE m >= x
    <3>1. n - x \in R
      OBVIOUS
    <3>2. n - m <= n - x
      BY <1>2, <1>3, <3>1
    <3>3. m \in Int /\ x \in Int
      BY <1>0
    <3>. QED BY <1>0, <3>2, <3>3
  <2>. QED BY <2>1
<1>5. \E y \in S : \A x \in S : y >= x
  BY <1>4
<1>6. Max(S) \in S /\ \A x \in S : Max(S) >= x
  BY <1>5 DEF Max
<1>. QED BY <1>6

-----------------------------------------------------------------------------
(* Parts and joins *)

\* Sequences that agree at every place are the same.
LEMMA SameSeq ==
  ASSUME NEW X, NEW u \in Seq(X), NEW v \in Seq(X), Len(u) = Len(v),
         \A i \in 1..Len(u) : u[i] = v[i]
  PROVE  u = v
  OBVIOUS

\* The first n elements.
LEMMA FirstPart ==
  ASSUME NEW X, NEW r \in Seq(X), NEW n \in Nat, n <= Len(r)
  PROVE  /\ SubSeq(r, 1, n) \in Seq(X)
         /\ Len(SubSeq(r, 1, n)) = n
         /\ \A i \in 1..n : SubSeq(r, 1, n)[i] = r[i]
<1>1. r \in Seq(X) /\ n \in Nat /\ n <= Len(r) /\ Len(r) \in Nat
  OBVIOUS
<1>2. SubSeq(r, 1, n) \in Seq(X)
  BY <1>1
<1>3. Len(SubSeq(r, 1, n)) = n
  BY <1>1
<1>. QED BY <1>1, <1>2, <1>3

LEMMA AppendIs ==
  ASSUME NEW X, NEW r \in Seq(X), NEW e \in X
  PROVE  /\ Append(r, e) \in Seq(X)
         /\ Len(Append(r, e)) = Len(r) + 1
         /\ Append(r, e)[Len(r) + 1] = e
         /\ \A i \in 1..Len(r) : Append(r, e)[i] = r[i]
  OBVIOUS

LEMMA ConcatIs ==
  ASSUME NEW X, NEW p \in Seq(X), NEW q \in Seq(X)
  PROVE  /\ p \o q \in Seq(X)
         /\ Len(p \o q) = Len(p) + Len(q)
  OBVIOUS

\* An element before a sequence.
LEMMA ConcatToken ==
  ASSUME NEW X, NEW v \in Seq(X), NEW e \in X
  PROVE  /\ <<e>> \o v \in Seq(X)
         /\ Len(<<e>> \o v) = Len(v) + 1
         /\ (<<e>> \o v)[1] = e
         /\ \A i \in 1..Len(v) : (<<e>> \o v)[i + 1] = v[i]
<1>1. v \in Seq(X) /\ Len(v) \in Nat /\ <<e>> \in Seq(X)
      /\ Len(<<e>>) = 1 /\ <<e>>[1] = e
  OBVIOUS
<1>2. <<e>> \o v \in Seq(X) /\ Len(<<e>> \o v) = Len(v) + 1
  BY <1>1
<1>3. (<<e>> \o v)[1] = e
  BY <1>1
<1>4. ASSUME NEW i \in 1..Len(v) PROVE (<<e>> \o v)[i + 1] = v[i]
  BY <1>1
<1>. QED BY <1>2, <1>3, <1>4

\* An element moved from the second of two sequences to the first.
LEMMA ConcatMoves ==
  ASSUME NEW X, NEW s \in Seq(X), NEW e \in X, NEW v \in Seq(X)
  PROVE  s \o (<<e>> \o v) = Append(s, e) \o v
<1>1. PICK u : u = <<e>> \o v
  OBVIOUS
<1>2. u \in Seq(X) /\ Len(u) = Len(v) + 1 /\ u[1] = e
      /\ (\A i \in 1..Len(v) : u[i + 1] = v[i])
      /\ Len(s) \in Nat /\ Len(v) \in Nat /\ s \in Seq(X) /\ v \in Seq(X)
  BY <1>1, ConcatToken
<1>3. PICK a : a = Append(s, e)
  OBVIOUS
<1>4. a \in Seq(X) /\ Len(a) = Len(s) + 1 /\ a[Len(s) + 1] = e
      /\ \A i \in 1..Len(s) : a[i] = s[i]
  BY <1>3, AppendIs
<1>5. s \o u \in Seq(X) /\ Len(s \o u) = Len(s) + Len(v) + 1
  <2>1. s \o u \in Seq(X) /\ Len(s \o u) = Len(s) + Len(u)
    BY <1>2, ConcatIs
  <2>. QED BY <1>2, <2>1
<1>6. a \o v \in Seq(X) /\ Len(a \o v) = Len(s) + Len(v) + 1
  <2>1. a \o v \in Seq(X) /\ Len(a \o v) = Len(a) + Len(v)
    BY <1>2, <1>4, ConcatIs
  <2>. QED BY <1>2, <1>4, <2>1
<1>7. ASSUME NEW i \in 1..Len(s) + Len(v) + 1 PROVE (s \o u)[i] = (a \o v)[i]
  <2>1. CASE i <= Len(s)
    <3>1. (s \o u)[i] = s[i]
      BY <1>2, <2>1
    <3>2. (a \o v)[i] = a[i]
      BY <1>2, <1>4, <2>1
    <3>. QED BY <1>2, <1>4, <2>1, <3>1, <3>2
  <2>2. CASE i = Len(s) + 1
    <3>1. (s \o u)[i] = u[1]
      BY <1>2, <2>2
    <3>2. (a \o v)[i] = a[i]
      BY <1>2, <1>4, <2>2
    <3>. QED BY <1>2, <1>4, <2>2, <3>1, <3>2
  <2>3. CASE i > Len(s) + 1
    <3>1. PICK k : k = i - Len(s) - 1
      OBVIOUS
    <3>2. k \in 1..Len(v) /\ i = Len(s) + (k + 1) /\ i = Len(a) + k
      BY <1>2, <1>4, <2>3, <3>1
    <3>3. (s \o u)[i] = u[k + 1]
      BY <1>2, <3>2
    <3>4. (a \o v)[i] = v[k]
      BY <1>2, <1>4, <3>2
    <3>. QED BY <1>2, <3>2, <3>3, <3>4
  <2>4. i <= Len(s) \/ i = Len(s) + 1 \/ i > Len(s) + 1
    <3>1. i \in Nat /\ Len(s) \in Nat
      BY <1>2
    <3>. QED BY <3>1
  <2>. QED BY <2>1, <2>2, <2>3, <2>4
<1>8. s \o u = a \o v
  BY <1>5, <1>6, <1>7, SameSeq
<1>. QED BY <1>1, <1>3, <1>8

\* Part of a sequence, place by place.
LEMMA PartIs ==
  ASSUME NEW X, NEW s \in Seq(X), NEW a \in 1..Len(s) + 1, NEW b \in a - 1..Len(s)
  PROVE  /\ SubSeq(s, a, b) \in Seq(X)
         /\ Len(SubSeq(s, a, b)) = b - a + 1
         /\ \A i \in 1..b - a + 1 : SubSeq(s, a, b)[i] = s[a + i - 1]
<1>1. s \in Seq(X) /\ Len(s) \in Nat /\ a \in Nat /\ b \in Nat /\ 1 <= a
      /\ a <= b + 1 /\ b <= Len(s)
  OBVIOUS
<1>2. SubSeq(s, a, b) \in Seq(X)
  BY <1>1
<1>3. Len(SubSeq(s, a, b)) = b - a + 1
  BY <1>1
<1>. QED BY <1>1, <1>2, <1>3

\* What a concatenation has at its places.
LEMMA ConcatAt ==
  ASSUME NEW X, NEW p \in Seq(X), NEW q \in Seq(X)
  PROVE  /\ p \o q \in Seq(X)
         /\ Len(p \o q) = Len(p) + Len(q)
         /\ \A i \in 1..Len(p) : (p \o q)[i] = p[i]
         /\ \A i \in 1..Len(q) : (p \o q)[Len(p) + i] = q[i]
<1>1. p \o q \in Seq(X) /\ Len(p \o q) = Len(p) + Len(q)
  BY ConcatIs
<1>2. Len(p) \in Nat /\ Len(q) \in Nat /\ p \in Seq(X) /\ q \in Seq(X)
  OBVIOUS
<1>3. \A i \in 1..Len(p) : (p \o q)[i] = p[i]
  BY <1>1, <1>2
<1>4. \A i \in 1..Len(q) : (p \o q)[Len(p) + i] = q[i]
  BY <1>1, <1>2
<1>. QED BY <1>1, <1>3, <1>4

\* Two parts that lie side by side.
LEMMA PartsJoin ==
  ASSUME NEW X, NEW s \in Seq(X), NEW a \in 1..Len(s) + 1,
         NEW b \in a - 1..Len(s), NEW c \in b..Len(s)
  PROVE  SubSeq(s, a, b) \o SubSeq(s, b + 1, c) = SubSeq(s, a, c)
<1>1. s \in Seq(X) /\ Len(s) \in Nat /\ a \in Nat /\ b \in Nat /\ c \in Nat
      /\ 1 <= a /\ a <= b + 1 /\ b <= c /\ c <= Len(s)
  OBVIOUS
<1>2. PICK p : p = SubSeq(s, a, b)
  OBVIOUS
<1>3. PICK q : q = SubSeq(s, b + 1, c)
  OBVIOUS
<1>4. PICK w : w = SubSeq(s, a, c)
  OBVIOUS
<1>5. p \in Seq(X) /\ Len(p) = b - a + 1
      /\ \A i \in 1..b - a + 1 : p[i] = s[a + i - 1]
  BY <1>2, PartIs
<1>6. q \in Seq(X) /\ Len(q) = c - b
      /\ \A i \in 1..c - b : q[i] = s[b + i]
  <2>1. b + 1 \in 1..Len(s) + 1 /\ c \in (b + 1) - 1..Len(s)
    BY <1>1
  <2>2. q \in Seq(X) /\ Len(q) = c - (b + 1) + 1
        /\ \A i \in 1..c - (b + 1) + 1 : q[i] = s[b + 1 + i - 1]
    BY <1>1, <1>3, <2>1, PartIs
  <2>3. c - (b + 1) + 1 = c - b
    BY <1>1
  <2>4. ASSUME NEW i \in 1..c - b PROVE q[i] = s[b + i]
    <3>1. b + 1 + i - 1 = b + i
      BY <1>1
    <3>. QED BY <2>2, <2>3, <3>1
  <2>. QED BY <2>2, <2>3, <2>4
<1>7. w \in Seq(X) /\ Len(w) = c - a + 1
      /\ \A i \in 1..c - a + 1 : w[i] = s[a + i - 1]
  <2>1. c \in a - 1..Len(s)
    BY <1>1
  <2>. QED BY <1>4, <2>1, PartIs
<1>8. PICK j : j = p \o q
  OBVIOUS
<1>9. j \in Seq(X) /\ Len(j) = Len(p) + Len(q)
      /\ (\A i \in 1..Len(p) : j[i] = p[i])
      /\ \A i \in 1..Len(q) : j[Len(p) + i] = q[i]
  <2>1. p \in Seq(X) /\ q \in Seq(X)
    BY <1>5, <1>6
  <2>. QED BY <1>8, <2>1, ConcatAt
<1>10. Len(j) = Len(w)
  <2>1. Len(j) = (b - a + 1) + (c - b) /\ Len(w) = c - a + 1
    BY <1>5, <1>6, <1>7, <1>9
  <2>2. a \in Nat /\ b \in Nat /\ c \in Nat
    BY <1>1
  <2>3. (b - a + 1) + (c - b) = c - a + 1
    BY <2>2
  <2>. QED BY <2>1, <2>3
<1>11. ASSUME NEW i \in 1..Len(j) PROVE j[i] = w[i]
  <2>0. i \in 1..c - a + 1 /\ i \in Nat
    BY <1>7, <1>10
  <2>1. CASE i <= b - a + 1
    <3>1. i \in 1..b - a + 1 /\ i \in 1..Len(p)
      BY <1>1, <1>5, <2>0, <2>1
    <3>. QED BY <1>5, <1>7, <1>9, <2>0, <3>1
  <2>2. CASE ~(i <= b - a + 1)
    <3>1. PICK k : k = i - (b - a + 1)
      OBVIOUS
    <3>2. k \in 1..c - b /\ i = (b - a + 1) + k /\ a + i - 1 = b + k
      BY <1>1, <2>0, <2>2, <3>1
    <3>3. j[i] = q[k]
      BY <1>5, <1>6, <1>9, <3>2
    <3>. QED BY <1>6, <1>7, <2>0, <3>2, <3>3
  <2>. QED BY <2>1, <2>2
<1>12. j = w
  BY <1>7, <1>9, <1>10, <1>11, SameSeq
<1>. QED BY <1>2, <1>3, <1>4, <1>8, <1>12

\* Part of a part.
LEMMA PartOfPart ==
  ASSUME NEW X, NEW s \in Seq(X), NEW a \in 1..Len(s) + 1,
         NEW b \in a - 1..Len(s), NEW c \in 1..b - a + 2,
         NEW d \in c - 1..b - a + 1
  PROVE  SubSeq(SubSeq(s, a, b), c, d) = SubSeq(s, a + c - 1, a + d - 1)
<1>1. s \in Seq(X) /\ Len(s) \in Nat /\ a \in Nat /\ b \in Nat /\ c \in Nat
      /\ d \in Nat /\ 1 <= a /\ a <= b + 1 /\ b <= Len(s) /\ 1 <= c
      /\ c <= d + 1 /\ d <= b - a + 1
  OBVIOUS
<1>2. PICK p : p = SubSeq(s, a, b)
  OBVIOUS
<1>3. p \in Seq(X) /\ Len(p) = b - a + 1
      /\ \A i \in 1..b - a + 1 : p[i] = s[a + i - 1]
  BY <1>2, PartIs
<1>4. PICK q : q = SubSeq(p, c, d)
  OBVIOUS
<1>5. q \in Seq(X) /\ Len(q) = d - c + 1
      /\ \A i \in 1..d - c + 1 : q[i] = p[c + i - 1]
  <2>1. c \in 1..Len(p) + 1 /\ d \in c - 1..Len(p)
    BY <1>1, <1>3
  <2>. QED BY <1>3, <1>4, <2>1, PartIs
<1>6. PICK lo : lo = a + c - 1
  OBVIOUS
<1>7. PICK hi : hi = a + d - 1
  OBVIOUS
<1>8. lo \in 1..Len(s) + 1 /\ hi \in lo - 1..Len(s) /\ lo \in Nat /\ hi \in Nat
  BY <1>1, <1>6, <1>7
<1>9. PICK w : w = SubSeq(s, lo, hi)
  OBVIOUS
<1>10. w \in Seq(X) /\ Len(w) = hi - lo + 1
       /\ \A i \in 1..hi - lo + 1 : w[i] = s[lo + i - 1]
  BY <1>1, <1>8, <1>9, PartIs
<1>11. hi - lo + 1 = d - c + 1
  BY <1>1, <1>6, <1>7
<1>12. ASSUME NEW i \in 1..d - c + 1 PROVE q[i] = w[i]
  <2>1. PICK k : k = c + i - 1
    OBVIOUS
  <2>2. k \in 1..b - a + 1 /\ a + k - 1 = lo + i - 1
    BY <1>1, <1>6, <2>1
  <2>3. q[i] = p[k]
    BY <1>5, <2>1
  <2>4. p[k] = s[a + k - 1]
    BY <1>3, <2>2
  <2>5. w[i] = s[lo + i - 1]
    BY <1>10, <1>11
  <2>. QED BY <2>2, <2>3, <2>4, <2>5
<1>13. q = w
  BY <1>5, <1>10, <1>11, <1>12, SameSeq
<1>. QED BY <1>2, <1>4, <1>6, <1>7, <1>9, <1>13

LEMMA WholeIs ==
  ASSUME NEW X, NEW s \in Seq(X)
  PROVE  SubSeq(s, 1, Len(s)) = s
  OBVIOUS

=============================================================================
