-------------------------- MODULE TextBuffer_proofs --------------------------
(***************************************************************************)
(* Trimming and cutting in two, for texts of every length and alphabet:    *)
(* what is trimmed is white and what is left begins and ends with          *)
(* something else; what is cut, put together again, is the text.           *)
(***************************************************************************)
EXTENDS TextBuffer, SequenceFacts, FiniteSetTheorems

-----------------------------------------------------------------------------
(* Scanning *)

LEMMA QuoteIsNotWhite == "\"" \notin White
  BY DEF White

\* The loop that passes over characters of C stops, behind them all.
LEMMA PastIs ==
  ASSUME NEW s \in Text, NEW i \in 1..Len(s) + 1, NEW C
  PROVE  /\ Past(s, i, C) \in i..Len(s) + 1
         /\ \A k \in i..Past(s, i, C) - 1 : s[k] \in C
         /\ Past(s, i, C) <= Len(s) => s[Past(s, i, C)] \notin C
<1>0. Len(s) \in Nat /\ i \in Nat /\ 1 <= i /\ i <= Len(s) + 1
  BY DEF Text
<1>1. PICK stops : stops = {j \in i..Len(s) + 1 : j <= Len(s) => s[j] \notin C}
  OBVIOUS
<1>2. stops \subseteq Nat /\ Len(s) + 1 \in stops
  BY <1>0, <1>1
<1>3. PICK j \in stops : \A k \in stops : j <= k
  <2>1. stops # {}
    BY <1>2
  <2>. QED BY <1>2, <2>1, LeastIs
<1>4. j \in i..Len(s) + 1 /\ (j <= Len(s) => s[j] \notin C)
  BY <1>1
<1>5. ASSUME NEW k \in i..j - 1 PROVE s[k] \in C
  <2>1. k \in i..Len(s) + 1 /\ ~(j <= k) /\ k <= Len(s)
    BY <1>0, <1>4
  <2>. QED BY <1>1, <1>3, <2>1
<1>6. \E m \in i..Len(s) + 1 : /\ \A k \in i..m - 1 : s[k] \in C
                               /\ m <= Len(s) => s[m] \notin C
  BY <1>4, <1>5
<1>. QED BY <1>6 DEF Past

\* The loop that passes over characters that are not in C.
LEMMA UntilIs ==
  ASSUME NEW s \in Text, NEW i \in 1..Len(s) + 1, NEW C
  PROVE  /\ Until(s, i, C) \in i..Len(s) + 1
         /\ \A k \in i..Until(s, i, C) - 1 : s[k] \notin C
         /\ Until(s, i, C) <= Len(s) => s[Until(s, i, C)] \in C
<1>0. Len(s) \in Nat /\ i \in Nat /\ 1 <= i /\ i <= Len(s) + 1
  BY DEF Text
<1>1. PICK stops : stops = {j \in i..Len(s) + 1 : j <= Len(s) => s[j] \in C}
  OBVIOUS
<1>2. stops \subseteq Nat /\ Len(s) + 1 \in stops
  BY <1>0, <1>1
<1>3. PICK j \in stops : \A k \in stops : j <= k
  <2>1. stops # {}
    BY <1>2
  <2>. QED BY <1>2, <2>1, LeastIs
<1>4. j \in i..Len(s) + 1 /\ (j <= Len(s) => s[j] \in C)
  BY <1>1
<1>5. ASSUME NEW k \in i..j - 1 PROVE s[k] \notin C
  <2>1. k \in i..Len(s) + 1 /\ ~(j <= k) /\ k <= Len(s)
    BY <1>0, <1>4
  <2>. QED BY <1>1, <1>3, <2>1
<1>6. \E m \in i..Len(s) + 1 : /\ \A k \in i..m - 1 : s[k] \notin C
                               /\ m <= Len(s) => s[m] \in C
  BY <1>4, <1>5
<1>. QED BY <1>6 DEF Until

\* The first place of a key.
LEMMA FindIs ==
  ASSUME NEW s \in Text, NEW key \in Text
  PROVE  LET p == find(s, key, 1)
             Here(x) == SubSeq(s, x, x + Len(key) - 1) = key
         IN \/ p = 0 /\ \A x \in 1..Len(s) - Len(key) + 1 : ~Here(x)
            \/ /\ p \in 1..Len(s) - Len(key) + 1 /\ Here(p)
               /\ \A x \in 1..p - 1 : ~Here(x)
<1>. DEFINE Here(x) == SubSeq(s, x, x + Len(key) - 1) = key
<1>0. Len(s) \in Nat /\ Len(key) \in Nat
  BY DEF Text
<1>1. PICK at : at = {x \in 1..Len(s) - Len(key) + 1 : Here(x)}
  OBVIOUS
<1>2. find(s, key, 1) = IF at = {} THEN 0 ELSE Min(at)
  BY <1>1 DEF find
<1>3. CASE at = {}
  BY <1>1, <1>2, <1>3
<1>4. CASE at # {}
  <2>1. PICK p : p = Min(at)
    OBVIOUS
  <2>2. at \subseteq Nat
    BY <1>0, <1>1
  <2>3. p \in at /\ \A x \in at : p <= x
    BY <1>4, <2>1, <2>2, LeastIs
  <2>4. p \in 1..Len(s) - Len(key) + 1 /\ Here(p)
    BY <1>1, <2>3
  <2>5. ASSUME NEW x \in 1..p - 1 PROVE ~Here(x)
    <3>1. x \in 1..Len(s) - Len(key) + 1 /\ ~(p <= x)
      BY <1>0, <2>4
    <3>2. x \notin at
      BY <2>3, <3>1
    <3>. QED BY <1>1, <3>1, <3>2
  <2>6. find(s, key, 1) = p
    BY <1>2, <1>4, <2>1
  <2>. QED BY <2>4, <2>5, <2>6
<1>. QED BY <1>3, <1>4

\* The last place of a character that the text has.
LEMMA FindLastIs ==
  ASSUME NEW s \in Text, NEW c, \E k \in 1..Len(s) : s[k] = c
  PROVE  find_last_of(s, c) \in 1..Len(s) /\ s[find_last_of(s, c)] = c
<1>0. Len(s) \in Nat /\ DOMAIN s = 1..Len(s) /\ \E k \in 1..Len(s) : s[k] = c
  BY DEF Text
<1>1. PICK at : at = {p \in DOMAIN s : s[p] = c}
  OBVIOUS
<1>2. at # {} /\ at \subseteq 0..Len(s)
  BY <1>0, <1>1
<1>3. Max(at) \in at
  BY <1>0, <1>2, GreatestIs
<1>4. find_last_of(s, c) = Max(at)
  BY <1>1, <1>2 DEF find_last_of
<1>. QED BY <1>0, <1>1, <1>3, <1>4

-----------------------------------------------------------------------------
(* Trimming *)

\* A part of a text is a text.
LEMMA PartIsText ==
  ASSUME NEW s \in Text, NEW a \in 1..Len(s) + 1, NEW b \in a - 1..Len(s)
  PROVE  /\ SubSeq(s, a, b) \in Text
         /\ Len(SubSeq(s, a, b)) = b - a + 1
         /\ \A i \in 1..b - a + 1 : SubSeq(s, a, b)[i] = s[a + i - 1]
<1>1. s \in Seq(STRING)
  BY DEF Text
<1>. QED BY <1>1, PartIs DEF Text

\* trim_from_end, of a text that does not begin with white.
LEMMA TrimEndIs ==
  ASSUME NEW r \in Text, r # <<>>, r[1] \notin White
  PROVE  \E m \in 1..Len(r) :
           /\ trim_from_end(r) = SubSeq(r, 1, m)
           /\ r[m] \notin White
           /\ \A k \in m + 1..Len(r) : r[k] \in White
<1>0. r \in Seq(STRING) /\ Len(r) \in Nat /\ Len(r) >= 1 /\ DOMAIN r = 1..Len(r)
  BY r # <<>> DEF Text
<1>1. PICK solid : solid = {1} \cup {j \in DOMAIN r : r[j] \notin White}
  OBVIOUS
<1>2. solid \subseteq 0..Len(r) /\ solid # {}
  BY <1>0, <1>1
<1>3. PICK m : m = Max(solid)
  OBVIOUS
<1>4. m \in solid /\ \A x \in solid : x <= m
  BY <1>0, <1>2, <1>3, GreatestIs
<1>5. m \in 1..Len(r) /\ r[m] \notin White
  BY <1>0, <1>1, <1>4, r[1] \notin White
<1>6. ASSUME NEW k \in m + 1..Len(r) PROVE r[k] \in White
  <2>1. k \in DOMAIN r /\ ~(k <= m)
    BY <1>0, <1>5
  <2>. QED BY <1>1, <1>4, <2>1
<1>7. trim_from_end(r) = SubSeq(r, 1, m)
  BY <1>1, <1>3, r # <<>> DEF trim_from_end
<1>. QED BY <1>5, <1>6, <1>7

\* What trim leaves of a text: from its first character that is not white to
\* the last one.
Core(s, b, last) ==
  /\ b \in 1..Len(s) + 1 /\ last \in b - 1..Len(s)
  /\ b = skip_white(s, 1)
  /\ trim(s) = SubSeq(s, b, last)
  /\ \A k \in 1..Len(s) : s[k] \in White \/ k \in b..last
  /\ b <= Len(s) => b <= last /\ s[b] \notin White /\ s[last] \notin White

\* Every text has such a core.
LEMMA TrimIs ==
  ASSUME NEW s \in Text
  PROVE  \E b, last \in Nat : Core(s, b, last)
<1>0. s \in Seq(STRING) /\ Len(s) \in Nat /\ 1 \in 1..Len(s) + 1
  BY DEF Text
<1>1. PICK b : b = skip_white(s, 1)
  OBVIOUS
<1>2. /\ b \in 1..Len(s) + 1 /\ b \in Nat
      /\ \A k \in 1..b - 1 : s[k] \in White
      /\ b <= Len(s) => s[b] \notin White
  BY <1>0, <1>1, PastIs DEF skip_white
<1>3. PICK r : r = SubSeq(s, b, Len(s))
  OBVIOUS
<1>4. trim_front(s) = r /\ trim(s) = trim_from_end(r)
  BY <1>1, <1>3 DEF trim, trim_front, From
<1>5. r \in Text /\ Len(r) = Len(s) - b + 1
      /\ \A i \in 1..Len(s) - b + 1 : r[i] = s[b + i - 1]
  <2>1. Len(s) \in b - 1..Len(s)
    BY <1>0, <1>2
  <2>. QED BY <1>2, <1>3, <2>1, PartIsText
<1>6. CASE b = Len(s) + 1
  <2>1. r = <<>>
    BY <1>0, <1>5, <1>6 DEF Text
  <2>2. trim(s) = <<>>
    BY <1>4, <2>1 DEF trim_from_end
  <2>3. SubSeq(s, b, Len(s)) = <<>>
    BY <1>3, <2>1
  <2>4. \A k \in 1..Len(s) : s[k] \in White
    BY <1>0, <1>2, <1>6
  <2>5. Core(s, b, Len(s))
    BY <1>0, <1>1, <1>2, <1>6, <2>2, <2>3, <2>4 DEF Core
  <2>. QED BY <1>0, <1>2, <2>5
<1>7. CASE b # Len(s) + 1
  <2>1. b <= Len(s) /\ b >= 1
    BY <1>0, <1>2, <1>7
  <2>2. r # <<>> /\ r[1] \notin White
    <3>1. Len(r) >= 1 /\ 1 \in 1..Len(s) - b + 1
      BY <1>0, <1>2, <1>5, <2>1
    <3>2. r[1] = s[b + 1 - 1] /\ b + 1 - 1 = b
      BY <1>2, <1>5, <3>1
    <3>. QED BY <1>2, <2>1, <3>1, <3>2
  <2>3. PICK m \in 1..Len(r) :
           /\ trim_from_end(r) = SubSeq(r, 1, m)
           /\ r[m] \notin White
           /\ \A k \in m + 1..Len(r) : r[k] \in White
    BY <1>5, <2>2, TrimEndIs
  <2>4. PICK last : last = b + m - 1
    OBVIOUS
  <2>5. m \in Nat /\ last \in b..Len(s) /\ last \in Nat
    BY <1>0, <1>2, <1>5, <2>3, <2>4
  <2>6. SubSeq(r, 1, m) = SubSeq(s, b, last)
    <3>1. Len(s) \in b - 1..Len(s) /\ 1 \in 1..Len(s) - b + 2
          /\ m \in 1 - 1..Len(s) - b + 1 /\ b + 1 - 1 = b
      BY <1>0, <1>2, <1>5, <2>1, <2>3
    <3>2. SubSeq(SubSeq(s, b, Len(s)), 1, m) = SubSeq(s, b + 1 - 1, b + m - 1)
      BY <1>0, <1>2, <3>1, PartOfPart
    <3>. QED BY <1>3, <2>4, <3>1, <3>2
  <2>7. s[last] \notin White
    <3>1. r[m] = s[b + m - 1]
      BY <1>5, <2>3
    <3>. QED BY <2>3, <2>4, <3>1
  <2>8. ASSUME NEW k \in 1..Len(s) PROVE s[k] \in White \/ k \in b..last
    <3>1. CASE k < b
      BY <1>2, <3>1
    <3>2. CASE k > last
      <4>1. PICK i : i = k - b + 1
        OBVIOUS
      <4>2. i \in m + 1..Len(r) /\ i \in 1..Len(s) - b + 1 /\ b + i - 1 = k
        BY <1>0, <1>2, <1>5, <2>4, <2>5, <3>2, <4>1
      <4>. QED BY <1>5, <2>3, <4>2
    <3>3. CASE ~(k < b) /\ ~(k > last)
      BY <1>2, <2>5, <3>3
    <3>. QED BY <3>1, <3>2, <3>3
  <2>9. trim(s) = SubSeq(s, b, last)
    BY <1>4, <2>3, <2>6
  <2>10. last \in b - 1..Len(s)
    BY <1>2, <2>5
  <2>11. b <= last /\ s[b] \notin White
    BY <1>2, <2>1, <2>5
  <2>12. Core(s, b, last)
    BY <1>1, <1>2, <2>7, <2>8, <2>9, <2>10, <2>11 DEF Core
  <2>. QED BY <1>2, <2>5, <2>12
<1>. QED BY <1>6, <1>7

LEMMA TrimTight ==
  ASSUME NEW s \in Text
  PROVE  Tight(s, trim_string(s))
<1>0. Len(s) \in Nat
  BY DEF Text
<1>1. PICK b, last \in Nat : Core(s, b, last)
  BY TrimIs
<1>2. PICK t : t = trim(s)
  OBVIOUS
<1>3. /\ b \in 1..Len(s) + 1 /\ last \in b - 1..Len(s)
      /\ t = SubSeq(s, b, last)
      /\ \A k \in 1..Len(s) : s[k] \in White \/ k \in b..last
      /\ b <= Len(s) => b <= last /\ s[b] \notin White /\ s[last] \notin White
  BY <1>1, <1>2 DEF Core
<1>4. Len(t) = last - b + 1 /\ t \in Text
      /\ \A i \in 1..last - b + 1 : t[i] = s[b + i - 1]
  BY <1>3, PartIsText
<1>5. ASSUME t # <<>> PROVE t[1] \notin White /\ t[Len(t)] \notin White
  <2>1. Len(t) \in Nat /\ Len(t) >= 1
    BY <1>4, <1>5 DEF Text
  <2>2. b <= Len(s) /\ 1 \in 1..last - b + 1 /\ b + 1 - 1 = b
        /\ Len(t) \in 1..last - b + 1 /\ b + Len(t) - 1 = last
    BY <1>0, <1>3, <1>4, <2>1
  <2>3. t[1] = s[b]
    BY <1>4, <2>2
  <2>4. t[Len(t)] = s[last]
    BY <1>4, <2>2
  <2>. QED BY <1>3, <2>2, <2>3, <2>4
<1>6. Tight(s, t)
  BY <1>3, <1>5 DEF Tight
<1>. QED BY <1>2, <1>6 DEF trim_string

-----------------------------------------------------------------------------
(* Cutting in two *)

\* A text cut at a place, and behind it.
LEMMA ThreeParts ==
  ASSUME NEW s \in Text, NEW p \in 1..Len(s), NEW q \in p..Len(s)
  PROVE  /\ SubSeq(s, 1, p - 1) \o SubSeq(s, p, q) \o From(s, q + 1) = s
         /\ SubSeq(s, 1, p - 1) \in Text
         /\ Len(SubSeq(s, 1, p - 1)) = p - 1
         /\ \A k \in 1..p - 1 : SubSeq(s, 1, p - 1)[k] = s[k]
<1>1. s \in Seq(STRING) /\ Len(s) \in Nat /\ p \in Nat /\ q \in Nat
      /\ 1 <= p /\ p <= q /\ q <= Len(s)
  BY DEF Text
<1>2. SubSeq(s, 1, p - 1) \o SubSeq(s, (p - 1) + 1, q) = SubSeq(s, 1, q)
  <2>1. 1 \in 1..Len(s) + 1 /\ p - 1 \in 1 - 1..Len(s) /\ q \in p - 1..Len(s)
    BY <1>1
  <2>. QED BY <1>1, <2>1, PartsJoin
<1>3. SubSeq(s, 1, q) \o SubSeq(s, q + 1, Len(s)) = SubSeq(s, 1, Len(s))
  <2>1. 1 \in 1..Len(s) + 1 /\ q \in 1 - 1..Len(s) /\ Len(s) \in q..Len(s)
    BY <1>1
  <2>. QED BY <1>1, <2>1, PartsJoin
<1>4. SubSeq(s, 1, Len(s)) = s
  BY <1>1, WholeIs
<1>5. (p - 1) + 1 = p
  BY <1>1
<1>6. SubSeq(s, 1, p - 1) \in Text /\ Len(SubSeq(s, 1, p - 1)) = p - 1
      /\ \A k \in 1..p - 1 : SubSeq(s, 1, p - 1)[k] = s[k]
  <2>1. p - 1 \in Nat /\ p - 1 <= Len(s)
    BY <1>1
  <2>. QED BY <1>1, <2>1, FirstPart DEF Text
<1>. QED BY <1>2, <1>3, <1>4, <1>5, <1>6 DEF From

\* string_split_string and single_subst.
LEMMA KeyRejoins ==
  ASSUME NEW s \in Text, NEW key \in Text, key # <<>>
  PROVE  LET cut == string_split_string(s, key)
         IN IF find(s, key, 1) = 0 THEN cut.name = s
            ELSE /\ cut.name \o key \o cut.accessor = s
                 /\ find(cut.name, key, 1) = 0
                 /\ \A value : single_subst(key, value, s)
                                 = cut.name \o value \o cut.accessor
<1>0. Len(s) \in Nat /\ Len(key) \in Nat /\ Len(key) >= 1
      /\ s \in Text /\ key \in Text
  BY key # <<>> DEF Text
<1>1. PICK p : p = find(s, key, 1)
  OBVIOUS
<1>2. CASE p = 0
  BY <1>1, <1>2 DEF string_split_string
<1>3. CASE p # 0
  <2>1. PICK name : name = SubSeq(s, 1, p - 1)
    OBVIOUS
  <2>2. PICK accessor : accessor = From(s, p + Len(key))
    OBVIOUS
  <2>3. string_split_string(s, key) = [name |-> name, accessor |-> accessor]
    BY <1>1, <1>3, <2>1, <2>2 DEF string_split_string
  <2>4. /\ p \in 1..Len(s) - Len(key) + 1
        /\ SubSeq(s, p, p + Len(key) - 1) = key
        /\ \A x \in 1..p - 1 : SubSeq(s, x, x + Len(key) - 1) # key
    BY <1>1, <1>3, FindIs
  <2>5. PICK q : q = p + Len(key) - 1
    OBVIOUS
  <2>6. p \in 1..Len(s) /\ q \in p..Len(s) /\ q + 1 = p + Len(key)
    BY <1>0, <2>4, <2>5
  <2>7. name \o key \o accessor = s
    <3>1. name \o SubSeq(s, p, q) \o From(s, q + 1) = s
      BY <2>1, <2>6, ThreeParts
    <3>. QED BY <2>2, <2>4, <2>5, <2>6, <3>1
  <2>8. name \in Text /\ Len(name) = p - 1 /\ \A k \in 1..p - 1 : name[k] = s[k]
    BY <2>1, <2>6, ThreeParts
  <2>9. find(name, key, 1) = 0
    <3>1. PICK x : x = find(name, key, 1)
      OBVIOUS
    <3>2. SUFFICES ASSUME x # 0 PROVE FALSE
      BY <3>1
    <3>3. x \in 1..Len(name) - Len(key) + 1
          /\ SubSeq(name, x, x + Len(key) - 1) = key
      BY <2>8, <3>1, <3>2, FindIs
    <3>4. x \in Nat /\ x >= 1 /\ x + Len(key) - 1 <= p - 1 /\ x \in 1..p - 1
      BY <1>0, <2>6, <2>8, <3>3
    <3>5. SubSeq(SubSeq(s, 1, p - 1), x, x + Len(key) - 1)
            = SubSeq(s, 1 + x - 1, 1 + (x + Len(key) - 1) - 1)
      <4>1. s \in Seq(STRING) /\ 1 \in 1..Len(s) + 1 /\ p - 1 \in 1 - 1..Len(s)
            /\ x \in 1..(p - 1) - 1 + 2
            /\ x + Len(key) - 1 \in x - 1..(p - 1) - 1 + 1
        BY <1>0, <2>6, <3>4 DEF Text
      <4>. QED BY <4>1, PartOfPart
    <3>6. 1 + x - 1 = x /\ 1 + (x + Len(key) - 1) - 1 = x + Len(key) - 1
      BY <1>0, <3>4
    <3>7. SubSeq(s, x, x + Len(key) - 1) = key
      BY <2>1, <3>3, <3>5, <3>6
    <3>. QED BY <2>4, <3>4, <3>7
  <2>10. \A value : single_subst(key, value, s) = name \o value \o accessor
    BY <1>1, <1>3, <2>1, <2>2 DEF single_subst
  <2>11. PICK cut : cut = string_split_string(s, key)
    OBVIOUS
  <2>12. cut.name = name /\ cut.accessor = accessor
    BY <2>3, <2>11
  <2>13. find(s, key, 1) # 0
    BY <1>1, <1>3
  <2>14. /\ cut.name \o key \o cut.accessor = s
         /\ find(cut.name, key, 1) = 0
         /\ \A value : single_subst(key, value, s)
                         = cut.name \o value \o cut.accessor
    BY <2>7, <2>9, <2>10, <2>12
  <2>. QED BY <2>11, <2>13, <2>14
<1>. QED BY <1>2, <1>3

\* front_string returns the name that string_split_string cuts off.
LEMMA FrontIsName ==
  ASSUME NEW s, NEW key
  PROVE  front_string(s, key) = string_split_string(trim(s), key).name
<1>1. CASE find(trim(s), key, 1) = 0
  BY <1>1 DEF front_string, string_split_string
<1>2. CASE find(trim(s), key, 1) # 0
  BY <1>2 DEF front_string, string_split_string
<1>. QED BY <1>1, <1>2

\* remove_stem, get_stem, last_item and chop.
LEMMA StemRejoins ==
  ASSUME NEW s \in Text, NEW c, \E k \in 1..Len(s) : s[k] = c
  PROVE  /\ remove_stem(s, c) \o <<c>> \o get_stem(s, c) = s
         /\ last_item(s, c) = get_stem(s, c)
         /\ chop(s, c) = string_split_string(s, <<c>>).accessor
<1>0. s \in Seq(STRING) /\ Len(s) \in Nat /\ s \in Text
  BY DEF Text
<1>1. PICK p : p = find_last_of(s, c)
  OBVIOUS
<1>2. p \in 1..Len(s) /\ s[p] = c /\ p # 0
  BY <1>0, <1>1, FindLastIs, \E k \in 1..Len(s) : s[k] = c
<1>3. SubSeq(s, 1, p - 1) \o SubSeq(s, p, p) \o From(s, p + 1) = s
  <2>1. p \in 1..Len(s) /\ p \in p..Len(s)
    BY <1>0, <1>2
  <2>. QED BY <1>0, <2>1, ThreeParts
<1>4. SubSeq(s, p, p) = <<c>>
  <2>1. PICK u : u = SubSeq(s, p, p)
    OBVIOUS
  <2>2. p \in 1..Len(s) + 1 /\ p \in p - 1..Len(s) /\ p - p + 1 = 1
        /\ p + 1 - 1 = p
    BY <1>0, <1>2
  <2>3. u \in Seq(STRING) /\ Len(u) = 1 /\ u[1] = s[p + 1 - 1]
    BY <1>0, <2>1, <2>2, PartIs
  <2>4. <<c>> \in Seq(STRING) /\ Len(<<c>>) = 1 /\ <<c>>[1] = c
    BY <1>0, <1>2
  <2>5. \A i \in 1..Len(u) : u[i] = <<c>>[i]
    BY <1>2, <2>2, <2>3, <2>4
  <2>. QED BY <2>1, <2>3, <2>4, <2>5, SameSeq
<1>5. remove_stem(s, c) = SubSeq(s, 1, p - 1)
      /\ get_stem(s, c) = From(s, p + 1) /\ last_item(s, c) = From(s, p + 1)
  BY <1>1, <1>2 DEF remove_stem, get_stem, last_item
<1>6. chop(s, c) = string_split_string(s, <<c>>).accessor
  <2>1. Len(<<c>>) = 1
    OBVIOUS
  <2>2. CASE find(s, <<c>>, 1) = 0
    BY <2>2 DEF chop, string_split_string
  <2>3. CASE find(s, <<c>>, 1) # 0
    BY <2>1, <2>3 DEF chop, string_split_string
  <2>. QED BY <2>2, <2>3
<1>. QED BY <1>3, <1>4, <1>5, <1>6

LEMMA TrimIsText ==
  ASSUME NEW s \in Text
  PROVE  trim(s) \in Text
<1>1. PICK b, last \in Nat : Core(s, b, last)
  BY TrimIs
<1>2. b \in 1..Len(s) + 1 /\ last \in b - 1..Len(s) /\ trim(s) = SubSeq(s, b, last)
  BY <1>1 DEF Core
<1>. QED BY <1>2, PartIsText

\* split_string, and the case that the separator is the first character.
LEMMA SplitIs ==
  ASSUME NEW r \in Text, NEW c
  PROVE  /\ \E word, more : split_string(r, c) = [name |-> word, accessor |-> more]
         /\ split_string(r, c).name \in Text
         /\ trim(r) # <<>> /\ trim(r)[1] = c /\ c \notin White =>
              /\ split_string(r, c).name = <<>>
              /\ split_string(r, c).accessor = From(trim(r), 2)
<1>1. PICK t : t = trim(r)
  OBVIOUS
<1>2. t \in Text /\ Len(t) \in Nat /\ 1 \in 1..Len(t) + 1
  BY <1>1, TrimIsText DEF Text
<1>3. PICK cut : cut = IF c = " " THEN skip_to_white(t, 1) ELSE Until(t, 1, {c})
  OBVIOUS
<1>4. PICK rest : rest = IF c = " " /\ cut <= Len(t) THEN skip_white(t, cut + 1)
                         ELSE cut + 1
  OBVIOUS
<1>5. split_string(r, c) = [name |-> SubSeq(t, 1, cut - 1), accessor |-> From(t, rest)]
  BY <1>1, <1>2, <1>3, <1>4 DEF split_string
<1>6. cut \in 1..Len(t) + 1
  <2>1. Until(t, 1, White) \in 1..Len(t) + 1 /\ Until(t, 1, {c}) \in 1..Len(t) + 1
    BY <1>2, UntilIs
  <2>. QED BY <1>3, <2>1 DEF skip_to_white
<1>7. SubSeq(t, 1, cut - 1) \in Text
  <2>1. cut - 1 \in 1 - 1..Len(t)
    BY <1>2, <1>6
  <2>. QED BY <1>2, <2>1, PartIsText
<1>8. ASSUME t # <<>>, t[1] = c, c \notin White
      PROVE  SubSeq(t, 1, cut - 1) = <<>> /\ rest = 2
  <2>1. c # " "
    BY <1>8 DEF White
  <2>2. \A k \in 1..cut - 1 : t[k] \notin {c}
    <3>1. \A k \in 1..Until(t, 1, {c}) - 1 : t[k] \notin {c}
      BY <1>2, UntilIs
    <3>. QED BY <1>3, <2>1, <3>1
  <2>3. 1 \notin 1..cut - 1
    BY <1>8, <2>2
  <2>4. cut = 1
    BY <1>2, <1>6, <2>3
  <2>5. rest = 2
    <3>1. rest = cut + 1
      BY <1>4, <2>1
    <3>. QED BY <2>4, <3>1
  <2>6. SubSeq(t, 1, 0) = <<>>
    BY <1>2 DEF Text
  <2>7. cut - 1 = 0
    BY <2>4
  <2>. QED BY <2>5, <2>6, <2>7
<1>9. split_string(r, c).name = SubSeq(t, 1, cut - 1)
      /\ split_string(r, c).accessor = From(t, rest)
  <2>1. PICK pair : pair = split_string(r, c)
    OBVIOUS
  <2>2. pair.name = SubSeq(t, 1, cut - 1) /\ pair.accessor = From(t, rest)
    <3>1. pair = [name |-> SubSeq(t, 1, cut - 1), accessor |-> From(t, rest)]
      BY <1>5, <2>1
    <3>. QED BY <3>1
  <2>. QED BY <2>1, <2>2
<1>10. \E word, more : split_string(r, c) = [name |-> word, accessor |-> more]
  BY <1>5
<1>. QED BY <1>1, <1>7, <1>8, <1>9, <1>10

\* The first word of a text begins with a quote just when the text does, but for
\* a quote that is not closed.
LEMMA QuotedWord ==
  ASSUME NEW s \in Text, NEW b, b = skip_white(s, 1),
         NEW quoted, quoted = token_quotes(s, 1)
  PROVE  /\ b \in 1..Len(s) + 1
         /\ quoted.word # <<>> /\ quoted.word[1] = "\"" =>
              b <= Len(s) /\ s[b] = "\""
         /\ b <= Len(s) /\ s[b] = "\"" /\ quoted.next # 0 =>
              quoted.word # <<>> /\ quoted.word[1] = "\""
<1>0. Len(s) \in Nat /\ 1 \in 1..Len(s) + 1 /\ s \in Seq(STRING)
  BY DEF Text
<1>1. b \in 1..Len(s) + 1 /\ b \in Nat /\ b >= 1
  <2>1. b \in 1..Len(s) + 1
    BY <1>0, PastIs, b = skip_white(s, 1) DEF skip_white
  <2>. QED BY <1>0, <2>1
<1>2. PICK q : q = IF b <= Len(s) /\ s[b] = "\"" THEN skip_quoted(s, b, "\"") ELSE b
  OBVIOUS
<1>3. PICK e : e = IF q = 0 THEN 0 ELSE skip_to_white(s, q)
  OBVIOUS
<1>4. quoted.word = SubSeq(s, b, e - 1) /\ quoted.next = e
  <2>1. token_quotes(s, 1) = [word |-> SubSeq(s, b, e - 1), next |-> e]
    BY <1>2, <1>3, b = skip_white(s, 1) DEF token_quotes
  <2>2. quoted = [word |-> SubSeq(s, b, e - 1), next |-> e]
    BY <2>1, quoted = token_quotes(s, 1)
  <2>. QED BY <2>2
<1>5. q \in b..Len(s) \/ q = 0 \/ (q = b /\ b = Len(s) + 1)
  <2>1. CASE b <= Len(s) /\ s[b] = "\""
    <3>1. PICK closing : closing = {k \in b + 1..Len(s) : s[k] = "\"" /\ s[k - 1] # "'"}
      OBVIOUS
    <3>2. q = IF closing = {} THEN 0 ELSE Min(closing)
      BY <1>2, <2>1, <3>1 DEF skip_quoted
    <3>3. \A k \in closing : k \in b + 1..Len(s)
      BY <3>1
    <3>4. \A k \in closing : k \in Nat /\ k \in b..Len(s)
      <4>1. \A k \in b + 1..Len(s) : k \in Nat /\ k \in b..Len(s)
        BY <1>0, <1>1
      <4>. QED BY <3>3, <4>1
    <3>5. CASE closing # {}
      <4>1. Min(closing) \in closing
        BY <3>4, <3>5, LeastIs
      <4>. QED BY <3>2, <3>4, <3>5, <4>1
    <3>. QED BY <3>2, <3>5
  <2>2. CASE ~(b <= Len(s) /\ s[b] = "\"")
    <3>1. q = b
      BY <1>2, <2>2
    <3>2. b \in b..Len(s) \/ b = Len(s) + 1
      BY <1>0, <1>1
    <3>. QED BY <3>1, <3>2
  <2>. QED BY <2>1, <2>2
<1>6. b <= Len(s) /\ s[b] = "\"" => q # b
  <2>1. SUFFICES ASSUME b <= Len(s), s[b] = "\"" PROVE q # b
    OBVIOUS
  <2>2. PICK closing : closing = {k \in b + 1..Len(s) : s[k] = "\"" /\ s[k - 1] # "'"}
    OBVIOUS
  <2>3. q = IF closing = {} THEN 0 ELSE Min(closing)
    BY <1>2, <2>1, <2>2 DEF skip_quoted
  <2>4. closing \subseteq Nat /\ b \notin closing
    <3>1. \A k \in b + 1..Len(s) : k \in Nat /\ k # b
      BY <1>0, <1>1
    <3>2. \A k \in closing : k \in b + 1..Len(s)
      BY <2>2
    <3>. QED BY <3>1, <3>2
  <2>5. CASE closing # {}
    BY <2>3, <2>4, <2>5, LeastIs
  <2>. QED BY <1>1, <2>3, <2>5
<1>7. q # 0 => e \in q..Len(s) + 1
  <2>1. SUFFICES ASSUME q # 0 PROVE e \in q..Len(s) + 1
    OBVIOUS
  <2>2. q \in 1..Len(s) + 1
    BY <1>0, <1>1, <1>5, <2>1
  <2>. QED BY <1>3, <2>1, <2>2, UntilIs DEF skip_to_white
<1>8. e >= b + 1 /\ e <= Len(s) + 1 =>
        quoted.word # <<>> /\ quoted.word[1] = s[b]
  <2>1. SUFFICES ASSUME e \in Nat, e >= b + 1, e <= Len(s) + 1
                 PROVE  quoted.word # <<>> /\ quoted.word[1] = s[b]
    BY <1>0, <1>1, <1>3, <1>5, <1>7
  <2>2. e - 1 \in b - 1..Len(s) /\ 1 \in 1..(e - 1) - b + 1 /\ b + 1 - 1 = b
    BY <1>0, <1>1, <2>1
  <2>3. PICK w : w = SubSeq(s, b, e - 1)
    OBVIOUS
  <2>4. w \in Text /\ Len(w) = (e - 1) - b + 1 /\ w[1] = s[b + 1 - 1]
    BY <1>1, <2>2, <2>3, PartIsText
  <2>5. w # <<>>
    BY <1>1, <2>1, <2>4 DEF Text
  <2>. QED BY <1>4, <2>2, <2>3, <2>4, <2>5
<1>9. e < b + 1 => quoted.word = <<>>
  BY <1>0, <1>1, <1>3, <1>4, <1>5, <1>7
<1>10. e \in Nat /\ e <= Len(s) + 1 /\ (b = Len(s) + 1 => e < b + 1)
  BY <1>0, <1>1, <1>3, <1>5, <1>7
<1>11. ASSUME quoted.word # <<>>, quoted.word[1] = "\""
       PROVE  b <= Len(s) /\ s[b] = "\""
  <2>1. ~(e < b + 1)
    BY <1>9, <1>11
  <2>2. e >= b + 1 /\ e <= Len(s) + 1 /\ b # Len(s) + 1
    BY <1>0, <1>1, <1>10, <2>1
  <2>3. b <= Len(s)
    BY <1>0, <1>1, <2>2
  <2>. QED BY <1>8, <1>11, <2>2, <2>3
<1>12. ASSUME b <= Len(s), s[b] = "\"", quoted.next # 0
       PROVE  quoted.word # <<>> /\ quoted.word[1] = "\""
  <2>1. q # 0 /\ q \in b + 1..Len(s)
    <3>1. q # 0
      BY <1>3, <1>4, <1>12
    <3>2. q # b
      BY <1>6, <1>12
    <3>3. q \in b..Len(s)
      BY <1>5, <3>1, <3>2
    <3>4. \A k \in b..Len(s) : k # b => k \in b + 1..Len(s)
      BY <1>0, <1>1
    <3>. QED BY <3>1, <3>2, <3>3, <3>4
  <2>2. e >= b + 1
    BY <1>0, <1>1, <1>7, <2>1
  <2>. QED BY <1>8, <1>10, <1>12, <2>2
<1>. QED BY <1>1, <1>11, <1>12

\* A text is a prefix of what is joined to it.
LEMMA PrefixIs ==
  ASSUME NEW u \in Text, NEW v \in Text
  PROVE  IsPrefix(u, u \o v)
<1>1. u \in Seq(STRING) /\ v \in Seq(STRING) /\ Len(u) \in Nat /\ Len(v) \in Nat
  BY DEF Text
<1>2. PICK j : j = u \o v
  OBVIOUS
<1>3. j \in Seq(STRING) /\ Len(j) = Len(u) + Len(v)
      /\ \A i \in 1..Len(u) : j[i] = u[i]
  BY <1>1, <1>2, ConcatAt
<1>4. PICK f : f = SubSeq(j, 1, Len(u))
  OBVIOUS
<1>5. f \in Seq(STRING) /\ Len(f) = Len(u) /\ \A i \in 1..Len(u) : f[i] = j[i]
  <2>1. Len(u) \in Nat /\ Len(u) <= Len(j)
    BY <1>1, <1>3
  <2>. QED BY <1>3, <1>4, <2>1, FirstPart
<1>6. f = u
  BY <1>1, <1>3, <1>5, SameSeq
<1>7. SubSeq(u, 1, Len(u)) = u
  BY <1>1, WholeIs
<1>8. Len(u) <= Len(j)
  BY <1>1, <1>3
<1>. QED BY <1>2, <1>4, <1>6, <1>7, <1>8 DEF IsPrefix

\* Of the text from a character on that is not white, trim leaves what it leaves
\* of the whole text from there on.
LEMMA EndIsTrimmed ==
  ASSUME NEW s \in Text, NEW b \in Nat, NEW last \in Nat, Core(s, b, last),
         NEW a \in b..Len(s), s[a] \notin White
  PROVE  a <= last /\ trim(From(s, a)) = SubSeq(s, a, last)
<1>0. Len(s) \in Nat /\ s \in Seq(STRING) /\ a \in Nat /\ a <= Len(s)
      /\ b <= a /\ s[a] \notin White
  BY DEF Text
<1>1. /\ b \in 1..Len(s) + 1 /\ last \in b - 1..Len(s)
      /\ \A k \in 1..Len(s) : s[k] \in White \/ k \in b..last
      /\ b <= Len(s) => b <= last /\ s[b] \notin White /\ s[last] \notin White
  BY Core(s, b, last) DEF Core
<1>2. 1 <= b /\ a \in 1..Len(s)
  BY <1>0, <1>1
<1>3. a \in b..last /\ s[last] \notin White
  <2>1. a \in b..last
    BY <1>0, <1>1, <1>2
  <2>. QED BY <1>0, <1>1, <2>1
<1>4. PICK r : r = From(s, a)
  OBVIOUS
<1>5. r \in Text /\ Len(r) = Len(s) - a + 1
      /\ \A i \in 1..Len(s) - a + 1 : r[i] = s[a + i - 1]
  <2>1. a \in 1..Len(s) + 1 /\ Len(s) \in a - 1..Len(s)
    BY <1>0, <1>2
  <2>. QED BY <1>4, <2>1, PartIsText DEF From
<1>6. PICK c, m \in Nat : Core(r, c, m)
  BY <1>5, TrimIs
<1>7. /\ c \in 1..Len(r) + 1 /\ m \in c - 1..Len(r)
      /\ c = skip_white(r, 1) /\ trim(r) = SubSeq(r, c, m)
      /\ \A k \in 1..Len(r) : r[k] \in White \/ k \in c..m
      /\ c <= Len(r) => c <= m /\ r[c] \notin White /\ r[m] \notin White
  BY <1>6 DEF Core
<1>8. 1 \in 1..Len(s) - a + 1 /\ a + 1 - 1 = a /\ 1 \in 1..Len(r)
  BY <1>0, <1>5
<1>9. r[1] \notin White
  BY <1>0, <1>5, <1>8
<1>10. c = 1
  <2>1. 1 \in c..m
    BY <1>7, <1>8, <1>9
  <2>. QED BY <1>7, <2>1
<1>11. m = last - a + 1
  <2>1. PICK k : k = last - a + 1
    OBVIOUS
  <2>2. k \in 1..Len(s) - a + 1 /\ k \in 1..Len(r) /\ a + k - 1 = last /\ k \in Nat
    BY <1>0, <1>1, <1>3, <1>5, <2>1
  <2>3. r[k] \notin White
    BY <1>3, <1>5, <2>2
  <2>4. k <= m
    BY <1>7, <1>10, <2>2, <2>3
  <2>5. c <= Len(r)
    BY <1>8, <1>10
  <2>6. m \in 1..Len(s) - a + 1 /\ a + m - 1 \in 1..Len(s)
    BY <1>0, <1>2, <1>5, <1>7, <1>10, <2>5
  <2>7. r[m] = s[a + m - 1] /\ r[m] \notin White
    BY <1>5, <1>7, <2>5, <2>6
  <2>8. a + m - 1 \in b..last
    BY <1>1, <2>6, <2>7
  <2>9. m <= k
    BY <1>0, <1>1, <2>1, <2>8
  <2>. QED BY <2>1, <2>2, <2>4, <2>9
<1>12. SubSeq(r, 1, m) = SubSeq(s, a, last)
  <2>1. a \in 1..Len(s) + 1 /\ Len(s) \in a - 1..Len(s) /\ 1 \in 1..Len(s) - a + 2
        /\ m \in 1 - 1..Len(s) - a + 1 /\ a + 1 - 1 = a /\ a + m - 1 = last
    BY <1>0, <1>1, <1>2, <1>3, <1>11
  <2>2. SubSeq(SubSeq(s, a, Len(s)), 1, m) = SubSeq(s, a + 1 - 1, a + m - 1)
    BY <1>0, <2>1, PartOfPart
  <2>. QED BY <1>4, <2>1, <2>2 DEF From
<1>. QED BY <1>3, <1>4, <1>7, <1>10, <1>12

\* The text begins with a quoted part, from b to e.
Quoted(s, b, e) ==
  /\ b = skip_white(s, 1) /\ b <= Len(s) /\ s[b] = "\""
  /\ e = skip_to_char(s, b + 1, "\"") /\ e # 0

\* Without a quoted part split_string_quotes is split_string.
LEMMA NoQuoteIsSplit ==
  ASSUME NEW s, NEW c, \A b, e : ~Quoted(s, b, e)
  PROVE  split_string_quotes(s, c) = split_string(s, c)
<1>1. PICK b : b = skip_white(s, 1)
  OBVIOUS
<1>2. PICK e : e = IF b <= Len(s) /\ s[b] = "\"" THEN skip_to_char(s, b + 1, "\"") ELSE 0
  OBVIOUS
<1>3. e = 0
  BY <1>1, <1>2, \A k, m : ~Quoted(s, k, m) DEF Quoted
<1>. QED BY <1>1, <1>2, <1>3 DEF split_string_quotes

\* split_string_quotes, for a text that begins with a quoted part, from b to e.
LEMMA QuoteIsKept ==
  ASSUME NEW s \in Text, NEW c, NEW b, NEW e, Quoted(s, b, e),
         NEW cut, cut = split_string_quotes(s, c)
  PROVE  /\ IsPrefix(SubSeq(trim(s), 1, e - b + 1), cut.name)
         /\ s[Min({e + 1, Len(s)})] \notin White =>
              trim(s) = cut.name
                \o (IF e < Len(s) THEN <<s[e + 1]>> ELSE <<>>) \o cut.accessor
<1>0. Len(s) \in Nat /\ s \in Seq(STRING) /\ s \in Text /\ b \in 1..Len(s)
      /\ b \in Nat /\ 1 <= b /\ b <= Len(s)
  <2>1. Len(s) \in Nat /\ 1 \in 1..Len(s) + 1 /\ s \in Seq(STRING)
    BY DEF Text
  <2>2. b \in 1..Len(s) + 1
    <3>1. b = skip_white(s, 1)
      BY Quoted(s, b, e) DEF Quoted
    <3>. QED BY <2>1, <3>1, PastIs DEF skip_white
  <2>3. b <= Len(s)
    BY Quoted(s, b, e) DEF Quoted
  <2>. QED BY <2>1, <2>2, <2>3
<1>a. s[b] = "\"" /\ e # 0
  BY Quoted(s, b, e) DEF Quoted
<1>1. e \in b + 1..Len(s) /\ s[e] \in {"\""}
  <2>1. PICK j : j = Until(s, b + 1, {"\""})
    OBVIOUS
  <2>2. b + 1 \in 1..Len(s) + 1
    BY <1>0
  <2>3. j \in b + 1..Len(s) + 1 /\ (j <= Len(s) => s[j] \in {"\""})
    BY <2>1, <2>2, UntilIs
  <2>4. e = IF j <= Len(s) THEN j ELSE 0
    BY <2>1, Quoted(s, b, e) DEF skip_to_char, Quoted
  <2>5. j <= Len(s) /\ e = j
    BY <1>a, <2>4
  <2>6. j \in b + 1..Len(s)
    <3>1. j \in b + 1..Len(s) + 1 /\ j <= Len(s) /\ b \in Nat /\ Len(s) \in Nat
      BY <1>0, <2>3, <2>5
    <3>. QED BY <3>1
  <2>. QED BY <2>3, <2>5, <2>6
<1>2. e \in Nat /\ b + 1 <= e /\ e <= Len(s) /\ e \in 1..Len(s)
  <2>1. e \in b + 1..Len(s)
    BY <1>1
  <2>. QED BY <1>0, <2>1
<1>3. PICK l, last \in Nat : Core(s, l, last)
  BY TrimIs
<1>4. Core(s, b, last) /\ last \in Nat
  <2>1. l = b
    BY <1>3, Quoted(s, b, e) DEF Core, Quoted
  <2>. QED BY <1>3, <2>1
<1>5. trim(s) = SubSeq(s, b, last) /\ last \in b - 1..Len(s)
      /\ (\A k \in 1..Len(s) : s[k] \in White \/ k \in b..last)
  BY <1>4 DEF Core
<1>6. e <= last /\ last <= Len(s)
  <2>1. s[e] \notin White
    BY <1>1, QuoteIsNotWhite
  <2>2. e \in b..last
    BY <1>2, <1>5, <2>1
  <2>. QED BY <1>0, <1>2, <1>5, <2>2
<1>7. SubSeq(trim(s), 1, e - b + 1) = SubSeq(s, b, e)
  <2>1. b \in 1..Len(s) + 1 /\ last \in b - 1..Len(s) /\ 1 \in 1..last - b + 2
        /\ e - b + 1 \in 1 - 1..last - b + 1 /\ b + 1 - 1 = b
        /\ b + (e - b + 1) - 1 = e
    BY <1>0, <1>2, <1>4, <1>6
  <2>2. SubSeq(SubSeq(s, b, last), 1, e - b + 1)
          = SubSeq(s, b + 1 - 1, b + (e - b + 1) - 1)
    BY <1>0, <2>1, PartOfPart
  <2>. QED BY <1>5, <2>1, <2>2
<1>8. PICK quote : quote = SubSeq(s, b, e)
  OBVIOUS
<1>9. quote \in Text
  <2>1. b \in 1..Len(s) + 1 /\ e \in b - 1..Len(s)
    BY <1>0, <1>2
  <2>. QED BY <1>0, <1>8, <2>1, PartIsText
<1>10. quote \o <<>> = quote /\ <<>> \in Text
  BY <1>9 DEF Text
<1>11. CASE e = Len(s)
  <2>1. cut = [name |-> From(s, b), accessor |-> <<>>]
    BY <1>11, Quoted(s, b, e), cut = split_string_quotes(s, c)
       DEF Quoted, split_string_quotes
  <2>2. cut.name = quote /\ cut.accessor = <<>>
    <3>1. From(s, b) = quote
      BY <1>8, <1>11 DEF From
    <3>. QED BY <2>1, <3>1
  <2>3. IsPrefix(quote, quote)
    BY <1>9, <1>10, PrefixIs
  <2>4. trim(s) = quote
    <3>1. last = e
      BY <1>0, <1>2, <1>4, <1>6, <1>11
    <3>. QED BY <1>5, <1>8, <3>1
  <2>5. ~(e < Len(s))
    BY <1>0, <1>2, <1>11
  <2>. QED BY <1>7, <1>8, <1>10, <2>2, <2>3, <2>4, <2>5
<1>12. CASE e < Len(s)
  <2>1. PICK r : r = From(s, e + 1)
    OBVIOUS
  <2>2. PICK d : d = s[e + 1]
    OBVIOUS
  <2>3. e + 1 \in 1..Len(s) + 1 /\ Len(s) \in (e + 1) - 1..Len(s)
        /\ e + 1 \in b..Len(s) /\ e # Len(s)
    BY <1>0, <1>2, <1>12
  <2>4. r \in Text
    BY <1>0, <2>1, <2>3, PartIsText DEF From
  <2>5. PICK behind : behind = split_string(r, d)
    OBVIOUS
  <2>6. behind.name \in Text
    BY <2>4, <2>5, SplitIs
  <2>7. cut = [behind EXCEPT !.name = quote \o @]
    BY <1>8, <2>1, <2>2, <2>3, <2>5, Quoted(s, b, e), cut = split_string_quotes(s, c)
       DEF Quoted, split_string_quotes
  <2>8. PICK word, rest : behind = [name |-> word, accessor |-> rest]
    BY <2>4, <2>5, SplitIs
  <2>9. cut.name = quote \o behind.name /\ cut.accessor = behind.accessor
    BY <2>7, <2>8
  <2>10. IsPrefix(quote, cut.name)
    BY <1>9, <2>6, <2>9, PrefixIs
  <2>11. ASSUME s[Min({e + 1, Len(s)})] \notin White
         PROVE  trim(s) = cut.name \o <<d>> \o cut.accessor
    <3>1. Min({e + 1, Len(s)}) = e + 1
      <4>1. PICK S : S = {e + 1, Len(s)}
        OBVIOUS
      <4>2. S \subseteq Nat /\ S # {} /\ e + 1 \in S
        BY <1>0, <1>2, <4>1
      <4>3. Min(S) \in S /\ Min(S) <= e + 1
        BY <4>2, LeastIs
      <4>. QED BY <1>0, <1>2, <1>12, <4>1, <4>3
    <3>2. d \notin White /\ s[e + 1] \notin White
      BY <2>2, <2>11, <3>1
    <3>3. e + 1 <= last /\ trim(r) = SubSeq(s, e + 1, last)
      BY <1>0, <1>4, <2>1, <2>3, <3>2, EndIsTrimmed
    <3>4. PICK t : t = trim(r)
      OBVIOUS
    <3>5. t # <<>> /\ t[1] = d /\ Len(t) = last - e
      <4>1. last \in (e + 1) - 1..Len(s) /\ 1 \in 1..last - (e + 1) + 1
            /\ (e + 1) + 1 - 1 = e + 1 /\ last - (e + 1) + 1 = last - e
        BY <1>0, <1>2, <1>4, <1>6, <3>3
      <4>2. Len(t) = last - (e + 1) + 1 /\ t[1] = s[(e + 1) + 1 - 1] /\ t \in Text
        BY <1>0, <2>3, <3>3, <3>4, <4>1, PartIsText
      <4>3. Len(t) >= 1
        BY <1>2, <1>4, <3>3, <4>1, <4>2
      <4>. QED BY <2>2, <4>1, <4>2, <4>3 DEF Text
    <3>6. behind.name = <<>> /\ behind.accessor = From(t, 2)
      BY <2>4, <2>5, <3>2, <3>4, <3>5, SplitIs
    <3>7. cut.name = quote
      BY <1>10, <2>9, <3>6
    <3>8. cut.accessor = SubSeq(s, (e + 1) + 1, last)
      <4>1. PICK a, n : a = e + 1 /\ n = last - e
        OBVIOUS
      <4>2. a \in 1..Len(s) + 1 /\ last \in a - 1..Len(s)
            /\ 2 \in 1..last - a + 2 /\ n \in 2 - 1..last - a + 1
            /\ a + 2 - 1 = (e + 1) + 1 /\ a + n - 1 = last
        BY <1>0, <1>2, <1>4, <1>6, <3>3, <4>1
      <4>3. SubSeq(SubSeq(s, a, last), 2, n) = SubSeq(s, a + 2 - 1, a + n - 1)
        BY <1>0, <4>2, PartOfPart
      <4>4. From(t, 2) = SubSeq(SubSeq(s, a, last), 2, n)
        BY <3>3, <3>4, <3>5, <4>1 DEF From
      <4>. QED BY <2>9, <3>6, <4>2, <4>3, <4>4
    <3>9. SubSeq(s, e + 1, e + 1) = <<d>>
      <4>1. PICK u : u = SubSeq(s, e + 1, e + 1)
        OBVIOUS
      <4>2. e + 1 \in (e + 1) - 1..Len(s) /\ (e + 1) - (e + 1) + 1 = 1
            /\ (e + 1) + 1 - 1 = e + 1 /\ e + 1 \in 1..Len(s)
        BY <1>0, <1>2, <2>3
      <4>3. u \in Seq(STRING) /\ Len(u) = 1 /\ u[1] = s[(e + 1) + 1 - 1]
        BY <1>0, <2>3, <4>1, <4>2, PartIs
      <4>4. d \in STRING /\ <<d>> \in Seq(STRING) /\ Len(<<d>>) = 1 /\ <<d>>[1] = d
        BY <1>0, <2>2, <4>2
      <4>5. \A i \in 1..Len(u) : u[i] = <<d>>[i]
        BY <2>2, <4>2, <4>3, <4>4
      <4>. QED BY <4>1, <4>3, <4>4, <4>5, SameSeq
    <3>10. quote \o SubSeq(s, e + 1, e + 1) = SubSeq(s, b, e + 1)
      <4>1. b \in 1..Len(s) + 1 /\ e \in b - 1..Len(s) /\ e + 1 \in e..Len(s)
        BY <1>0, <1>2, <2>3
      <4>. QED BY <1>0, <1>8, <4>1, PartsJoin
    <3>11. SubSeq(s, b, e + 1) \o SubSeq(s, (e + 1) + 1, last) = SubSeq(s, b, last)
      <4>1. b \in 1..Len(s) + 1 /\ e + 1 \in b - 1..Len(s) /\ last \in e + 1..Len(s)
        BY <1>0, <1>2, <1>4, <1>6, <2>3, <3>3
      <4>. QED BY <1>0, <4>1, PartsJoin
    <3>. QED BY <1>5, <3>7, <3>8, <3>9, <3>10, <3>11
  <2>. QED BY <1>7, <1>8, <1>12, <2>2, <2>10, <2>11
<1>13. e = Len(s) \/ e < Len(s)
  BY <1>0, <1>2
<1>. QED BY <1>11, <1>12, <1>13

\* split_string_quotes cuts as split_string does, unless the text begins with a
\* quoted part, which it keeps whole.
LEMMA QuotedCut ==
  ASSUME NEW s \in Text, NEW c
  PROVE  LET quoted == token_quotes(s, 1)
             cut == split_string_quotes(s, c)
             e == skip_to_char(s, skip_white(s, 1) + 1, "\"")
         IN IF quoted.word = <<>> \/ quoted.word[1] # "\"" \/ e = 0
            THEN quoted.next # 0 => cut = split_string(s, c)
            ELSE /\ IsPrefix(SubSeq(trim(s), 1, e - skip_white(s, 1) + 1), cut.name)
                 /\ s[Min({e + 1, Len(s)})] \notin White =>
                      trim(s) = cut.name
                        \o (IF e < Len(s) THEN <<s[e + 1]>> ELSE <<>>)
                        \o cut.accessor
<1>1. PICK quoted : quoted = token_quotes(s, 1)
  OBVIOUS
<1>2. PICK b : b = skip_white(s, 1)
  OBVIOUS
<1>3. PICK e : e = skip_to_char(s, b + 1, "\"")
  OBVIOUS
<1>4. PICK cut : cut = split_string_quotes(s, c)
  OBVIOUS
<1>5. /\ quoted.word # <<>> /\ quoted.word[1] = "\"" => b <= Len(s) /\ s[b] = "\""
      /\ b <= Len(s) /\ s[b] = "\"" /\ quoted.next # 0 =>
           quoted.word # <<>> /\ quoted.word[1] = "\""
  BY <1>1, <1>2, QuotedWord
<1>6. CASE quoted.word = <<>> \/ quoted.word[1] # "\"" \/ e = 0
  <2>1. quoted.next # 0 => ~Quoted(s, b, e)
    BY <1>5, <1>6 DEF Quoted
  <2>2. ~Quoted(s, b, e) => \A k, m : ~Quoted(s, k, m)
    BY <1>2, <1>3 DEF Quoted
  <2>3. quoted.next # 0 => cut = split_string(s, c)
    BY <1>4, <2>1, <2>2, NoQuoteIsSplit
  <2>. QED BY <1>1, <1>2, <1>3, <1>4, <1>6, <2>3
<1>7. CASE ~(quoted.word = <<>> \/ quoted.word[1] # "\"" \/ e = 0)
  <2>1. Quoted(s, b, e)
    BY <1>2, <1>3, <1>5, <1>7 DEF Quoted
  <2>2. /\ IsPrefix(SubSeq(trim(s), 1, e - b + 1), cut.name)
        /\ s[Min({e + 1, Len(s)})] \notin White =>
             trim(s) = cut.name
               \o (IF e < Len(s) THEN <<s[e + 1]>> ELSE <<>>) \o cut.accessor
    BY <1>4, <2>1, QuoteIsKept
  <2>. QED BY <1>1, <1>2, <1>3, <1>4, <1>7, <2>2
<1>. QED BY <1>6, <1>7

-----------------------------------------------------------------------------
(* Every text that a caller can have read *)

\* The buffer holds characters.
THEOREM BufferIsText == Spec => [](buffer \in Text)
<1>1. Init => buffer \in Text
  BY DEF Init, Text
<1>2. buffer \in Text /\ [Next]_buffer => (buffer \in Text)'
  <2>1. SUFFICES ASSUME buffer \in Text, [Next]_buffer PROVE buffer' \in Text
    OBVIOUS
  <2>2. ASSUME NEW A \in Alphabets, NEW c \in A, Read(c) PROVE buffer' \in Text
    <3>1. c \in STRING
      BY TextAssumption
    <3>2. buffer' = Append(buffer, c)
      BY <2>2 DEF Read
    <3>. QED BY <2>1, <3>1, <3>2, AppendIs DEF Text
  <2>. QED BY <2>1, <2>2 DEF Next
<1>. QED BY <1>1, <1>2, PTL DEF Spec

\* Whatever text trim_string is given, it returns the part between the first and
\* the last character that is not white.
THEOREM TrimIsTightHolds == Spec => []TrimIsTight
<1>1. buffer \in Text => TrimIsTight
  BY TrimTight DEF TrimIsTight
<1>. QED BY <1>1, BufferIsText, PTL

\* Whatever text string_split_string, single_subst, front_string, remove_stem,
\* get_stem, last_item, chop and split_string_quotes are given, and at whatever
\* key or character of it they cut, the parts joined again are the text.
THEOREM CutsRejoinHolds == Spec => []CutsRejoin
<1>1. ASSUME NEW s \in Text, NEW key \in Keys
      PROVE  /\ LET cut == string_split_string(s, key)
                IN IF find(s, key, 1) = 0 THEN cut.name = s
                   ELSE /\ cut.name \o key \o cut.accessor = s
                        /\ find(cut.name, key, 1) = 0
                        /\ \A value \in Values :
                             single_subst(key, value, s)
                               = cut.name \o value \o cut.accessor
             /\ front_string(s, key) = string_split_string(trim(s), key).name
  <2>1. key \in Text /\ key # <<>>
    BY TextAssumption
  <2>2. LET cut == string_split_string(s, key)
        IN IF find(s, key, 1) = 0 THEN cut.name = s
           ELSE /\ cut.name \o key \o cut.accessor = s
                /\ find(cut.name, key, 1) = 0
                /\ \A value : single_subst(key, value, s)
                                = cut.name \o value \o cut.accessor
    BY <2>1, KeyRejoins
  <2>. QED BY <2>2, FrontIsName
<1>2. ASSUME NEW s \in Text, NEW c \in Range(s)
      PROVE  /\ remove_stem(s, c) \o <<c>> \o get_stem(s, c) = s
             /\ last_item(s, c) = get_stem(s, c)
             /\ chop(s, c) = string_split_string(s, <<c>>).accessor
  <2>1. \E k \in 1..Len(s) : s[k] = c
    BY DEF Text, Range
  <2>. QED BY <2>1, StemRejoins
<1>3. buffer \in Text => CutsRejoin
  BY <1>1, <1>2, QuotedCut DEF CutsRejoin
<1>. QED BY <1>3, BufferIsText, PTL

-----------------------------------------------------------------------------
(* Numbers *)

\* split_string at a character that is not ' ', by where it is.
LEMMA CutAt ==
  ASSUME NEW s \in Text, NEW c, c # " "
  PROVE  LET t == trim(s)
             cut == Until(t, 1, {c})
         IN split_string(s, c)
              = [name |-> SubSeq(t, 1, cut - 1), accessor |-> From(t, cut + 1)]
<1>1. trim(s) \in Text
  BY TrimIsText
<1>. QED BY <1>1, c # " " DEF split_string

\* A part of a text is all digits just when the text is, from its first place to
\* its last.
LEMMA PartDigits ==
  ASSUME NEW t \in Text, NEW a \in 1..Len(t) + 1, NEW b \in a - 1..Len(t)
  PROVE  all_digits(SubSeq(t, a, b)) <=> \A k \in a..b : t[k] \in Digit
<1>0. Len(t) \in Nat /\ a \in Nat /\ b \in Nat /\ 1 <= a /\ a <= b + 1 /\ b <= Len(t)
  BY DEF Text
<1>1. PICK u : u = SubSeq(t, a, b)
  OBVIOUS
<1>2. u \in Text /\ Len(u) = b - a + 1 /\ \A i \in 1..b - a + 1 : u[i] = t[a + i - 1]
  BY <1>1, PartIsText
<1>3. DOMAIN u = 1..b - a + 1
  BY <1>2 DEF Text
<1>4. ASSUME \A i \in DOMAIN u : u[i] \in Digit, NEW k \in a..b PROVE t[k] \in Digit
  <2>1. PICK i : i = k - a + 1
    OBVIOUS
  <2>2. i \in 1..b - a + 1 /\ a + i - 1 = k
    BY <1>0, <2>1
  <2>. QED BY <1>2, <1>3, <1>4, <2>2
<1>5. ASSUME \A k \in a..b : t[k] \in Digit, NEW i \in DOMAIN u PROVE u[i] \in Digit
  <2>1. i \in 1..b - a + 1
    BY <1>3
  <2>2. a + i - 1 \in a..b
    BY <1>0, <2>1
  <2>. QED BY <1>2, <1>5, <2>1, <2>2
<1>. QED BY <1>1, <1>4, <1>5 DEF all_digits

LEMMA PointIsNoDigit == "." \notin Digit /\ "." # " "
  BY DEF Digit

\* isfloat cuts at the first point, so what it accepts has no other one.
LEMMA FloatIs ==
  ASSUME NEW s \in Text, NEW t, t = trim(s),
         NEW points, points = {k \in DOMAIN t : t[k] = "."}
  PROVE  isfloat(s) <=>
           /\ \A k \in DOMAIN t : t[k] \in Digit \cup {"."}
           /\ Cardinality(points) <= 1
<1>0. t \in Text /\ t = trim(s) /\ Len(t) \in Nat /\ DOMAIN t = 1..Len(t)
      /\ points = {k \in DOMAIN t : t[k] = "."}
  <2>1. t \in Text
    BY TrimIsText, t = trim(s)
  <2>. QED BY <2>1, t = trim(s), points = {k \in DOMAIN t : t[k] = "."} DEF Text
<1>1. PICK cut : cut = Until(t, 1, {"."})
  OBVIOUS
<1>2. /\ cut \in 1..Len(t) + 1 /\ cut \in Nat
      /\ \A k \in 1..cut - 1 : t[k] # "."
      /\ cut <= Len(t) => t[cut] = "."
  <2>1. 1 \in 1..Len(t) + 1
    BY <1>0
  <2>2. /\ cut \in 1..Len(t) + 1
        /\ \A k \in 1..cut - 1 : t[k] \notin {"."}
        /\ cut <= Len(t) => t[cut] \in {"."}
    BY <1>0, <1>1, <2>1, UntilIs
  <2>3. cut \in Nat
    BY <1>0, <2>2
  <2>. QED BY <2>2, <2>3
<1>3. isfloat(s) <=> all_digits(SubSeq(t, 1, cut - 1)) /\ all_digits(From(t, cut + 1))
  <2>1. split_string(s, ".")
          = [name |-> SubSeq(t, 1, cut - 1), accessor |-> From(t, cut + 1)]
    BY <1>0, <1>1, CutAt, PointIsNoDigit
  <2>2. PICK pair : pair = split_string(s, ".")
    OBVIOUS
  <2>3. pair = [name |-> SubSeq(t, 1, cut - 1), accessor |-> From(t, cut + 1)]
    BY <2>1, <2>2
  <2>4. pair.name = SubSeq(t, 1, cut - 1) /\ pair.accessor = From(t, cut + 1)
    BY <2>3
  <2>5. isfloat(s) <=> all_digits(pair.name) /\ all_digits(pair.accessor)
    BY <2>2 DEF isfloat
  <2>. QED BY <2>4, <2>5
<1>4. all_digits(SubSeq(t, 1, cut - 1)) <=> \A k \in 1..cut - 1 : t[k] \in Digit
  <2>1. 1 \in 1..Len(t) + 1 /\ cut - 1 \in 1 - 1..Len(t)
    BY <1>0, <1>2
  <2>. QED BY <1>0, <2>1, PartDigits
<1>5. all_digits(From(t, cut + 1)) <=> \A k \in cut + 1..Len(t) : t[k] \in Digit
  <2>1. CASE cut <= Len(t)
    <3>1. cut + 1 \in 1..Len(t) + 1 /\ Len(t) \in (cut + 1) - 1..Len(t)
      BY <1>0, <1>2, <2>1
    <3>. QED BY <1>0, <3>1, PartDigits DEF From
  <2>2. CASE ~(cut <= Len(t))
    <3>1. From(t, cut + 1) = <<>>
      BY <1>0, <1>2, <2>2 DEF From, Text
    <3>2. \A k \in cut + 1..Len(t) : FALSE
      BY <1>0, <1>2, <2>2
    <3>. QED BY <3>1, <3>2 DEF all_digits
  <2>. QED BY <2>1, <2>2
<1>6. IsFiniteSet(points) /\ Cardinality(points) \in Nat
  <2>1. points \subseteq 1..Len(t)
    BY <1>0
  <2>2. IsFiniteSet(1..Len(t))
    BY <1>0, FS_Interval
  <2>. QED BY <2>1, <2>2, FS_Subset, FS_CardinalityType
<1>7. ASSUME \A k \in 1..cut - 1 : t[k] \in Digit,
             \A k \in cut + 1..Len(t) : t[k] \in Digit
      PROVE  /\ \A k \in DOMAIN t : t[k] \in Digit \cup {"."}
             /\ Cardinality(points) <= 1
  <2>1. \A k \in DOMAIN t : k = cut \/ k \in 1..cut - 1 \/ k \in cut + 1..Len(t)
    BY <1>0, <1>2
  <2>2. \A k \in DOMAIN t : k = cut \/ t[k] \in Digit
    BY <1>7, <2>1
  <2>3. \A k \in DOMAIN t : k = cut => t[k] = "."
    BY <1>0, <1>2
  <2>4. points \subseteq {cut}
    BY <1>0, <2>2, PointIsNoDigit
  <2>5. Cardinality(points) <= Cardinality({cut}) /\ Cardinality({cut}) = 1
    BY <2>4, FS_Subset, FS_Singleton
  <2>. QED BY <1>6, <2>2, <2>3, <2>5
<1>8. ASSUME \A k \in DOMAIN t : t[k] \in Digit \cup {"."}, Cardinality(points) <= 1
      PROVE  /\ \A k \in 1..cut - 1 : t[k] \in Digit
             /\ \A k \in cut + 1..Len(t) : t[k] \in Digit
  <2>1. ASSUME NEW k \in 1..cut - 1 PROVE t[k] \in Digit
    <3>1. k \in DOMAIN t
      BY <1>0, <1>2
    <3>. QED BY <1>2, <1>8, <3>1
  <2>2. ASSUME NEW k \in cut + 1..Len(t) PROVE t[k] \in Digit
    <3>1. k \in DOMAIN t /\ cut \in DOMAIN t /\ k # cut /\ cut <= Len(t)
      BY <1>0, <1>2
    <3>2. SUFFICES ASSUME t[k] = "." PROVE FALSE
      BY <1>8, <3>1
    <3>3. {cut, k} \subseteq points
      BY <1>0, <1>2, <3>1, <3>2
    <3>4. Cardinality({cut, k}) <= Cardinality(points)
      BY <1>6, <3>3, FS_Subset
    <3>5. Cardinality({cut, k}) = 2
      <4>1. IsFiniteSet({cut}) /\ Cardinality({cut}) = 1 /\ k \notin {cut}
        BY <3>1, FS_Singleton
      <4>2. Cardinality({cut} \cup {k}) = Cardinality({cut}) + 1
        BY <4>1, FS_AddElement
      <4>3. {cut, k} = {cut} \cup {k}
        OBVIOUS
      <4>4. Cardinality({cut, k}) = 1 + 1
        BY <4>1, <4>2, <4>3, Zenon
      <4>. QED BY <4>4
    <3>6. 2 <= Cardinality(points)
      BY <3>4, <3>5
    <3>. QED BY <1>6, <1>8, <3>6
  <2>. QED BY <2>1, <2>2
<1>. QED BY <1>3, <1>4, <1>5, <1>7, <1>8

\* What isfloat and isnumber accept, of every text: isfloat digits and at most one
\* point, isnumber nothing that isfloat does not.
THEOREM FloatsAreDigitsHolds == Spec => []FloatsAreDigits
<1>1. ASSUME buffer \in Text PROVE FloatsAreDigits
  <2>1. PICK t : t = trim(buffer)
    OBVIOUS
  <2>2. PICK points : points = {k \in DOMAIN t : t[k] = "."}
    OBVIOUS
  <2>3. isfloat(buffer) <=> /\ \A k \in DOMAIN t : t[k] \in Digit \cup {"."}
                            /\ Cardinality(points) <= 1
    BY <1>1, <2>1, <2>2, FloatIs
  <2>4. Range(t) \subseteq Digit \cup {"."}
          <=> \A k \in DOMAIN t : t[k] \in Digit \cup {"."}
    BY DEF Range
  <2>5. isnumber(buffer) => isfloat(buffer)
    <3>1. SUFFICES ASSUME all_digits(buffer) PROVE isfloat(buffer)
      BY DEF isnumber
    <3>2. PICK b, last \in Nat : Core(buffer, b, last)
      BY <1>1, TrimIs
    <3>3. b \in 1..Len(buffer) + 1 /\ last \in b - 1..Len(buffer)
          /\ t = SubSeq(buffer, b, last)
      BY <2>1, <3>2 DEF Core
    <3>4. \A k \in b..last : buffer[k] \in Digit
      <4>1. Len(buffer) \in Nat /\ DOMAIN buffer = 1..Len(buffer)
        BY <1>1 DEF Text
      <4>2. \A k \in b..last : k \in DOMAIN buffer
        BY <3>3, <4>1
      <4>. QED BY <3>1, <4>2 DEF all_digits
    <3>5. \A k \in DOMAIN t : t[k] \in Digit
      BY <1>1, <3>3, <3>4, PartDigits DEF all_digits
    <3>6. points = {}
      BY <2>2, <3>5, PointIsNoDigit
    <3>7. Cardinality(points) <= 1
      BY <3>6, FS_EmptySet
    <3>. QED BY <2>3, <3>5, <3>7
  <2>. QED BY <2>1, <2>2, <2>3, <2>4, <2>5 DEF FloatsAreDigits
<1>. QED BY <1>1, BufferIsText, PTL

-----------------------------------------------------------------------------
(* Words with a quoted part *)

LEMMA UntilStops ==
  ASSUME NEW w \in Text, NEW k \in 1..Len(w), NEW x \in k..Len(w), NEW C, w[x] \in C
  PROVE  Until(w, k, C) \in k..x
<1>0. Len(w) \in Nat /\ k \in Nat /\ x \in Nat /\ 1 <= k /\ k <= x /\ x <= Len(w)
      /\ w[x] \in C
  BY DEF Text
<1>1. PICK j : j = Until(w, k, C)
  OBVIOUS
<1>2. j \in k..Len(w) + 1 /\ \A i \in k..j - 1 : w[i] \notin C
  <2>1. k \in 1..Len(w) + 1
    BY <1>0
  <2>. QED BY <1>1, <2>1, UntilIs
<1>3. x \notin k..j - 1
  BY <1>0, <1>2
<1>4. j \in k..x
  BY <1>0, <1>2, <1>3
<1>. QED BY <1>1, <1>4

Quote == "\""
Opens(s, b) == b <= Len(s) /\ s[b] = Quote

\* token_quotes: the word that begins at b ends before e, and a quote that opens
\* it closes at q.
Scanned(s, b, q, e) ==
  /\ token_quotes(s, 1) = [word |-> SubSeq(s, b, e - 1), next |-> e]
  /\ b \in 1..Len(s) + 1
  /\ b <= Len(s) => s[b] \notin White
  /\ ~Opens(s, b) => q = b
  /\ Opens(s, b) => \/ q = 0 /\ \A k \in b + 1..Len(s) : s[k] = Quote => s[k - 1] = "'"
                    \/ q \in b + 1..Len(s) /\ s[q] = Quote
  /\ q = 0 => e = 0
  /\ q # 0 => e = skip_to_white(s, q)

LEMMA ScannedIs ==
  ASSUME NEW s \in Text, NEW b, b = skip_white(s, 1)
  PROVE  \E q, e : Scanned(s, b, q, e)
<1>0. Len(s) \in Nat /\ 1 \in 1..Len(s) + 1 /\ s \in Text
  BY DEF Text
<1>1. b \in 1..Len(s) + 1 /\ (b <= Len(s) => s[b] \notin White)
  BY <1>0, PastIs, b = skip_white(s, 1) DEF skip_white
<1>2. PICK q : q = IF Opens(s, b) THEN skip_quoted(s, b, Quote) ELSE b
  OBVIOUS
<1>3. PICK e : e = IF q = 0 THEN 0 ELSE skip_to_white(s, q)
  OBVIOUS
<1>4. token_quotes(s, 1) = [word |-> SubSeq(s, b, e - 1), next |-> e]
  BY <1>2, <1>3, b = skip_white(s, 1) DEF token_quotes, Opens, Quote
<1>5. Opens(s, b) =>
        \/ q = 0 /\ \A k \in b + 1..Len(s) : s[k] = Quote => s[k - 1] = "'"
        \/ q \in b + 1..Len(s) /\ s[q] = Quote
  <2>1. SUFFICES ASSUME Opens(s, b)
                 PROVE  \/ q = 0 /\ \A k \in b + 1..Len(s) : s[k] = Quote => s[k - 1] = "'"
                        \/ q \in b + 1..Len(s) /\ s[q] = Quote
    OBVIOUS
  <2>2. PICK closing : closing = {k \in b + 1..Len(s) : s[k] = Quote /\ s[k - 1] # "'"}
    OBVIOUS
  <2>3. q = IF closing = {} THEN 0 ELSE Min(closing)
    BY <1>2, <2>1, <2>2 DEF skip_quoted, Quote
  <2>4. CASE closing = {}
    <3>1. \A k \in b + 1..Len(s) : s[k] = Quote => s[k - 1] = "'"
      BY <2>2, <2>4, Zenon
    <3>. QED BY <2>3, <2>4, <3>1
  <2>5. CASE closing # {}
    <3>1. closing \subseteq Nat
      <4>1. \A k \in b + 1..Len(s) : k \in Nat
        BY <1>0, <1>1
      <4>2. \A k \in closing : k \in b + 1..Len(s)
        BY <2>2
      <4>. QED BY <4>1, <4>2
    <3>2. q \in closing
      BY <2>3, <2>5, <3>1, LeastIs
    <3>. QED BY <2>2, <3>2, Zenon
  <2>. QED BY <2>4, <2>5
<1>6. ~Opens(s, b) => q = b
  BY <1>2
<1>7. Scanned(s, b, q, e)
  BY <1>1, <1>3, <1>4, <1>5, <1>6 DEF Scanned
<1>. QED BY <1>7

\* The word of token_quotes goes on where the word of token ends, and holds white
\* only up to the quote that closes it.
LEMMA QuotedScan ==
  ASSUME NEW s \in Text, NEW b, b = skip_white(s, 1), NEW q, NEW e,
         Scanned(s, b, q, e), NEW e0, e0 = skip_to_white(s, b), q # 0
  PROVE  /\ e0 \in b..Len(s) + 1 /\ e \in e0..Len(s) + 1
         /\ Opens(s, b) => e0 # b
         /\ ~Opens(s, b) => e = e0
         /\ \A j \in b..e - 1 : s[j] \in White => Opens(s, b) /\ q \in j..e - 1 /\ s[q] = Quote
<1>0. Len(s) \in Nat /\ s \in Text /\ b \in 1..Len(s) + 1 /\ b \in Nat /\ 1 <= b
  <2>1. Len(s) \in Nat /\ b \in 1..Len(s) + 1
    BY Scanned(s, b, q, e) DEF Scanned, Text
  <2>. QED BY <2>1
<1>1. /\ b <= Len(s) => s[b] \notin White
      /\ ~Opens(s, b) => q = b
      /\ Opens(s, b) => q \in b + 1..Len(s) /\ s[q] = Quote
      /\ e = skip_to_white(s, q)
  BY Scanned(s, b, q, e), q # 0 DEF Scanned
<1>2. q \in b..Len(s) + 1 /\ q \in 1..Len(s) + 1 /\ q \in Nat
  <2>1. CASE Opens(s, b)
    <3>1. q \in b + 1..Len(s)
      BY <1>1, <2>1
    <3>. QED BY <1>0, <3>1
  <2>2. CASE ~Opens(s, b)
    <3>1. q = b
      BY <1>1, <2>2
    <3>. QED BY <1>0, <3>1
  <2>. QED BY <2>1, <2>2
<1>3. /\ e0 \in b..Len(s) + 1
      /\ e0 <= Len(s) => s[e0] \in White
  BY <1>0, UntilIs, e0 = skip_to_white(s, b) DEF skip_to_white
<1>4. /\ e \in q..Len(s) + 1
      /\ \A k \in q..e - 1 : s[k] \notin White
      /\ e <= Len(s) => s[e] \in White
  BY <1>0, <1>1, <1>2, UntilIs DEF skip_to_white
<1>5. e \in e0..Len(s) + 1
  <2>1. CASE e = Len(s) + 1
    BY <1>0, <1>3, <2>1
  <2>2. CASE e # Len(s) + 1
    <3>1. e \in b..Len(s) /\ b \in 1..Len(s) /\ e <= Len(s)
      BY <1>0, <1>2, <1>4, <2>2
    <3>2. e0 \in b..e
      BY <1>0, <1>4, <3>1, UntilStops, e0 = skip_to_white(s, b) DEF skip_to_white
    <3>. QED BY <1>0, <3>1, <3>2
  <2>. QED BY <2>1, <2>2
<1>6. Opens(s, b) => e0 # b
  BY <1>0, <1>1, <1>3 DEF Opens
<1>7. ~Opens(s, b) => e = e0
  BY <1>1, e0 = skip_to_white(s, b)
<1>8. ASSUME NEW j \in b..e - 1, s[j] \in White
      PROVE  Opens(s, b) /\ q \in j..e - 1 /\ s[q] = Quote
  <2>1. j \in Nat /\ e \in Nat /\ b <= j /\ j <= e - 1
    BY <1>0, <1>2, <1>4
  <2>2. j < q
    <3>1. ~(j \in q..e - 1)
      BY <1>4, <1>8
    <3>. QED BY <1>2, <2>1, <3>1
  <2>3. Opens(s, b)
    <3>1. q # b
      BY <1>0, <1>2, <2>1, <2>2
    <3>. QED BY <1>1, <3>1
  <2>4. q \in b + 1..Len(s) /\ s[q] = Quote
    BY <1>1, <2>3
  <2>5. s[q] \notin White
    BY <2>4, QuoteIsNotWhite DEF Quote
  <2>6. e # q
    <3>1. q <= Len(s)
      BY <1>0, <2>4
    <3>. QED BY <1>4, <2>5, <3>1
  <2>7. q \in j..e - 1
    BY <1>2, <1>4, <2>1, <2>2, <2>6
  <2>. QED BY <2>3, <2>4, <2>7
<1>. QED BY <1>3, <1>5, <1>6, <1>7, <1>8

LEMMA QuotedPart ==
  ASSUME NEW s \in Text
  PROVE  LET plain == token(s, 1)
             quoted == token_quotes(s, 1)
         IN /\ quoted.next # 0 =>
                 /\ IsPrefix(plain.word, quoted.word)
                 /\ quoted # plain => plain.word[1] = "\""
                 /\ \A k \in DOMAIN quoted.word :
                      quoted.word[k] \in White =>
                        /\ skip_to_char(quoted.word, k, "\"") # 0
                        /\ skip_to_char_or_white(quoted.word, 1, "\"") = 1
            /\ quoted.next = 0 =>
                 \A k \in Past(s, 1, White) + 1..Len(s) :
                    s[k] = "\"" => s[k - 1] = "'"
<1>1. PICK b : b = skip_white(s, 1)
  OBVIOUS
<1>2. PICK q, e : Scanned(s, b, q, e)
  BY <1>1, ScannedIs
<1>3. PICK e0 : e0 = skip_to_white(s, b)
  OBVIOUS
<1>4. PICK plain : plain = token(s, 1)
  OBVIOUS
<1>5. PICK quoted : quoted = token_quotes(s, 1)
  OBVIOUS
<1>6. plain = [word |-> SubSeq(s, b, e0 - 1), next |-> e0]
  BY <1>1, <1>3, <1>4 DEF token
<1>7. quoted = [word |-> SubSeq(s, b, e - 1), next |-> e]
  BY <1>2, <1>5 DEF Scanned
<1>8. plain.word = SubSeq(s, b, e0 - 1)
  BY <1>6
<1>9. quoted.word = SubSeq(s, b, e - 1) /\ quoted.next = e
  BY <1>7
<1>10. Len(s) \in Nat /\ s \in Seq(STRING) /\ b \in 1..Len(s) + 1 /\ b \in Nat /\ 1 <= b
  <2>1. Len(s) \in Nat /\ s \in Seq(STRING) /\ b \in 1..Len(s) + 1
    BY <1>2 DEF Scanned, Text
  <2>. QED BY <2>1
<1>11. CASE q = 0
  <2>1. e = 0
    BY <1>2, <1>11 DEF Scanned
  <2>2. Opens(s, b)
    <3>1. q # b
      BY <1>10, <1>11
    <3>. QED BY <1>2, <3>1 DEF Scanned
  <2>3. q \notin b + 1..Len(s)
    BY <1>10, <1>11
  <2>4. \A k \in b + 1..Len(s) : s[k] = Quote => s[k - 1] = "'"
    BY <1>2, <2>2, <2>3 DEF Scanned
  <2>5. b = Past(s, 1, White)
    BY <1>1 DEF skip_white
  <2>6. \A k \in Past(s, 1, White) + 1..Len(s) : s[k] = "\"" => s[k - 1] = "'"
    BY <2>4, <2>5 DEF Quote
  <2>7. quoted.next = 0
    BY <1>9, <2>1
  <2>. QED BY <1>4, <1>5, <2>6, <2>7
<1>12. CASE q # 0
  <2>1. /\ e0 \in b..Len(s) + 1 /\ e \in e0..Len(s) + 1
        /\ Opens(s, b) => e0 # b
        /\ ~Opens(s, b) => e = e0
        /\ \A j \in b..e - 1 : s[j] \in White =>
             Opens(s, b) /\ q \in j..e - 1 /\ s[q] = Quote
    BY <1>1, <1>2, <1>3, <1>12, QuotedScan
  <2>2. e0 \in Nat /\ e \in Nat /\ b <= e0 /\ e0 <= e /\ e <= Len(s) + 1 /\ e # 0
    BY <1>10, <2>1
  <2>3. IsPrefix(plain.word, quoted.word)
    <3>1. PICK f, g : f = e0 - 1 /\ g = e - 1
      OBVIOUS
    <3>2. b \in 1..Len(s) + 1 /\ f \in b - 1..Len(s) /\ g \in f..Len(s)
          /\ f + 1 \in 1..Len(s) + 1 /\ g \in (f + 1) - 1..Len(s)
      BY <1>10, <2>2, <3>1
    <3>3. SubSeq(s, b, f) \o SubSeq(s, f + 1, g) = SubSeq(s, b, g)
      BY <1>10, <3>2, PartsJoin
    <3>4. SubSeq(s, b, f) \in Text /\ SubSeq(s, f + 1, g) \in Text
      BY <3>2, PartIsText
    <3>5. IsPrefix(SubSeq(s, b, f), SubSeq(s, b, g))
      BY <3>3, <3>4, PrefixIs
    <3>. QED BY <1>8, <1>9, <3>1, <3>5
  <2>4. ASSUME quoted # plain PROVE plain.word[1] = Quote
    <3>1. Opens(s, b)
      BY <1>6, <1>7, <2>1, <2>4
    <3>2. e0 # b
      BY <2>1, <3>1
    <3>3. PICK f : f = e0 - 1
      OBVIOUS
    <3>4. f \in b - 1..Len(s) /\ 1 \in 1..f - b + 1 /\ b + 1 - 1 = b
      BY <1>10, <2>2, <3>2, <3>3
    <3>5. SubSeq(s, b, f)[1] = s[b + 1 - 1]
      BY <1>10, <3>4, PartIsText
    <3>. QED BY <1>8, <3>1, <3>3, <3>4, <3>5 DEF Opens
  <2>5. ASSUME NEW k \in DOMAIN quoted.word, quoted.word[k] \in White
        PROVE  /\ skip_to_char(quoted.word, k, Quote) # 0
               /\ skip_to_char_or_white(quoted.word, 1, Quote) = 1
    <3>1. PICK g : g = e - 1
      OBVIOUS
    <3>2. PICK w : w = SubSeq(s, b, g)
      OBVIOUS
    <3>3. w \in Text /\ Len(w) = g - b + 1 /\ DOMAIN w = 1..Len(w)
          /\ \A i \in 1..g - b + 1 : w[i] = s[b + i - 1]
      <4>1. g \in b - 1..Len(s)
        BY <1>10, <2>2, <3>1
      <4>2. w \in Text /\ Len(w) = g - b + 1
            /\ \A i \in 1..g - b + 1 : w[i] = s[b + i - 1]
        BY <1>10, <3>2, <4>1, PartIsText
      <4>. QED BY <4>2 DEF Text
    <3>4. w = quoted.word
      BY <1>9, <3>1, <3>2
    <3>5. k \in 1..g - b + 1 /\ w[k] \in White
      BY <2>5, <3>3, <3>4
    <3>6. PICK j : j = b + k - 1
      OBVIOUS
    <3>7. j \in b..e - 1 /\ s[j] \in White /\ k \in Nat /\ g \in Int
      <4>1. j \in b..e - 1 /\ k \in Nat /\ g \in Int
        BY <1>10, <2>2, <3>1, <3>5, <3>6
      <4>. QED BY <3>3, <3>5, <3>6, <4>1
    <3>8. Opens(s, b) /\ q \in j..e - 1 /\ s[q] = Quote
      BY <2>1, <3>7
    <3>9. PICK x : x = q - b + 1
      OBVIOUS
    <3>10. x \in k..Len(w) /\ k \in 1..Len(w) /\ w[x] = Quote
      <4>1. x \in 1..g - b + 1 /\ x \in k..g - b + 1 /\ b + x - 1 = q
        BY <1>10, <2>2, <3>1, <3>5, <3>6, <3>7, <3>8, <3>9
      <4>. QED BY <3>3, <3>5, <3>8, <4>1
    <3>11. skip_to_char(w, k, Quote) # 0
      <4>1. PICK u : u = Until(w, k, {Quote})
        OBVIOUS
      <4>2. u \in k..x
        BY <3>3, <3>10, <4>1, UntilStops
      <4>3. u <= Len(w) /\ u # 0
        <5>1. Len(w) \in Nat
          BY <3>3 DEF Text
        <5>. QED BY <3>10, <4>2, <5>1
      <4>. QED BY <4>1, <4>3 DEF skip_to_char
    <3>12. skip_to_char_or_white(w, 1, Quote) = 1
      <4>1. PICK C : C = White \cup {Quote}
        OBVIOUS
      <4>2. 1 \in 1..Len(w) /\ 1 \in 1..g - b + 1 /\ b + 1 - 1 = b /\ 1 <= Len(w)
        BY <1>10, <3>3, <3>5, <3>7
      <4>3. w[1] \in C
        BY <3>3, <3>8, <4>1, <4>2 DEF Opens
      <4>4. Until(w, 1, C) \in 1..1
        BY <3>3, <4>2, <4>3, UntilStops
      <4>5. Until(w, 1, C) = 1
        BY <4>4
      <4>. QED BY <4>1, <4>2, <4>5 DEF skip_to_char_or_white
    <3>. QED BY <3>4, <3>11, <3>12
  <2>6. quoted.next # 0
    BY <1>9, <2>2
  <2>. QED BY <1>4, <1>5, <2>3, <2>4, <2>5, <2>6 DEF Quote
<1>. QED BY <1>11, <1>12

\* For every text: token_quotes takes what token takes, and more of it only up to
\* the quote that closes one at its beginning.
THEOREM QuotedPartHolds == Spec => []QuotedPartIsWhole
<1>1. buffer \in Text => QuotedPartIsWhole
  BY QuotedPart DEF QuotedPartIsWhole
<1>. QED BY <1>1, BufferIsText, PTL

-----------------------------------------------------------------------------
(* Quotes of a line *)

\* One turn of factor_quotes' loop, in a text of any length: of the double quotes in
\* the line at i the first and the last stay, those between become single ones, and
\* nothing else changes; the next turn begins behind the line's end, if there is
\* something.
THEOREM LineIsFactored ==
  ASSUME NEW s \in Text, NEW i \in 1..Len(s) + 1,
         NEW l, l = line_factor_quotes(s, i),
         NEW end, end = Until(s, i, {"\n"})
  PROVE  /\ DOMAIN l.text = DOMAIN s
         /\ \A k \in DOMAIN s :
              l.text[k] # s[k] =>
                /\ l.text[k] = "'" /\ s[k] = Quote
                /\ \E a, z \in i..end - 1 : /\ a < k /\ k < z
                                            /\ l.text[a] = Quote /\ l.text[z] = Quote
         /\ \A a, k, z \in i..end - 1 :
              a < k /\ k < z /\ l.text[a] = Quote /\ l.text[z] = Quote
                => l.text[k] # Quote
         /\ l.next = IF end < Len(s) THEN end + 1 ELSE 0
<1>0. Len(s) \in Nat /\ DOMAIN s = 1..Len(s) /\ i \in Nat /\ 1 <= i /\ s \in Text
      /\ i <= Len(s) + 1
  BY DEF Text
<1>1. end \in i..Len(s) + 1 /\ end \in Nat
  <2>1. end \in i..Len(s) + 1
    BY UntilIs, end = Until(s, i, {"\n"})
  <2>. QED BY <1>0, <2>1
<1>2. PICK quotes : quotes = {k \in i..end - 1 : s[k] = Quote}
  OBVIOUS
<1>3. PICK last : last = Max({i} \cup quotes)
  OBVIOUS
<1>4. PICK first : first = Min(quotes)
  OBVIOUS
<1>5. PICK out : out = [k \in DOMAIN s |->
                          IF last > i /\ k \in quotes /\ first < k /\ k < last
                          THEN "'" ELSE s[k]]
  OBVIOUS
<1>6. PICK next : next = IF end <= Len(s) THEN end + 1 ELSE end
  OBVIOUS
<1>7. l = [text |-> out, next |-> IF next <= Len(s) THEN next ELSE 0]
  BY <1>2, <1>3, <1>4, <1>5, <1>6, l = line_factor_quotes(s, i),
     end = Until(s, i, {"\n"}) DEF line_factor_quotes, Quote
<1>8. l.text = out /\ l.next = IF next <= Len(s) THEN next ELSE 0
  BY <1>7
<1>9. l.next = IF end < Len(s) THEN end + 1 ELSE 0
  BY <1>0, <1>1, <1>6, <1>8
<1>10. \A k \in quotes : k \in i..end - 1 /\ k \in DOMAIN s /\ k \in Nat /\ i <= k
                         /\ s[k] = Quote
  <2>1. \A k \in i..end - 1 : k \in DOMAIN s /\ k \in Nat /\ i <= k
    BY <1>0, <1>1
  <2>2. \A k \in quotes : k \in i..end - 1 /\ s[k] = Quote
    BY <1>2
  <2>. QED BY <2>1, <2>2
<1>11. quotes # {} => first \in quotes /\ \A k \in quotes : first <= k
  <2>1. quotes \subseteq Nat
    BY <1>10
  <2>. QED BY <1>4, <2>1, LeastIs
<1>12. quotes # {} => last \in quotes /\ \A k \in quotes : k <= last
  <2>1. SUFFICES ASSUME quotes # {} PROVE last \in quotes /\ \A k \in quotes : k <= last
    OBVIOUS
  <2>2. PICK S : S = {i} \cup quotes
    OBVIOUS
  <2>3. S \subseteq 0..Len(s) + 1 /\ S # {}
    <3>1. i \in 0..Len(s) + 1
      BY <1>0
    <3>2. \A k \in quotes : k \in 0..Len(s) + 1
      BY <1>0, <1>10
    <3>. QED BY <2>2, <3>1, <3>2
  <2>4. last \in S /\ \A k \in S : k <= last
    <3>1. Len(s) + 1 \in Nat
      BY <1>0
    <3>. QED BY <1>3, <2>2, <2>3, <3>1, GreatestIs
  <2>5. last \in quotes
    <3>1. first \in quotes /\ first <= last /\ i <= first /\ first \in Nat
      BY <1>10, <1>11, <2>1, <2>2, <2>4
    <3>2. last = i => first = i
      BY <1>0, <3>1
    <3>. QED BY <2>2, <2>4, <3>1, <3>2
  <2>. QED BY <2>2, <2>4, <2>5
<1>13. quotes # {} => out[first] = Quote /\ out[last] = Quote
  <2>1. SUFFICES ASSUME quotes # {} PROVE out[first] = Quote /\ out[last] = Quote
    OBVIOUS
  <2>2. first \in DOMAIN s /\ first \in Nat /\ s[first] = Quote
        /\ last \in DOMAIN s /\ last \in Nat /\ s[last] = Quote
    BY <1>10, <1>11, <1>12, <2>1
  <2>3. ~(first < first) /\ ~(last < last)
    BY <2>2
  <2>. QED BY <1>5, <2>2, <2>3
<1>14. ASSUME NEW k \in DOMAIN s, out[k] # s[k]
       PROVE  /\ out[k] = "'" /\ s[k] = Quote
              /\ \E a, z \in i..end - 1 : /\ a < k /\ k < z
                                          /\ out[a] = Quote /\ out[z] = Quote
  <2>1. k \in quotes /\ first < k /\ k < last /\ out[k] = "'"
    BY <1>5, <1>14
  <2>2. first \in i..end - 1 /\ last \in i..end - 1
    BY <1>10, <1>11, <1>12, <2>1
  <2>3. out[first] = Quote /\ out[last] = Quote
    BY <1>13, <2>1
  <2>4. s[k] = Quote
    BY <1>10, <2>1
  <2>. QED BY <2>1, <2>2, <2>3, <2>4
<1>15. ASSUME NEW a \in i..end - 1, NEW k \in i..end - 1, NEW z \in i..end - 1,
              a < k, k < z, out[a] = Quote, out[z] = Quote
       PROVE  out[k] # Quote
  <2>1. a \in DOMAIN s /\ k \in DOMAIN s /\ z \in DOMAIN s
        /\ a \in Nat /\ k \in Nat /\ z \in Nat
    BY <1>0, <1>1
  <2>2. "'" # Quote
    BY DEF Quote
  <2>3. \A x \in i..end - 1 : x \in DOMAIN s /\ out[x] = Quote => x \in quotes
    BY <1>2, <1>5, <2>2
  <2>4. a \in quotes /\ z \in quotes
    BY <1>15, <2>1, <2>3
  <2>5. SUFFICES ASSUME k \in quotes PROVE out[k] # Quote
    BY <2>1, <2>3
  <2>6. first <= a /\ z <= last /\ first \in Nat /\ last \in Nat /\ i <= a
    BY <1>10, <1>11, <1>12, <2>4
  <2>7. last > i /\ first < k /\ k < last
    BY <1>0, <1>15, <2>1, <2>6
  <2>8. out[k] = "'"
    BY <1>5, <2>1, <2>5, <2>7
  <2>. QED BY <2>2, <2>8
<1>16. DOMAIN out = DOMAIN s
  BY <1>5
<1>. QED BY <1>8, <1>9, <1>14, <1>15, <1>16

=============================================================================
