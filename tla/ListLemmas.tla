---------------------------- MODULE ListLemmas ----------------------------
(***************************************************************************)
(* What the Redis list commands, as the models write them, keep of a list. *)
(***************************************************************************)
EXTENDS SequencesExt, Integers, SequenceTheorems, FiniteSetTheorems, WellFoundedInduction, TLAPS

LEMMA InToSet ==
  ASSUME NEW S, NEW s \in Seq(S)
  PROVE  /\ \A x : x \in ToSet(s) <=> \E i \in 1..Len(s) : s[i] = x
         /\ ToSet(s) \subseteq S
  BY DEF ToSet

LEMMA ConcatAt ==
  ASSUME NEW S, NEW s \in Seq(S), NEW t \in Seq(S)
  PROVE  /\ s \o t \in Seq(S)
         /\ Len(s \o t) = Len(s) + Len(t)
         /\ \A i \in 1..(Len(s) + Len(t)) :
              (s \o t)[i] = IF i <= Len(s) THEN s[i] ELSE t[i - Len(s)]
  OBVIOUS

(* RPUSH, and the concatenation of what several LRANGEs return. *)
LEMMA ConcatKeeps ==
  ASSUME NEW S, NEW s \in Seq(S), NEW t \in Seq(S)
  PROVE  /\ s \o t \in Seq(S)
         /\ ToSet(s \o t) = ToSet(s) \cup ToSet(t)
<1>1. /\ s \o t \in Seq(S)
      /\ Len(s \o t) = Len(s) + Len(t)
      /\ \A i \in 1..(Len(s) + Len(t)) :
           (s \o t)[i] = IF i <= Len(s) THEN s[i] ELSE t[i - Len(s)]
  BY ConcatAt
<1>2. ASSUME NEW x \in ToSet(s \o t)
      PROVE  x \in ToSet(s) \cup ToSet(t)
  <2>1. PICK i \in 1..(Len(s) + Len(t)) : (s \o t)[i] = x
    BY <1>1, <1>2, InToSet
  <2>2. CASE i <= Len(s)
    BY <1>1, <2>1, <2>2, InToSet
  <2>3. CASE i > Len(s)
    <3>1. i - Len(s) \in 1..Len(t) /\ t[i - Len(s)] = x
      BY <1>1, <2>1, <2>3
    <3>2. QED
      BY <3>1, InToSet
  <2>4. QED
    BY <2>1, <2>2, <2>3
<1>3. ASSUME NEW x \in ToSet(s)
      PROVE  x \in ToSet(s \o t)
  <2>1. PICK i \in 1..Len(s) : s[i] = x
    BY <1>3, InToSet
  <2>2. i \in 1..Len(s \o t) /\ (s \o t)[i] = x
    BY <1>1, <2>1
  <2>3. QED
    BY <1>1, <2>2, InToSet
<1>4. ASSUME NEW x \in ToSet(t)
      PROVE  x \in ToSet(s \o t)
  <2>1. PICK i \in 1..Len(t) : t[i] = x
    BY <1>4, InToSet
  <2>2. Len(s) + i \in 1..Len(s \o t) /\ (s \o t)[Len(s) + i] = x
    BY <1>1, <2>1
  <2>3. QED
    BY <1>1, <2>2, InToSet
<1>5. QED
  BY <1>1, <1>2, <1>3, <1>4

(* LPUSH of a batch. *)
LEMMA ReverseKeeps ==
  ASSUME NEW S, NEW s \in Seq(S)
  PROVE  Reverse(s) \in Seq(S) /\ ToSet(Reverse(s)) = ToSet(s)
<1>1. Reverse(s) \in Seq(S) /\ Len(Reverse(s)) = Len(s)
  BY DEF Reverse
<1>2. \A i \in 1..Len(s) : (Len(s) - i) + 1 \in 1..Len(s) /\ Reverse(s)[i] = s[(Len(s) - i) + 1]
  BY DEF Reverse
<1>3. ASSUME NEW x \in ToSet(Reverse(s))
      PROVE  x \in ToSet(s)
  <2>1. PICK i \in 1..Len(s) : Reverse(s)[i] = x
    BY <1>1, <1>3, InToSet
  <2>2. QED
    BY <1>2, <2>1, InToSet
<1>4. ASSUME NEW x \in ToSet(s)
      PROVE  x \in ToSet(Reverse(s))
  <2>1. PICK i \in 1..Len(s) : s[i] = x
    BY <1>4, InToSet
  <2>2. (Len(s) - i) + 1 \in 1..Len(s) /\ Reverse(s)[(Len(s) - i) + 1] = x
    BY <1>2, <2>1
  <2>3. QED
    BY <1>1, <2>2, InToSet
<1>5. QED
  BY <1>1, <1>3, <1>4

LEMMA FrontOf ==
  ASSUME NEW S, NEW s \in Seq(S), s # <<>>
  PROVE  /\ Len(s) \in Nat /\ Len(s) > 0 /\ Last(s) = s[Len(s)]
         /\ Front(s) \in Seq(S) /\ Len(Front(s)) = Len(s) - 1
         /\ \A i \in 1..(Len(s) - 1) : Front(s)[i] = s[i]
<1>1. Len(s) \in Nat /\ Len(s) > 0 /\ Last(s) = s[Len(s)]
  BY DEF Last
<1> DEFINE a == SubSeq(s, 1, Len(s) - 1)
<1>2. Len(s) - 1 \in Int /\ \A i \in 1..(Len(s) - 1) : s[i] \in S
  BY <1>1
<1>3. a \in Seq(S) /\ Len(a) = IF 1 <= Len(s) - 1 THEN (Len(s) - 1) - 1 + 1 ELSE 0
  BY <1>2, SubSeqProperties
<1>4. \A i \in 1..(Len(s) - 1) : a[i] = s[i]
  BY <1>1
<1>5. Front(s) = a
  BY DEF Front
<1> HIDE DEF a
<1> QED
  BY <1>1, <1>3, <1>4, <1>5

(* BRPOPLPUSH takes the tail of one list, LINDEX -1 reads it. *)
LEMMA TailOfList ==
  ASSUME NEW S, NEW s \in Seq(S), s # <<>>
  PROVE  /\ Last(s) \in S /\ Last(s) \in ToSet(s)
         /\ Front(s) \in Seq(S)
         /\ ToSet(s) = ToSet(Front(s)) \cup {Last(s)}
<1>1. Len(s) \in Nat /\ Len(s) > 0 /\ Last(s) = s[Len(s)]
  BY FrontOf
<1>2. /\ Front(s) \in Seq(S) /\ Len(Front(s)) = Len(s) - 1
      /\ \A i \in 1..(Len(s) - 1) : Front(s)[i] = s[i]
  BY FrontOf
<1>3. Last(s) \in S /\ Last(s) \in ToSet(s)
  BY <1>1, InToSet
<1>4. ASSUME NEW x \in ToSet(Front(s))
      PROVE  x \in ToSet(s)
  <2>1. PICK i \in 1..(Len(s) - 1) : Front(s)[i] = x
    BY <1>2, <1>4, InToSet
  <2>2. i \in 1..Len(s) /\ s[i] = x
    BY <1>1, <1>2, <2>1
  <2>3. QED
    BY <2>2, InToSet
<1>5. ASSUME NEW x \in ToSet(s), x # Last(s)
      PROVE  x \in ToSet(Front(s))
  <2>1. PICK i \in 1..Len(s) : s[i] = x
    BY <1>5, InToSet
  <2>2. i \in 1..(Len(s) - 1) /\ Front(s)[i] = x
    BY <1>1, <1>2, <1>5, <2>1
  <2>3. QED
    BY <1>2, <2>2, InToSet
<1>6. QED
  BY <1>2, <1>3, <1>4, <1>5

LEMMA LeastElement ==
  ASSUME NEW I \in SUBSET Nat, I # {}
  PROVE  \E n \in I : \A m \in I : n <= m
<1> DEFINE Less == {ij \in Nat \X Nat : ij[1] < ij[2]}
<1>1. IsWellFoundedOn(Less, Nat)
  BY NatLessThanWellFounded DEF OpToRel
<1>2. PICK n \in I : \A m \in I : ~ (<<m, n>> \in Less)
  BY <1>1, WFMin
<1>3. \A m \in I : n <= m
  <2>1. ASSUME NEW m \in I, m < n
        PROVE  FALSE
    <3>1. m \in Nat /\ n \in Nat /\ <<m, n>> \in Nat \X Nat
      OBVIOUS
    <3>2. <<m, n>>[1] = m /\ <<m, n>>[2] = n
      OBVIOUS
    <3>3. <<m, n>> \in Less
      BY <2>1, <3>1, <3>2
    <3>4. QED
      BY <1>2, <3>3
  <2>2. QED
    BY <2>1
<1>4. QED
  BY <1>2, <1>3

LEMMA LeastExists ==
  ASSUME NEW I \in SUBSET Nat, I # {}
  PROVE  Min(I) \in I
  BY LeastElement DEF Min

(* LREM with count=1 takes out the job it is given and no other. *)
LEMMA RemoveFirstKeeps ==
  ASSUME NEW S, NEW s \in Seq(S), NEW e
  PROVE  /\ RemoveFirst(s, e) \in Seq(S)
         /\ ToSet(RemoveFirst(s, e)) \subseteq ToSet(s)
         /\ ToSet(s) \subseteq ToSet(RemoveFirst(s, e)) \cup {e}
         /\ e \notin ToSet(s) => RemoveFirst(s, e) = s
<1>1. CASE ~ \E i \in 1..Len(s) : s[i] = e
  BY <1>1, InToSet DEF RemoveFirst
<1>2. CASE \E i \in 1..Len(s) : s[i] = e
  <2> DEFINE I == {i \in 1..Len(s) : s[i] = e}
             k == Min(I)
             r == RemoveFirst(s, e)
             a == SubSeq(s, 1, k - 1)
             b == SubSeq(s, k + 1, Len(s))
  <2>1. k \in I
    <3>1. I \in SUBSET Nat /\ I # {}
      BY <1>2
    <3>2. QED
      BY <3>1, LeastExists
  <2>2. r = a \o b
    BY <1>2, <2>1 DEF RemoveFirst, SelectInSeq, RemoveAt
  <2>3. k \in 1..Len(s) /\ s[k] = e /\ Len(s) \in Nat
    BY <2>1
  <2> HIDE DEF k, I, r
  <2>4. a \in Seq(S) /\ Len(a) = k - 1 /\ \A i \in 1..(k - 1) : a[i] = s[i]
    BY <2>3
  <2>5. b \in Seq(S) /\ Len(b) = Len(s) - k /\ \A i \in 1..(Len(s) - k) : b[i] = s[k + i]
    BY <2>3
  <2> HIDE DEF a, b
  <2>6. r \in Seq(S) /\ ToSet(r) = ToSet(a) \cup ToSet(b)
    BY <2>2, <2>4, <2>5, ConcatKeeps
  <2>7. ASSUME NEW x \in ToSet(a)
        PROVE  x \in ToSet(s)
    <3>1. PICK i \in 1..Len(a) : a[i] = x
      BY <2>4, <2>7, InToSet
    <3>2. i \in 1..Len(s) /\ s[i] = x
      BY <2>3, <2>4, <3>1
    <3>3. QED
      BY <3>2, InToSet
  <2>8. ASSUME NEW x \in ToSet(b)
        PROVE  x \in ToSet(s)
    <3>1. PICK i \in 1..Len(b) : b[i] = x
      BY <2>5, <2>8, InToSet
    <3>2. k + i \in 1..Len(s) /\ s[k + i] = x
      BY <2>3, <2>5, <3>1
    <3>3. QED
      BY <3>2, InToSet
  <2>9. ASSUME NEW x \in ToSet(s), x # e
        PROVE  x \in ToSet(a) \cup ToSet(b)
    <3>1. PICK i \in 1..Len(s) : s[i] = x
      BY <2>9, InToSet
    <3>2. CASE i < k
      <4>1. i \in 1..Len(a) /\ a[i] = x
        BY <2>3, <2>4, <3>1, <3>2
      <4>2. QED
        BY <2>4, <4>1, InToSet
    <3>3. CASE i > k
      <4>1. i - k \in 1..Len(b) /\ b[i - k] = x
        BY <2>3, <2>5, <3>1, <3>3
      <4>2. QED
        BY <2>5, <4>1, InToSet
    <3>4. QED
      BY <2>3, <2>9, <3>1, <3>2, <3>3
  <2>10. e \in ToSet(s)
    BY <2>3, InToSet
  <2>11. QED
    BY <2>6, <2>7, <2>8, <2>9, <2>10 DEF r
<1>3. QED
  BY <1>1, <1>2
-----------------------------------------------------------------------------
(* Lists without repetition. *)
(* LREM with count=1, position by position.                                 *)
LEMMA RemoveFirstShifts ==
  ASSUME NEW S, NEW s \in Seq(S), NEW e \in ToSet(s)
  PROVE  \E k \in 1..Len(s) :
           /\ s[k] = e
           /\ Len(RemoveFirst(s, e)) = Len(s) - 1
           /\ \A i \in 1..(Len(s) - 1) : RemoveFirst(s, e)[i] = IF i < k THEN s[i] ELSE s[i + 1]
<1> DEFINE I == {i \in 1..Len(s) : s[i] = e}
           k == Min(I)
           r == RemoveFirst(s, e)
           a == SubSeq(s, 1, k - 1)
           b == SubSeq(s, k + 1, Len(s))
<1>1. \E i \in 1..Len(s) : s[i] = e
  BY InToSet
<1>2. k \in 1..Len(s) /\ s[k] = e /\ Len(s) \in Nat
  <2>1. I \in SUBSET Nat /\ I # {}
    BY <1>1
  <2>2. k \in I
    BY <2>1, LeastExists
  <2> QED
    BY <2>2
<1>3. r = a \o b
  BY <1>1 DEF RemoveFirst, SelectInSeq, RemoveAt
<1> HIDE DEF k, I, r
<1>4. a \in Seq(S) /\ Len(a) = k - 1 /\ \A i \in 1..(k - 1) : a[i] = s[i]
  BY <1>2
<1>5. b \in Seq(S) /\ Len(b) = Len(s) - k /\ \A i \in 1..(Len(s) - k) : b[i] = s[k + i]
  BY <1>2
<1> HIDE DEF a, b
<1>6. /\ Len(r) = Len(a) + Len(b)
      /\ \A i \in 1..(Len(a) + Len(b)) : r[i] = IF i <= Len(a) THEN a[i] ELSE b[i - Len(a)]
  BY <1>3, <1>4, <1>5, ConcatAt
<1>7. Len(r) = Len(s) - 1
  BY <1>2, <1>4, <1>5, <1>6
<1>8. ASSUME NEW i \in 1..(Len(s) - 1)
      PROVE  r[i] = IF i < k THEN s[i] ELSE s[i + 1]
  <2>1. CASE i < k
    <3>1. i \in 1..(Len(a) + Len(b)) /\ i <= Len(a) /\ i \in 1..(k - 1)
      BY <1>2, <1>4, <1>5, <2>1
    <3> QED
      BY <1>4, <1>6, <2>1, <3>1
  <2>2. CASE i >= k
    <3>5. i \in Nat /\ k \in Nat /\ k <= i /\ i <= Len(s) - 1 /\ 1 <= k
      BY <1>2, <2>2
    <3>6. i \in 1..((k - 1) + (Len(s) - k)) /\ ~(i <= k - 1) /\ i - (k - 1) \in 1..(Len(s) - k)
      BY <1>2, <3>5
    <3>0. i \in 1..(Len(a) + Len(b)) /\ ~(i <= Len(a)) /\ i - (k - 1) \in 1..(Len(s) - k)
      BY <1>4, <1>5, <3>6, Zenon
    <3>3. r[i] = IF i <= Len(a) THEN a[i] ELSE b[i - Len(a)]
      BY <1>6, <3>0, Zenon
    <3>4. r[i] = b[i - Len(a)]
      BY <3>0, <3>3, Zenon
    <3>1. r[i] = b[i - (k - 1)] /\ i - (k - 1) \in 1..(Len(s) - k)
      BY <1>4, <3>0, <3>4, Zenon
    <3>2. b[i - (k - 1)] = s[k + (i - (k - 1))] /\ k + (i - (k - 1)) = i + 1
      BY <1>2, <1>5, <3>1
    <3> QED
      BY <1>2, <2>2, <3>1, <3>2
  <2> QED
    BY <1>2, <2>1, <2>2
<1> QED
  BY <1>2, <1>7, <1>8 DEF r

LEMMA RemoveOnly ==
  ASSUME NEW S, NEW e \in S
  PROVE  RemoveFirst(<<e>>, e) = <<>>
<1> DEFINE s == <<e>>
<1>1. s \in Seq(S) /\ Len(s) = 1 /\ s[1] = e
  OBVIOUS
<1> HIDE DEF s
<1>2. e \in ToSet(s)
  BY <1>1, InToSet
<1>3. RemoveFirst(s, e) \in Seq(S) /\ Len(RemoveFirst(s, e)) = 0
  BY <1>1, <1>2, RemoveFirstKeeps, RemoveFirstShifts
<1> QED
  BY <1>3 DEF s

(* No job twice in a list.                                                  *)
Distinct(s) == \A i, j \in DOMAIN s : s[i] = s[j] => i = j

LEMMA RemoveDistinct ==
  ASSUME NEW S, NEW s \in Seq(S), Distinct(s), NEW e
  PROVE  Distinct(RemoveFirst(s, e)) /\ e \notin ToSet(RemoveFirst(s, e))
<1> DEFINE r == RemoveFirst(s, e)
<1>1. CASE e \notin ToSet(s)
  BY <1>1, RemoveFirstKeeps
<1>2. CASE e \in ToSet(s)
  <2>1. PICK k \in 1..Len(s) :
           /\ s[k] = e
           /\ Len(r) = Len(s) - 1
           /\ \A i \in 1..(Len(s) - 1) : r[i] = IF i < k THEN s[i] ELSE s[i + 1]
    BY <1>2, RemoveFirstShifts
  <2>2. r \in Seq(S) /\ Len(s) \in Nat
    BY RemoveFirstKeeps
  <2> HIDE DEF r
  <2>3. \A i \in DOMAIN r : \E j \in 1..Len(s) : j # k /\ r[i] = s[j] /\ j = IF i < k THEN i ELSE i + 1
    BY <2>1, <2>2
  <2>4. Distinct(r)
    <3> SUFFICES ASSUME NEW i \in DOMAIN r, NEW j \in DOMAIN r, r[i] = r[j] PROVE i = j
      BY DEF Distinct
    <3>1. PICK v \in 1..Len(s) : v # k /\ r[i] = s[v] /\ v = IF i < k THEN i ELSE i + 1
      BY <2>3
    <3>2. PICK w \in 1..Len(s) : w # k /\ r[j] = s[w] /\ w = IF j < k THEN j ELSE j + 1
      BY <2>3
    <3>3. v \in DOMAIN s /\ w \in DOMAIN s
      OBVIOUS
    <3>4. v = w
      BY <3>1, <3>2, <3>3 DEF Distinct
    <3> QED
      BY <2>1, <2>2, <3>1, <3>2, <3>4
  <2>5. e \notin ToSet(r)
    <3> SUFFICES ASSUME NEW i \in 1..Len(r), r[i] = e PROVE FALSE
      BY <2>2, InToSet
    <3>1. PICK j \in 1..Len(s) : j # k /\ r[i] = s[j]
      BY <2>2, <2>3
    <3>2. j \in DOMAIN s /\ k \in DOMAIN s
      OBVIOUS
    <3> QED
      BY <2>1, <3>1, <3>2 DEF Distinct
  <2> QED
    BY <2>4, <2>5 DEF r
<1> QED
  BY <1>1, <1>2

LEMMA FrontDistinct ==
  ASSUME NEW S, NEW s \in Seq(S), s # <<>>, Distinct(s)
  PROVE  Distinct(Front(s)) /\ Last(s) \notin ToSet(Front(s))
<1>1. /\ Front(s) \in Seq(S) /\ Len(Front(s)) = Len(s) - 1 /\ Len(s) \in Nat /\ Len(s) > 0
      /\ \A i \in 1..(Len(s) - 1) : Front(s)[i] = s[i]
      /\ Last(s) = s[Len(s)]
  BY FrontOf
<1> DEFINE f == Front(s)
<1>2. /\ DOMAIN s = 1..Len(s) /\ DOMAIN f = 1..(Len(s) - 1)
      /\ \A i \in 1..(Len(s) - 1) : i \in 1..Len(s) /\ f[i] = s[i]
  BY <1>1
<1> HIDE DEF f
<1>3. Distinct(f)
  BY <1>2 DEF Distinct
<1>4. \A i \in 1..(Len(s) - 1) : s[i] # s[Len(s)]
  BY <1>1, <1>2 DEF Distinct
<1> QED
  BY <1>1, <1>3, <1>4, InToSet DEF f

LEMMA ConcatDistinct ==
  ASSUME NEW S, NEW s \in Seq(S), NEW t \in Seq(S), Distinct(s), Distinct(t),
         ToSet(s) \cap ToSet(t) = {}
  PROVE  Distinct(s \o t)
<1>1. /\ Len(s \o t) = Len(s) + Len(t) /\ s \o t \in Seq(S) /\ Len(s) \in Nat /\ Len(t) \in Nat
      /\ \A i \in 1..(Len(s) + Len(t)) :
           (s \o t)[i] = IF i <= Len(s) THEN s[i] ELSE t[i - Len(s)]
  BY ConcatAt
<1> DEFINE r == s \o t
<1> HIDE DEF r
<1> SUFFICES ASSUME NEW i \in DOMAIN r, NEW j \in DOMAIN r, r[i] = r[j] PROVE i = j
  BY DEF Distinct, r
<1>2. i \in 1..(Len(s) + Len(t)) /\ j \in 1..(Len(s) + Len(t))
  BY <1>1 DEF r
<1>3. CASE i <= Len(s) /\ j <= Len(s)
  BY <1>1, <1>2, <1>3 DEF Distinct, r
<1>4. CASE i > Len(s) /\ j > Len(s)
  <2>1. /\ i - Len(s) \in 1..Len(t) /\ r[i] = t[i - Len(s)]
        /\ j - Len(s) \in 1..Len(t) /\ r[j] = t[j - Len(s)]
    BY <1>1, <1>2, <1>4 DEF r
  <2>2. i - Len(s) \in DOMAIN t /\ j - Len(s) \in DOMAIN t
    BY <2>1
  <2>3. i - Len(s) = j - Len(s)
    BY <2>1, <2>2 DEF Distinct
  <2> QED
    BY <1>1, <1>2, <2>3
<1>5. ASSUME NEW v \in 1..Len(s), NEW w \in 1..(Len(s) + Len(t)), w > Len(s)
      PROVE  r[v] # r[w]
  <2>1. r[v] = s[v] /\ r[w] = t[w - Len(s)] /\ w - Len(s) \in 1..Len(t)
    BY <1>1, <1>5 DEF r
  <2>2. s[v] \in ToSet(s) /\ t[w - Len(s)] \in ToSet(t)
    BY <2>1, InToSet
  <2> QED
    BY <2>1, <2>2
<1> QED
  BY <1>1, <1>2, <1>3, <1>4, <1>5

LEMMA ShortList ==
  ASSUME NEW S, NEW s \in Seq(S), Len(s) <= 1, s # <<>>
  PROVE  s = <<Last(s)>>
<1>0. Len(s) \in Nat /\ Len(s) > 0 /\ Last(s) = s[Len(s)]
  BY FrontOf
<1>1. Len(s) = 1 /\ Last(s) = s[1]
  BY <1>0
<1>2. s = [i \in 1..1 |-> s[i]]
  BY <1>1
<1> QED
  BY <1>1, <1>2

LEMMA ReverseAt ==
  ASSUME NEW S, NEW s \in Seq(S)
  PROVE  /\ Reverse(s) \in Seq(S) /\ Len(Reverse(s)) = Len(s)
         /\ \A i \in 1..Len(s) : (Len(s) - i) + 1 \in 1..Len(s) /\ Reverse(s)[i] = s[(Len(s) - i) + 1]
  BY DEF Reverse

LEMMA ReverseDistinct ==
  ASSUME NEW S, NEW s \in Seq(S), Distinct(s)
  PROVE  Distinct(Reverse(s))
<1> DEFINE r == Reverse(s)
<1>1. /\ DOMAIN r = 1..Len(s) /\ DOMAIN s = 1..Len(s) /\ Len(s) \in Nat
      /\ \A i \in 1..Len(s) : (Len(s) - i) + 1 \in 1..Len(s) /\ r[i] = s[(Len(s) - i) + 1]
  BY ReverseAt
<1> HIDE DEF r
<1>2. ASSUME NEW i \in 1..Len(s), NEW j \in 1..Len(s), r[i] = r[j]
      PROVE  i = j
  <2>1. (Len(s) - i) + 1 = (Len(s) - j) + 1
    BY <1>1, <1>2 DEF Distinct
  <2> QED
    BY <1>1, <2>1
<1> QED
  BY <1>1, <1>2 DEF Distinct, r

-----------------------------------------------------------------------------
(* Lists from newest to oldest. *)
Descends(s) == \A i, j \in DOMAIN s : i < j => s[i] > s[j]

LEMMA ConcatDescends ==
  ASSUME NEW S, S \subseteq Nat, NEW s \in Seq(S), NEW t \in Seq(S), Descends(s), Descends(t),
         \A x \in ToSet(s), y \in ToSet(t) : x > y
  PROVE  Descends(s \o t)
<1>1. /\ Len(s \o t) = Len(s) + Len(t) /\ s \o t \in Seq(S) /\ Len(s) \in Nat /\ Len(t) \in Nat
      /\ \A i \in 1..(Len(s) + Len(t)) :
           (s \o t)[i] = IF i <= Len(s) THEN s[i] ELSE t[i - Len(s)]
  BY ConcatAt
<1>2. DOMAIN s = 1..Len(s) /\ DOMAIN t = 1..Len(t) /\ DOMAIN (s \o t) = 1..(Len(s) + Len(t))
  BY <1>1
<1> DEFINE u == s \o t
<1> HIDE DEF u
<1>3. ASSUME NEW i \in 1..(Len(s) + Len(t)), NEW j \in 1..(Len(s) + Len(t)), i < j
      PROVE  u[i] > u[j]
  <2>1. CASE j <= Len(s)
    <3>1. i \in 1..Len(s) /\ j \in 1..Len(s) /\ u[i] = s[i] /\ u[j] = s[j]
      BY <1>1, <1>3, <2>1 DEF u
    <3> QED
      BY <1>2, <1>3, <3>1 DEF Descends
  <2>2. CASE i > Len(s)
    <3>1. /\ i - Len(s) \in 1..Len(t) /\ j - Len(s) \in 1..Len(t) /\ i - Len(s) < j - Len(s)
          /\ u[i] = t[i - Len(s)] /\ u[j] = t[j - Len(s)]
      BY <1>1, <1>3, <2>2 DEF u
    <3> QED
      BY <1>2, <3>1 DEF Descends
  <2>3. CASE i <= Len(s) /\ j > Len(s)
    <3>1. /\ i \in 1..Len(s) /\ j - Len(s) \in 1..Len(t) /\ u[i] = s[i] /\ u[j] = t[j - Len(s)]
      BY <1>1, <1>3, <2>3 DEF u
    <3>2. u[i] \in ToSet(s) /\ u[j] \in ToSet(t)
      BY <3>1, InToSet
    <3> QED
      BY <3>2
  <2> QED
    BY <1>1, <1>3, <2>1, <2>2, <2>3
<1> QED
  BY <1>2, <1>3 DEF Descends, u

LEMMA FrontDescends ==
  ASSUME NEW S, S \subseteq Nat, NEW s \in Seq(S), s # <<>>, Descends(s)
  PROVE  Descends(Front(s)) /\ \A x \in ToSet(Front(s)) : Last(s) < x
<1>1. /\ Front(s) \in Seq(S) /\ Len(Front(s)) = Len(s) - 1 /\ Len(s) \in Nat /\ Len(s) > 0
      /\ \A i \in 1..(Len(s) - 1) : Front(s)[i] = s[i]
      /\ Last(s) = s[Len(s)]
  BY FrontOf
<1>2. DOMAIN s = 1..Len(s) /\ DOMAIN Front(s) = 1..(Len(s) - 1)
  BY <1>1
<1>3. Descends(Front(s))
  BY <1>1, <1>2 DEF Descends
<1>4. ASSUME NEW x \in ToSet(Front(s))
      PROVE  Last(s) < x
  <2>1. PICK i \in 1..Len(Front(s)) : Front(s)[i] = x
    BY <1>1, <1>4, InToSet
  <2>2. i \in 1..Len(s) /\ Len(s) \in 1..Len(s) /\ i < Len(s) /\ s[i] = x
    BY <1>1, <2>1
  <2>3. s[i] > s[Len(s)]
    BY <1>2, <2>2 DEF Descends
  <2>4. s[i] \in Nat /\ s[Len(s)] \in Nat
    <3>1. s[i] \in S /\ s[Len(s)] \in S
      BY <2>2
    <3> QED
      BY <3>1
  <2> QED
    BY <1>1, <2>2, <2>3, <2>4
<1> QED
  BY <1>3, <1>4

LEMMA RemoveDescends ==
  ASSUME NEW S, S \subseteq Nat, NEW s \in Seq(S), Descends(s), NEW e
  PROVE  Descends(RemoveFirst(s, e))
<1> DEFINE r == RemoveFirst(s, e)
<1>1. CASE e \notin ToSet(s)
  BY <1>1, RemoveFirstKeeps
<1>2. CASE e \in ToSet(s)
  <2>1. PICK k \in 1..Len(s) :
           /\ s[k] = e /\ Len(r) = Len(s) - 1
           /\ \A i \in 1..(Len(s) - 1) : r[i] = IF i < k THEN s[i] ELSE s[i + 1]
    BY <1>2, RemoveFirstShifts
  <2>2. r \in Seq(S) /\ Len(s) \in Nat
    BY RemoveFirstKeeps
  <2> HIDE DEF r
  <2>3. DOMAIN r = 1..(Len(s) - 1) /\ DOMAIN s = 1..Len(s)
    BY <2>1, <2>2
  <2>4. ASSUME NEW i \in 1..(Len(s) - 1), NEW j \in 1..(Len(s) - 1), i < j
        PROVE  r[i] > r[j]
    <3>1. PICK a \in 1..Len(s), b \in 1..Len(s) : r[i] = s[a] /\ r[j] = s[b] /\ a < b
      <4>1. CASE j < k
        <5>1. r[i] = s[i] /\ r[j] = s[j] /\ i \in 1..Len(s) /\ j \in 1..Len(s)
          BY <2>1, <2>2, <2>4, <4>1
        <5> QED
          BY <2>4, <5>1
      <4>2. CASE i >= k
        <5>1. r[i] = s[i + 1] /\ r[j] = s[j + 1] /\ i + 1 \in 1..Len(s) /\ j + 1 \in 1..Len(s)
          BY <2>1, <2>2, <2>4, <4>2
        <5> QED
          BY <2>4, <5>1
      <4>3. CASE i < k /\ j >= k
        <5>1. r[i] = s[i] /\ r[j] = s[j + 1] /\ i \in 1..Len(s) /\ j + 1 \in 1..Len(s)
          BY <2>1, <2>2, <2>4, <4>3
        <5> QED
          BY <2>4, <5>1
      <4> QED
        BY <2>4, <4>1, <4>2, <4>3
    <3> QED
      BY <2>3, <3>1 DEF Descends
  <2> QED
    BY <2>3, <2>4 DEF Descends, r
<1> QED
  BY <1>1, <1>2

LEMMA ShortDescends ==
  ASSUME NEW S, NEW s \in Seq(S), Len(s) <= 1
  PROVE  Descends(s)
<1>1. DOMAIN s = 1..Len(s) /\ Len(s) \in Nat
  OBVIOUS
<1> QED
  BY <1>1 DEF Descends

LEMMA OneDistinct ==
  ASSUME NEW S, NEW s \in Seq(S), Distinct(s), \A x, y \in ToSet(s) : x = y
  PROVE  Len(s) <= 1
<1>1. DOMAIN s = 1..Len(s) /\ Len(s) \in Nat
  OBVIOUS
<1>2. SUFFICES ASSUME Len(s) > 1
               PROVE  FALSE
  BY <1>1
<1>3. s[1] \in ToSet(s) /\ s[2] \in ToSet(s) /\ 1 \in 1..Len(s) /\ 2 \in 1..Len(s)
  BY <1>1, <1>2, InToSet
<1> QED
  BY <1>1, <1>3 DEF Distinct

-----------------------------------------------------------------------------
(* How often something is in a list. *)
Positions(s, x) == {i \in DOMAIN s : s[i] = x}

LEMMA PositionsFinite ==
  ASSUME NEW S, NEW s \in Seq(S), NEW x
  PROVE  IsFiniteSet(Positions(s, x)) /\ Cardinality(Positions(s, x)) \in Nat
<1>1. IsFiniteSet(1..Len(s)) /\ Positions(s, x) \in SUBSET (1..Len(s))
  <2>1. Len(s) \in Int /\ 1 \in Int /\ DOMAIN s = 1..Len(s)
    OBVIOUS
  <2> QED
    BY <2>1, FS_Interval DEF Positions
<1>2. IsFiniteSet(Positions(s, x))
  BY <1>1, FS_Subset
<1> QED
  BY <1>2, FS_CardinalityType

(* Two lists put together have it as often as both of them. *)
LEMMA CountConcat ==
  ASSUME NEW S, NEW s \in Seq(S), NEW t \in Seq(S), NEW x
  PROVE  Cardinality(Positions(s \o t, x)) = Cardinality(Positions(s, x)) + Cardinality(Positions(t, x))
<1> DEFINE n == Len(s)
           P == Positions(t, x)
           Q == {i \in (n + 1)..(n + Len(t)) : (s \o t)[i] = x}
           f == [i \in P |-> n + i]
<1>1. /\ Len(s \o t) = n + Len(t) /\ s \o t \in Seq(S) /\ n \in Nat /\ Len(t) \in Nat
      /\ \A i \in 1..(n + Len(t)) : (s \o t)[i] = IF i <= n THEN s[i] ELSE t[i - n]
  BY ConcatAt
<1>2. DOMAIN s = 1..n /\ DOMAIN t = 1..Len(t) /\ DOMAIN (s \o t) = 1..(n + Len(t))
  BY <1>1
<1> HIDE DEF n
<1>3. Positions(s \o t, x) = Positions(s, x) \cup Q
  <2>1. ASSUME NEW i
        PROVE  i \in Positions(s \o t, x) <=> i \in Positions(s, x) \/ i \in Q
    <3>1. CASE i \in 1..n
      <4>1. i \in 1..(n + Len(t)) /\ i <= n /\ i \notin (n + 1)..(n + Len(t))
        BY <1>1, <3>1
      <4> QED
        BY <1>1, <1>2, <3>1, <4>1 DEF Positions
    <3>2. CASE i \notin 1..n
      <4>1. i \in 1..(n + Len(t)) <=> i \in (n + 1)..(n + Len(t))
        BY <1>1, <3>2
      <4> QED
        BY <1>2, <3>2, <4>1 DEF Positions
    <3> QED
      BY <3>1, <3>2
  <2> QED
    BY <2>1
<1>4. Positions(s, x) \cap Q = {}
  <2>1. \A i \in 1..n : i \notin (n + 1)..(n + Len(t))
    BY <1>1
  <2> QED
    BY <1>2, <2>1 DEF Positions
<1>5. \A i \in (n + 1)..(n + Len(t)) : i - n \in 1..Len(t) /\ n + (i - n) = i /\ (s \o t)[i] = t[i - n]
  <2>1. ASSUME NEW i \in (n + 1)..(n + Len(t))
        PROVE  i - n \in 1..Len(t) /\ n + (i - n) = i /\ i \in 1..(n + Len(t)) /\ ~ (i <= n)
    BY <1>1
  <2> QED
    BY <1>1, <2>1
<1>6. \A i \in 1..Len(t) : n + i \in (n + 1)..(n + Len(t)) /\ (n + i) - n = i
  BY <1>1
<1>7. f \in [P -> Q]
  <2>1. ASSUME NEW i \in P
        PROVE  n + i \in Q
    BY <1>2, <1>5, <1>6 DEF Positions
  <2> QED
    BY <2>1
<1>8. \A i \in Q : \E k \in P : f[k] = i
  <2>1. ASSUME NEW i \in Q
        PROVE  i - n \in P /\ f[i - n] = i
    BY <1>2, <1>5 DEF Positions
  <2> QED
    BY <2>1
<1>9. \A i, k \in P : f[i] = f[k] => i = k
  <2>1. \A i, k \in P : i \in Nat /\ k \in Nat
    BY <1>1, <1>2 DEF Positions
  <2>2. \A i, k \in Nat : n + i = n + k => i = k
    BY <1>1
  <2> QED
    BY <2>1, <2>2
<1> HIDE DEF f, Q, P
<1>10. ExistsBijection(P, Q)
  <2>1. f \in Injection(P, Q)
    BY <1>7, <1>9 DEF Injection, IsInjective
  <2>2. f \in Surjection(P, Q)
    BY <1>7, <1>8 DEF Surjection
  <2> QED
    BY <2>1, <2>2 DEF ExistsBijection, Bijection
<1>11. IsFiniteSet(P) /\ IsFiniteSet(Positions(s, x)) /\ Cardinality(Positions(s, x)) \in Nat
       /\ Cardinality(P) \in Nat
  BY PositionsFinite DEF P
<1>12. IsFiniteSet(Q) /\ Cardinality(Q) = Cardinality(P)
  BY <1>10, <1>11, FS_Bijection
<1>13. Cardinality(Positions(s \o t, x)) = Cardinality(Positions(s, x)) + Cardinality(Q) - Cardinality({})
  BY <1>3, <1>4, <1>11, <1>12, FS_Union
<1> QED
  BY <1>11, <1>12, <1>13, FS_EmptySet DEF P

(* A list without repetition has it once or not at all. *)
LEMMA CountDistinct ==
  ASSUME NEW S, NEW s \in Seq(S), Distinct(s), NEW x
  PROVE  Cardinality(Positions(s, x)) = IF x \in ToSet(s) THEN 1 ELSE 0
<1>1. CASE x \notin ToSet(s)
  <2>1. Positions(s, x) = {}
    BY <1>1 DEF Positions, ToSet
  <2> QED
    BY <1>1, <2>1, FS_EmptySet
<1>2. CASE x \in ToSet(s)
  <2>1. PICK i \in DOMAIN s : s[i] = x
    BY <1>2 DEF ToSet
  <2>2. Positions(s, x) = {i}
    BY <2>1 DEF Positions, Distinct
  <2> QED
    BY <1>2, <2>2, FS_Singleton
<1> QED
  BY <1>1, <1>2

(* Without its last element a list has that one less. *)
LEMMA CountFront ==
  ASSUME NEW S, NEW s \in Seq(S), s # <<>>, NEW x
  PROVE  /\ Cardinality(Positions(s, x)) \in Nat
         /\ x = Last(s) => Cardinality(Positions(s, x)) = Cardinality(Positions(Front(s), x)) + 1
         /\ x # Last(s) => Cardinality(Positions(s, x)) = Cardinality(Positions(Front(s), x))
<1> DEFINE r == Front(s)
           n == Len(s)
<1>1. /\ r \in Seq(S) /\ Len(r) = n - 1 /\ n \in Nat /\ n > 0
      /\ \A i \in 1..(n - 1) : r[i] = s[i]
      /\ Last(s) = s[n]
  BY FrontOf
<1>2. DOMAIN r = 1..(n - 1) /\ DOMAIN s = 1..n /\ n \in DOMAIN s
  BY <1>1
<1>3. \A i : i \in DOMAIN s <=> i \in DOMAIN r \/ i = n
  BY <1>1, <1>2
<1>4. n \notin DOMAIN r
  BY <1>1, <1>2
<1>5. IsFiniteSet(Positions(r, x)) /\ IsFiniteSet(Positions(s, x)) /\ Cardinality(Positions(s, x)) \in Nat
  BY <1>1, PositionsFinite
<1> HIDE DEF r, n
<1>6. ASSUME x = Last(s)
      PROVE  Cardinality(Positions(s, x)) = Cardinality(Positions(r, x)) + 1
  <2>1. Positions(s, x) = Positions(r, x) \cup {n} /\ n \notin Positions(r, x)
    BY <1>1, <1>2, <1>3, <1>4, <1>6 DEF Positions
  <2> QED
    BY <1>5, <2>1, FS_AddElement
<1>7. ASSUME x # Last(s)
      PROVE  Positions(s, x) = Positions(r, x)
  BY <1>1, <1>2, <1>3, <1>7 DEF Positions
<1> QED
  BY <1>5, <1>6, <1>7 DEF r
=============================================================================
