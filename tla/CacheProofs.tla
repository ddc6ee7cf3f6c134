----------------------------- MODULE CacheProofs -----------------------------
(***************************************************************************)
(* What holds of the cache class for all keys, values, sizes and limits:   *)
(* what is linked is reachable, oversized overwrites included; without     *)
(* these the count is exact, the limit holds, the oldest go first and the  *)
(* class is a map that may forget.  Then that the content cache of a       *)
(* document is transparent and sound for any number of goroutines and for  *)
(* streams of any size, larger than the whole cache included.              *)
(***************************************************************************)
EXTENDS ContentCache, SequenceTheorems, FiniteSetTheorems, TLAPS

-----------------------------------------------------------------------------
(* Facts about Lists, the base of the proofs about the caches.             *)

\* RemoveAt closes the gap: positions before i stay, later ones move by one.
LEMMA RemoveAtFacts ==
  ASSUME NEW S, NEW s \in Seq(S), NEW i \in 1..Len(s)
  PROVE  /\ RemoveAt(s, i) \in Seq(S)
         /\ Len(RemoveAt(s, i)) = Len(s) - 1
         /\ \A j \in 1..Len(s)-1 :
              RemoveAt(s, i)[j] = IF j < i THEN s[j] ELSE s[j+1]
<1> DEFINE a == SubSeq(s, 1, i-1)
           b == SubSeq(s, i+1, Len(s))
<1>0. Len(s) \in Nat /\ \A j \in 1..Len(s) : s[j] \in S
  BY LenProperties, ElementOfSeq
<1>1. /\ a \in Seq(S)
      /\ Len(a) = i-1
      /\ \A j \in 1..i-1 : a[j] = s[j]
  <2>1. \A j \in 1..i-1 : s[j] \in S
    BY <1>0
  <2>2. 1 \in Int /\ i-1 \in Int /\ (1 <= i-1 \/ i = 1)
    BY <1>0
  <2> QED BY <2>1, <2>2, SubSeqProperties
<1>2. /\ b \in Seq(S)
      /\ Len(b) = Len(s) - i
      /\ \A j \in 1..Len(s)-i : b[j] = s[j+i]
  <2>1. \A j \in i+1..Len(s) : s[j] \in S
    BY <1>0
  <2>2. i+1 \in Int /\ Len(s) \in Int /\ (i+1 <= Len(s) \/ i = Len(s))
    BY <1>0
  <2> QED BY <1>0, <2>1, <2>2, SubSeqProperties
<1>3. RemoveAt(s, i) = a \o b
  BY DEF RemoveAt
<1> HIDE DEF a, b
<1>4. /\ a \o b \in Seq(S)
      /\ Len(a \o b) = Len(a) + Len(b)
      /\ \A j \in 1 .. Len(a) + Len(b) :
           (a \o b)[j] = IF j <= Len(a) THEN a[j] ELSE b[j - Len(a)]
  BY <1>1, <1>2, ConcatProperties
<1>5. Len(a) + Len(b) = Len(s) - 1
  BY <1>0, <1>1, <1>2
<1>6. ASSUME NEW j \in 1..Len(s)-1
      PROVE  (a \o b)[j] = IF j < i THEN s[j] ELSE s[j+1]
  <2>1. CASE j < i
    BY <1>0, <1>1, <1>4, <1>5, <2>1
  <2>2. CASE ~(j < i)
    <3>1. j - Len(a) \in 1..Len(s)-i /\ ~(j <= Len(a)) /\ j - Len(a) + i = j + 1
      BY <1>0, <1>1, <2>2
    <3> QED BY <1>2, <1>4, <1>5, <2>2, <3>1
  <2> QED BY <2>1, <2>2
<1> QED BY <1>3, <1>4, <1>5, <1>6

(***************************************************************************)
(* Without takes out exactly one element of a list without duplicates and  *)
(* adds none.                                                              *)
(***************************************************************************)
LEMMA WithoutFacts ==
  ASSUME NEW S, NEW s \in Seq(S), NEW e
  PROVE  /\ Without(s, e) \in Seq(S)
         /\ \A x : Occurs(Without(s, e), x) => Occurs(s, x)
         /\ \A x : Occurs(s, x) /\ x # e => Occurs(Without(s, e), x)
         /\ Distinct(s) => Distinct(Without(s, e)) /\ ~Occurs(Without(s, e), e)
<1>0. Len(s) \in Nat
  BY LenProperties
<1>1. CASE ~Occurs(s, e)
  BY <1>1 DEF Without
<1>2. CASE Occurs(s, e)
  <2> DEFINE i == CHOOSE i \in 1..Len(s) : s[i] = e
             r == RemoveAt(s, i)
  <2>1. i \in 1..Len(s) /\ s[i] = e
    BY <1>2 DEF Occurs
  <2>2. Without(s, e) = r
    BY <1>2 DEF Without
  <2> HIDE DEF i
  <2>3. /\ r \in Seq(S)
        /\ Len(r) = Len(s) - 1
        /\ \A j \in 1..Len(s)-1 : r[j] = IF j < i THEN s[j] ELSE s[j+1]
    BY <2>1, RemoveAtFacts
  <2> HIDE DEF r
  <2>4. \A x : Occurs(r, x) => Occurs(s, x)
    BY <1>0, <2>1, <2>3 DEF Occurs
  <2>5. ASSUME NEW x, Occurs(s, x), x # e
        PROVE  Occurs(r, x)
    <3>1. PICK j \in 1..Len(s) : s[j] = x
      BY <2>5 DEF Occurs
    <3>2. CASE j < i
      <4>1. j \in 1..Len(r) /\ r[j] = x
        BY <1>0, <2>1, <2>3, <3>1, <3>2
      <4> QED BY <4>1 DEF Occurs
    <3>3. CASE i < j
      <4>1. j-1 \in 1..Len(r) /\ r[j-1] = s[j-1+1] /\ j-1+1 = j
        BY <1>0, <2>1, <2>3, <3>1, <3>3
      <4> QED BY <3>1, <4>1 DEF Occurs
    <3>4. i # j
      BY <2>1, <2>5, <3>1
    <3> QED BY <1>0, <2>1, <3>2, <3>3, <3>4
  <2>6. ASSUME Distinct(s)
        PROVE  Distinct(r) /\ ~Occurs(r, e)
    <3>1. ASSUME NEW j \in 1..Len(r), NEW k \in 1..Len(r), r[j] = r[k]
          PROVE  j = k
      BY <1>0, <2>1, <2>3, <2>6, <3>1 DEF Distinct
    <3>2. ASSUME NEW j \in 1..Len(r)
          PROVE  r[j] # e
      BY <1>0, <2>1, <2>3, <2>6 DEF Distinct
    <3> QED BY <3>1, <3>2 DEF Distinct, Occurs
  <2> QED BY <2>2, <2>3, <2>4, <2>5, <2>6
<1> QED BY <1>1, <1>2

\* PushFront moves every element by one.
LEMMA ConsPositions ==
  ASSUME NEW S, NEW s \in Seq(S), NEW e \in S
  PROVE  /\ Cons(e, s) \in Seq(S)
         /\ Len(Cons(e, s)) = Len(s) + 1
         /\ \A i \in 1..Len(s)+1 : Cons(e, s)[i] = IF i = 1 THEN e ELSE s[i-1]
<1>0. Len(s) \in Nat
  BY LenProperties
<1> DEFINE c == Cons(e, s)
<1>1. <<e>> \in Seq(S) /\ Len(<<e>>) = 1 /\ <<e>>[1] = e
  OBVIOUS
<1>2. /\ <<e>> \o s \in Seq(S)
      /\ Len(<<e>> \o s) = Len(<<e>>) + Len(s)
      /\ \A i \in 1 .. Len(<<e>>) + Len(s) :
           (<<e>> \o s)[i] = IF i <= Len(<<e>>) THEN <<e>>[i] ELSE s[i - Len(<<e>>)]
  BY <1>1, ConcatProperties
<1>3. c = <<e>> \o s
  BY DEF Cons
<1> HIDE DEF c
<1>4. ASSUME NEW i \in 1..Len(s)+1
      PROVE  c[i] = IF i = 1 THEN e ELSE s[i-1]
  <2>1. i \in 1..Len(<<e>>)+Len(s) /\ (i <= Len(<<e>>) <=> i = 1)
    BY <1>0, <1>1
  <2>2. CASE i = 1
    BY <1>1, <1>2, <1>3, <2>1, <2>2
  <2>3. CASE i # 1
    <3>1. c[i] = s[i - Len(<<e>>)]
      BY <1>2, <1>3, <2>1, <2>3
    <3> QED BY <1>1, <2>3, <3>1
  <2> QED BY <2>2, <2>3
<1> QED BY <1>0, <1>1, <1>2, <1>3, <1>4 DEF c

\* PushFront adds one occurrence of its element, at the front.
LEMMA ConsFacts ==
  ASSUME NEW S, NEW s \in Seq(S), NEW e \in S
  PROVE  /\ Cons(e, s) \in Seq(S)
         /\ \A x : Occurs(Cons(e, s), x) <=> x = e \/ Occurs(s, x)
         /\ Distinct(s) /\ ~Occurs(s, e) => Distinct(Cons(e, s))
<1>0. Len(s) \in Nat
  BY LenProperties
<1> DEFINE c == Cons(e, s)
<1>1. /\ c \in Seq(S)
      /\ Len(c) = Len(s) + 1
      /\ \A i \in 1..Len(s)+1 : c[i] = IF i = 1 THEN e ELSE s[i-1]
  BY ConsPositions
<1> HIDE DEF c
<1>2. ASSUME NEW x
      PROVE  Occurs(c, x) <=> x = e \/ Occurs(s, x)
  <2>1. ASSUME Occurs(c, x), x # e
        PROVE  Occurs(s, x)
    <3>1. PICK i \in 1..Len(c) : c[i] = x
      BY <2>1 DEF Occurs
    <3>2. i-1 \in 1..Len(s) /\ s[i-1] = x
      BY <1>0, <1>1, <2>1, <3>1
    <3> QED BY <3>2 DEF Occurs
  <2>2. ASSUME x = e
        PROVE  Occurs(c, x)
    <3>1. 1 \in 1..Len(c) /\ c[1] = x
      BY <1>0, <1>1, <2>2
    <3> QED BY <3>1 DEF Occurs
  <2>3. ASSUME Occurs(s, x)
        PROVE  Occurs(c, x)
    <3>1. PICK i \in 1..Len(s) : s[i] = x
      BY <2>3 DEF Occurs
    <3>2. i+1 \in 1..Len(c) /\ c[i+1] = s[i+1-1] /\ i+1-1 = i
      BY <1>0, <1>1, <3>1
    <3> QED BY <3>1, <3>2 DEF Occurs
  <2> QED BY <2>1, <2>2, <2>3
<1>3. ASSUME Distinct(s), ~Occurs(s, e)
      PROVE  Distinct(c)
  <2>1. ASSUME NEW i \in 1..Len(c), NEW j \in 1..Len(c), c[i] = c[j]
        PROVE  i = j
    <3>1. CASE i = 1 /\ j # 1
      <4>1. j-1 \in 1..Len(s) /\ s[j-1] = e
        BY <1>0, <1>1, <2>1, <3>1
      <4> QED BY <1>3, <4>1 DEF Occurs
    <3>2. CASE j = 1 /\ i # 1
      <4>1. i-1 \in 1..Len(s) /\ s[i-1] = e
        BY <1>0, <1>1, <2>1, <3>2
      <4> QED BY <1>3, <4>1 DEF Occurs
    <3>3. CASE i # 1 /\ j # 1
      <4>1. i-1 \in 1..Len(s) /\ j-1 \in 1..Len(s) /\ s[i-1] = s[j-1]
        BY <1>0, <1>1, <2>1, <3>3
      <4>2. i-1 = j-1
        BY <1>3, <4>1 DEF Distinct
      <4> QED BY <1>0, <1>1, <4>2
    <3> QED BY <3>1, <3>2, <3>3
  <2> QED BY <2>1 DEF Distinct
<1> QED BY <1>1, <1>2, <1>3 DEF c

\* Front keeps every element but the last in its place.
LEMMA FrontPositions ==
  ASSUME NEW S, NEW s \in Seq(S), s # <<>>
  PROVE  /\ Front(s) \in Seq(S)
         /\ Len(Front(s)) = Len(s) - 1
         /\ \A i \in 1..Len(s)-1 : Front(s)[i] = s[i]
<1>0. Len(s) \in Nat \ {0} /\ \A j \in 1..Len(s) : s[j] \in S
  BY EmptySeq, LenProperties, ElementOfSeq
<1>1. \A j \in 1..Len(s)-1 : s[j] \in S
  BY <1>0
<1>2. 1 \in Int /\ Len(s)-1 \in Int /\ (1 <= Len(s)-1 \/ Len(s) = 1)
  <2>1. Len(s) \in Nat /\ Len(s) # 0
    BY <1>0
  <2>2. \A n \in Nat : n # 0 => 1 \in Int /\ n-1 \in Int /\ (1 <= n-1 \/ n = 1)
    OBVIOUS
  <2> QED BY <2>1, <2>2, Zenon
<1> QED BY <1>0, <1>1, <1>2, SubSeqProperties DEF Front

\* Front drops the last element of a list without duplicates.
LEMMA FrontFacts ==
  ASSUME NEW S, NEW s \in Seq(S), s # <<>>
  PROVE  /\ Front(s) \in Seq(S)
         /\ Last(s) \in S
         /\ Occurs(s, Last(s))
         /\ \A x : Occurs(Front(s), x) => Occurs(s, x)
         /\ \A x : Occurs(s, x) /\ x # Last(s) => Occurs(Front(s), x)
         /\ Distinct(s) => Distinct(Front(s)) /\ ~Occurs(Front(s), Last(s))
<1>0. Len(s) \in Nat \ {0} /\ \A j \in 1..Len(s) : s[j] \in S
  BY EmptySeq, LenProperties, ElementOfSeq
<1> DEFINE f == Front(s)
<1>1. /\ f \in Seq(S)
      /\ Len(f) = Len(s) - 1
      /\ \A i \in 1..Len(s)-1 : f[i] = s[i]
  BY FrontPositions
<1> HIDE DEF f
<1>2. Last(s) = s[Len(s)] /\ Len(s) \in 1..Len(s)
  BY <1>0 DEF Last
<1>3. ASSUME NEW x, Occurs(s, x), x # Last(s)
      PROVE  Occurs(f, x)
  BY <1>0, <1>1, <1>2, <1>3 DEF Occurs
<1>4. \A x : Occurs(f, x) => Occurs(s, x)
  BY <1>0, <1>1 DEF Occurs
<1>5. ASSUME Distinct(s)
      PROVE  Distinct(f) /\ ~Occurs(f, Last(s))
  BY <1>0, <1>1, <1>2, <1>5 DEF Distinct, Occurs
<1>6. Last(s) \in S /\ Occurs(s, Last(s))
  BY <1>0, <1>2 DEF Occurs
<1> QED BY <1>1, <1>3, <1>4, <1>5, <1>6 DEF f

(***************************************************************************)
(* j comes before k in s; and what the operations leave of that.           *)
(***************************************************************************)
Before(s, j, k) == \E m, n \in 1..Len(s) : s[m] = j /\ s[n] = k /\ m < n

LEMMA WithoutOrder ==
  ASSUME NEW S, NEW s \in Seq(S), NEW e, NEW j, NEW k
  PROVE  /\ Before(Without(s, e), j, k) => Before(s, j, k)
         /\ Before(s, j, k) /\ j # e /\ k # e => Before(Without(s, e), j, k)
<1>0. Len(s) \in Nat
  BY LenProperties
<1>1. CASE ~Occurs(s, e)
  BY <1>1 DEF Without
<1>2. CASE Occurs(s, e)
  <2> DEFINE i == CHOOSE i \in 1..Len(s) : s[i] = e
             r == RemoveAt(s, i)
  <2>1. i \in 1..Len(s) /\ s[i] = e
    BY <1>2 DEF Occurs
  <2>2. Without(s, e) = r
    BY <1>2 DEF Without
  <2> HIDE DEF i
  <2>3. /\ Len(r) = Len(s) - 1
        /\ \A p \in 1..Len(s)-1 : r[p] = IF p < i THEN s[p] ELSE s[p+1]
    BY <2>1, RemoveAtFacts
  <2> HIDE DEF r
  <2>4. ASSUME Before(r, j, k) PROVE Before(s, j, k)
    <3>1. PICK m \in 1..Len(r), n \in 1..Len(r) : r[m] = j /\ r[n] = k /\ m < n
      BY <2>4 DEF Before
    <3> DEFINE was(p) == IF p < i THEN p ELSE p+1
    <3>2. /\ was(m) \in 1..Len(s) /\ s[was(m)] = j
          /\ was(n) \in 1..Len(s) /\ s[was(n)] = k
          /\ was(m) < was(n)
      BY <1>0, <2>1, <2>3, <3>1
    <3> HIDE DEF was
    <3> QED BY <3>2 DEF Before
  <2>5. ASSUME Before(s, j, k), j # e, k # e PROVE Before(r, j, k)
    <3>1. PICK m \in 1..Len(s), n \in 1..Len(s) : s[m] = j /\ s[n] = k /\ m < n
      BY <2>5 DEF Before
    <3>2. m # i /\ n # i
      BY <2>1, <2>5, <3>1
    <3> DEFINE is(p) == IF p < i THEN p ELSE p-1
    <3>3. ASSUME NEW p \in 1..Len(s), p # i
          PROVE  is(p) \in 1..Len(r) /\ r[is(p)] = s[p]
      <4>1. CASE p < i
        BY <1>0, <2>1, <2>3, <4>1
      <4>2. CASE ~(p < i)
        <5>1. is(p) = p-1 /\ p-1 \in 1..Len(s)-1 /\ ~(p-1 < i) /\ p-1+1 = p
          BY <1>0, <2>1, <3>3, <4>2
        <5> QED BY <2>3, <5>1
      <4> QED BY <4>1, <4>2
    <3>4. is(m) < is(n)
      BY <1>0, <2>1, <3>1, <3>2
    <3> HIDE DEF is
    <3>5. /\ is(m) \in 1..Len(r) /\ r[is(m)] = j
          /\ is(n) \in 1..Len(r) /\ r[is(n)] = k
      BY <3>1, <3>2, <3>3
    <3> QED BY <3>4, <3>5 DEF Before
  <2> QED BY <2>2, <2>4, <2>5
<1> QED BY <1>1, <1>2

LEMMA ConsOrder ==
  ASSUME NEW S, NEW s \in Seq(S), NEW e \in S, NEW j, NEW k
  PROVE  Before(Cons(e, s), j, k) <=> (j = e /\ Occurs(s, k)) \/ Before(s, j, k)
<1> DEFINE c == Cons(e, s)
<1>0. Len(s) \in Nat
  BY LenProperties
<1>1. /\ Len(c) = Len(s) + 1
      /\ \A i \in 1..Len(s)+1 : c[i] = IF i = 1 THEN e ELSE s[i-1]
  BY ConsPositions
<1> HIDE DEF c
<1>2. ASSUME Before(c, j, k) PROVE (j = e /\ Occurs(s, k)) \/ Before(s, j, k)
  <2>1. PICK m \in 1..Len(c), n \in 1..Len(c) : c[m] = j /\ c[n] = k /\ m < n
    BY <1>2 DEF Before
  <2>2. n-1 \in 1..Len(s) /\ s[n-1] = k
    BY <1>0, <1>1, <2>1
  <2>3. CASE m = 1
    BY <1>0, <1>1, <2>1, <2>2, <2>3 DEF Occurs
  <2>4. CASE m # 1
    <3>1. m-1 \in 1..Len(s) /\ s[m-1] = j /\ m-1 < n-1
      BY <1>0, <1>1, <2>1, <2>4
    <3> QED BY <2>2, <3>1 DEF Before
  <2> QED BY <2>3, <2>4
<1>3. ASSUME NEW p \in 1..Len(s) PROVE p+1 \in 1..Len(c) /\ c[p+1] = s[p] /\ 1 < p+1
  <2>1. p+1 \in 1..Len(s)+1 /\ p+1 # 1 /\ p+1-1 = p
    BY <1>0
  <2> QED BY <1>1, <2>1
<1>4. ASSUME j = e, Occurs(s, k) PROVE Before(c, j, k)
  <2>1. PICK n \in 1..Len(s) : s[n] = k
    BY <1>4 DEF Occurs
  <2>2. 1 \in 1..Len(c) /\ c[1] = j
    BY <1>0, <1>1, <1>4
  <2> QED BY <1>3, <2>1, <2>2 DEF Before
<1>5. ASSUME Before(s, j, k) PROVE Before(c, j, k)
  <2>1. PICK m \in 1..Len(s), n \in 1..Len(s) : s[m] = j /\ s[n] = k /\ m < n
    BY <1>5 DEF Before
  <2>2. m+1 < n+1
    BY <2>1
  <2> QED BY <1>3, <2>1, <2>2 DEF Before
<1> QED BY <1>2, <1>4, <1>5 DEF c

LEMMA FrontOrder ==
  ASSUME NEW S, NEW s \in Seq(S), s # <<>>, NEW j, NEW k
  PROVE  /\ Before(Front(s), j, k) => Before(s, j, k)
         /\ Occurs(s, j) /\ j # Last(s) => Before(s, j, Last(s))
<1>0. Len(s) \in Nat \ {0} /\ \A i \in 1..Len(s) : s[i] \in S
  BY EmptySeq, LenProperties, ElementOfSeq
<1> DEFINE f == Front(s)
<1>1. Len(f) = Len(s) - 1 /\ \A i \in 1..Len(s)-1 : f[i] = s[i]
  BY FrontPositions
<1>2. Last(s) = s[Len(s)] /\ Len(s) \in 1..Len(s)
  BY <1>0 DEF Last
<1> HIDE DEF f
<1>3. Before(f, j, k) => Before(s, j, k)
  BY <1>0, <1>1 DEF Before
<1>4. ASSUME Occurs(s, j), j # Last(s) PROVE Before(s, j, Last(s))
  <2>1. PICK i \in 1..Len(s) : s[i] = j
    BY <1>4 DEF Occurs
  <2>2. i < Len(s)
    BY <1>0, <1>2, <1>4, <2>1
  <2> QED BY <1>2, <2>1, <2>2 DEF Before
<1> QED BY <1>3, <1>4 DEF f

-----------------------------------------------------------------------------
(* doc.LRUCache.                                                           *)

(***************************************************************************)
(* Types alone are not inductive: Evict subtracts the size of the last     *)
(* element's value, so that element must have one.  And the map has one    *)
(* for every linked key only because evicting a key, which deletes it from *)
(* the map, leaves no second element of the key behind.  A running Put     *)
(* keeps its own key unlinked, so that pushing it creates no duplicate.    *)
(***************************************************************************)
IInv ==
  /\ TypeOK
  /\ ListReachable
  /\ put # Idle => ~Linked(put.key)

LEMMA InitIInv == Init => IInv
<1> SUFFICES ASSUME Init PROVE IInv
  OBVIOUS
<1>1. TypeOK
  BY EmptySeq DEF Init, TypeOK
<1>2. Len(<<>>) = 0
  OBVIOUS
<1>3. Distinct(order) /\ \A k : ~Linked(k)
  BY <1>2 DEF Init, Distinct, Linked, Occurs
<1> QED BY <1>1, <1>3 DEF Init, IInv, ListReachable, ListInMap

\* Get moves one element: the same keys stay linked.
LEMMA GetIInv ==
  ASSUME IInv, NEW k \in Key, Get(k)
  PROVE  IInv'
<1> USE DEF IInv, TypeOK, ListReachable, ListInMap, Linked
<1>1. /\ Without(order, k) \in Seq(Key)
      /\ \A x : Occurs(Without(order, k), x) => Occurs(order, x)
      /\ Distinct(Without(order, k)) /\ ~Occurs(Without(order, k), k)
  BY WithoutFacts
<1>2. /\ Cons(k, Without(order, k)) \in Seq(Key)
      /\ \A x : Occurs(Cons(k, Without(order, k)), x) => x = k \/ Occurs(order, x)
      /\ Distinct(Cons(k, Without(order, k)))
  BY <1>1, ConsFacts
<1>3. /\ order' \in Seq(Key)
      /\ Distinct(order')
      /\ \A x : Occurs(order', x) => Occurs(order, x)
  <2>1. CASE Occurs(order, k)
    <3>1. order' = Cons(k, Without(order, k))
      BY <2>1 DEF Get
    <3> QED BY <1>2, <2>1, <3>1
  <2>2. CASE ~Occurs(order, k)
    <3>1. order' = order
      BY <2>2 DEF Get
    <3> QED BY <3>1
  <2> QED BY <2>1, <2>2
<1>4. recency' \in Seq(Key)
  <2>1. Without(recency, k) \in Seq(Key)
    BY WithoutFacts
  <2>2. Cons(k, Without(recency, k)) \in Seq(Key)
    BY <2>1, ConsFacts
  <2> QED BY <2>2 DEF Get, Used
<1>5. /\ items' = items /\ currentBytes' = currentBytes /\ put' = put /\ put = Idle
      /\ reply' = [key |-> k, value |-> items[k]]
  BY DEF Get
<1>6. TypeOK'
  BY <1>3, <1>4, <1>5
<1>7. ListInMap'
  BY <1>3, <1>5
<1> QED BY <1>3, <1>5, <1>6, <1>7

\* PutBegin unlinks its key, which stays in the map.
LEMMA PutBeginIInv ==
  ASSUME IInv, NEW k \in Key, NEW v \in Value, PutBegin(k, v)
  PROVE  IInv'
<1> USE DEF IInv, TypeOK, ListReachable, ListInMap, Linked
<1>1. /\ Without(order, k) \in Seq(Key)
      /\ \A x : Occurs(Without(order, k), x) => Occurs(order, x)
      /\ Distinct(Without(order, k)) /\ ~Occurs(Without(order, k), k)
  BY WithoutFacts
<1>2. /\ put' = [key |-> k, value |-> v]
      /\ items' = items /\ reply' = reply /\ recency' = recency
  BY DEF PutBegin
<1>3. CASE items[k] # NoValue
  <2>1. Size[items[k]] \in Nat
    BY <1>3, SizeAssumption
  <2>2. currentBytes' = currentBytes - Size[items[k]] /\ order' = Without(order, k)
    BY <1>3 DEF PutBegin
  <2>3. currentBytes' \in Int
    BY <2>1, <2>2
  <2>4. TypeOK'
    BY <1>1, <1>2, <2>2, <2>3 DEF PutCall
  <2> QED BY <1>1, <1>2, <2>2, <2>4
<1>4. CASE items[k] = NoValue
  <2>1. currentBytes' = currentBytes /\ order' = order
    BY <1>4 DEF PutBegin
  <2>2. ~Occurs(order, k)
    BY <1>4
  <2>3. TypeOK'
    BY <1>2, <2>1 DEF PutCall
  <2> QED BY <1>2, <2>1, <2>2, <2>3
<1> QED BY <1>3, <1>4

\* Evict takes the last key out of the map and out of the list.
LEMMA EvictIInv ==
  ASSUME IInv, Evict
  PROVE  IInv'
<1> USE DEF IInv, TypeOK, ListReachable, ListInMap, Linked
<1>1. /\ Front(order) \in Seq(Key)
      /\ Last(order) \in Key
      /\ Occurs(order, Last(order))
      /\ \A x : Occurs(Front(order), x) => Occurs(order, x)
      /\ Distinct(Front(order)) /\ ~Occurs(Front(order), Last(order))
  BY FrontFacts DEF Evict
<1>2. items[Last(order)] \in Value
  BY <1>1
<1>3. Size[items[Last(order)]] \in Nat
  BY <1>2, SizeAssumption
<1>4. /\ currentBytes' = currentBytes - Size[items[Last(order)]]
      /\ items' = [items EXCEPT ![Last(order)] = NoValue]
      /\ order' = Front(order)
      /\ put' = put /\ reply' = reply /\ recency' = recency
  BY DEF Evict
<1>5. currentBytes' \in Int
  BY <1>3, <1>4
<1>6. TypeOK'
  BY <1>1, <1>4, <1>5
<1>7. ListInMap'
  BY <1>1, <1>4
<1> QED BY <1>1, <1>4, <1>6, <1>7

\* PutStore links its key once, with the value it maps the key to.
LEMMA PutStoreIInv ==
  ASSUME IInv, PutStore
  PROVE  IInv'
<1> USE DEF IInv, TypeOK, ListReachable, ListInMap, Linked
<1>1. put.key \in Key /\ put.value \in Value /\ ~Occurs(order, put.key)
  BY DEF PutStore, PutCall
<1>2. /\ Cons(put.key, order) \in Seq(Key)
      /\ \A x : Occurs(Cons(put.key, order), x) <=> x = put.key \/ Occurs(order, x)
      /\ Distinct(Cons(put.key, order))
  <2>1. order \in Seq(Key) /\ Distinct(order)
    OBVIOUS
  <2> HIDE DEF IInv, TypeOK, ListReachable
  <2> QED BY <1>1, <2>1, ConsFacts
<1>3. Used(put.key) \in Seq(Key)
  <2>1. Without(recency, put.key) \in Seq(Key)
    BY WithoutFacts
  <2> QED BY <1>1, <2>1, ConsFacts DEF Used
<1>4. /\ items' = [items EXCEPT ![put.key] = put.value]
      /\ order' = Cons(put.key, order)
      /\ currentBytes' = currentBytes + Size[put.value]
      /\ put' = Idle /\ recency' = Used(put.key) /\ reply' = reply
  BY DEF PutStore
<1>5. currentBytes' \in Int
  <2>1. Size[put.value] \in Nat
    BY <1>1, SizeAssumption
  <2> QED BY <1>4, <2>1
<1>6. TypeOK'
  BY <1>1, <1>2, <1>3, <1>4, <1>5
<1>7. ListInMap'
  BY <1>1, <1>2, <1>4, NoValueAssumption
<1> QED BY <1>2, <1>4, <1>6, <1>7

LEMMA StepIInv == IInv /\ [Next]_vars => IInv'
<1> SUFFICES ASSUME IInv, [Next]_vars PROVE IInv'
  OBVIOUS
<1>1. ASSUME NEW k \in Key, GetCancelled(k)
      PROVE  IInv'
  BY <1>1 DEF GetCancelled, IInv, TypeOK, ListReachable, ListInMap, Linked
<1>2. CASE PutSkip
  BY <1>2 DEF PutSkip, IInv, TypeOK, ListReachable, ListInMap, Linked
<1>3. CASE UNCHANGED vars
  BY <1>3 DEF vars, IInv, TypeOK, ListReachable, ListInMap, Linked
<1> QED
  BY <1>1, <1>2, <1>3, GetIInv, PutBeginIInv, EvictIInv, PutStoreIInv DEF Next, PutStep

(***************************************************************************)
(* The types of the cache's state (cache.go:12-25), for every behaviour.   *)
(***************************************************************************)
THEOREM TypeCorrect == Spec => []TypeOK
<1>1. IInv => TypeOK
  BY DEF IInv
<1> QED BY <1>1, InitIInv, StepIInv, PTL DEF Spec

(***************************************************************************)
(* Every linked element is reachable through the map and no key is linked  *)
(* twice (cache.go:73-98), whatever the callers put, oversized values over *)
(* existing keys included.                                                 *)
(***************************************************************************)
THEOREM EveryElementReachable == Spec => []ListReachable
<1>1. IInv => ListReachable
  BY DEF IInv
<1> QED BY <1>1, InitIInv, StepIInv, PTL DEF Spec

-----------------------------------------------------------------------------
(* The bytes of a store.                                                   *)

LEMMA BytesOfOne ==
  ASSUME NEW k, NEW n \in Nat
  PROVE  IsFiniteSet({k} \X (1..n)) /\ Cardinality({k} \X (1..n)) = n
<1> DEFINE f == [i \in 1..n |-> <<k, i>>]
<1>1. IsFiniteSet(1..n) /\ Cardinality(1..n) = n
  BY FS_Interval
<1>2. f \in Bijection(1..n, {k} \X (1..n))
  <2>1. f \in [1..n -> {k} \X (1..n)]
    OBVIOUS
  <2>2. \A i \in 1..n : f[i] = <<k, i>>
    OBVIOUS
  <2>3. DOMAIN f = 1..n
    OBVIOUS
  <2> HIDE DEF f
  <2>4. \A i, j \in 1..n : f[i] = f[j] => i = j
    BY <2>2
  <2>5. \A p \in {k} \X (1..n) : \E i \in 1..n : f[i] = p
    <3>1. \A p \in {k} \X (1..n) : p[2] \in 1..n /\ p = <<k, p[2]>>
      OBVIOUS
    <3> QED BY <2>2, <3>1
  <2> QED BY <2>1, <2>3, <2>4, <2>5 DEF Bijection, Injection, Surjection, IsInjective
<1>3. ExistsBijection(1..n, {k} \X (1..n))
  BY <1>2 DEF ExistsBijection
<1> QED BY <1>1, <1>3, FS_Bijection

LEMMA BytesAre ==
  \A s : Abstract!Bytes(s) = Cardinality(Abstract!Held(s))
BY DEF Abstract!Bytes, Abstract!Cardinality, Cardinality

Store == [Key -> Value \union {NoValue}]

\* A value that comes to a key without one brings its bytes along.
LEMMA BytesAdded ==
  ASSUME NEW s \in Store, NEW k \in Key, s[k] = NoValue, NEW v \in Value,
         IsFiniteSet(Abstract!Held(s))
  PROVE  LET added == [s EXCEPT ![k] = v]
         IN  /\ IsFiniteSet(Abstract!Held(added))
             /\ Abstract!Bytes(added) = Abstract!Bytes(s) + Size[v]
<1> DEFINE added == [s EXCEPT ![k] = v]
           more == {k} \X (1..Size[v])
<1>1. Size[v] \in Nat /\ v # NoValue
  BY SizeAssumption, NoValueAssumption
<1>2. Abstract!Held(added) = Abstract!Held(s) \union more
  <2>1. \A j \in Key : added[j] = IF j = k THEN v ELSE s[j]
    BY DEF Store
  <2>2. {j \in Key : added[j] # NoValue} = {j \in Key : s[j] # NoValue} \union {k}
    BY <1>1, <2>1
  <2> HIDE DEF added
  <2>3. \A b : b \in Abstract!Held(added) <=>
          \E j \in Key : added[j] # NoValue /\ b \in {j} \X (1..Size[added[j]])
    BY DEF Abstract!Held
  <2>4. \A b : b \in Abstract!Held(s) <=>
          \E j \in Key : s[j] # NoValue /\ b \in {j} \X (1..Size[s[j]])
    BY DEF Abstract!Held
  <2>5. ASSUME NEW b PROVE b \in Abstract!Held(added) <=> b \in Abstract!Held(s) \/ b \in more
    <3>1. ASSUME b \in Abstract!Held(added) PROVE b \in Abstract!Held(s) \/ b \in more
      <4>1. PICK j \in Key : added[j] # NoValue /\ b \in {j} \X (1..Size[added[j]])
        BY <2>3, <3>1
      <4>2. CASE j = k
        BY <2>1, <4>1, <4>2
      <4>3. CASE j # k
        BY <2>1, <2>4, <4>1, <4>3
      <4> QED BY <4>2, <4>3
    <3>2. ASSUME b \in Abstract!Held(s) PROVE b \in Abstract!Held(added)
      <4>1. PICK j \in Key : s[j] # NoValue /\ b \in {j} \X (1..Size[s[j]])
        BY <2>4, <3>2
      <4>2. added[j] = s[j]
        BY <2>1, <4>1
      <4> QED BY <2>3, <4>1, <4>2
    <3>3. ASSUME b \in more PROVE b \in Abstract!Held(added)
      BY <1>1, <2>1, <2>3, <3>3
    <3> QED BY <3>1, <3>2, <3>3
  <2> HIDE DEF more
  <2> QED BY <2>5
<1>3. Abstract!Held(s) \intersect more = {}
  BY DEF Abstract!Held
<1>4. IsFiniteSet(more) /\ Cardinality(more) = Size[v]
  BY <1>1, BytesOfOne
<1> HIDE DEF added, more
<1>5. /\ IsFiniteSet(Abstract!Held(s) \union more)
      /\ Cardinality(Abstract!Held(s) \union more)
           = Cardinality(Abstract!Held(s)) + Cardinality(more) - Cardinality({})
  BY <1>3, <1>4, FS_Union
<1>6. Cardinality({}) = 0 /\ Cardinality(Abstract!Held(s)) \in Nat
  BY FS_EmptySet, FS_CardinalityType
<1>7. Cardinality(Abstract!Held(added)) = Cardinality(Abstract!Held(s)) + Size[v]
  BY <1>1, <1>2, <1>4, <1>5, <1>6
<1> QED BY <1>2, <1>5, <1>7, BytesAre DEF added

\* A value that leaves takes its bytes with it, and no others.
LEMMA BytesTaken ==
  ASSUME NEW s \in Store, NEW k \in Key, s[k] # NoValue, IsFiniteSet(Abstract!Held(s))
  PROVE  LET rest == [s EXCEPT ![k] = NoValue]
         IN  /\ IsFiniteSet(Abstract!Held(rest))
             /\ Abstract!Bytes(rest) = Abstract!Bytes(s) - Size[s[k]]
<1> DEFINE rest == [s EXCEPT ![k] = NoValue]
<1>1. rest \in Store /\ rest[k] = NoValue /\ s[k] \in Value /\ s = [rest EXCEPT ![k] = s[k]]
  BY DEF Store
<1>2. IsFiniteSet(Abstract!Held(rest))
  <2>1. Abstract!Held(rest) \subseteq Abstract!Held(s)
    <3>1. \A j \in Key : rest[j] # NoValue => rest[j] = s[j]
      BY DEF Store
    <3> HIDE DEF rest
    <3> QED BY <3>1 DEF Abstract!Held
  <2> HIDE DEF rest
  <2> QED BY <2>1, FS_Subset
<1> HIDE DEF rest
<1>3. Abstract!Bytes(s) = Abstract!Bytes(rest) + Size[s[k]]
  BY <1>1, <1>2, BytesAdded
<1>4. Abstract!Bytes(rest) \in Nat /\ Size[s[k]] \in Nat
  BY <1>1, <1>2, FS_CardinalityType, SizeAssumption, BytesAre
<1> QED BY <1>2, <1>3, <1>4 DEF rest

-----------------------------------------------------------------------------
(* doc.LRUCache while no oversized value is put on a key that is cached.   *)

\* Only the key of a running Put may be in the map without an element.
MapLinkedExceptPut ==
  \A k \in Key : items[k] # NoValue /\ ~Linked(k) => put # Idle /\ put.key = k

(***************************************************************************)
(* What the eviction loop relies on.  The bytes counted are those of the   *)
(* entries that can be found, because the map has no key without an        *)
(* element but that of a running Put; that one returns early, and leaves   *)
(* its key as it was, only when the key was not in the map (PutFits).  The *)
(* list is in the order of the last uses.                                  *)
(***************************************************************************)
PutFits == put # Idle => items[put.key] = NoValue \/ Size[put.value] <= MaxBytes

BytesTrue ==
  /\ IsFiniteSet(Abstract!Held(Visible))
  /\ currentBytes = Abstract!Bytes(Visible)
  /\ currentBytes <= MaxBytes

InOrder ==
  /\ \A j, k : Before(order, j, k) => Before(recency, j, k)
  /\ \A k : Occurs(order, k) => Occurs(recency, k)

ExactIInv == IInv /\ MapLinkedExceptPut /\ PutFits /\ BytesTrue /\ InOrder

LEMMA InitExactIInv == Init => ExactIInv
<1> SUFFICES ASSUME Init PROVE ExactIInv
  OBVIOUS
<1>1. IInv
  BY InitIInv
<1>2. BytesTrue
  <2>1. Visible = [k \in Key |-> NoValue]
    BY DEF Init, Visible
  <2>2. Abstract!Held(Visible) = {}
    BY <2>1 DEF Abstract!Held
  <2>3. Abstract!Bytes(Visible) = 0 /\ IsFiniteSet(Abstract!Held(Visible))
    BY <2>2, FS_EmptySet, BytesAre
  <2> QED BY <2>3, MaxBytesAssumption DEF BytesTrue, Init
<1>3. InOrder
  <2>1. Len(<<>>) = 0
    OBVIOUS
  <2> QED BY <2>1 DEF InOrder, Init, Before, Occurs
<1> QED BY <1>1, <1>2, <1>3 DEF Init, ExactIInv, MapLinkedExceptPut, PutFits

\* Moving or pushing a key to the front of both keeps the list in order.
LEMMA FrontOfBoth ==
  ASSUME InOrder, NEW k \in Key, NEW rest \in Seq(Key), order \in Seq(Key),
         recency \in Seq(Key), order' = Cons(k, rest), recency' = Used(k), ~Occurs(rest, k),
         \A j, l : Before(rest, j, l) => Before(order, j, l),
         \A l : Occurs(rest, l) => Occurs(order, l)
  PROVE  InOrder'
<1> DEFINE past == Without(recency, k)
<1>1. past \in Seq(Key) /\ \A l : Occurs(recency, l) /\ l # k => Occurs(past, l)
  BY WithoutFacts
<1>2. \A j, l : Before(recency, j, l) /\ j # k /\ l # k => Before(past, j, l)
  BY WithoutOrder
<1>3. recency' = Cons(k, past)
  BY DEF Used
<1> HIDE DEF past
<1>4. \A j, l : Before(recency', j, l) <=> (j = k /\ Occurs(past, l)) \/ Before(past, j, l)
  BY <1>1, <1>3, ConsOrder
<1>5. \A l : Occurs(recency', l) <=> l = k \/ Occurs(past, l)
  BY <1>1, <1>3, ConsFacts
<1>6. \A j, l : Before(order', j, l) <=> (j = k /\ Occurs(rest, l)) \/ Before(rest, j, l)
  BY ConsOrder
<1>7. \A l : Occurs(order', l) <=> l = k \/ Occurs(rest, l)
  BY ConsFacts
<1>8. \A l : Occurs(rest, l) => l # k /\ Occurs(past, l)
  BY <1>1 DEF InOrder
<1>9. \A j, l : Before(rest, j, l) => Before(past, j, l)
  <2> SUFFICES ASSUME NEW j, NEW l, Before(rest, j, l) PROVE Before(past, j, l)
    OBVIOUS
  <2>1. Occurs(rest, j) /\ Occurs(rest, l)
    BY DEF Before, Occurs
  <2>2. j # k /\ l # k /\ Before(recency, j, l)
    BY <1>8, <2>1 DEF InOrder
  <2> QED BY <1>2, <2>2
<1>10. \A j, l : Before(order', j, l) => Before(recency', j, l)
  BY <1>4, <1>6, <1>8, <1>9
<1>11. \A l : Occurs(order', l) => Occurs(recency', l)
  BY <1>5, <1>7, <1>8
<1> HIDE DEF Before, Occurs
<1> QED BY <1>10, <1>11 DEF InOrder

\* Steps that leave what can be found where it is leave its bytes alone.
LEMMA SameBytes ==
  ASSUME BytesTrue, Visible' = Visible, currentBytes' = currentBytes
  PROVE  BytesTrue'
<1>1. /\ Abstract!Held(Visible)' = Abstract!Held(Visible')
      /\ Abstract!Bytes(Visible)' = Abstract!Bytes(Visible')
  BY DEF Abstract!Held, BytesAre
<1> QED BY <1>1 DEF BytesTrue

LEMMA VisibleIsStore ==
  ASSUME TypeOK
  PROVE  Visible \in Store
BY DEF TypeOK, Visible, Store

\* Get changes the order, and the last uses with it when it is a hit.
LEMMA GetExactIInv ==
  ASSUME ExactIInv, NEW k \in Key, Get(k)
  PROVE  ExactIInv'
<1>1. /\ items' = items /\ currentBytes' = currentBytes /\ put' = put /\ put = Idle
      /\ order' = IF Linked(k) THEN Cons(k, Without(order, k)) ELSE order
      /\ recency' = IF items[k] # NoValue THEN Used(k) ELSE recency
  BY DEF Get
<1>2. TypeOK /\ order \in Seq(Key) /\ recency \in Seq(Key) /\ Distinct(order) /\ ListInMap
  BY DEF ExactIInv, IInv, TypeOK, ListReachable
<1>3. IInv'
  BY GetIInv DEF ExactIInv
<1>4. BytesTrue'
  BY <1>1, SameBytes DEF ExactIInv, Visible
<1>5. items[k] # NoValue <=> Linked(k)
  BY <1>1, <1>2 DEF ExactIInv, MapLinkedExceptPut, ListInMap
<1>6. /\ Without(order, k) \in Seq(Key)
      /\ \A x : Occurs(Without(order, k), x) => Occurs(order, x)
      /\ \A x : Occurs(order, x) /\ x # k => Occurs(Without(order, k), x)
      /\ ~Occurs(Without(order, k), k)
  BY <1>2, WithoutFacts
<1>7. CASE Linked(k)
  <2>1. order' = Cons(k, Without(order, k)) /\ recency' = Used(k)
    BY <1>1, <1>5, <1>7
  <2>2. \A j, l : Before(Without(order, k), j, l) => Before(order, j, l)
    BY <1>2, WithoutOrder
  <2>3. InOrder'
    BY <1>2, <1>6, <2>1, <2>2, FrontOfBoth DEF ExactIInv
  <2>4. \A x : Occurs(order', x) <=> x = k \/ Occurs(Without(order, k), x)
    BY <1>6, <2>1, ConsFacts
  <2>5. \A x : Occurs(order, x) => Occurs(order', x)
    BY <1>6, <2>4
  <2>6. MapLinkedExceptPut'
    BY <1>1, <2>5 DEF ExactIInv, MapLinkedExceptPut, Linked
  <2> QED BY <1>1, <1>3, <1>4, <2>3, <2>6 DEF ExactIInv, PutFits
<1>8. CASE ~Linked(k)
  <2>1. order' = order /\ recency' = recency
    BY <1>1, <1>5, <1>8
  <2> QED BY <1>1, <1>3, <1>4, <2>1 DEF ExactIInv, PutFits, InOrder, MapLinkedExceptPut, Linked
<1> QED BY <1>7, <1>8

\* PutBegin takes the value of its key out of sight.
LEMMA PutBeginExactIInv ==
  ASSUME ~OversizeUpdates, ExactIInv, NEW k \in Key, NEW v \in Value, PutBegin(k, v)
  PROVE  /\ ExactIInv'
         /\ Visible' = [Visible EXCEPT ![k] = NoValue]
<1>1. /\ put' = [key |-> k, value |-> v] /\ put'.key = k /\ put'.value = v
      /\ items' = items /\ recency' = recency /\ put = Idle
      /\ items[k] = NoValue \/ Size[v] <= MaxBytes
  BY DEF PutBegin
<1>2. put' # Idle
  BY <1>1, IdleAssumption DEF PutCall
<1>3. TypeOK /\ order \in Seq(Key) /\ currentBytes \in Int
  BY DEF ExactIInv, IInv, TypeOK
<1>4. IInv'
  BY PutBeginIInv DEF ExactIInv
<1>5. PutFits'
  BY <1>1 DEF PutFits
<1>6. Visible' = [Visible EXCEPT ![k] = NoValue] /\ Visible[k] = items[k] /\ Visible \in Store
  BY <1>1, <1>2, <1>3, VisibleIsStore DEF Visible
<1>7. CASE items[k] # NoValue
  <2>1. currentBytes' = currentBytes - Size[items[k]] /\ order' = Without(order, k)
    BY <1>7 DEF PutBegin
  <2>2. \A x : Occurs(order, x) /\ x # k => Occurs(order', x)
    BY <1>3, <2>1, WithoutFacts
  <2>3. MapLinkedExceptPut'
    BY <1>1, <1>2, <2>2 DEF ExactIInv, MapLinkedExceptPut, Linked
  <2>4. InOrder'
    <3>1. \A j, l : Before(order', j, l) => Before(order, j, l)
      BY <1>3, <2>1, WithoutOrder
    <3>2. \A x : Occurs(order', x) => Occurs(order, x)
      BY <1>3, <2>1, WithoutFacts
    <3> QED BY <1>1, <3>1, <3>2 DEF ExactIInv, InOrder
  <2>5. BytesTrue'
    <3>1. /\ IsFiniteSet(Abstract!Held(Visible'))
          /\ Abstract!Bytes(Visible') = Abstract!Bytes(Visible) - Size[items[k]]
      BY <1>6, <1>7, BytesTaken DEF ExactIInv, BytesTrue
    <3>2. Size[items[k]] \in Nat
      BY <1>3, <1>7, SizeAssumption DEF TypeOK
    <3>3. currentBytes = Abstract!Bytes(Visible) /\ currentBytes <= MaxBytes
      BY DEF ExactIInv, BytesTrue
    <3>4. currentBytes' <= MaxBytes /\ currentBytes' = Abstract!Bytes(Visible')
      BY <1>3, <2>1, <3>1, <3>2, <3>3, MaxBytesAssumption
    <3> QED BY <3>1, <3>4 DEF BytesTrue, Abstract!Held, Abstract!Bytes
  <2> QED BY <1>4, <1>5, <1>6, <2>3, <2>4, <2>5 DEF ExactIInv
<1>8. CASE items[k] = NoValue
  <2>1. currentBytes' = currentBytes /\ order' = order
    BY <1>8 DEF PutBegin
  <2>2. Visible' = Visible
    BY <1>6, <1>8 DEF Store
  <2>3. BytesTrue'
    BY <2>1, <2>2, SameBytes DEF ExactIInv
  <2>4. MapLinkedExceptPut'
    BY <1>1, <2>1 DEF ExactIInv, MapLinkedExceptPut, Linked
  <2>5. InOrder'
    BY <1>1, <2>1 DEF ExactIInv, InOrder
  <2> QED BY <1>4, <1>5, <1>6, <2>3, <2>4, <2>5 DEF ExactIInv
<1> QED BY <1>7, <1>8

\* Evict takes the value of the last key, which is not the key being put.
LEMMA EvictExactIInv ==
  ASSUME ExactIInv, Evict
  PROVE  /\ ExactIInv'
         /\ Last(order) \in Key
         /\ Visible' = [Visible EXCEPT ![Last(order)] = NoValue]
<1>1. TypeOK /\ order \in Seq(Key) /\ currentBytes \in Int /\ ListInMap /\ put # Idle
  BY DEF ExactIInv, IInv, TypeOK, ListReachable, Evict
<1>2. /\ Last(order) \in Key /\ Occurs(order, Last(order))
      /\ \A x : Occurs(Front(order), x) => Occurs(order, x)
      /\ \A x : Occurs(order, x) /\ x # Last(order) => Occurs(Front(order), x)
  BY <1>1, FrontFacts DEF Evict
<1>3. /\ currentBytes' = currentBytes - Size[items[Last(order)]]
      /\ items' = [items EXCEPT ![Last(order)] = NoValue]
      /\ order' = Front(order)
      /\ put' = put /\ recency' = recency
  BY DEF Evict
<1>4. IInv'
  BY EvictIInv DEF ExactIInv
<1>5. Last(order) # put.key /\ items[Last(order)] # NoValue
  BY <1>1, <1>2 DEF ExactIInv, IInv, Linked, ListInMap
<1>6. \A k \in Key : items'[k] = IF k = Last(order) THEN NoValue ELSE items[k]
  BY <1>1, <1>3 DEF TypeOK
<1>7. /\ Visible' = [Visible EXCEPT ![Last(order)] = NoValue]
      /\ Visible[Last(order)] = items[Last(order)]
      /\ Visible \in Store
  <2>1. Visible' = [k \in Key |-> IF put # Idle /\ put.key = k THEN NoValue ELSE items'[k]]
    BY <1>3 DEF Visible
  <2>2. Visible \in Store
    BY <1>1, VisibleIsStore
  <2> QED BY <1>2, <1>5, <1>6, <2>1, <2>2 DEF Visible
<1>8. PutFits'
  BY <1>3, <1>5, <1>6, <1>1 DEF ExactIInv, IInv, TypeOK, PutFits, PutCall
<1>9. MapLinkedExceptPut'
  BY <1>2, <1>3, <1>6 DEF ExactIInv, MapLinkedExceptPut, Linked
<1>10. InOrder'
  <2>1. \A j, l : Before(order', j, l) => Before(order, j, l)
    BY <1>1, <1>3, FrontOrder DEF Evict
  <2> QED BY <1>2, <1>3, <2>1 DEF ExactIInv, InOrder
<1>11. BytesTrue'
  <2>1. /\ IsFiniteSet(Abstract!Held(Visible'))
        /\ Abstract!Bytes(Visible') = Abstract!Bytes(Visible) - Size[items[Last(order)]]
    BY <1>2, <1>5, <1>7, BytesTaken DEF ExactIInv, BytesTrue
  <2>2. Size[items[Last(order)]] \in Nat
    BY <1>1, <1>2, <1>5, SizeAssumption DEF TypeOK
  <2>3. currentBytes = Abstract!Bytes(Visible) /\ currentBytes <= MaxBytes
    BY DEF ExactIInv, BytesTrue
  <2>4. currentBytes' <= MaxBytes /\ currentBytes' = Abstract!Bytes(Visible')
    BY <1>1, <1>3, <2>1, <2>2, <2>3, MaxBytesAssumption
  <2> QED BY <2>1, <2>4 DEF BytesTrue, Abstract!Held, Abstract!Bytes
<1> QED BY <1>2, <1>4, <1>7, <1>8, <1>9, <1>10, <1>11 DEF ExactIInv

\* A value that is refused was put on a key that is not in the map.
LEMMA PutSkipExactIInv ==
  ASSUME ExactIInv, PutSkip
  PROVE  ExactIInv' /\ Visible' = Visible
<1>1. /\ put' = Idle /\ items' = items /\ order' = order /\ recency' = recency
      /\ currentBytes' = currentBytes /\ put # Idle /\ Size[put.value] > MaxBytes
  BY DEF PutSkip
<1>2. put.value \in Value /\ TypeOK
  BY <1>1 DEF ExactIInv, IInv, TypeOK, PutCall
<1>3. items[put.key] = NoValue
  <2>1. Size[put.value] \in Nat
    BY <1>2, SizeAssumption
  <2> QED BY <1>1, <2>1, MaxBytesAssumption DEF ExactIInv, PutFits
<1>4. Visible' = Visible
  BY <1>1, <1>3 DEF Visible
<1>5. IInv'
  <2>1. IInv /\ Next
    BY DEF ExactIInv, Next, PutStep
  <2> QED BY <2>1, StepIInv
<1>6. BytesTrue'
  BY <1>1, <1>4, SameBytes DEF ExactIInv
<1>7. MapLinkedExceptPut'
  BY <1>1, <1>3 DEF ExactIInv, MapLinkedExceptPut, Linked
<1> QED BY <1>1, <1>4, <1>5, <1>6, <1>7 DEF ExactIInv, PutFits, InOrder

\* The loop ends with room for the value, or with nothing left to find.
LEMMA PutStoreExactIInv ==
  ASSUME ExactIInv, PutStore
  PROVE  /\ ExactIInv'
         /\ put.key \in Key /\ put.value \in Value
         /\ Visible' = [Visible EXCEPT ![put.key] = put.value]
<1>1. /\ put # Idle /\ put' = Idle
      /\ items' = [items EXCEPT ![put.key] = put.value]
      /\ order' = Cons(put.key, order)
      /\ currentBytes' = currentBytes + Size[put.value]
      /\ recency' = Used(put.key)
      /\ LoopDone /\ Size[put.value] <= MaxBytes
  BY DEF PutStore
<1>2. /\ TypeOK /\ put.key \in Key /\ put.value \in Value /\ currentBytes \in Int
      /\ order \in Seq(Key) /\ recency \in Seq(Key) /\ ~Occurs(order, put.key)
  BY <1>1 DEF ExactIInv, IInv, TypeOK, PutCall, Linked
<1>3. IInv'
  BY PutStoreIInv DEF ExactIInv
<1>4. \A k \in Key : items'[k] = IF k = put.key THEN put.value ELSE items[k]
  BY <1>1, <1>2 DEF TypeOK
<1>5. /\ Visible' = [Visible EXCEPT ![put.key] = put.value]
      /\ Visible[put.key] = NoValue
      /\ Visible \in Store
  <2>1. Visible' = [k \in Key |-> items'[k]]
    BY <1>1 DEF Visible
  <2>2. Visible \in Store
    BY <1>2, VisibleIsStore
  <2> QED BY <1>1, <1>2, <1>4, <2>1, <2>2 DEF Visible
<1>6. Size[put.value] \in Nat
  BY <1>2, SizeAssumption
<1>7. /\ IsFiniteSet(Abstract!Held(Visible'))
      /\ Abstract!Bytes(Visible') = Abstract!Bytes(Visible) + Size[put.value]
  BY <1>2, <1>5, BytesAdded DEF ExactIInv, BytesTrue
<1>8. currentBytes' <= MaxBytes
  <2>1. CASE ~NeedsRoom
    BY <1>1, <1>2, <1>6, <2>1, MaxBytesAssumption DEF NeedsRoom
  <2>2. CASE order = <<>>
    <3>1. \A k \in Key : ~Linked(k)
      <4>1. Len(order) = 0
        BY <2>2
      <4> QED BY <4>1 DEF Linked, Occurs
    <3>2. \A k \in Key : Visible[k] = NoValue
      BY <3>1 DEF Visible, ExactIInv, MapLinkedExceptPut
    <3>3. Abstract!Held(Visible) = {}
      BY <3>2 DEF Abstract!Held
    <3>4. currentBytes = 0
      BY <3>3, BytesAre, FS_EmptySet DEF ExactIInv, BytesTrue
    <3> QED BY <1>1, <1>6, <3>4
  <2> QED BY <1>1, <2>1, <2>2 DEF LoopDone
<1>9. BytesTrue'
  <2>1. currentBytes' = Abstract!Bytes(Visible')
    BY <1>1, <1>7 DEF ExactIInv, BytesTrue
  <2> QED BY <1>7, <1>8, <2>1 DEF BytesTrue, Abstract!Held, Abstract!Bytes
<1>10. InOrder'
  BY <1>1, <1>2, FrontOfBoth DEF ExactIInv
<1>11. MapLinkedExceptPut'
  <2>1. \A x : Occurs(order', x) <=> x = put.key \/ Occurs(order, x)
    BY <1>1, <1>2, ConsFacts
  <2> QED BY <1>1, <1>4, <2>1 DEF ExactIInv, MapLinkedExceptPut, Linked
<1> QED BY <1>1, <1>2, <1>3, <1>5, <1>9, <1>10, <1>11 DEF ExactIInv, PutFits

\* A cancelled Get, and a step of no call, change nothing of the cache.
LEMMA IdleExactIInv ==
  ASSUME ExactIInv, UNCHANGED <<items, order, currentBytes, put, recency>>, IInv'
  PROVE  ExactIInv' /\ Visible' = Visible
<1>1. Visible' = Visible
  BY DEF Visible
<1>2. BytesTrue'
  BY <1>1, SameBytes DEF ExactIInv
<1>3. MapLinkedExceptPut' /\ PutFits' /\ InOrder'
  BY DEF ExactIInv, MapLinkedExceptPut, Linked, PutFits, InOrder
<1> QED BY <1>1, <1>2, <1>3 DEF ExactIInv

LEMMA StepExactIInv ==
  ~OversizeUpdates /\ ExactIInv /\ [Next]_vars => ExactIInv'
<1> SUFFICES ASSUME ~OversizeUpdates, ExactIInv, [Next]_vars PROVE ExactIInv'
  OBVIOUS
<1>1. IInv'
  BY StepIInv DEF ExactIInv
<1>2. ASSUME NEW k \in Key, GetCancelled(k) PROVE ExactIInv'
  BY <1>1, <1>2, IdleExactIInv DEF GetCancelled
<1>3. CASE UNCHANGED vars
  BY <1>1, <1>3, IdleExactIInv DEF vars
<1> QED
  BY <1>2, <1>3, GetExactIInv, PutBeginExactIInv, EvictExactIInv, PutSkipExactIInv,
     PutStoreExactIInv DEF Next, PutStep

(***************************************************************************)
(* The counter that the eviction loop compares with the limit is exact:    *)
(* the bytes of the linked elements, after every step of every call        *)
(* (cache.go:76, 81-87, 98).                                               *)
(***************************************************************************)
THEOREM EveryByteCounted ==
  ASSUME ~OversizeUpdates
  PROVE  Spec => []BytesAccounted
<1>1. ExactIInv => BytesAccounted
  <2> SUFFICES ASSUME ExactIInv PROVE BytesAccounted
    OBVIOUS
  <2>1. Visible = [k \in Key |-> IF Linked(k) THEN items[k] ELSE NoValue]
    <3>1. ASSUME NEW k \in Key
          PROVE  Visible[k] = IF Linked(k) THEN items[k] ELSE NoValue
      BY DEF Visible, ExactIInv, MapLinkedExceptPut, IInv
    <3> QED BY <3>1 DEF Visible
  <2> QED BY <2>1 DEF ExactIInv, BytesTrue, BytesAccounted
<1>2. ExactIInv /\ [Next]_vars => ExactIInv'
  BY StepExactIInv
<1> QED BY <1>1, <1>2, InitExactIInv, PTL DEF Spec

(***************************************************************************)
(* The eviction loop ends, with room for the value or with an empty list:  *)
(* the entries that can be returned hold what currentBytes counts, never   *)
(* more than MaxBytes (cache.go:76-99).                                    *)
(***************************************************************************)
THEOREM StaysWithinLimit ==
  ASSUME ~OversizeUpdates
  PROVE  Spec => []WithinLimit
<1>1. ExactIInv => WithinLimit
  <2> SUFFICES ASSUME ExactIInv, put = Idle PROVE Abstract!Bytes(items) <= MaxBytes
    BY DEF WithinLimit
  <2>1. Visible = items
    BY DEF Visible, ExactIInv, IInv, TypeOK
  <2> QED BY <2>1 DEF ExactIInv, BytesTrue
<1>2. ExactIInv /\ [Next]_vars => ExactIInv'
  BY StepExactIInv
<1> QED BY <1>1, <1>2, InitExactIInv, PTL DEF Spec

(***************************************************************************)
(* "evicted (from least recently used) until there is room"                *)
(* (cache.go:57-60): an entry only leaves while a Put needs the room, and  *)
(* only when every other entry was stored or hit after it.                 *)
(***************************************************************************)
THEOREM OldestIsEvicted ==
  ASSUME ~OversizeUpdates
  PROVE  Spec => EvictsOldest
<1>1. ExactIInv /\ [Next]_vars => [OldestLeaves]_vars
  <2> SUFFICES ASSUME ExactIInv, Next,
                      NEW k \in Key, items[k] # NoValue, items'[k] = NoValue
               PROVE  /\ NeedsRoom
                      /\ \A j \in Key \ {k, put.key} : items[j] # NoValue => UsedAfter(j, k)
    BY DEF OldestLeaves
  <2>1. TypeOK /\ order \in Seq(Key)
    BY DEF ExactIInv, IInv, TypeOK
  <2>2. CASE Evict
    <3>1. k = Last(order)
      BY <2>1, <2>2 DEF Evict, TypeOK
    <3>2. ASSUME NEW j \in Key \ {k, put.key}, items[j] # NoValue PROVE UsedAfter(j, k)
      <4>1. Occurs(order, j)
        BY <3>2 DEF ExactIInv, MapLinkedExceptPut, Linked
      <4>2. Before(order, j, k)
        BY <2>1, <2>2, <3>1, <3>2, <4>1, FrontOrder DEF Evict
      <4>3. Before(recency, j, k)
        BY <4>2 DEF ExactIInv, InOrder
      <4> QED BY <4>3 DEF Before, UsedAfter
    <3> QED BY <2>2, <3>2 DEF Evict
  <2>3. CASE PutStore
    <3>1. put.key \in Key /\ put.value \in Value
      BY <2>3, PutStoreExactIInv
    <3>2. items'[k] = IF k = put.key THEN put.value ELSE items[k]
      BY <2>1, <2>3, <3>1 DEF PutStore, TypeOK
    <3> QED BY <3>1, <3>2, NoValueAssumption
  <2>4. CASE ~Evict /\ ~PutStore
    <3>1. items' = items
      BY <2>4 DEF Next, PutStep, Get, GetCancelled, PutBegin, PutSkip
    <3> QED BY <3>1
  <2> QED BY <2>2, <2>3, <2>4
<1>2. ExactIInv /\ [Next]_vars => ExactIInv'
  BY StepExactIInv
<1> QED BY <1>1, <1>2, InitExactIInv, PTL DEF Spec, EvictsOldest

(***************************************************************************)
(* "If the key already exists, its value is updated" (cache.go:57): when   *)
(* Put returns, its key leads to the new value or to none.  The early      *)
(* return of cache.go:89-92 breaks this only for a value over the limit on *)
(* a key that is cached.                                                   *)
(***************************************************************************)
THEOREM UpdatesTakeEffect ==
  ASSUME ~OversizeUpdates
  PROVE  Spec => PutUpdates
<1>1. ExactIInv /\ [Next]_vars =>
        [(put # Idle /\ put' = Idle) => items'[put.key] \in {put.value, NoValue}]_vars
  <2> SUFFICES ASSUME ExactIInv, Next, put # Idle, put' = Idle
               PROVE  items'[put.key] \in {put.value, NoValue}
    OBVIOUS
  <2>1. CASE PutSkip
    <3>1. Visible' = Visible /\ put.key \in Key
      BY <2>1, PutSkipExactIInv DEF ExactIInv, IInv, TypeOK, PutCall
    <3> QED BY <3>1 DEF Visible
  <2>2. CASE PutStore
    BY <2>2, PutStoreExactIInv DEF PutStore, ExactIInv, IInv, TypeOK
  <2> QED
    BY <2>1, <2>2 DEF Next, PutStep, Get, GetCancelled, PutBegin, Evict
<1>2. ExactIInv /\ [Next]_vars => ExactIInv'
  BY StepExactIInv
<1> QED BY <1>1, <1>2, InitExactIInv, PTL DEF Spec, PutUpdates

(***************************************************************************)
(* The map, the list and the byte counter behave as a map that forgets     *)
(* entries and never holds more than MaxBytes: a hit is the value of the   *)
(* latest Put of its key (cache.go:36-99).                                 *)
(***************************************************************************)
THEOREM CacheIsBoundedMap ==
  ASSUME ~OversizeUpdates
  PROVE  Spec => ImplementsBoundedCache
<1>1. Init => Abstract!Init
  BY DEF Init, Visible, Abstract!Init
<1>2. ExactIInv /\ ExactIInv' /\ [Next]_vars => [Abstract!Next]_(Abstract!vars)
  <2> SUFFICES ASSUME ExactIInv, ExactIInv', [Next]_vars
               PROVE  Abstract!Next \/ UNCHANGED Abstract!vars
    OBVIOUS
  <2>1. ASSUME NEW k \in Key, Get(k) PROVE Abstract!Next
    <3>1. Visible' = Visible /\ Visible[k] = items[k] /\ reply' = [key |-> k, value |-> items[k]]
      BY <2>1 DEF Get, Visible
    <3> QED BY <3>1 DEF Abstract!Get, Abstract!Next
  <2>2. ASSUME NEW k \in Key, GetCancelled(k) PROVE Abstract!Next
    <3>1. Visible' = Visible /\ reply' = [key |-> k, value |-> NoValue]
      BY <2>2 DEF GetCancelled, Visible
    <3> QED BY <3>1 DEF Abstract!Get, Abstract!Next
  <2>3. ASSUME NEW k \in Key, NEW v \in Value, PutBegin(k, v) PROVE Abstract!Next
    <3>1. Visible' = [Visible EXCEPT ![k] = NoValue] /\ reply' = reply
      BY <2>3, PutBeginExactIInv DEF PutBegin
    <3> QED BY <3>1 DEF Abstract!Forget, Abstract!Next
  <2>4. CASE Evict
    <3>1. Last(order) \in Key
      BY <2>4, EvictExactIInv
    <3>2. Visible' = [Visible EXCEPT ![Last(order)] = NoValue] /\ reply' = reply
      BY <2>4, EvictExactIInv DEF Evict
    <3> QED BY <3>1, <3>2 DEF Abstract!Forget, Abstract!Next
  <2>5. CASE PutSkip
    BY <2>5, PutSkipExactIInv DEF PutSkip, Abstract!vars
  <2>6. CASE PutStore
    <3>1. /\ put.key \in Key /\ put.value \in Value
          /\ Visible' = [Visible EXCEPT ![put.key] = put.value]
          /\ reply' = reply
      BY <2>6, PutStoreExactIInv DEF PutStore
    <3>2. Abstract!Bytes(Visible') <= MaxBytes
      BY DEF ExactIInv, BytesTrue, Abstract!Bytes, Abstract!Held
    <3> QED BY <3>1, <3>2 DEF Abstract!Put, Abstract!Next
  <2>7. CASE UNCHANGED vars
    BY <2>7 DEF vars, Visible, Abstract!vars
  <2> QED BY <2>1, <2>2, <2>3, <2>4, <2>5, <2>6, <2>7 DEF Next, PutStep
<1>3. ExactIInv /\ [Next]_vars => ExactIInv'
  BY StepExactIInv
<1> QED
  BY <1>1, <1>2, <1>3, InitExactIInv, PTL DEF Spec, ImplementsBoundedCache, Abstract!Spec

-----------------------------------------------------------------------------
(* The content cache of a document.                                        *)

(***************************************************************************)
(* The entry of a reference that was never misread is its content and fits *)
(* the limit.  Hence a Put that overwrites it overwrites it with the same  *)
(* bytes, and is never the oversized overwrite that leaves a dangling map  *)
(* entry: the caller only puts what it missed, and an oversized stream is  *)
(* never in the map to begin with.                                         *)
(***************************************************************************)
EntriesTrue ==
  \A k \in Key \ misread :
    items[k] # NoValue => items[k] = Content[k] /\ Size[Content[k]] <= MaxBytes

\* A call under way has nothing to show yet but the stream it read itself.
DataTrue ==
  \A t \in Thread :
    /\ At(t, "read") \/ At(t, "storing") =>
         /\ data[t] \in Value
         /\ call[t].key \notin misread => data[t] = Content[call[t].key]
    /\ ~At(t, "returned") => result[t] = NoValue

\* Outside the Put of its key, an entry that was never misread has its element.
TrueLinked ==
  \A k \in Key \ misread :
    items[k] # NoValue /\ ~Linked(k) => put # Idle /\ put.key = k

DocIInv ==
  /\ IInv
  /\ DocTypeOK
  /\ EntriesTrue
  /\ TrueLinked
  /\ DataTrue
  /\ PutOwner
  /\ ReturnsOwnContent

LEMMA DocInitIInv == DocInit => DocIInv
<1> SUFFICES ASSUME DocInit PROVE DocIInv
  OBVIOUS
<1>1. IInv
  BY InitIInv DEF DocInit
<1>2. DocTypeOK
  BY <1>1 DEF DocInit, DocTypeOK, IInv, Stage
<1>3. EntriesTrue /\ TrueLinked
  BY DEF DocInit, Init, EntriesTrue, TrueLinked
<1>4. DataTrue /\ PutOwner /\ ReturnsOwnContent
  BY DEF DocInit, At, DataTrue, PutOwner, ReturnsOwnContent
<1> QED BY <1>1, <1>2, <1>3, <1>4 DEF DocIInv

(***************************************************************************)
(* What a step of one goroutine does to the calls: it touches its own.     *)
(***************************************************************************)
ReadingTypes ==
  /\ moved \in Thread \union {Nobody}
  /\ left \in [Thread -> Nat]
  /\ astray \subseteq Thread
  /\ misread \subseteq Key

CallTypes ==
  /\ ReadingTypes
  /\ call \in [Thread -> [stage : Stage, key : Key]]
  /\ data \in [Thread -> Value \union {NoValue}]
  /\ result \in [Thread -> Value \union {NoValue}]

Moves(t, stages) ==
  /\ call' \in [Thread -> [stage : Stage, key : Key]]
  /\ \A u \in Thread \ {t} :
       call'[u] = call[u] /\ data'[u] = data[u] /\ result'[u] = result[u]
  /\ call'[t].stage \in stages

\* Get keeps the keys that are in the list.
LEMMA GetLinked ==
  ASSUME IInv, NEW k \in Key, Get(k)
  PROVE  \A x : Linked(x)' <=> Linked(x)
<1>1. order \in Seq(Key)
  BY DEF IInv, TypeOK
<1>2. /\ Without(order, k) \in Seq(Key)
      /\ \A x : Occurs(Without(order, k), x) => Occurs(order, x)
      /\ \A x : Occurs(order, x) /\ x # k => Occurs(Without(order, k), x)
  BY <1>1, WithoutFacts
<1>3. \A x : Occurs(Cons(k, Without(order, k)), x) <=> x = k \/ Occurs(Without(order, k), x)
  BY <1>2, ConsFacts
<1>4. CASE Occurs(order, k)
  <2>1. order' = Cons(k, Without(order, k))
    BY <1>4 DEF Get, Linked
  <2> QED BY <1>2, <1>3, <1>4, <2>1 DEF Linked
<1>5. CASE ~Occurs(order, k)
  <2>1. order' = order
    BY <1>5 DEF Get, Linked
  <2> QED BY <2>1 DEF Linked
<1> QED BY <1>4, <1>5

\* Lookup moves the entry it hits to the front and returns its value.
LEMMA LookupIInv ==
  ASSUME DocIInv, NEW t \in Thread, NEW k \in Key, Lookup(t, k)
  PROVE  DocIInv'
<1>0. IInv /\ TypeOK /\ CallTypes /\ Get(k) /\ At(t, "returned")
  BY DEF DocIInv, DocTypeOK, CallTypes, ReadingTypes, Lookup
<1>1. IInv' /\ TypeOK'
  BY <1>0, GetIInv DEF IInv
<1>2. /\ put = Idle /\ items' = items /\ put' = put /\ data' = data
      /\ items[k] \in Value \union {NoValue}
      /\ misread' = misread
  BY <1>0 DEF Lookup, Get, TypeOK
<1>3. /\ Moves(t, {"returned", "missed"})
      /\ result' \in [Thread -> Value \union {NoValue}]
      /\ call'[t].key = k
      /\ result'[t] = items[k]
  <2>1. CASE items[k] # NoValue
    <3>1. /\ call' = [call EXCEPT ![t].key = k]
          /\ result' = [result EXCEPT ![t] = items[k]]
      BY <2>1 DEF Lookup
    <3> QED BY <1>0, <1>2, <2>1, <3>1 DEF At, CallTypes, Moves
  <2>2. CASE items[k] = NoValue
    <3>1. /\ call' = [call EXCEPT ![t] = [stage |-> "missed", key |-> k]]
          /\ result' = [result EXCEPT ![t] = NoValue]
      BY <2>2 DEF Lookup
    <3> QED BY <1>0, <1>2, <2>2, <3>1 DEF CallTypes, Moves, Stage
  <2> QED BY <2>1, <2>2
<1>4. DocTypeOK'
  <2>1. left' \in [Thread -> Nat] /\ UNCHANGED <<moved, astray, misread>>
    BY <1>0, ReadsAssumption DEF Lookup, CallTypes, ReadingTypes
  <2> QED BY <1>0, <1>1, <1>2, <1>3, <2>1 DEF DocTypeOK, CallTypes, ReadingTypes, Moves
<1>5. EntriesTrue' /\ TrueLinked'
  <2>1. \A x : Linked(x)' <=> Linked(x)
    BY <1>0, GetLinked
  <2> QED BY <1>2, <2>1 DEF DocIInv, EntriesTrue, TrueLinked
<1>6. DataTrue' /\ PutOwner'
  <2>1. ASSUME call'[t].stage = "missed" PROVE result'[t] = NoValue
    <3>1. CASE items[k] # NoValue
      <4>1. call' = [call EXCEPT ![t].key = k]
        BY <3>1 DEF Lookup
      <4>2. call'[t].stage = "returned"
        BY <1>0, <4>1 DEF At, CallTypes
      <4> QED BY <2>1, <4>2
    <3> QED BY <1>3, <3>1
  <2> QED BY <1>2, <1>3, <2>1 DEF At, DocIInv, DataTrue, PutOwner, Moves
<1>7. ReturnsOwnContent'
  BY <1>2, <1>3 DEF At, DocIInv, ReturnsOwnContent, EntriesTrue, Moves
<1> QED BY <1>1, <1>4, <1>5, <1>6, <1>7 DEF DocIInv

(***************************************************************************)
(* To move the position of the file changes nothing but the reading state, *)
(* whichever of Seek and Read it is.                                       *)
(***************************************************************************)
LEMMA FileIInv ==
  ASSUME DocIInv, NEW t \in Thread, Seek(t) \/ Read(t)
  PROVE  DocIInv'
<1>0. /\ IInv /\ TypeOK /\ CallTypes /\ UNCHANGED <<vars, misread, data, result>>
      /\ At(t, "missed") \/ At(t, "sought")
  BY DEF DocIInv, DocTypeOK, CallTypes, ReadingTypes, Seek, Read
<1>1. IInv' /\ TypeOK' /\ EntriesTrue' /\ TrueLinked'
  BY <1>0 DEF DocIInv, IInv, TypeOK, ListReachable, ListInMap, Linked, vars,
              EntriesTrue, TrueLinked
<1>2. Moves(t, {"missed", "sought"}) /\ call'[t].key = call[t].key
  <2>1. call' = [call EXCEPT ![t].stage = "missed"]
        \/ call' = [call EXCEPT ![t].stage = "sought"]
    BY DEF Seek, Read, GoTo
  <2> QED BY <1>0, <2>1 DEF CallTypes, Moves, Stage
<1>3. ReadingTypes'
  <2>1. CASE Seek(t)
    BY <1>0, <2>1 DEF Seek, CallTypes, ReadingTypes
  <2>2. CASE Read(t)
    <3>1. left' \in [Thread -> Nat]
      <4>1. PICK n \in {left[t] - 1} \union (IF Astray(t) THEN {left[t]} ELSE {}) :
              n > 0 /\ left' = [left EXCEPT ![t] = n]
        BY <2>2 DEF Read
      <4>2. n \in Nat
        <5>1. left[t] \in Nat
          BY <1>0 DEF CallTypes, ReadingTypes
        <5> QED BY <4>1, <5>1
      <4> QED BY <1>0, <4>1, <4>2 DEF CallTypes, ReadingTypes
    <3>2. moved' = t /\ astray' \subseteq Thread
      BY <1>0, <2>2 DEF Read, CallTypes, ReadingTypes
    <3> QED BY <1>0, <3>1, <3>2 DEF CallTypes, ReadingTypes
  <2> QED BY <2>1, <2>2
<1>4. DocTypeOK'
  BY <1>0, <1>1, <1>2, <1>3 DEF DocTypeOK, CallTypes, ReadingTypes, Moves
<1>5. put' = put
  BY <1>0 DEF vars
<1>6. DataTrue' /\ PutOwner' /\ ReturnsOwnContent'
  BY <1>0, <1>2, <1>5 DEF At, DocIInv, DataTrue, PutOwner, ReturnsOwnContent, Moves
<1> QED BY <1>1, <1>4, <1>6 DEF DocIInv

(***************************************************************************)
(* What a call decodes is the stream its reference denotes, or else the    *)
(* reference has been misread.                                             *)
(***************************************************************************)
LEMMA ReadEndsIInv ==
  ASSUME DocIInv, NEW t \in Thread, ReadEnds(t)
  PROVE  DocIInv'
<1> DEFINE k == call[t].key
<1>0. /\ IInv /\ TypeOK /\ CallTypes /\ At(t, "sought") /\ UNCHANGED <<vars, result>>
      /\ k \in Key
  BY DEF DocIInv, DocTypeOK, CallTypes, ReadingTypes, ReadEnds
<1>1. PICK v \in Value \union {NoValue} :
        IF v = NoValue
        THEN GoTo(t, "returned") /\ UNCHANGED <<misread, data>>
        ELSE /\ GoTo(t, "read")
             /\ data' = [data EXCEPT ![t] = v]
             /\ misread' = IF v = Content[k] THEN misread ELSE misread \union {k}
  <2>1. Content[k] \in Value \union {NoValue}
    BY <1>0, ContentAssumption
  <2> QED BY <2>1 DEF ReadEnds
<1> HIDE DEF k
<1>2. /\ misread \subseteq misread' /\ misread' \subseteq Key
      /\ v # NoValue /\ k \notin misread' => v = Content[k]
  BY <1>0, <1>1 DEF CallTypes, ReadingTypes, k
<1>3. IInv' /\ TypeOK' /\ EntriesTrue' /\ TrueLinked'
  <2>1. IInv' /\ TypeOK'
    BY <1>0 DEF IInv, TypeOK, ListReachable, ListInMap, Linked, vars
  <2> QED BY <1>0, <1>2, <2>1 DEF DocIInv, Linked, vars, EntriesTrue, TrueLinked
<1>4. /\ Moves(t, {"returned", "read"})
      /\ data' \in [Thread -> Value \union {NoValue}]
      /\ call'[t].key = k
      /\ call'[t].stage = "read" => v # NoValue /\ data'[t] = v
  <2>1. CASE v = NoValue
    <3>1. call' = [call EXCEPT ![t].stage = "returned"] /\ data' = data
      BY <1>1, <2>1 DEF GoTo
    <3> QED BY <1>0, <2>1, <3>1 DEF CallTypes, Moves, Stage, k
  <2>2. CASE v # NoValue
    <3>1. /\ call' = [call EXCEPT ![t].stage = "read"]
          /\ data' = [data EXCEPT ![t] = v]
      BY <1>1, <2>2 DEF GoTo
    <3> QED BY <1>0, <2>2, <3>1 DEF CallTypes, Moves, Stage, k
  <2> QED BY <2>1, <2>2
<1>5. DocTypeOK'
  <2>1. ReadingTypes'
    BY <1>0, <1>2 DEF ReadEnds, CallTypes, ReadingTypes
  <2> QED BY <1>0, <1>3, <1>4, <2>1 DEF DocTypeOK, CallTypes, ReadingTypes, Moves
<1>6. put' = put /\ result' = result
  BY <1>0 DEF vars
<1>7. DataTrue'
  <2>1. ASSUME NEW u \in Thread, u # t, At(u, "read")' \/ At(u, "storing")'
        PROVE  /\ data'[u] \in Value
               /\ call'[u].key \notin misread' => data'[u] = Content[call'[u].key]
    BY <1>2, <1>4, <2>1 DEF At, DocIInv, DataTrue, Moves
  <2>2. ASSUME At(t, "read")' \/ At(t, "storing")'
        PROVE  /\ data'[t] \in Value
               /\ call'[t].key \notin misread' => data'[t] = Content[call'[t].key]
    <3>1. call'[t].stage = "read"
      BY <1>4, <2>2 DEF At, Moves
    <3> QED BY <1>1, <1>2, <1>4, <3>1
  <2>3. ASSUME NEW u \in Thread, ~At(u, "returned")' PROVE result'[u] = NoValue
    BY <1>0, <1>4, <1>6, <2>3 DEF At, DocIInv, DataTrue, Moves
  <2> QED BY <2>1, <2>2, <2>3 DEF DataTrue
<1>8. PutOwner'
  BY <1>0, <1>4, <1>6 DEF At, DocIInv, PutOwner, Moves
<1>9. ReturnsOwnContent'
  <2>1. result[t] = NoValue
    BY <1>0 DEF At, DocIInv, DataTrue
  <2> QED BY <1>2, <1>4, <1>6, <2>1 DEF At, DocIInv, ReturnsOwnContent, Moves
<1> QED BY <1>3, <1>5, <1>7, <1>8, <1>9 DEF DocIInv

\* Put starts with a stream that is what its reference denotes.
LEMMA StoreBeginIInv ==
  ASSUME DocIInv, NEW t \in Thread, StoreBegin(t)
  PROVE  DocIInv'
<1> DEFINE k == call[t].key
           v == data[t]
<1>0. /\ IInv /\ TypeOK /\ CallTypes /\ At(t, "read") /\ PutBegin(k, v)
      /\ k \in Key /\ v \in Value /\ UNCHANGED reading
  BY DEF DocIInv, DocTypeOK, CallTypes, ReadingTypes, StoreBegin, DataTrue
<1> HIDE DEF k, v
<1>1. IInv' /\ TypeOK'
  BY <1>0, PutBeginIInv DEF IInv
<1>2. /\ put = Idle /\ put' = [key |-> k, value |-> v] /\ items' = items
      /\ data' = data /\ result' = result
      /\ call' = [call EXCEPT ![t].stage = "storing"]
      /\ misread' = misread
  BY <1>0 DEF StoreBegin, PutBegin, GoTo, reading
<1>3. Moves(t, {"storing"}) /\ call'[t].key = k
  BY <1>0, <1>2 DEF CallTypes, Moves, Stage, k
<1>4. DocTypeOK'
  BY <1>0, <1>1, <1>2, <1>3 DEF DocTypeOK, CallTypes, ReadingTypes, Moves, reading
<1>5. EntriesTrue'
  BY <1>2 DEF DocIInv, EntriesTrue
<1>6. put' # Idle
  BY <1>0, <1>2, IdleAssumption DEF PutCall
<1>7. TrueLinked'
  <2>1. \A x : Occurs(order, x) /\ x # k => Occurs(order', x)
    <3>1. order \in Seq(Key)
      BY <1>0 DEF TypeOK
    <3>2. \A x : Occurs(order, x) /\ x # k => Occurs(Without(order, k), x)
      BY <3>1, WithoutFacts
    <3>3. order' = order \/ order' = Without(order, k)
      BY <1>0 DEF PutBegin
    <3> QED BY <3>2, <3>3
  <2> QED BY <1>2, <1>6, <2>1 DEF DocIInv, TrueLinked, Linked
<1>8. DataTrue'
  BY <1>0, <1>2, <1>3 DEF At, DocIInv, DataTrue, Moves
<1>9. PutOwner'
  <2>1. \A u \in Thread : ~At(u, "storing")
    BY <1>0, <1>2, IdleAssumption DEF DocIInv, PutOwner, PutCall, CallTypes, DataTrue
  <2> QED BY <1>2, <1>3, <2>1 DEF At, PutOwner, Moves, k, v
<1>10. ReturnsOwnContent'
  BY <1>2, <1>3 DEF At, DocIInv, ReturnsOwnContent, Moves
<1> QED BY <1>1, <1>4, <1>5, <1>7, <1>8, <1>9, <1>10 DEF DocIInv

\* An eviction takes whole entries, never the key that is being put.
LEMMA StoreEvictIInv ==
  ASSUME DocIInv, NEW t \in Thread, StoreEvict(t)
  PROVE  DocIInv'
<1>0. IInv /\ TypeOK /\ CallTypes /\ Evict /\ UNCHANGED <<call, reading, data, result>>
  BY DEF DocIInv, DocTypeOK, CallTypes, ReadingTypes, StoreEvict
<1>1. IInv' /\ TypeOK'
  BY <1>0, EvictIInv DEF IInv
<1>2. DocTypeOK'
  BY <1>0, <1>1 DEF DocTypeOK, CallTypes, ReadingTypes, reading
<1>3. /\ put' = put /\ misread' = misread
      /\ items' = [items EXCEPT ![Last(order)] = NoValue]
      /\ order' = Front(order) /\ order # <<>> /\ order \in Seq(Key)
      /\ items \in [Key -> Value \union {NoValue}]
  BY <1>0 DEF Evict, TypeOK, reading
<1>4. /\ Last(order) \in Key
      /\ \A x : Occurs(order, x) /\ x # Last(order) => Occurs(Front(order), x)
  BY <1>3, FrontFacts
<1>5. EntriesTrue'
  BY <1>3, <1>4 DEF DocIInv, EntriesTrue
<1>6. TrueLinked'
  BY <1>3, <1>4 DEF DocIInv, TrueLinked, Linked
<1>7. DataTrue' /\ PutOwner' /\ ReturnsOwnContent'
  BY <1>0, <1>3 DEF At, DocIInv, DataTrue, PutOwner, ReturnsOwnContent
<1> QED BY <1>1, <1>2, <1>5, <1>6, <1>7 DEF DocIInv

(***************************************************************************)
(* Put ends.  Had the key of a refused stream been in the map, its entry   *)
(* would be its content, and that content too large to be there.           *)
(***************************************************************************)
LEMMA StoreEndIInv ==
  ASSUME DocIInv, NEW t \in Thread, StoreEnd(t)
  PROVE  DocIInv'
<1> DEFINE k == call[t].key
           v == data[t]
<1>0. /\ IInv /\ TypeOK /\ CallTypes /\ At(t, "storing")
      /\ k \in Key /\ v \in Value
      /\ k \notin misread => v = Content[k]
      /\ put = [key |-> k, value |-> v]
      /\ \A u \in Thread \ {t} : ~At(u, "storing")
  BY DEF DocIInv, DocTypeOK, CallTypes, ReadingTypes, StoreEnd, DataTrue, PutOwner
<1>1. /\ call' = [call EXCEPT ![t].stage = "returned"]
      /\ result' = [result EXCEPT ![t] = v]
      /\ data' = [data EXCEPT ![t] = NoValue]
      /\ put' = Idle /\ misread' = misread
  BY DEF StoreEnd, GoTo, PutSkip, PutStore, reading
<1> HIDE DEF k, v
<1>2. put.key = k /\ put.value = v
  BY <1>0
<1>3. /\ Moves(t, {"returned"}) /\ call'[t].key = k /\ result'[t] = v
      /\ result' \in [Thread -> Value \union {NoValue}]
      /\ data' \in [Thread -> Value \union {NoValue}]
  BY <1>0, <1>1 DEF CallTypes, Moves, Stage, k
<1>4. DataTrue' /\ PutOwner' /\ ReturnsOwnContent'
  BY <1>0, <1>1, <1>3 DEF At, DocIInv, DataTrue, PutOwner, ReturnsOwnContent, Moves
<1>5. CASE PutSkip
  <2>1. items' = items /\ order' = order /\ ~(Size[v] <= MaxBytes)
    <3>1. Size[v] > MaxBytes /\ Size[v] \in Nat
      BY <1>0, <1>2, <1>5, SizeAssumption DEF PutSkip
    <3> QED BY <1>5, <3>1, MaxBytesAssumption DEF PutSkip
  <2>2. IInv' /\ TypeOK'
    BY <1>0, <1>5 DEF PutSkip, IInv, TypeOK, ListReachable, ListInMap, Linked
  <2>3. k \notin misread => items[k] = NoValue
    BY <1>0, <2>1 DEF DocIInv, EntriesTrue
  <2>4. EntriesTrue' /\ TrueLinked'
    BY <1>1, <1>2, <2>1, <2>3 DEF DocIInv, EntriesTrue, TrueLinked, Linked
  <2>5. DocTypeOK'
    BY <1>0, <1>3, <2>2 DEF DocTypeOK, CallTypes, ReadingTypes, Moves, StoreEnd, reading
  <2> QED BY <1>4, <2>2, <2>4, <2>5 DEF DocIInv
<1>6. CASE PutStore
  <2>1. /\ items' = [items EXCEPT ![k] = v] /\ order' = Cons(k, order)
        /\ Size[v] <= MaxBytes
        /\ items \in [Key -> Value \union {NoValue}] /\ order \in Seq(Key)
    BY <1>0, <1>2, <1>6 DEF PutStore, TypeOK
  <2>2. IInv' /\ TypeOK'
    BY <1>0, <1>6, PutStoreIInv DEF IInv
  <2>3. EntriesTrue'
    BY <1>0, <1>1, <2>1 DEF DocIInv, EntriesTrue
  <2>4. \A x : Occurs(order', x) <=> x = k \/ Occurs(order, x)
    BY <1>0, <2>1, ConsFacts
  <2>5. TrueLinked'
    BY <1>0, <1>1, <1>2, <2>1, <2>4 DEF DocIInv, TrueLinked, Linked
  <2>6. DocTypeOK'
    BY <1>0, <1>3, <2>2 DEF DocTypeOK, CallTypes, ReadingTypes, Moves, StoreEnd, reading
  <2> QED BY <1>4, <2>2, <2>3, <2>5, <2>6 DEF DocIInv
<1> QED BY <1>5, <1>6 DEF StoreEnd

LEMMA DocStepIInv == DocIInv /\ [DocNext]_docVars => DocIInv'
<1> SUFFICES ASSUME DocIInv, [DocNext]_docVars PROVE DocIInv'
  OBVIOUS
<1>1. CASE UNCHANGED docVars
  <2>1. IInv'
    BY <1>1, StepIInv DEF docVars, DocIInv
  <2> QED BY <1>1, <2>1 DEF docVars, reading, vars, DocIInv, DocTypeOK, IInv, EntriesTrue,
             TrueLinked, Linked, At, DataTrue, PutOwner, ReturnsOwnContent
<1> QED BY <1>1, LookupIInv, FileIInv, ReadEndsIInv, StoreBeginIInv, StoreEvictIInv, StoreEndIInv
        DEF DocNext, Continue

(***************************************************************************)
(* A call that succeeds returns the stream its own reference denotes,      *)
(* whatever other goroutines seek, read, put or evict between its steps    *)
(* (service.go:153-164), unless the bytes of that very reference were read *)
(* astray: a disturbed read never spoils another reference.                *)
(***************************************************************************)
THEOREM CacheTransparent == DocSpec => []ReturnsOwnContent
<1>1. DocIInv => ReturnsOwnContent
  BY DEF DocIInv
<1> QED BY <1>1, DocInitIInv, DocStepIInv, PTL DEF DocSpec

(***************************************************************************)
(* Used this way the cache holds no dangling map entry, for streams of     *)
(* every size, but under a reference that was misread: for the others the  *)
(* oversized overwrite of LRUCache.Put (cache.go:73-92) is out of reach.   *)
(***************************************************************************)
THEOREM NoDanglingEntry == DocSpec => []CacheSound
<1>1. DocIInv => CacheSound
  BY DEF DocIInv, IInv, CacheSound, TrueLinked
<1> QED BY <1>1, DocInitIInv, DocStepIInv, PTL DEF DocSpec
=============================================================================
