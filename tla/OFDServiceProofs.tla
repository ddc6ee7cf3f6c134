-------------------------- MODULE OFDServiceProofs --------------------------
(* What holds of the OFD service for every package, whatever its entries.  *)
EXTENDS OFDService, FiniteSetTheorems, SequenceTheorems, WellFoundedInduction, TLAPS

-----------------------------------------------------------------------------
(* Induction over the numbers, in sets.                                    *)

LEMMA LeastNumber ==
  ASSUME NEW T, T \subseteq Nat, T # {}
  PROVE  \E m \in T : \A k \in T : m <= k
<1> DEFINE R == {ss \in Nat \X Nat : ss[1] < ss[2]}
<1>1. IsWellFoundedOn(R, Nat)
  BY NatLessThanWellFounded DEF OpToRel
<1>2. PICK m \in T : \A k \in T : <<k, m>> \notin R
  <2> HIDE DEF R
  <2> QED BY <1>1, WFMin
<1>3. ASSUME NEW k \in T PROVE m <= k
  <2>1. <<k, m>> \notin R
    BY <1>2
  <2>2. <<k, m>>[1] = k /\ <<k, m>>[2] = m
    OBVIOUS
  <2> QED BY <2>1, <2>2
<1> QED BY <1>3

LEMMA SetInduction ==
  ASSUME NEW S, 0 \in S, \A n \in Nat : n \in S => n+1 \in S
  PROVE  Nat \subseteq S
<1> DEFINE T == Nat \ S
<1> SUFFICES ASSUME T # {} PROVE FALSE
  OBVIOUS
<1>1. PICK m \in T : \A k \in T : m <= k
  BY LeastNumber
<1>2. m # 0 /\ m - 1 \in Nat /\ m - 1 + 1 = m
  OBVIOUS
<1>3. m - 1 \in S
  BY <1>1, <1>2
<1> QED BY <1>2, <1>3

LEMMA GreatestNumber ==
  ASSUME NEW N \in Nat, NEW T, T \subseteq 0..N, T # {}
  PROVE  \E m \in T : \A k \in T : k <= m
<1> DEFINE U == {u \in 0..N : N - u \in T}
<1>1. U \subseteq Nat /\ U # {}
  <2>1. PICK t \in T : TRUE
    OBVIOUS
  <2>2. N - t \in 0..N /\ N - (N - t) = t
    BY <2>1
  <2> QED BY <2>1, <2>2
<1>2. PICK m \in U : \A k \in U : m <= k
  <2> HIDE DEF U
  <2> QED BY <1>1, LeastNumber
<1>3. ASSUME NEW k \in T PROVE k <= N - m
  <2>1. k \in 0..N /\ N - k \in 0..N /\ N - (N - k) = k
    OBVIOUS
  <2>2. m <= N - k
    BY <1>2, <2>1
  <2> QED BY <2>1, <2>2, <1>2
<1> QED BY <1>2, <1>3

\* The same, up to a bound.
LEMMA InductionUpTo ==
  ASSUME NEW N \in Nat, NEW S, 0 \in S, \A n \in 0..N-1 : n \in S => n+1 \in S
  PROVE  0..N \subseteq S
<1> DEFINE U == {n \in Nat : n \in 0..N => n \in S}
<1>1. 0 \in U
  OBVIOUS
<1>2. ASSUME NEW n \in Nat, n \in U PROVE n+1 \in U
  <2>1. n+1 \in 0..N => n \in 0..N-1
    OBVIOUS
  <2> QED BY <1>2, <2>1
<1>3. Nat \subseteq U
  <2> HIDE DEF U
  <2> QED BY <1>1, <1>2, SetInduction
<1> QED BY <1>3

-----------------------------------------------------------------------------
(* Kept, the loop that copies what is wanted of a list.                    *)

\* The function of KeptUpTo, on the numbers up to n.
KeptTo(s, S, n, g) ==
  g = [i \in 0..n |-> IF i = 0 THEN <<>>
                      ELSE IF s[i] \in S THEN Append(g[i-1], s[i]) ELSE g[i-1]]

LEMMA KeptToUnique ==
  ASSUME NEW s, NEW S, NEW m \in Nat, NEW n \in Nat, NEW g, NEW h,
         KeptTo(s, S, m, g), KeptTo(s, S, n, h)
  PROVE  \A i \in Nat : i <= m /\ i <= n => g[i] = h[i]
<1> DEFINE I == {i \in Nat : i <= m /\ i <= n => g[i] = h[i]}
<1>0. \A i \in 0..m : g[i] = IF i = 0 THEN <<>>
                            ELSE IF s[i] \in S THEN Append(g[i-1], s[i]) ELSE g[i-1]
  BY DEF KeptTo
<1>00. \A i \in 0..n : h[i] = IF i = 0 THEN <<>>
                            ELSE IF s[i] \in S THEN Append(h[i-1], s[i]) ELSE h[i-1]
  BY DEF KeptTo
<1>1. 0 \in I
  BY <1>0, <1>00
<1>2. ASSUME NEW i \in Nat, i \in I PROVE i + 1 \in I
  <2> SUFFICES ASSUME i+1 <= m, i+1 <= n PROVE g[i+1] = h[i+1]
    OBVIOUS
  <2>1. g[i] = h[i]
    BY <1>2
  <2>2. i+1 \in 0..m /\ i+1 \in 0..n /\ i+1 # 0 /\ i+1-1 = i
    OBVIOUS
  <2> QED BY <1>0, <1>00, <2>1, <2>2
<1>3. Nat \subseteq I
  <2> HIDE DEF I
  <2> QED BY <1>1, <1>2, SetInduction
<1> QED BY <1>3

LEMMA KeptToExists ==
  ASSUME NEW s, NEW S
  PROVE  \A n \in Nat : \E g : KeptTo(s, S, n, g)
<1> DEFINE I == {n \in Nat : \E g : KeptTo(s, S, n, g)}
<1>1. 0 \in I
  <2> DEFINE g == [i \in 0..0 |-> <<>>]
  <2>1. g = [i \in 0..0 |-> IF i = 0 THEN <<>>
                      ELSE IF s[i] \in S THEN Append(g[i-1], s[i]) ELSE g[i-1]]
    OBVIOUS
  <2>2. KeptTo(s, S, 0, g)
    BY <2>1 DEF KeptTo
  <2> QED BY <2>2
<1>2. ASSUME NEW n \in Nat, n \in I PROVE n+1 \in I
  <2>1. PICK g : KeptTo(s, S, n, g)
    BY <1>2
  <2> DEFINE last == IF s[n+1] \in S THEN Append(g[n], s[n+1]) ELSE g[n]
             h == [i \in 0..n+1 |-> IF i = n+1 THEN last ELSE g[i]]
  <2>2. \A i \in 0..n : g[i] = IF i = 0 THEN <<>>
                              ELSE IF s[i] \in S THEN Append(g[i-1], s[i]) ELSE g[i-1]
    BY <2>1 DEF KeptTo
  <2>3. h[n+1] = last /\ \A i \in 0..n : h[i] = g[i]
    OBVIOUS
  <2>4. ASSUME NEW i \in 0..n+1
        PROVE  h[i] = IF i = 0 THEN <<>>
                      ELSE IF s[i] \in S THEN Append(h[i-1], s[i]) ELSE h[i-1]
    <3> HIDE DEF h
    <3>1. CASE i = n+1
      <4>1. i # 0 /\ i-1 = n /\ n \in 0..n
        BY <3>1
      <4> QED BY <3>1, <4>1, <2>3
    <3>2. CASE i \in 0..n
      <4>1. h[i] = g[i] /\ (i # 0 => i-1 \in 0..n /\ h[i-1] = g[i-1])
        BY <3>2, <2>3
      <4> QED BY <3>2, <4>1, <2>2
    <3> QED BY <3>1, <3>2
  <2>5. h = [i \in 0..n+1 |-> h[i]]
    OBVIOUS
  <2>6. KeptTo(s, S, n+1, h)
    <3> HIDE DEF h
    <3> QED BY <2>4, <2>5 DEF KeptTo
  <2> QED BY <2>6
<1>3. Nat \subseteq I
  <2> HIDE DEF I
  <2> QED BY <1>1, <1>2, SetInduction
<1> QED BY <1>3

\* One turn of the loop after the other.
Turns(k, s, S) ==
  /\ k[0] = <<>>
  /\ \A n \in Nat : k[n+1] = IF s[n+1] \in S THEN Append(k[n], s[n+1]) ELSE k[n]

\* The recursive function is what it says.
LEMMA KeptUpToStep ==
  ASSUME NEW s, NEW S
  PROVE  Turns(KeptUpTo(s, S), s, S)
<1> DEFINE Fits(g) == g = [i \in Nat |-> IF i = 0 THEN <<>>
                                         ELSE IF s[i] \in S THEN Append(g[i-1], s[i]) ELSE g[i-1]]
           part == [n \in Nat |-> CHOOSE g : KeptTo(s, S, n, g)]
           f == [n \in Nat |-> part[n][n]]
<1>1. \A n \in Nat : KeptTo(s, S, n, part[n])
  BY KeptToExists
<1>2. ASSUME NEW i \in Nat
      PROVE  f[i] = IF i = 0 THEN <<>> ELSE IF s[i] \in S THEN Append(f[i-1], s[i]) ELSE f[i-1]
  <2> DEFINE g == part[i]
  <2>0. g = part[i]
    OBVIOUS
  <2>00. f[i] = g[i] /\ (i # 0 => f[i-1] = part[i-1][i-1])
    OBVIOUS
  <2> HIDE DEF part, f, g
  <2>1. KeptTo(s, S, i, g)
    BY <1>1, <2>0
  <2>2. g[i] = IF i = 0 THEN <<>> ELSE IF s[i] \in S THEN Append(g[i-1], s[i]) ELSE g[i-1]
    <3>1. i \in 0..i
      OBVIOUS
    <3> QED BY <2>1, <3>1 DEF KeptTo
  <2>3. i # 0 => f[i-1] = g[i-1]
    <3> SUFFICES ASSUME i # 0 PROVE f[i-1] = g[i-1]
      OBVIOUS
    <3>1. i-1 \in Nat /\ i-1 <= i
      OBVIOUS
    <3>2. KeptTo(s, S, i-1, part[i-1])
      BY <3>1, <1>1
    <3>3. part[i-1][i-1] = g[i-1]
      BY <2>1, <3>1, <3>2, KeptToUnique
    <3> QED BY <2>00, <3>3
  <2> QED BY <2>2, <2>3, <2>00
<1>3. Fits(f)
  <2>1. f = [i \in Nat |-> f[i]]
    OBVIOUS
  <2> HIDE DEF f
  <2> QED BY <1>2, <2>1
<1>4. Fits(KeptUpTo(s, S))
  <2>1. KeptUpTo(s, S) = CHOOSE g : Fits(g)
    BY DEF KeptUpTo
  <2> HIDE DEF Fits, f
  <2> QED BY <1>3, <2>1
<1> DEFINE k == KeptUpTo(s, S)
<1>5. \A i \in Nat : k[i] = IF i = 0 THEN <<>>
                           ELSE IF s[i] \in S THEN Append(k[i-1], s[i]) ELSE k[i-1]
  <2> HIDE DEF k
  <2>1. k = KeptUpTo(s, S)
    BY DEF k
  <2> QED BY <1>4, <2>1
<1> HIDE DEF k
<1>6. Turns(k, s, S)
  <2>1. \A n \in Nat : n+1 \in Nat /\ n+1 # 0 /\ n+1-1 = n
    OBVIOUS
  <2> QED BY <1>5, <2>1 DEF Turns
<1> QED BY <1>6 DEF k

\* What is kept are elements of the list that are in the set, no more than there are.
LEMMA KeptTyped ==
  ASSUME NEW T, NEW s \in Seq(T), NEW S
  PROVE  \A n \in 0..Len(s) : KeptUpTo(s, S)[n] \in Seq(T \intersect S)
<1> DEFINE k == KeptUpTo(s, S)
<1>1. Turns(k, s, S)
  BY KeptUpToStep
<1> HIDE DEF k
<1>0. Len(s) \in Nat /\ \A i \in 1..Len(s) : s[i] \in T
  BY LenProperties, ElementOfSeq
<1> DEFINE I == {n \in 0..Len(s) : k[n] \in Seq(T \intersect S)}
<1>2. 0 \in I
  <2>1. k[0] \in Seq(T \intersect S)
    BY <1>1, EmptySeq DEF Turns
  <2> QED BY <1>0, <2>1
<1>3. ASSUME NEW n \in 0..Len(s)-1, n \in I PROVE n+1 \in I
  <2>1. n \in Nat /\ n+1 \in 1..Len(s) /\ s[n+1] \in T
    BY <1>0
  <2>2. k[n+1] = IF s[n+1] \in S THEN Append(k[n], s[n+1]) ELSE k[n]
    BY <1>1, <2>1 DEF Turns
  <2>3. k[n] \in Seq(T \intersect S)
    BY <1>3
  <2>4. s[n+1] \in S => Append(k[n], s[n+1]) \in Seq(T \intersect S)
    BY <2>1, <2>3, AppendProperties
  <2>5. k[n+1] \in Seq(T \intersect S)
    BY <2>2, <2>3, <2>4
  <2> QED BY <2>1, <2>5, <1>0
<1>4. 0..Len(s) \subseteq I
  <2> HIDE DEF I
  <2> QED BY <1>0, <1>2, <1>3, InductionUpTo
<1> QED BY <1>4 DEF k

\* When nothing is left out at the start, the start is kept as it is.
LEMMA KeptStart ==
  ASSUME NEW T, NEW s \in Seq(T), NEW S, NEW m \in 0..Len(s),
         \A i \in 1..m : s[i] \in S
  PROVE  \A n \in m..Len(s) :
           /\ Len(KeptUpTo(s, S)[n]) >= m
           /\ n = m => Len(KeptUpTo(s, S)[n]) = m
           /\ \A i \in 1..m : KeptUpTo(s, S)[n][i] = s[i]
<1> DEFINE k == KeptUpTo(s, S)
<1>00. Turns(k, s, S)
  BY KeptUpToStep
<1> HIDE DEF k
<1> DEFINE Starts(n) ==
             LET h == IF n <= m THEN n ELSE m
             IN  /\ Len(k[n]) >= h
                 /\ n = h => Len(k[n]) = h
                 /\ \A i \in 1..h : k[n][i] = s[i]
           I == {n \in 0..Len(s) : Starts(n)}
<1>0. Turns(k, s, S) /\ Len(s) \in Nat /\ \A i \in 1..Len(s) : s[i] \in T
  BY <1>00, LenProperties, ElementOfSeq
<1>1. 0 \in I
  <2>1. k[0] = <<>> /\ Len(<<>>) = 0
    BY <1>0 DEF Turns
  <2> QED BY <1>0, <2>1
<1>2. ASSUME NEW n \in 0..Len(s)-1, n \in I PROVE n+1 \in I
  <2>1. n \in Nat /\ n+1 \in 1..Len(s) /\ n \in 0..Len(s) /\ s[n+1] \in T
    BY <1>0
  <2>2. k[n+1] = IF s[n+1] \in S THEN Append(k[n], s[n+1]) ELSE k[n]
    BY <1>0, <2>1 DEF Turns
  <2>3. k[n] \in Seq(T)
    <3>1. k[n] \in Seq(T \intersect S)
      BY <2>1, KeptTyped DEF k
    <3> QED BY <3>1
  <2>4. Len(k[n]) \in Nat
    BY <2>3, LenProperties
  <2>5. Starts(n)
    BY <1>2
  <2>6. /\ Len(Append(k[n], s[n+1])) = Len(k[n]) + 1
        /\ \A i \in 1..Len(k[n]) : Append(k[n], s[n+1])[i] = k[n][i]
        /\ Append(k[n], s[n+1])[Len(k[n]) + 1] = s[n+1]
    BY <2>1, <2>3, AppendProperties
  <2>7. CASE n+1 <= m
    <3>1. k[n+1] = Append(k[n], s[n+1])
      BY <2>1, <2>2, <2>7
    <3>2. Len(k[n]) = n /\ \A i \in 1..n : k[n][i] = s[i]
      BY <2>1, <2>5, <2>7
    <3>3. Len(k[n+1]) = n+1 /\ \A i \in 1..n+1 : k[n+1][i] = s[i]
      BY <2>1, <2>6, <3>1, <3>2
    <3>4. Starts(n+1)
      BY <2>1, <2>7, <3>3
    <3> QED BY <2>1, <3>4
  <2>8. CASE n+1 > m
    <3>1. Len(k[n]) >= m /\ \A i \in 1..m : k[n][i] = s[i]
      BY <2>1, <2>5, <2>8
    <3>2. Len(k[n+1]) >= m /\ \A i \in 1..m : k[n+1][i] = s[i]
      BY <2>1, <2>2, <2>4, <2>6, <3>1
    <3>3. Starts(n+1)
      BY <2>1, <2>8, <3>2
    <3> QED BY <2>1, <3>3
  <2> QED BY <2>1, <2>7, <2>8
<1>3. 0..Len(s) \subseteq I
  <2> HIDE DEF I
  <2> QED BY <1>0, <1>1, <1>2, InductionUpTo
<1>4. ASSUME NEW n \in m..Len(s)
      PROVE  /\ Len(k[n]) >= m
             /\ n = m => Len(k[n]) = m
             /\ \A i \in 1..m : k[n][i] = s[i]
  <2>1. n \in I
    BY <1>0, <1>3
  <2> QED BY <1>0, <2>1
<1> QED BY <1>4 DEF k

-----------------------------------------------------------------------------
(* The parts of a package.                                                 *)

LEMMA PagesTyped ==
  ASSUME pkg \in Package
  PROVE  PageLocations \in Seq(Name)
<1> DEFINE locs == [i \in 1..Len(pkg.list) |-> pkg.list[i].loc]
<1>1. pkg.list \in Seq([loc : Named, box : Box \union {NotGiven}])
  BY DEF Package
<1>2. locs \in Seq(Named) /\ Len(locs) \in Nat
  <2>1. /\ Len(pkg.list) \in Nat
        /\ \A i \in 1..Len(pkg.list) : pkg.list[i] \in [loc : Named, box : Box \union {NotGiven}]
    BY <1>1, LenProperties, ElementOfSeq
  <2>2. \A i \in 1..Len(pkg.list) : pkg.list[i].loc \in Named
    BY <2>1
  <2>3. locs \in Seq(Named)
    BY <2>1, <2>2
  <2> QED BY <2>3, LenProperties
<1> HIDE DEF locs
<1>3. KeptUpTo(locs, Name)[Len(locs)] \in Seq(Named \intersect Name)
  <2>1. Len(locs) \in 0..Len(locs)
    BY <1>2
  <2> QED BY <1>2, <2>1, KeptTyped
<1>4. Named \intersect Name = Name
  BY DEF Named
<1> QED BY <1>3, <1>4 DEF PageLocations, Kept, locs

LEMMA SignaturesTyped ==
  ASSUME pkg \in Package
  PROVE  Signatures \in Seq(Named)
<1> DEFINE withInfo == {i \in 1..Len(pkg.sigs) : pkg.sigs[i].info}
           last == IF withInfo = {} THEN Len(pkg.sigs)
                   ELSE CHOOSE i \in withInfo : \A j \in withInfo : i <= j
           sealed == {i \in last..Len(pkg.sigs) : pkg.sigs[i].info /\ pkg.sigs[i].seal # NotGiven}
           seal == pkg.sigs[CHOOSE j \in sealed : \A k \in sealed : k <= j].seal
<1>1. /\ Len(pkg.sigs) \in Nat
      /\ \A i \in 1..Len(pkg.sigs) : pkg.sigs[i].base \in Named /\ pkg.sigs[i].seal \in Named
  <2>1. pkg.sigs \in Seq([base : Named, info : BOOLEAN, seal : Named])
    BY DEF Package
  <2>2. /\ Len(pkg.sigs) \in Nat
        /\ \A i \in 1..Len(pkg.sigs) : pkg.sigs[i] \in [base : Named, info : BOOLEAN, seal : Named]
    BY <2>1, LenProperties, ElementOfSeq
  <2> QED BY <2>2
<1>2. last \in 0..Len(pkg.sigs)
  <2>1. CASE withInfo = {}
    BY <1>1, <2>1
  <2>2. CASE withInfo # {}
    <3>1. withInfo \subseteq Nat
      BY <1>1
    <3>2. \E i \in withInfo : \A j \in withInfo : i <= j
      <4> HIDE DEF withInfo
      <4> QED BY <2>2, <3>1, LeastNumber
    <3>3. last \in withInfo
      <4> HIDE DEF withInfo
      <4> QED BY <2>2, <3>2
    <3> QED BY <1>1, <3>3
  <2> QED BY <2>1, <2>2
<1>3. ASSUME last # 0, sealed # {} PROVE seal \in Named
  <2>1. sealed \subseteq 0..Len(pkg.sigs)
    <3> HIDE DEF last
    <3> QED BY <1>1, <1>2
  <2>2. \E j \in sealed : \A k \in sealed : k <= j
    <3> HIDE DEF sealed, last
    <3> QED BY <1>1, <1>3, <2>1, GreatestNumber
  <2> DEFINE greatest == CHOOSE j \in sealed : \A k \in sealed : k <= j
  <2>3. greatest \in sealed
    <3> HIDE DEF sealed
    <3> QED BY <2>2
  <2>4. greatest \in 1..Len(pkg.sigs)
    <3> HIDE DEF greatest, last
    <3> QED BY <1>1, <1>2, <1>3, <2>3
  <2>5. seal = pkg.sigs[greatest].seal
    OBVIOUS
  <2> HIDE DEF greatest, seal
  <2> QED BY <1>1, <2>4, <2>5
<1> DEFINE loc(i) == IF i = last /\ sealed # {} THEN seal ELSE pkg.sigs[i].base
<1>4. Signatures = IF Good(SignaturesXml) THEN [i \in 1..last |-> loc(i)] ELSE <<>>
  BY DEF Signatures
<1>5. \A i \in 1..last : loc(i) \in Named
  <2> HIDE DEF last, sealed, seal
  <2> QED BY <1>1, <1>2, <1>3
<1>6. [i \in 1..last |-> loc(i)] \in Seq(Named)
  <2> HIDE DEF last, loc
  <2> QED BY <1>1, <1>2, <1>5
<1>7. <<>> \in Seq(Named)
  BY EmptySeq
<1> HIDE DEF last, loc
<1> QED BY <1>4, <1>6, <1>7

\* The first entry of a name is its last where there is one.
LEMMA OneEntry ==
  ASSUME pkg \in Package, NEW n \in Name, Once(n), Present(n)
  PROVE  FirstEntry(n) = LastEntry(n)
<1> DEFINE entries == pkg.file[n]
<1>1. entries \in Seq(Entry) /\ entries # <<>> /\ Len(entries) <= 1
  BY DEF Package, Present, Once
<1> HIDE DEF entries
<1> DEFINE length == Len(entries)
<1>2. length \in Nat /\ length # 0 /\ length <= 1
  BY <1>1, EmptySeq, LenProperties
<1> HIDE DEF length
<1>3. length = 1
  BY <1>2
<1> QED BY <1>3 DEF FirstEntry, LastEntry, entries, length

(***************************************************************************)
(* A signature that names no seal has no summary and a complaint; and of a *)
(* seal with one entry the summary says that it was read exactly when      *)
(* there is no complaint about the signature that names it.                *)
(***************************************************************************)
LEMMA SealsSame ==
  ASSUME pkg \in Package
  PROVE  /\ \A i \in 1..Len(Signatures) \ ValidateSeals : i \in DOMAIN CollectSealSummaries
         /\ \A i \in DOMAIN CollectSealSummaries :
              Once(Signatures[i]) => (CollectSealSummaries[i] <=> i \notin ValidateSeals)
<1>1. /\ Signatures \in Seq(Named) /\ Len(Signatures) \in Nat
      /\ \A i \in 1..Len(Signatures) : Signatures[i] \in Named
  <2>1. Signatures \in Seq(Named)
    BY SignaturesTyped
  <2> QED BY <2>1, LenProperties, ElementOfSeq
<1>2. DOMAIN CollectSealSummaries = {j \in 1..Len(Signatures) : Signatures[j] # NotGiven}
  BY DEF CollectSealSummaries
<1>3. \A i \in 1..Len(Signatures) :
        i \in ValidateSeals <=> SealProblem(Signatures[i]) # "none"
  BY DEF ValidateSeals
<1>4. SealProblem(NotGiven) # "none"
  BY DEF SealProblem
<1>5. ASSUME NEW i \in 1..Len(Signatures) \ ValidateSeals PROVE i \in DOMAIN CollectSealSummaries
  BY <1>2, <1>3, <1>4, <1>5
<1>6. ASSUME NEW i \in DOMAIN CollectSealSummaries, Once(Signatures[i])
      PROVE  CollectSealSummaries[i] <=> i \notin ValidateSeals
  <2> DEFINE n == Signatures[i]
  <2>1. i \in 1..Len(Signatures) /\ n # NotGiven
    BY <1>2
  <2>2. n \in Name
    BY <1>1, <2>1 DEF Named
  <2>3. CollectSealSummaries[i] = (GoodFirst(n) /\ FirstEntry(n) = "seal")
    BY <2>1, Zenon DEF CollectSealSummaries
  <2>4. SealProblem(n) = "none" <=> Good(n) /\ LastEntry(n) = "seal"
    <3> HIDE DEF n
    <3>1. CASE ~Present(n)
      BY <2>1, <3>1 DEF SealProblem, Good, Sound
    <3>2. CASE Present(n) /\ ~Good(n)
      BY <2>1, <3>2 DEF SealProblem
    <3>3. CASE Present(n) /\ Good(n) /\ LastEntry(n) # "seal"
      BY <2>1, <3>3 DEF SealProblem
    <3>4. CASE Present(n) /\ Good(n) /\ LastEntry(n) = "seal"
      BY <2>1, <3>4 DEF SealProblem
    <3> QED BY <3>1, <3>2, <3>3, <3>4
  <2>5. Present(n) => FirstEntry(n) = LastEntry(n)
    BY <1>6, <2>2, OneEntry
  <2>6. GoodFirst(n) /\ FirstEntry(n) = "seal" <=> Good(n) /\ LastEntry(n) = "seal"
    <3> HIDE DEF n
    <3> QED BY <2>5 DEF GoodFirst, Good, Sound
  <2>7. i \in ValidateSeals <=> SealProblem(n) # "none"
    BY <1>3, <2>1
  <2> HIDE DEF n
  <2> QED BY <2>3, <2>4, <2>6, <2>7
<1> QED BY <1>5, <1>6

LEMMA SamePackage ==
  ASSUME pkg' = pkg
  PROVE  PageLocations' = PageLocations
BY DEF PageLocations

LEMMA SameSignatures ==
  ASSUME pkg' = pkg, zip' = zip
  PROVE  Signatures' = Signatures /\ ValidateSeals' = ValidateSeals
<1>1. Signatures' = Signatures
  BY DEF Signatures, Good, Sound, Present, LastEntry
<1>2. \A l : SealProblem(l)' = SealProblem(l)
  BY DEF SealProblem, Good, Sound, Present, LastEntry
<1> QED BY <1>1, <1>2 DEF ValidateSeals

-----------------------------------------------------------------------------
(***************************************************************************)
(* The iterator has given the pages up to its index, each of which could   *)
(* be read, and the end only when the index is there.  That it is so       *)
(* however often it failed, was reset or the document was closed is what   *)
(* makes the pages given a beginning of the whole text.                    *)
(***************************************************************************)
GivenInOrder ==
  /\ Len(given.pages) = it.index
  /\ \A i \in 1..it.index :
       given.pages[i] = PageLocations[i] /\ Sound(PageLocations[i])
  /\ given.ended => it.index = Len(PageLocations)

IInv ==
  /\ TypeOK
  /\ GivenInOrder
  /\ NumberNamesPage
  /\ TextHasEveryPage
  /\ SealsAgree

LEMMA InitIInv == Init => IInv
<1> SUFFICES ASSUME Init PROVE IInv
  OBVIOUS
<1>1. pkg \in Package
  BY PackagesAssumption DEF Init
<1>2. PageLocations \in Seq(Name) /\ Len(PageLocations) \in Nat
  BY <1>1, PagesTyped, LenProperties
<1>3. /\ given = NothingGiven /\ it = NoIterator /\ meta = NotLoaded
      /\ zip = "none" /\ answer = Failed("none")
  BY DEF Init
<1>4. given.pages = <<>> /\ given.ended = FALSE /\ it.index = 0
  BY <1>3 DEF NothingGiven, NoIterator
<1>5. given \in [pages : Seq(Name), ended : BOOLEAN]
  <2>1. <<>> \in Seq(Name)
    BY EmptySeq
  <2> QED BY <1>3, <2>1 DEF NothingGiven
<1>6. TypeOK
  BY <1>1, <1>2, <1>3, <1>5 DEF TypeOK, NoIterator, NotLoaded
<1>7. GivenInOrder
  <2>1. Len(<<>>) = 0
    OBVIOUS
  <2> QED BY <1>4, <2>1 DEF GivenInOrder
<1>8. answer.ok = FALSE /\ answer.op = "none"
  BY <1>3 DEF Failed
<1> QED BY <1>6, <1>7, <1>8 DEF IInv, NumberNamesPage, TextHasEveryPage, SealsAgree

\* What a step that leaves the iterator alone has to show.
LEMMA IteratorKept ==
  ASSUME IInv, pkg' = pkg, it' = it, given' = given,
         zip' \in {"none", "refused", "open", "closed"},
         meta' \in [done : BOOLEAN, failed : BOOLEAN, version : BOOLEAN, count : Nat]
  PROVE  TypeOK' /\ GivenInOrder'
<1>1. PageLocations' = PageLocations
  BY SamePackage
<1> QED BY <1>1 DEF IInv, TypeOK, GivenInOrder, Sound, Present, LastEntry

\* An answer that is none of those the invariant speaks of.
LEMMA OtherAnswer ==
  ASSUME \/ answer'.op \notin {"next", "textpage", "goto", "text", "info"}
         \/ answer'.ok = FALSE /\ answer'.op # "info"
  PROVE  NumberNamesPage' /\ TextHasEveryPage' /\ SealsAgree'
BY DEF NumberNamesPage, TextHasEveryPage, SealsAgree

\* The iterator at the start.
LEMMA StartAgain ==
  ASSUME IInv, NEW made \in BOOLEAN, it' = [made |-> made, index |-> 0], given' = NothingGiven,
         pkg' = pkg, zip' = zip, meta' = meta
  PROVE  TypeOK' /\ GivenInOrder'
<1>1. PageLocations' = PageLocations /\ Len(PageLocations) \in Nat
  BY SamePackage, PagesTyped, LenProperties DEF IInv, TypeOK
<1>2. <<>> \in Seq(Name) /\ Len(<<>>) = 0
  BY EmptySeq
<1>3. given'.pages = <<>> /\ given'.ended = FALSE
  BY DEF NothingGiven
<1>4. given' \in [pages : Seq(Name), ended : BOOLEAN]
  BY <1>2 DEF NothingGiven
<1>5. TypeOK'
  BY <1>1, <1>4 DEF IInv, TypeOK
<1>6. GivenInOrder'
  BY <1>1, <1>2, <1>3 DEF GivenInOrder
<1> QED BY <1>5, <1>6

LEMMA NumberOfIsPlace ==
  ASSUME NEW n, PageLocations \in Seq(Name)
  PROVE  \/ NumberOf(n) > 0 /\ PageLocations[NumberOf(n)] = n
         \/ NumberOf(n) = 0 /\ n \notin Range(PageLocations)
<1> DEFINE places == {i \in 1..Len(PageLocations) : PageLocations[i] = n}
<1>1. Len(PageLocations) \in Nat /\ DOMAIN PageLocations = 1..Len(PageLocations)
  BY LenProperties
<1>2. CASE places = {}
  <2>1. n \notin Range(PageLocations)
    BY <1>1, <1>2 DEF Range
  <2> QED BY <1>2, <2>1 DEF NumberOf
<1>3. CASE places # {}
  <2>1. places \subseteq Nat
    OBVIOUS
  <2>2. \E i \in places : \A j \in places : i <= j
    <3> HIDE DEF places
    <3> QED BY <1>3, <2>1, LeastNumber
  <2>3. NumberOf(n) = CHOOSE i \in places : \A j \in places : i <= j
    BY <1>3 DEF NumberOf
  <2>4. NumberOf(n) \in places
    <3> HIDE DEF places
    <3> QED BY <2>2, <2>3
  <2> QED BY <1>1, <2>4
<1> QED BY <1>2, <1>3

LEMMA StepIInv == IInv /\ [Next]_vars => IInv'
<1> SUFFICES ASSUME IInv, [Next]_vars PROVE IInv'
  OBVIOUS
<1>0. /\ pkg \in Package
      /\ PageLocations \in Seq(Name) /\ Len(PageLocations) \in Nat
      /\ \A i \in 1..Len(PageLocations) : PageLocations[i] \in Name
      /\ it.made \in BOOLEAN /\ it.index \in 0..Len(PageLocations)
      /\ it = [made |-> it.made, index |-> it.index]
      /\ given.pages \in Seq(Name) /\ given.ended \in BOOLEAN
      /\ given = [pages |-> given.pages, ended |-> given.ended]
  <2>1. pkg \in Package
    BY DEF IInv, TypeOK
  <2>2. PageLocations \in Seq(Name)
    BY <2>1, PagesTyped
  <2> QED BY <2>1, <2>2, LenProperties, ElementOfSeq DEF IInv, TypeOK
<1>1. CASE Open
  <2>1. TypeOK' /\ GivenInOrder'
    BY <1>1, IteratorKept DEF Open, IInv, TypeOK
  <2>2. answer'.op = "open"
    BY <1>1 DEF Open
  <2> QED BY <2>1, <2>2, OtherAnswer DEF IInv
<1>2. CASE Close
  <2>1. TypeOK' /\ GivenInOrder'
    BY <1>2, IteratorKept DEF Close, IInv, TypeOK
  <2>2. answer'.op = "close"
    BY <1>2 DEF Close
  <2> QED BY <2>1, <2>2, OtherAnswer DEF IInv
<1>3. CASE Info
  <2>1. meta' \in [done : BOOLEAN, failed : BOOLEAN, version : BOOLEAN, count : Nat]
    <3>1. PageCount \in Nat
      <4>1. /\ pkg.list \in Seq([loc : Named, box : Box \union {NotGiven}])
            /\ pkg.earlier \in Nat
        BY <1>0 DEF Package
      <4> QED BY <4>1, LenProperties DEF PageCount
    <3>2. (~GetPageCount) \in BOOLEAN /\ GoodFirst(OFDXml) \in BOOLEAN
      BY DEF GetPageCount, GetDocRoot, GoodFirst
    <3>3. LoadMeta \in [done : BOOLEAN, failed : BOOLEAN, version : BOOLEAN, count : Nat]
      BY <3>1, <3>2 DEF LoadMeta
    <3> QED BY <1>3, <3>3 DEF Info, IInv, TypeOK
  <2>2. TypeOK' /\ GivenInOrder'
    BY <1>3, <2>1, IteratorKept DEF Info, IInv, TypeOK
  <2>3. answer'.op = "info" /\ answer'.seals = CollectSealSummaries
    BY <1>3 DEF Info
  <2>4. SealsAgree'
    <3>1. Signatures' = Signatures /\ ValidateSeals' = ValidateSeals
      BY <1>3, SameSignatures DEF Info
    <3>2. \A n : Once(n)' = Once(n)
      BY <1>3 DEF Info, Once
    <3> QED BY <1>0, <2>3, <3>1, <3>2, SealsSame DEF SealsAgree
  <2>5. NumberNamesPage' /\ TextHasEveryPage'
    BY <2>3 DEF NumberNamesPage, TextHasEveryPage
  <2> QED BY <2>2, <2>4, <2>5 DEF IInv
<1>4. CASE Validate
  <2>1. TypeOK' /\ GivenInOrder'
    BY <1>4, IteratorKept DEF Validate, IInv, TypeOK
  <2>2. answer'.op = "validate"
    BY <1>4 DEF Validate
  <2> QED BY <2>1, <2>2, OtherAnswer DEF IInv
<1>5. CASE FirstPageInfo
  <2>1. TypeOK' /\ GivenInOrder'
    BY <1>5, IteratorKept DEF FirstPageInfo, IInv, TypeOK
  <2>2. answer'.op = "firstpage"
    BY <1>5 DEF FirstPageInfo, Failed
  <2> QED BY <2>1, <2>2, OtherAnswer DEF IInv
<1>6. CASE ExtractText
  <2> DEFINE good == {n \in Name : Good(n)}
             text == Kept(PageLocations, good)
  <2>1. TypeOK' /\ GivenInOrder'
    BY <1>6, IteratorKept DEF ExtractText, IInv, TypeOK
  <2>2. CASE ~ReadDocumentXML
    <3>1. answer'.op = "text" /\ answer'.ok = FALSE
      BY <1>6, <2>2 DEF ExtractText, Failed
    <3> QED BY <2>1, <3>1, OtherAnswer DEF IInv
  <2>3. CASE ReadDocumentXML
    <3>1. answer'.op = "text" /\ answer'.pages = text /\ given' = given
      BY <1>6, <2>3 DEF ExtractText
    <3>2. zip = "open"
      BY <2>3 DEF ReadDocumentXML, Good
    <3>3. \A i \in 1..it.index : PageLocations[i] \in good
      BY <1>0, <3>2 DEF IInv, GivenInOrder, Good
    <3>4. text \in Seq(Name) /\ Len(text) \in Nat
      <4>1. Len(PageLocations) \in 0..Len(PageLocations) /\ Name \intersect good = good
        BY <1>0
      <4>2. text \in Seq(good)
        <5> HIDE DEF good
        <5>1. text \in Seq(Name \intersect good)
          BY <1>0, <4>1, KeptTyped DEF Kept
        <5> QED BY <4>1, <5>1
      <4>3. text \in Seq(Name)
        <5> HIDE DEF text
        <5> QED BY <4>2
      <4> QED BY <4>3, LenProperties
    <3>5. /\ Len(text) >= it.index
          /\ it.index = Len(PageLocations) => Len(text) = it.index
          /\ \A i \in 1..it.index : text[i] = PageLocations[i]
      <4> HIDE DEF good
      <4>1. Len(PageLocations) \in it.index..Len(PageLocations)
        BY <1>0
      <4> QED BY <1>0, <3>3, <4>1, KeptStart DEF Kept
    <3>6. /\ Len(given.pages) = it.index
          /\ \A i \in 1..it.index : given.pages[i] = text[i]
          /\ given.ended => it.index = Len(PageLocations)
      BY <3>5 DEF IInv, GivenInOrder
    <3> HIDE DEF text
    <3>7. given.ended => text = given.pages
      <4> SUFFICES ASSUME given.ended PROVE text = given.pages
        OBVIOUS
      <4>1. Len(text) = Len(given.pages) /\ \A i \in 1..Len(text) : text[i] = given.pages[i]
        BY <3>5, <3>6
      <4> QED BY <1>0, <3>4, <4>1, SeqEqual
    <3>8. IsPrefix(given.pages, text)
      <4>1. SubSeq(given.pages, 1, Len(given.pages)) = SubSeq(text, 1, Len(given.pages))
        <5>1. /\ SubSeq(given.pages, 1, it.index) \in Seq(Name)
              /\ Len(SubSeq(given.pages, 1, it.index)) = IF 1 <= it.index THEN it.index - 1 + 1 ELSE 0
              /\ \A i \in 1..it.index - 1 + 1 :
                   SubSeq(given.pages, 1, it.index)[i] = given.pages[1 + i - 1]
          <6>1. \A i \in 1..it.index : given.pages[i] \in Name
            BY <1>0, <3>6, ElementOfSeq
          <6> QED BY <1>0, <6>1, SubSeqProperties
        <5>2. /\ SubSeq(text, 1, it.index) \in Seq(Name)
              /\ Len(SubSeq(text, 1, it.index)) = IF 1 <= it.index THEN it.index - 1 + 1 ELSE 0
              /\ \A i \in 1..it.index - 1 + 1 :
                   SubSeq(text, 1, it.index)[i] = text[1 + i - 1]
          <6>1. \A i \in 1..it.index : text[i] \in Name
            BY <1>0, <3>4, <3>5, ElementOfSeq
          <6> QED BY <1>0, <6>1, SubSeqProperties
        <5>3. \A i \in 1..it.index : i \in 1..it.index - 1 + 1 /\ 1 + i - 1 = i
          BY <1>0
        <5>4. \A i \in 1..it.index :
                SubSeq(given.pages, 1, it.index)[i] = SubSeq(text, 1, it.index)[i]
          BY <5>1, <5>2, <5>3, <3>6
        <5>5. Len(SubSeq(given.pages, 1, it.index)) = it.index
          BY <1>0, <5>1
        <5>6. Len(SubSeq(text, 1, it.index)) = it.index
          BY <1>0, <5>2
        <5>7. SubSeq(given.pages, 1, it.index) = SubSeq(text, 1, it.index)
          BY <5>1, <5>2, <5>4, <5>5, <5>6, SeqEqual
        <5> QED BY <5>7, <3>6
      <4> QED BY <3>5, <3>6, <4>1 DEF IsPrefix
    <3>9. TextHasEveryPage'
      BY <3>1, <3>7, <3>8 DEF TextHasEveryPage
    <3>10. NumberNamesPage' /\ SealsAgree'
      BY <3>1 DEF NumberNamesPage, SealsAgree
    <3> QED BY <2>1, <3>9, <3>10 DEF IInv
  <2> QED BY <2>2, <2>3
<1>7. ASSUME NEW number \in 1..Len(pkg.list), ExtractTextPage(number) PROVE IInv'
  <2>1. TypeOK' /\ GivenInOrder'
    BY <1>7, IteratorKept DEF ExtractTextPage, IInv, TypeOK
  <2>2. CASE answer' = Failed("textpage")
    <3>1. answer'.op = "textpage" /\ answer'.ok = FALSE
      BY <2>2 DEF Failed
    <3> QED BY <2>1, <3>1, OtherAnswer DEF IInv
  <2>3. CASE answer' # Failed("textpage")
    <3>1. /\ number \in 1..Len(PageLocations)
          /\ answer' = [op |-> "textpage", ok |-> TRUE, number |-> number,
                        page |-> PageLocations[number]]
      BY <1>7, <2>3 DEF ExtractTextPage
    <3>2. /\ answer'.op = "textpage" /\ answer'.number = number
          /\ answer'.page = PageLocations[number]
      BY <3>1
    <3>3. PageLocations' = PageLocations
      BY <1>7, SamePackage DEF ExtractTextPage
    <3>4. NumberNamesPage'
      BY <1>0, <3>1, <3>2, <3>3 DEF NumberNamesPage
    <3> QED BY <2>1, <3>2, <3>4 DEF IInv, TextHasEveryPage, SealsAgree
  <2> QED BY <2>2, <2>3
<1>8. CASE NewPageIterator
  <2>1. CASE ~ReadDocumentXML
    <3>1. TypeOK' /\ GivenInOrder'
      BY <1>8, <2>1, IteratorKept DEF NewPageIterator, IInv, TypeOK
    <3>2. answer'.op = "iterator"
      BY <1>8, <2>1 DEF NewPageIterator, Failed
    <3> QED BY <3>1, <3>2, OtherAnswer DEF IInv
  <2>2. CASE ReadDocumentXML
    <3>1. /\ it' = [made |-> TRUE, index |-> 0] /\ given' = NothingGiven
          /\ pkg' = pkg /\ zip' = zip /\ meta' = meta /\ answer'.op = "iterator"
      BY <1>8, <2>2 DEF NewPageIterator
    <3>2. TypeOK' /\ GivenInOrder'
      BY <1>0, <3>1, StartAgain
    <3> QED BY <3>1, <3>2, OtherAnswer DEF IInv
  <2> QED BY <2>1, <2>2
<1>9. CASE Reset
  <2>1. /\ it' = [made |-> it.made, index |-> 0] /\ given' = NothingGiven
        /\ pkg' = pkg /\ zip' = zip /\ meta' = meta /\ answer'.op = "reset"
    BY <1>0, <1>9 DEF Reset
  <2>2. TypeOK' /\ GivenInOrder'
    BY <1>0, <2>1, StartAgain
  <2> QED BY <2>1, <2>2, OtherAnswer DEF IInv
<1>10. CASE NextEOF
  <2>1. /\ it.index >= Len(PageLocations) /\ it' = it
        /\ given' = [pages |-> given.pages, ended |-> TRUE]
        /\ pkg' = pkg /\ zip' = zip /\ meta' = meta
        /\ answer'.op = "next" /\ answer'.ok = FALSE
    BY <1>0, <1>10 DEF NextEOF
  <2>2. PageLocations' = PageLocations
    BY <2>1, SamePackage
  <2>3. TypeOK'
    BY <1>0, <2>1, <2>2 DEF IInv, TypeOK
  <2>4. GivenInOrder'
    BY <1>0, <2>1, <2>2 DEF IInv, GivenInOrder, Sound, Present, LastEntry
  <2> QED BY <2>1, <2>3, <2>4, OtherAnswer DEF IInv
<1>11. CASE NextFails
  <2>1. TypeOK' /\ GivenInOrder'
    BY <1>11, IteratorKept DEF NextFails, IInv, TypeOK
  <2>2. answer'.op = "next" /\ answer'.ok = FALSE
    BY <1>11 DEF NextFails
  <2> QED BY <2>1, <2>2, OtherAnswer DEF IInv
<1>12. CASE NextPage
  <2> DEFINE page == PageLocations[it.index + 1]
  <2>1. /\ it.index < Len(PageLocations)
        /\ zip = "open" /\ Sound(page)
        /\ given' = [pages |-> Append(given.pages, page), ended |-> given.ended]
        /\ it' = [made |-> it.made, index |-> it.index + 1]
        /\ pkg' = pkg /\ zip' = zip /\ meta' = meta
        /\ answer'.op = "next" /\ answer'.number = it.index + 1 /\ answer'.page = page
    BY <1>0, <1>12 DEF NextPage, Good
  <2>2. PageLocations' = PageLocations
    BY <2>1, SamePackage
  <2>3. it.index + 1 \in 1..Len(PageLocations) /\ page \in Name
    BY <1>0, <2>1
  <2> HIDE DEF page
  <2>4. Len(given.pages) = it.index
    BY DEF IInv, GivenInOrder
  <2>5. /\ Append(given.pages, page) \in Seq(Name)
        /\ Len(Append(given.pages, page)) = it.index + 1
        /\ \A i \in 1..it.index : Append(given.pages, page)[i] = given.pages[i]
        /\ Append(given.pages, page)[it.index + 1] = page
    BY <1>0, <2>3, <2>4, AppendProperties
  <2>6. TypeOK'
    BY <1>0, <2>1, <2>2, <2>3, <2>5 DEF IInv, TypeOK
  <2>7. ~given.ended
    BY <1>0, <2>1 DEF IInv, GivenInOrder
  <2>8. GivenInOrder'
    <3>1. Len(given'.pages) = it'.index
      BY <2>1, <2>5
    <3>2. ASSUME NEW i \in 1..it'.index
          PROVE  given'.pages[i] = PageLocations[i] /\ Sound(PageLocations[i])
      <4>1. i \in 1..it.index \/ i = it.index + 1
        BY <1>0, <2>1
      <4> QED BY <2>1, <2>5, <4>1 DEF IInv, GivenInOrder, page
    <3>3. ~given'.ended
      BY <2>1, <2>7
    <3> QED BY <2>1, <2>2, <3>1, <3>2, <3>3 DEF GivenInOrder, Sound, Present, LastEntry
  <2>9. NumberNamesPage'
    BY <1>0, <2>1, <2>2 DEF NumberNamesPage, page
  <2> QED BY <2>1, <2>6, <2>8, <2>9 DEF IInv, TextHasEveryPage, SealsAgree
<1>13. ASSUME NEW n \in Name, GoTo(n) PROVE IInv'
  <2>1. TypeOK' /\ GivenInOrder'
    BY <1>13, IteratorKept DEF GoTo, IInv, TypeOK
  <2>2. CASE answer' = Failed("goto")
    <3>1. answer'.op = "goto" /\ answer'.ok = FALSE
      BY <2>2 DEF Failed
    <3> QED BY <2>1, <3>1, OtherAnswer DEF IInv
  <2>3. CASE answer' # Failed("goto")
    <3>1. answer'.op = "goto" /\ answer'.number = NumberOf(n) /\ answer'.page = n
      BY <1>13, <2>3 DEF GoTo
    <3>2. PageLocations' = PageLocations
      BY <1>13, SamePackage DEF GoTo
    <3>3. \/ NumberOf(n) > 0 /\ PageLocations[NumberOf(n)] = n
          \/ NumberOf(n) = 0 /\ n \notin Range(PageLocations)
      BY <1>0, NumberOfIsPlace
    <3>4. NumberNamesPage'
      BY <3>1, <3>2, <3>3 DEF NumberNamesPage
    <3> QED BY <2>1, <3>1, <3>4 DEF IInv, TextHasEveryPage, SealsAgree
  <2> QED BY <2>2, <2>3
<1>14. CASE UNCHANGED vars
  <2>1. pkg' = pkg /\ zip' = zip /\ meta' = meta /\ it' = it /\ given' = given /\ answer' = answer
    BY <1>14 DEF vars
  <2>2. TypeOK' /\ GivenInOrder'
    BY <2>1, IteratorKept DEF IInv, TypeOK
  <2>3. /\ PageLocations' = PageLocations
        /\ Signatures' = Signatures /\ ValidateSeals' = ValidateSeals
    BY <2>1, SamePackage, SameSignatures
  <2>4. NumberNamesPage' /\ TextHasEveryPage' /\ SealsAgree'
    BY <2>1, <2>3 DEF IInv, NumberNamesPage, TextHasEveryPage, SealsAgree, Once
  <2> QED BY <2>2, <2>4 DEF IInv
<1> QED
  BY <1>1, <1>2, <1>3, <1>4, <1>5, <1>6, <1>7, <1>8, <1>9, <1>10, <1>11, <1>12, <1>13, <1>14 DEF Next

(***************************************************************************)
(* The state is well-typed (OFDPackage's packages, the loaded information  *)
(* and the iterator's index within the list), for every package.           *)
(***************************************************************************)
THEOREM TypeCorrect == Spec => []TypeOK
<1>1. IInv => TypeOK
  BY DEF IInv
<1> QED BY <1>1, InitIInv, StepIInv, PTL DEF Spec

(***************************************************************************)
(* A page has one number, by the iterator, the text of a page and the      *)
(* navigator, in every package (service.go:660-722, 947-1005).             *)
(***************************************************************************)
THEOREM OneNumberPerPage == Spec => []NumberNamesPage
<1>1. IInv => NumberNamesPage
  BY DEF IInv
<1> QED BY <1>1, InitIInv, StepIInv, PTL DEF Spec

(***************************************************************************)
(* What an iterator has given begins the whole text, and is all of it when *)
(* the iterator came to the end, in every package (service.go:630-655,     *)
(* 947-967).                                                               *)
(***************************************************************************)
THEOREM IteratorGivesText == Spec => []TextHasEveryPage
<1>1. IInv => TextHasEveryPage
  BY DEF IInv
<1> QED BY <1>1, InitIInv, StepIInv, PTL DEF Spec

(***************************************************************************)
(* Info has a summary of every signature that Validate has no complaint    *)
(* about, and of a seal that has one entry the two say the same, in every  *)
(* package (service.go:351-397, 502-542).                                  *)
(***************************************************************************)
THEOREM SealsOfBothAgree == Spec => []SealsAgree
<1>1. IInv => SealsAgree
  BY DEF IInv
<1> QED BY <1>1, InitIInv, StepIInv, PTL DEF Spec

-----------------------------------------------------------------------------
(* The iterator is a source of the pages in order.                         *)

LastGiven == IF given.pages = <<>> THEN NotGiven ELSE Last(given.pages)

LEMMA InitSource == Init => Source!Init
<1> SUFFICES ASSUME Init PROVE Source!Init
  OBVIOUS
<1>1. given.pages = <<>> /\ given.ended = FALSE
  BY DEF Init, NothingGiven
<1>2. Len(<<>>) = 0
  OBVIOUS
<1> QED BY <1>1, <1>2 DEF Source!Init

\* A step that leaves the pages given alone.
LEMMA SourceStutters ==
  ASSUME pkg' = pkg, given' = given
  PROVE  UNCHANGED Source!vars
<1>1. PageLocations' = PageLocations
  BY SamePackage
<1> QED BY <1>1 DEF Source!vars

\* A step that starts the iterator again.
LEMMA SourceResets ==
  ASSUME pkg' = pkg, given' = NothingGiven
  PROVE  Source!Reset
<1>1. PageLocations' = PageLocations
  BY SamePackage
<1>2. given'.pages = <<>> /\ given'.ended = FALSE /\ Len(<<>>) = 0
  BY DEF NothingGiven
<1> QED BY <1>1, <1>2 DEF Source!Reset

LEMMA StepSource == IInv /\ [Next]_vars => [Source!Next]_Source!vars
<1> SUFFICES ASSUME IInv, [Next]_vars PROVE Source!Next \/ UNCHANGED Source!vars
  OBVIOUS
<1>0. /\ PageLocations \in Seq(Name) /\ Len(PageLocations) \in Nat
      /\ \A i \in 1..Len(PageLocations) : PageLocations[i] \in Name
      /\ it.index \in 0..Len(PageLocations)
      /\ given.pages \in Seq(Name) /\ given.ended \in BOOLEAN
      /\ given = [pages |-> given.pages, ended |-> given.ended]
      /\ Len(given.pages) = it.index
      /\ given.ended => it.index = Len(PageLocations)
  <2>1. PageLocations \in Seq(Name)
    BY PagesTyped DEF IInv, TypeOK
  <2> QED BY <2>1, LenProperties, ElementOfSeq DEF IInv, TypeOK, GivenInOrder
<1>1. CASE NextEOF
  <2>1. /\ it.index >= Len(PageLocations)
        /\ given' = [pages |-> given.pages, ended |-> TRUE] /\ pkg' = pkg
    BY <1>0, <1>1 DEF NextEOF
  <2>2. PageLocations' = PageLocations
    BY <2>1, SamePackage
  <2>3. Source!EndOfPages
    <3>1. Len(given.pages) = Len(PageLocations)
      BY <1>0, <2>1
    <3>2. given'.pages = given.pages /\ given'.ended = TRUE
      BY <2>1
    <3> QED BY <2>2, <3>1, <3>2 DEF Source!EndOfPages
  <2> QED BY <2>3 DEF Source!Next
<1>2. CASE NextPage
  <2> DEFINE page == PageLocations[it.index + 1]
  <2>1. /\ it.index < Len(PageLocations)
        /\ given' = [pages |-> Append(given.pages, page), ended |-> given.ended]
        /\ pkg' = pkg
    BY <1>0, <1>2 DEF NextPage
  <2>2. PageLocations' = PageLocations
    BY <2>1, SamePackage
  <2>3. page \in Name
    BY <1>0, <2>1
  <2> HIDE DEF page
  <2>4. /\ Len(Append(given.pages, page)) = it.index + 1
        /\ Append(given.pages, page)[it.index + 1] = page
        /\ Append(given.pages, page) # <<>>
    BY <1>0, <2>3, AppendProperties
  <2>5. /\ given'.pages = Append(given.pages, page) /\ given'.ended = given.ended
        /\ ~given.ended
    BY <1>0, <2>1
  <2>6. LastGiven' = page
    BY <2>4, <2>5 DEF LastGiven, Last
  <2>7. Source!NextPage
    BY <1>0, <2>1, <2>2, <2>4, <2>5, <2>6 DEF Source!NextPage, LastGiven, page
  <2> QED BY <2>7 DEF Source!Next
<1>3. CASE NewPageIterator
  BY <1>3, SourceStutters, SourceResets DEF NewPageIterator, Source!Next
<1>4. CASE Reset
  BY <1>4, SourceResets DEF Reset, Source!Next
<1>5. CASE Open \/ Close \/ Info \/ Validate \/ ExtractText \/ FirstPageInfo \/ NextFails
  BY <1>5, SourceStutters
     DEF Open, Close, Info, Validate, ExtractText, FirstPageInfo, NextFails
<1>6. ASSUME NEW number \in 1..Len(pkg.list), ExtractTextPage(number)
      PROVE  UNCHANGED Source!vars
  BY <1>6, SourceStutters DEF ExtractTextPage
<1>7. ASSUME NEW n \in Name, GoTo(n) PROVE UNCHANGED Source!vars
  BY <1>7, SourceStutters DEF GoTo
<1>8. CASE UNCHANGED vars
  BY <1>8, SourceStutters DEF vars
<1> QED BY <1>1, <1>2, <1>3, <1>4, <1>5, <1>6, <1>7, <1>8 DEF Next

(***************************************************************************)
(* The iterator returns the pages one after the other and then io.EOF, and *)
(* from the first again after Reset, in every package: every behaviour of  *)
(* the service is one of PageSource (service.go:947-972).                  *)
(***************************************************************************)
THEOREM IteratorIsPageSource == Spec => ImplementsPageSource
<1>1. Spec => []IInv
  BY InitIInv, StepIInv, PTL DEF Spec
<1> QED BY <1>1, InitSource, StepSource, PTL DEF Spec, ImplementsPageSource, Source!Spec
=============================================================================
