----------------------------- MODULE XRefProofs -----------------------------
(***************************************************************************)
(* What holds of the sections of every file, with any number of objects,   *)
(* sections and links: the chain they make, the index that buildXRefIndex  *)
(* reads off it, the bodies that the rewriter keeps.                       *)
(*                                                                         *)
(* What is proved of the object lookup holds for every file without hybrid *)
(* sections and any number of threads, while an object is only read when   *)
(* no other call is in progress (ReadsAlone).  Without either the          *)
(* properties fail: the lazy loader drops the XRefStm of a section, and a  *)
(* read moves the file under a lookup.                                     *)
(***************************************************************************)
EXTENDS LazyXRef, XRefIndex, Rewrite,
        FiniteSetTheorems, SequenceTheorems, WellFoundedInduction, TLAPS

NoHybrids == \A f \in Files : \A o \in Offset : f[o].xrefStm = 0

-----------------------------------------------------------------------------
(* Induction over the numbers, in sets, and recursion over them.           *)

LEMMA LeastNumber ==
  ASSUME NEW T, T \subseteq Nat, T # {}
  PROVE  \E m \in T : \A k \in T : m <= k
<1> DEFINE R == {ss \in Nat \X Nat : ss[1] < ss[2]}
<1>1. IsWellFoundedOn(R, Nat)
  BY NatLessThanWellFounded DEF OpToRel
<1>2. PICK m \in T : \A k \in T : <<k, m>> \notin R
  <2> HIDE DEF R
  <2> QED BY <1>1, WFMin
<1>3. ASSUME NEW k \in T PROVE m <= k
  <2>1. <<k, m>> \notin R
    BY <1>2
  <2>2. <<k, m>>[1] = k /\ <<k, m>>[2] = m
    OBVIOUS
  <2> QED BY <2>1, <2>2
<1> QED BY <1>3

LEMMA SetInduction ==
  ASSUME NEW S, 0 \in S, \A n \in Nat : n \in S => n+1 \in S
  PROVE  Nat \subseteq S
<1> DEFINE T == Nat \ S
<1> SUFFICES ASSUME T # {} PROVE FALSE
  OBVIOUS
<1>1. PICK m \in T : \A k \in T : m <= k
  BY LeastNumber
<1>2. m # 0 /\ m - 1 \in Nat /\ m - 1 + 1 = m
  OBVIOUS
<1>3. m - 1 \in S
  BY <1>1, <1>2
<1> QED BY <1>2, <1>3

\* g is the function that starts with base and goes on with step, up to n.
PartOf(S, base, step, n, g) ==
  /\ g \in [0..n -> S]
  /\ g[0] = base
  /\ \A i \in 0..n-1 : g[i+1] = step[<<g[i], i>>]

LEMMA PartsExist ==
  ASSUME NEW S, NEW base \in S, NEW step \in [S \X Nat -> S]
  PROVE  \A n \in Nat : \E g : PartOf(S, base, step, n, g)
<1> DEFINE I == {n \in Nat : \E g : PartOf(S, base, step, n, g)}
<1>1. 0 \in I
  <2> DEFINE g == [i \in 0..0 |-> base]
  <2>1. PartOf(S, base, step, 0, g)
    BY DEF PartOf
  <2> QED BY <2>1
<1>2. ASSUME NEW n \in Nat, n \in I PROVE n+1 \in I
  <2>1. PICK g : PartOf(S, base, step, n, g)
    BY <1>2
  <2> DEFINE next == step[<<g[n], n>>]
             h == [i \in 0..n+1 |-> IF i = n+1 THEN next ELSE g[i]]
  <2>2. g[n] \in S /\ next \in S
    <3>1. g[n] \in S
      BY <2>1 DEF PartOf
    <3>2. <<g[n], n>> \in S \X Nat
      BY <3>1
    <3> QED BY <3>1, <3>2
  <2>3. h[n+1] = next /\ \A i \in 0..n : h[i] = g[i]
    OBVIOUS
  <2>4. h \in [0..n+1 -> S]
    <3> HIDE DEF next
    <3> QED BY <2>1, <2>2 DEF PartOf
  <2> HIDE DEF h
  <2>5. ASSUME NEW i \in 0..n PROVE h[i+1] = step[<<h[i], i>>]
    <3>1. CASE i = n
      BY <2>3, <3>1
    <3>2. CASE i # n
      <4>1. i \in 0..n-1 /\ i+1 \in 0..n
        BY <3>2
      <4> QED BY <2>1, <2>3, <4>1 DEF PartOf
    <3> QED BY <3>1, <3>2
  <2>6. h[0] = base
    BY <2>1, <2>3 DEF PartOf
  <2>7. PartOf(S, base, step, n+1, h)
    <3>1. 0..n+1-1 = 0..n
      OBVIOUS
    <3> QED BY <2>4, <2>5, <2>6, <3>1 DEF PartOf
  <2> QED BY <2>7
<1>3. Nat \subseteq I
  <2> HIDE DEF I
  <2> QED BY <1>1, <1>2, SetInduction
<1> QED BY <1>3

LEMMA PartsAgree ==
  ASSUME NEW S, NEW base \in S, NEW step \in [S \X Nat -> S],
         NEW m \in Nat, NEW n \in Nat, NEW g, NEW h,
         PartOf(S, base, step, m, g), PartOf(S, base, step, n, h)
  PROVE  \A i \in Nat : i <= m /\ i <= n => g[i] = h[i]
<1> DEFINE I == {i \in Nat : i <= m /\ i <= n => g[i] = h[i]}
<1>1. 0 \in I
  BY DEF PartOf
<1>2. ASSUME NEW i \in Nat, i \in I PROVE i+1 \in I
  <2> SUFFICES ASSUME i+1 <= m, i+1 <= n PROVE g[i+1] = h[i+1]
    OBVIOUS
  <2>1. g[i] = h[i]
    BY <1>2
  <2>2. i \in 0..m-1 /\ i \in 0..n-1
    OBVIOUS
  <2> QED BY <2>1, <2>2 DEF PartOf
<1>3. Nat \subseteq I
  <2> HIDE DEF I
  <2> QED BY <1>1, <1>2, SetInduction
<1> QED BY <1>3

\* f starts with base and goes on with step.
Recurs(S, base, step, f) ==
  /\ f \in [Nat -> S]
  /\ f[0] = base
  /\ \A n \in Nat : f[n+1] = step[<<f[n], n>>]

LEMMA RecursionExists ==
  ASSUME NEW S, NEW base \in S, NEW step \in [S \X Nat -> S]
  PROVE  \E f : Recurs(S, base, step, f)
<1> DEFINE part == [n \in Nat |-> CHOOSE g : PartOf(S, base, step, n, g)]
           f == [n \in Nat |-> part[n][n]]
<1>1. \A n \in Nat : PartOf(S, base, step, n, part[n])
  BY PartsExist
<1>2. \A n \in Nat : f[n] = part[n][n]
  OBVIOUS
<1> HIDE DEF part
<1>3. f \in [Nat -> S]
  <2>1. ASSUME NEW n \in Nat PROVE part[n][n] \in S
    <3>1. part[n] \in [0..n -> S] /\ n \in 0..n
      BY <1>1 DEF PartOf
    <3> QED BY <3>1
  <2> QED BY <2>1
<1> HIDE DEF f
<1>4. f[0] = base
  BY <1>1, <1>2 DEF PartOf
<1>5. ASSUME NEW n \in Nat PROVE f[n+1] = step[<<f[n], n>>]
  <2>1. PartOf(S, base, step, n+1, part[n+1]) /\ PartOf(S, base, step, n, part[n])
    BY <1>1
  <2>2. part[n+1][n] = part[n][n]
    <3>1. n+1 \in Nat /\ n <= n+1 /\ n <= n
      OBVIOUS
    <3>2. \A i \in Nat : i <= n+1 /\ i <= n => part[n+1][i] = part[n][i]
      <4> DEFINE g == part[n+1]
                 h == part[n]
      <4>1. PartOf(S, base, step, n+1, g) /\ PartOf(S, base, step, n, h)
        BY <2>1
      <4> HIDE DEF g, h
      <4>2. \A i \in Nat : i <= n+1 /\ i <= n => g[i] = h[i]
        BY <3>1, <4>1, PartsAgree
      <4> QED BY <4>2 DEF g, h
    <3> QED BY <3>1, <3>2
  <2>3. part[n+1][n+1] = step[<<part[n+1][n], n>>]
    <3>1. n \in 0..(n+1)-1
      OBVIOUS
    <3> QED BY <2>1, <3>1 DEF PartOf
  <2>4. f[n+1] = part[n+1][n+1] /\ f[n] = part[n][n]
    BY <1>2
  <2> QED BY <2>2, <2>3, <2>4
<1>6. Recurs(S, base, step, f)
  BY <1>3, <1>4, <1>5 DEF Recurs
<1> QED BY <1>6

-----------------------------------------------------------------------------
(* The chain of sections.                                                  *)

\* A file, and where it starts.
FileTyped == file \in Files /\ startxref \in Offset

NonEmpty == Seq(Offset) \ {<<>>}

LEMMA PrevTyped ==
  ASSUME FileTyped, NEW o \in Offset
  PROVE  /\ file[o] \in Section
         /\ file[o].prev \in Offset \union {0}
         /\ file[o].xrefStm \in Offset \union {0}
         /\ \A n \in Obj : file[o].entry[n] \in Kind \union {"absent"}
<1>1. file \in [Offset -> Section]
  BY FilesAssumption DEF FileTyped
<1>2. file[o] \in Section
  BY <1>1
<1> QED BY <1>2 DEF Section

LEMMA LastIn ==
  ASSUME NEW c \in NonEmpty
  PROVE  Len(c) \in Nat \ {0} /\ c[Len(c)] \in Offset /\ \A i \in 1..Len(c) : c[i] \in Offset
BY EmptySeq, LenProperties, ElementOfSeq DEF NonEmpty

LEMMA FollowedTyped ==
  ASSUME FileTyped, NEW c \in NonEmpty
  PROVE  Followed(c) \in NonEmpty
<1> DEFINE prev == file[c[Len(c)]].prev
<1>1. prev \in Offset \union {0}
  BY LastIn, PrevTyped
<1>2. CASE prev = 0 \/ prev \in Range(c) \/ ~Readable(prev)
  BY <1>2 DEF Followed
<1>3. CASE ~(prev = 0 \/ prev \in Range(c) \/ ~Readable(prev))
  <2>1. Followed(c) = Append(c, prev)
    BY <1>3 DEF Followed
  <2>2. prev \in Offset
    BY <1>1, <1>3
  <2> HIDE DEF prev
  <2>3. Append(c, prev) \in NonEmpty
    BY <2>2, AppendProperties DEF NonEmpty
  <2> QED BY <2>1, <2>3
<1> QED BY <1>2, <1>3

LEMMA ChainLinks ==
  ASSUME FileTyped
  PROVE  /\ Chain \in [Nat -> NonEmpty]
         /\ Chain[0] = <<startxref>>
         /\ \A n \in Nat : Chain[n+1] = Followed(Chain[n])
<1> DEFINE step == [p \in NonEmpty \X Nat |-> Followed(p[1])]
           Fits(g) == g = [n \in Nat |-> IF n = 0 THEN <<startxref>> ELSE Followed(g[n-1])]
<1>1. <<startxref>> \in NonEmpty
  BY DEF FileTyped, NonEmpty
<1>2. step \in [NonEmpty \X Nat -> NonEmpty]
  <2>1. \A p \in NonEmpty \X Nat : p[1] \in NonEmpty
    OBVIOUS
  <2>2. \A p \in NonEmpty \X Nat : Followed(p[1]) \in NonEmpty
    BY <2>1, FollowedTyped
  <2> QED BY <2>2
<1>3. PICK f : Recurs(NonEmpty, <<startxref>>, step, f)
  <2> HIDE DEF step
  <2> QED BY <1>1, <1>2, RecursionExists
<1>4. ASSUME NEW n \in Nat PROVE f[n+1] = Followed(f[n])
  <2>1. <<f[n], n>> \in NonEmpty \X Nat /\ <<f[n], n>>[1] = f[n]
    BY <1>3 DEF Recurs
  <2>2. step[<<f[n], n>>] = Followed(<<f[n], n>>[1])
    BY <2>1
  <2> QED BY <1>3, <2>1, <2>2 DEF Recurs
<1>5. Fits(f)
  <2>1. ASSUME NEW n \in Nat
        PROVE  f[n] = IF n = 0 THEN <<startxref>> ELSE Followed(f[n-1])
    <3>1. n # 0 => n-1 \in Nat /\ n-1+1 = n
      OBVIOUS
    <3> QED BY <1>3, <1>4, <3>1 DEF Recurs
  <2>2. f = [n \in Nat |-> f[n]]
    BY <1>3 DEF Recurs
  <2> QED BY <2>1, <2>2
<1>6. Fits(Chain)
  <2>1. Chain = CHOOSE g : Fits(g)
    BY DEF Chain
  <2> HIDE DEF Fits
  <2> QED BY <1>5, <2>1
<1>7. \A n \in Nat : Chain[n] = IF n = 0 THEN <<startxref>> ELSE Followed(Chain[n-1])
  BY <1>6
<1>8. Chain[0] = <<startxref>> /\ \A n \in Nat : Chain[n+1] = Followed(Chain[n])
  <2>1. \A n \in Nat : n+1 \in Nat /\ n+1 # 0 /\ n+1-1 = n
    OBVIOUS
  <2> QED BY <1>7, <2>1
<1>9. \A n \in Nat : Chain[n] \in NonEmpty
  <2> DEFINE I == {n \in Nat : Chain[n] \in NonEmpty}
  <2>1. 0 \in I
    BY <1>1, <1>8
  <2>2. \A n \in Nat : n \in I => n+1 \in I
    BY <1>8, FollowedTyped
  <2>3. Nat \subseteq I
    <3> HIDE DEF I
    <3> QED BY <2>1, <2>2, SetInduction
  <2> QED BY <2>3
<1>10. Chain = [n \in Nat |-> Chain[n]]
  <2>1. Chain = [n \in Nat |-> IF n = 0 THEN <<startxref>> ELSE Followed(Chain[n-1])]
    BY <1>6
  <2> QED BY <2>1
<1> QED BY <1>8, <1>9, <1>10

(***************************************************************************)
(* A beginning of the chain: what discoverXRefOffsets has found.           *)
(***************************************************************************)
Begins(c) ==
  /\ c \in NonEmpty
  /\ c = Chain[Len(c)-1] /\ FollowsPrev(c)
  /\ \A i \in 1..Len(c) : Readable(c[i])
  /\ \A i, j \in 1..Len(c) : c[i] = c[j] => i = j

\* The section that the walk comes to next.
NextOf(c) == IF c = <<>> THEN startxref ELSE file[c[Len(c)]].prev

LEMMA BeginsBounded ==
  ASSUME NEW c, Begins(c)
  PROVE  /\ Len(c) \in Nat \ {0} /\ \A i \in 1..Len(c) : c[i] \in Offset
         /\ Len(c) <= Cardinality(Offset) /\ Cardinality(Offset) \in Nat
<1>1. Len(c) \in Nat \ {0} /\ \A i \in 1..Len(c) : c[i] \in Offset
  BY LastIn DEF Begins
<1>2. Len(c) <= Cardinality(Offset) /\ Cardinality(Offset) \in Nat
  <2> DEFINE f == [i \in 1..Len(c) |-> c[i]]
  <2>1. f \in Injection(1..Len(c), Offset)
    <3>1. f \in [1..Len(c) -> Offset]
      BY <1>1
    <3>2. \A i, j \in 1..Len(c) : f[i] = f[j] => i = j
      BY DEF Begins
    <3> HIDE DEF f
    <3> QED BY <3>1, <3>2 DEF Injection, IsInjective
  <2> HIDE DEF f
  <2>2. Cardinality(1..Len(c)) <= Cardinality(Offset)
    BY <2>1, FileAssumption, FS_Injection
  <2>3. Cardinality(1..Len(c)) = Len(c)
    BY <1>1, FS_Interval
  <2>4. Cardinality(Offset) \in Nat
    BY FileAssumption, FS_CardinalityType
  <2> QED BY <2>2, <2>3, <2>4
<1> QED BY <1>1, <1>2

\* It does not go further: it is all of the chain.
LEMMA WholeChain ==
  ASSUME FileTyped, NEW c, Begins(c), Followed(c) = c
  PROVE  FullChain = c
<1>1. /\ Len(c) \in Nat \ {0}
      /\ Len(c) <= Cardinality(Offset) /\ Cardinality(Offset) \in Nat
  BY BeginsBounded
<1> DEFINE I == {n \in Nat : n >= Len(c)-1 => Chain[n] = c}
<1>3. 0 \in I
  <2>1. \A k \in Nat \ {0} : 0 >= k-1 => k-1 = 0
    OBVIOUS
  <2>2. 0 >= Len(c)-1 => Len(c)-1 = 0
    BY <1>1, <2>1
  <2> QED BY <2>2 DEF Begins
<1>4. ASSUME NEW n \in Nat, n \in I PROVE n+1 \in I
  <2>1. CASE n >= Len(c)-1
    <3>1. Chain[n+1] = Followed(c)
      BY <1>4, <2>1, ChainLinks
    <3> QED BY <3>1
  <2>2. CASE ~(n >= Len(c)-1)
    <3>1. n+1 >= Len(c)-1 => Len(c)-1 = n+1
      BY <1>1, <2>2
    <3> QED BY <3>1 DEF Begins
  <2> QED BY <2>1, <2>2
<1>5. Nat \subseteq I
  <2> HIDE DEF I
  <2> QED BY <1>3, <1>4, SetInduction
<1>6. Cardinality(Offset) >= Len(c)-1
  BY <1>1
<1> QED BY <1>1, <1>5, <1>6 DEF FullChain

\* The chain goes on from each of its beginnings.
LEMMA ChainGoesOn ==
  ASSUME FileTyped, NEW c, Begins(c)
  PROVE  Len(c) <= Len(FullChain) /\ \A i \in 1..Len(c) : FullChain[i] = c[i]
<1> DEFINE Extends(d) == Len(c) <= Len(d) /\ \A i \in 1..Len(c) : d[i] = c[i]
           I == {n \in Nat : n >= Len(c)-1 => Extends(Chain[n])}
<1>1. /\ Len(c) \in Nat \ {0}
      /\ Len(c) <= Cardinality(Offset) /\ Cardinality(Offset) \in Nat
  BY BeginsBounded
<1>2. Extends(c) /\ c = Chain[Len(c)-1]
  BY <1>1 DEF Begins
<1>3. 0 \in I
  <2>1. \A k \in Nat \ {0} : 0 >= k-1 => k-1 = 0
    OBVIOUS
  <2>2. 0 >= Len(c)-1 => Len(c)-1 = 0
    BY <1>1, <2>1
  <2> HIDE DEF Extends
  <2> QED BY <1>2, <2>2
<1>4. ASSUME NEW n \in Nat, n \in I PROVE n+1 \in I
  <2>1. CASE n >= Len(c)-1
    <3>1. Extends(Chain[n]) /\ Chain[n] \in NonEmpty /\ Chain[n+1] = Followed(Chain[n])
      BY <1>4, <2>1, ChainLinks
    <3> DEFINE d == Chain[n]
    <3> HIDE DEF d
    <3>2. Extends(d) /\ d \in NonEmpty
      BY <3>1 DEF d
    <3>3. ASSUME NEW p PROVE Extends(Append(d, p))
      <4>1. d \in Seq(Offset) /\ Len(d) \in Nat
        BY <3>2, LenProperties DEF NonEmpty
      <4>2. Len(Append(d, p)) = Len(d)+1 /\ \A i \in 1..Len(d) : Append(d, p)[i] = d[i]
        BY <4>1
      <4> QED BY <1>1, <3>2, <4>1, <4>2
    <3>4. Followed(d) = d \/ Followed(d) = Append(d, file[d[Len(d)]].prev)
      BY DEF Followed
    <3>5. Extends(Followed(d))
      <4> HIDE DEF Extends
      <4> QED BY <3>2, <3>3, <3>4
    <3> HIDE DEF Extends
    <3> QED BY <3>1, <3>5 DEF d
  <2>2. CASE ~(n >= Len(c)-1)
    <3>1. n+1 >= Len(c)-1 => Len(c)-1 = n+1
      BY <1>1, <2>2
    <3> HIDE DEF Extends
    <3> QED BY <1>2, <3>1
  <2> QED BY <2>1, <2>2
<1>5. Nat \subseteq I
  <2> HIDE DEF I
  <2> QED BY <1>3, <1>4, SetInduction
<1>6. Cardinality(Offset) \in I /\ Cardinality(Offset) >= Len(c)-1
  BY <1>1, <1>5
<1>7. Extends(FullChain)
  <2> HIDE DEF Extends
  <2> QED BY <1>6 DEF FullChain
<1> QED BY <1>7

LEMMA FullChainTyped ==
  ASSUME FileTyped
  PROVE  /\ FullChain \in NonEmpty
         /\ Len(FullChain) \in Nat \ {0}
         /\ \A i \in 1..Len(FullChain) : FullChain[i] \in Offset
<1>1. Cardinality(Offset) \in Nat
  BY FileAssumption, FS_CardinalityType
<1>2. FullChain \in NonEmpty
  BY <1>1, ChainLinks DEF FullChain
<1> QED BY <1>2, LastIn

-----------------------------------------------------------------------------
(* A walk along the chain, section by section.                              *)

\* One more section of the walk.
Walks(c, o) ==
  /\ c = <<>> \/ Begins(c)
  /\ o = NextOf(c) /\ o \in Offset \ Range(c)

LEMMA WalkTyped ==
  ASSUME NEW c, NEW o, Walks(c, o)
  PROVE  /\ c \in Seq(Offset) /\ Append(c, o) \in NonEmpty
         /\ Len(Append(c, o)) = Len(c) + 1 /\ Len(c) \in Nat
         /\ Append(c, o)[Len(c) + 1] = o
         /\ \A i \in 1..Len(c) : Append(c, o)[i] = c[i]
         /\ Range(Append(c, o)) = Range(c) \union {o}
<1>1. c \in Seq(Offset) /\ o \in Offset
  BY EmptySeq DEF Walks, Begins, NonEmpty
<1>2. Len(c) \in Nat
  BY <1>1, LenProperties
<1>3. /\ Append(c, o) \in NonEmpty
      /\ Len(Append(c, o)) = Len(c) + 1
      /\ Append(c, o)[Len(c) + 1] = o
      /\ \A i \in 1..Len(c) : Append(c, o)[i] = c[i]
  BY <1>1, AppendProperties DEF NonEmpty
<1>4. Range(Append(c, o)) = Range(c) \union {o}
  <2> DEFINE d == Append(c, o)
  <2>1. DOMAIN c = 1..Len(c) /\ DOMAIN d = 1..Len(d)
    BY <1>1, <1>3, LenProperties DEF NonEmpty
  <2>2. 1..Len(d) = (1..Len(c)) \union {Len(c) + 1}
    BY <1>2, <1>3
  <2> HIDE DEF d
  <2>3. Range(d) = {d[i] : i \in 1..Len(d)} /\ Range(c) = {c[i] : i \in 1..Len(c)}
    BY <2>1 DEF Range
  <2> QED BY <1>3, <2>2, <2>3 DEF d
<1> QED BY <1>1, <1>2, <1>3, <1>4

LEMMA WalkBegins ==
  ASSUME FileTyped, NEW c, NEW o, Walks(c, o), Readable(o)
  PROVE  Begins(Append(c, o))
<1> DEFINE d == Append(c, o)
<1>1. /\ c \in Seq(Offset) /\ d \in NonEmpty
      /\ Len(d) = Len(c) + 1 /\ Len(c) \in Nat /\ d[Len(c) + 1] = o
      /\ \A i \in 1..Len(c) : d[i] = c[i]
  BY WalkTyped
<1>2. d = Chain[Len(c)]
  <2>1. CASE c = <<>>
    <3>1. o = startxref /\ Len(c) = 0 /\ d = <<startxref>>
      BY <2>1 DEF Walks, NextOf
    <3> QED BY <3>1, ChainLinks
  <2>2. CASE c # <<>>
    <3>1. Begins(c) /\ o = file[c[Len(c)]].prev
      BY <2>2 DEF Walks, NextOf
    <3>2. o # 0 /\ o \notin Range(c)
      BY OffsetAssumption DEF Walks
    <3>3. Followed(c) = d
      BY <3>1, <3>2 DEF Followed
    <3>4. Len(c)-1 \in Nat /\ Len(c)-1+1 = Len(c)
      BY <3>1, LastIn DEF Begins
    <3>5. c = Chain[Len(c)-1]
      BY <3>1 DEF Begins
    <3> HIDE DEF d
    <3> QED BY <3>3, <3>4, <3>5, ChainLinks
  <2> QED BY <2>1, <2>2
<1>3. \A i \in 1..Len(c) : Readable(c[i])
  BY <1>1 DEF Walks, Begins
<1>4. \A i, j \in 1..Len(c) : c[i] = c[j] => i = j
  BY <1>1 DEF Walks, Begins
<1>5. \A i \in 1..Len(c) : c[i] # o
  <2>1. o \notin Range(c) /\ DOMAIN c = 1..Len(c)
    BY <1>1, LenProperties DEF Walks
  <2> QED BY <2>1 DEF Range
<1>6. FollowsPrev(c)
  <2>1. c # <<>> => Begins(c)
    BY DEF Walks
  <2>2. c = <<>> => FollowsPrev(c)
    BY DEF FollowsPrev
  <2> QED BY <2>1, <2>2 DEF Begins
<1>7. Len(c) > 0 => o = file[c[Len(c)]].prev
  BY <1>1 DEF Walks, NextOf
<1>8. Len(c) = 0 => o = startxref
  BY <1>1 DEF Walks, NextOf
<1> HIDE DEF d
<1>9. FollowsPrev(d)
  <2>1. d[1] = startxref
    <3>1. CASE Len(c) = 0
      BY <1>1, <1>8, <3>1
    <3>2. CASE Len(c) > 0
      <4>1. 1 \in 1..Len(c)
        BY <1>1, <3>2
      <4> QED BY <1>1, <1>6, <3>2, <4>1 DEF FollowsPrev
    <3> QED BY <1>1, <3>1, <3>2
  <2>2. ASSUME NEW i \in 1..Len(d)-1 PROVE d[i+1] = file[d[i]].prev
    <3>1. i \in 1..Len(c) /\ d[i] = c[i]
      BY <1>1
    <3>2. CASE i = Len(c)
      BY <1>1, <1>7, <3>1, <3>2
    <3>3. CASE i # Len(c)
      <4>1. i \in 1..Len(c)-1 /\ i+1 \in 1..Len(c)
        BY <1>1, <3>1, <3>3
      <4> QED BY <1>1, <1>6, <3>1, <4>1 DEF FollowsPrev
    <3> QED BY <3>2, <3>3
  <2> QED BY <2>1, <2>2 DEF FollowsPrev
<1>10. \A i \in 1..Len(d) : Readable(d[i])
  <2>1. \A i \in 1..Len(d) : i \in 1..Len(c) \/ i = Len(c) + 1
    BY <1>1
  <2> QED BY <1>1, <1>3, <2>1
<1>11. \A i, j \in 1..Len(d) : d[i] = d[j] => i = j
  <2>1. \A i \in 1..Len(d) : i \in 1..Len(c) \/ i = Len(c) + 1
    BY <1>1
  <2> QED BY <1>1, <1>4, <1>5, <2>1
<1>12. d = Chain[Len(d)-1]
  BY <1>1, <1>2
<1> QED BY <1>1, <1>9, <1>10, <1>11, <1>12 DEF Begins, d

\* A beginning of the chain that goes on to nothing new is the chain, and all of it was read.
LEMMA ChainEnds ==
  ASSUME FileTyped, NEW d, Begins(d),
         file[d[Len(d)]].prev = 0 \/ file[d[Len(d)]].prev \in Range(d)
  PROVE  d = FullChain /\ ChainReadable
<1>1. Len(d) \in Nat \ {0} /\ d \in NonEmpty
  BY LastIn DEF Begins
<1>2. d = FullChain
  <2>1. Followed(d) = d
    BY DEF Followed
  <2> QED BY <2>1, WholeChain
<1>3. DOMAIN d = 1..Len(d) /\ Range(d) = {d[i] : i \in 1..Len(d)}
  BY <1>1, LenProperties DEF NonEmpty, Range
<1>4. \A p \in Range(d) : Readable(p)
  BY <1>1, <1>3 DEF Begins
<1>5. startxref \in Range(d)
  <2>1. 1 \in 1..Len(d) /\ Len(d) > 0
    BY <1>1
  <2> QED BY <1>3, <2>1 DEF Begins, FollowsPrev
<1>6. ASSUME NEW i \in 1..Len(d) PROVE file[d[i]].prev = 0 \/ Readable(file[d[i]].prev)
  <2>1. CASE i = Len(d)
    BY <1>4, <2>1
  <2>2. CASE i # Len(d)
    <3>1. i \in 1..Len(d)-1 /\ i+1 \in 1..Len(d)
      BY <1>1, <2>2
    <3>2. d[i+1] = file[d[i]].prev
      BY <3>1 DEF Begins, FollowsPrev
    <3>3. Readable(d[i+1])
      BY <3>1 DEF Begins
    <3> QED BY <3>2, <3>3
  <2> QED BY <2>1, <2>2
<1>7. ChainReadable
  BY <1>2, <1>3, <1>4, <1>5, <1>6 DEF ChainReadable
<1> QED BY <1>2, <1>7

\* The walk ends where the chain does, and all of it was read.
LEMMA WalkEnds ==
  ASSUME FileTyped, NEW c, NEW o, Walks(c, o), Readable(o),
         file[o].prev = 0 \/ file[o].prev \in Range(Append(c, o))
  PROVE  Append(c, o) = FullChain /\ ChainReadable
<1> DEFINE d == Append(c, o)
<1>1. Begins(d)
  BY WalkBegins
<1>2. d[Len(d)] = o
  BY WalkTyped
<1>3. file[d[Len(d)]].prev = 0 \/ file[d[Len(d)]].prev \in Range(d)
  BY <1>2
<1> HIDE DEF d
<1>4. d = FullChain /\ ChainReadable
  BY <1>1, <1>3, ChainEnds
<1> QED BY <1>4 DEF d

\* It fails when the chain cannot be read.
LEMMA WalkFails ==
  ASSUME FileTyped, NEW c, NEW o, Walks(c, o), ~Readable(o)
  PROVE  ~ChainReadable
<1>1. CASE c = <<>>
  BY <1>1 DEF Walks, NextOf, ChainReadable
<1>2. CASE c # <<>>
  <2>1. Begins(c) /\ o = file[c[Len(c)]].prev
    BY <1>2 DEF Walks, NextOf
  <2>2. FullChain = c
    BY <2>1, WholeChain DEF Followed
  <2>3. c[Len(c)] \in Range(c)
    <3>1. c \in Seq(Offset) /\ Len(c) \in 1..Len(c)
      BY <2>1, LastIn DEF Begins, NonEmpty
    <3> QED BY <3>1, LenProperties DEF Range
  <2>4. o # 0
    BY OffsetAssumption DEF Walks
  <2> QED BY <2>1, <2>2, <2>3, <2>4 DEF ChainReadable
<1> QED BY <1>1, <1>2

-----------------------------------------------------------------------------
(* What a file without hybrid sections says of an object.                  *)

PlainFile == FileTyped /\ \A o \in Offset : file[o].xrefStm = 0

LEMMA NoHybridsIsPlain == NoHybrids /\ FileTyped => PlainFile
BY DEF NoHybrids, FileTyped, PlainFile

LEMMA EntryTyped ==
  ASSUME FileTyped, NEW o \in Offset, NEW n \in Obj, Mentions(o, n)
  PROVE  EntryAt(o, n) \in IndexEntry /\ EntryAt(o, n) # NoEntry
<1>1. file[o].entry[n] \in Kind \union {"absent"}
  BY PrevTyped
<1>2. EntryAt(o, n) \in IndexEntry
  BY <1>1 DEF Mentions, EntryAt, IndexEntry
<1> QED BY <1>2, NoEntryAssumption

LEMMA RevisionPlain ==
  ASSUME PlainFile, NEW o \in Offset, NEW n \in Obj
  PROVE  /\ RevisionEntry(o, n) = IF Mentions(o, n) THEN EntryAt(o, n) ELSE NoEntry
         /\ Mentions(o, n) => EntryAt(o, n) \in IndexEntry
         /\ Mentions(o, n) => EntryAt(o, n) # NoEntry
<1>1. FileTyped /\ file[o].xrefStm = 0
  BY DEF PlainFile
<1>2. RevisionEntry(o, n) = IF Mentions(o, n) THEN EntryAt(o, n) ELSE NoEntry
  BY <1>1 DEF RevisionEntry, XRefStmMentions
<1> QED BY <1>1, <1>2, EntryTyped

\* The newest of the first k sections of the chain with a word on n says e.
NewestOf(k, n, e) ==
  \/ /\ e = NoEntry
     /\ \A j \in 1..k : ~Mentions(FullChain[j], n)
  \/ \E i \in 1..k :
       /\ Mentions(FullChain[i], n)
       /\ e = EntryAt(FullChain[i], n)
       /\ \A j \in 1..i-1 : ~Mentions(FullChain[j], n)

LEMMA NewestOfAll ==
  ASSUME PlainFile, NEW n \in Obj, NEW e, NewestOf(Len(FullChain), n, e)
  PROVE  Newest(FullChain, n, e)
<1>1. /\ Len(FullChain) \in Nat
      /\ \A i \in 1..Len(FullChain) : FullChain[i] \in Offset
  BY FullChainTyped DEF PlainFile
<1>2. \A i \in 1..Len(FullChain) :
        /\ RevisionEntry(FullChain[i], n)
             = IF Mentions(FullChain[i], n) THEN EntryAt(FullChain[i], n) ELSE NoEntry
        /\ Mentions(FullChain[i], n) => EntryAt(FullChain[i], n) # NoEntry
  BY <1>1, RevisionPlain
<1>3. CASE e = NoEntry /\ \A j \in 1..Len(FullChain) : ~Mentions(FullChain[j], n)
  BY <1>2, <1>3 DEF Newest
<1>4. ASSUME NEW i \in 1..Len(FullChain),
             Mentions(FullChain[i], n), e = EntryAt(FullChain[i], n),
             \A j \in 1..i-1 : ~Mentions(FullChain[j], n)
      PROVE  Newest(FullChain, n, e)
  <2>1. e # NoEntry /\ e = RevisionEntry(FullChain[i], n)
    BY <1>2, <1>4
  <2>2. \A j \in 1..i-1 : j \in 1..Len(FullChain)
    BY <1>1
  <2>3. \A j \in 1..i-1 : RevisionEntry(FullChain[j], n) = NoEntry
    BY <1>2, <1>4, <2>2
  <2> QED BY <2>1, <2>3 DEF Newest
<1> QED BY <1>3, <1>4 DEF NewestOf

LEMMA NewestUnique ==
  ASSUME FileTyped, NEW n, NEW d, NEW e, Newest(FullChain, n, d), Newest(FullChain, n, e)
  PROVE  d = e
<1>1. Len(FullChain) \in Nat
  BY FullChainTyped
<1>2. CASE d = NoEntry \/ e = NoEntry
  BY <1>2 DEF Newest
<1>3. CASE d # NoEntry /\ e # NoEntry
  <2>1. PICK i \in 1..Len(FullChain) :
          /\ d = RevisionEntry(FullChain[i], n)
          /\ \A j \in 1..i-1 : RevisionEntry(FullChain[j], n) = NoEntry
    BY <1>3 DEF Newest
  <2>2. PICK k \in 1..Len(FullChain) :
          /\ e = RevisionEntry(FullChain[k], n)
          /\ \A j \in 1..k-1 : RevisionEntry(FullChain[j], n) = NoEntry
    BY <1>3 DEF Newest
  <2>3. ~(i < k) /\ ~(k < i)
    <3>1. i < k => i \in 1..k-1
      BY <1>1
    <3>2. k < i => k \in 1..i-1
      BY <1>1
    <3> QED BY <1>3, <2>1, <2>2, <3>1, <3>2
  <2>4. i = k
    BY <1>1, <2>3
  <2> QED BY <2>1, <2>2, <2>4
<1> QED BY <1>2, <1>3

LEMMA TrueEntryIs ==
  ASSUME FileTyped, NEW n \in Obj, NEW e \in IndexEntry \union {NoEntry},
         Newest(FullChain, n, e)
  PROVE  TrueEntry(n) = e
<1>1. Newest(FullChain, n, TrueEntry(n))
  BY DEF TrueEntry
<1> QED BY <1>1, NewestUnique

-----------------------------------------------------------------------------
(* The index of the whole file.                                            *)

LEMMA FillTyped ==
  ASSUME FileTyped, NEW idx \in Index, NEW o \in Offset
  PROVE  FillFrom(idx, o) \in Index /\ OverrideFrom(idx, o) \in Index
<1>1. ASSUME NEW n \in Obj, Mentions(o, n) PROVE EntryAt(o, n) \in IndexEntry
  <2>1. file[o].entry[n] \in Kind \union {"absent"}
    BY PrevTyped
  <2> QED BY <1>1, <2>1 DEF Mentions, EntryAt, IndexEntry
<1>2. \A n \in Obj : idx[n] \in IndexEntry \union {NoEntry}
  BY DEF Index
<1> QED BY <1>1, <1>2 DEF FillFrom, OverrideFrom, Index

LEMMA MergeTyped ==
  ASSUME FileTyped, NEW idx \in Index, NEW c, NEW i, c[i] \in Offset
  PROVE  MergeSection(idx, c, i) \in Index
<1> DEFINE filled == FillFrom(idx, c[i])
           stm == file[c[i]].xrefStm
           before == UNION {{c[j], file[c[j]].xrefStm} : j \in 1..i-1}
           fresh == stm \notin {0, c[i]} \union before /\ Readable(stm)
<1>1. MergeSection(idx, c, i) = IF fresh THEN OverrideFrom(filled, stm) ELSE filled
  BY DEF MergeSection
<1>2. filled \in Index
  BY FillTyped
<1>3. stm \in Offset \union {0}
  BY PrevTyped
<1>4. fresh => stm # 0
  OBVIOUS
<1> HIDE DEF filled, stm, fresh
<1>5. fresh => OverrideFrom(filled, stm) \in Index
  BY <1>2, <1>3, <1>4, FillTyped
<1> QED BY <1>1, <1>2, <1>5

\* No XRefStm mentions the object: only the sections of the chain have a word on it.
NoXRefStmOf(n) == \A o \in Offset : ~XRefStmMentions(o, n)

LEMMA MergeFills ==
  ASSUME NEW n \in Obj, NoXRefStmOf(n), NEW idx, NEW c, NEW i, c[i] \in Offset
  PROVE  MergeSection(idx, c, i)[n] = FillFrom(idx, c[i])[n]
<1> DEFINE filled == FillFrom(idx, c[i])
           stm == file[c[i]].xrefStm
           before == UNION {{c[j], file[c[j]].xrefStm} : j \in 1..i-1}
           fresh == stm \notin {0, c[i]} \union before /\ Readable(stm)
<1>1. MergeSection(idx, c, i) = IF fresh THEN OverrideFrom(filled, stm) ELSE filled
  BY DEF MergeSection
<1>2. fresh => ~Mentions(stm, n)
  <2>1. ~(stm # 0 /\ Readable(stm) /\ Mentions(stm, n))
    BY DEF NoXRefStmOf, XRefStmMentions
  <2> QED BY <2>1
<1> HIDE DEF filled, stm, fresh
<1>3. fresh => OverrideFrom(filled, stm)[n] = filled[n]
  BY <1>2 DEF OverrideFrom
<1> QED BY <1>1, <1>3 DEF filled

LEMMA IndexOfTurns ==
  ASSUME FileTyped
  PROVE  /\ IndexOf[0] = EmptyIndex
         /\ \A k \in 0..Len(FullChain) : IndexOf[k] \in Index
         /\ \A k \in 0..Len(FullChain)-1 : IndexOf[k+1] = MergeSection(IndexOf[k], FullChain, k+1)
<1> DEFINE last == Len(FullChain)
           turn(idx, k) == IF k+1 <= last THEN MergeSection(idx, FullChain, k+1) ELSE idx
           step == [p \in Index \X Nat |-> turn(p[1], p[2])]
           Fits(g) == g = [k \in 0..last |-> IF k = 0 THEN EmptyIndex
                                             ELSE MergeSection(g[k-1], FullChain, k)]
<1>0. /\ last \in Nat \ {0} /\ \A i \in 1..last : FullChain[i] \in Offset
  BY FullChainTyped
<1> HIDE DEF last
<1>1. EmptyIndex \in Index
  BY DEF EmptyIndex, Index
<1>2. step \in [Index \X Nat -> Index]
  <2>1. ASSUME NEW idx \in Index, NEW k \in Nat PROVE turn(idx, k) \in Index
    <3>1. k+1 <= last => FullChain[k+1] \in Offset
      BY <1>0
    <3> QED BY <1>0, <3>1, MergeTyped
  <2>2. \A p \in Index \X Nat : p[1] \in Index /\ p[2] \in Nat
    OBVIOUS
  <2> HIDE DEF turn
  <2>3. \A p \in Index \X Nat : turn(p[1], p[2]) \in Index
    BY <2>1, <2>2
  <2> QED BY <2>3
<1>3. PICK f : Recurs(Index, EmptyIndex, step, f)
  <2> HIDE DEF step
  <2> QED BY <1>1, <1>2, RecursionExists
<1>4. ASSUME NEW k \in 0..last-1 PROVE f[k+1] = MergeSection(f[k], FullChain, k+1)
  <2>1. k \in Nat /\ k+1 <= last /\ FullChain[k+1] \in Offset
    BY <1>0
  <2>2. <<f[k], k>> \in Index \X Nat /\ <<f[k], k>>[1] = f[k] /\ <<f[k], k>>[2] = k
    BY <1>3, <2>1 DEF Recurs
  <2>3. step[<<f[k], k>>] = turn(<<f[k], k>>[1], <<f[k], k>>[2])
    <3> HIDE DEF turn
    <3> QED BY <2>2
  <2>4. f[k+1] = turn(f[k], k)
    <3> HIDE DEF turn, step
    <3> QED BY <1>3, <2>1, <2>2, <2>3 DEF Recurs
  <2> QED BY <2>1, <2>4
<1> DEFINE g == [k \in 0..last |-> f[k]]
<1>5. Fits(g)
  <2>1. ASSUME NEW k \in 0..last
        PROVE  g[k] = IF k = 0 THEN EmptyIndex ELSE MergeSection(g[k-1], FullChain, k)
    <3>1. k # 0 => k-1 \in 0..last-1 /\ k-1 \in 0..last /\ k-1+1 = k
      BY <1>0
    <3>2. k = 0 => g[k] = EmptyIndex
      BY <1>3 DEF Recurs
    <3>3. g[k] = f[k] /\ (k # 0 => g[k-1] = f[k-1])
      BY <3>1
    <3> HIDE DEF g, step
    <3> QED BY <1>4, <3>1, <3>2, <3>3
  <2>2. g = [k \in 0..last |-> g[k]]
    OBVIOUS
  <2> HIDE DEF g
  <2> QED BY <2>1, <2>2
<1>6. Fits(IndexOf)
  <2>1. IndexOf = CHOOSE h : Fits(h)
    BY DEF IndexOf, last
  <2> HIDE DEF Fits, g
  <2> QED BY <1>5, <2>1
<1>7. \A k \in 0..last : IndexOf[k] = IF k = 0 THEN EmptyIndex
                                       ELSE MergeSection(IndexOf[k-1], FullChain, k)
  BY <1>6
<1>8. IndexOf[0] = EmptyIndex
  BY <1>0, <1>7
<1>9. ASSUME NEW k \in 0..last-1 PROVE IndexOf[k+1] = MergeSection(IndexOf[k], FullChain, k+1)
  <2>1. k+1 \in 0..last /\ k+1 # 0 /\ k+1-1 = k /\ FullChain[k+1] \in Offset
    BY <1>0
  <2> QED BY <1>7, <2>1
<1>10. \A k \in 0..last : IndexOf[k] \in Index
  <2> DEFINE I == {k \in Nat : k <= last => IndexOf[k] \in Index}
  <2>1. 0 \in I
    BY <1>1, <1>8
  <2>2. ASSUME NEW k \in Nat, k \in I PROVE k+1 \in I
    <3> SUFFICES ASSUME k+1 <= last PROVE IndexOf[k+1] \in Index
      OBVIOUS
    <3>1. k \in 0..last-1 /\ FullChain[k+1] \in Offset /\ IndexOf[k] \in Index
      BY <1>0, <2>2
    <3> QED BY <1>0, <1>9, <3>1, MergeTyped
  <2>3. Nat \subseteq I
    <3> HIDE DEF I
    <3> QED BY <2>1, <2>2, SetInduction
  <2> QED BY <2>3
<1> QED BY <1>8, <1>9, <1>10 DEF last

(***************************************************************************)
(* buildXRefIndex gives an object in no XRefStm what the newest section of *)
(* the chain with a word on it says.                                       *)
(***************************************************************************)
LEMMA IndexHasNewest ==
  ASSUME FileTyped, NEW n \in Obj, NoXRefStmOf(n)
  PROVE  NewestOf(Len(FullChain), n, FullIndex[n])
<1>0. /\ Len(FullChain) \in Nat \ {0} /\ \A i \in 1..Len(FullChain) : FullChain[i] \in Offset
  BY FullChainTyped
<1> DEFINE I == {k \in Nat : k <= Len(FullChain) => NewestOf(k, n, IndexOf[k][n])}
<1>1. 0 \in I
  BY <1>0, IndexOfTurns DEF EmptyIndex, NewestOf
<1>2. ASSUME NEW k \in Nat, k \in I PROVE k+1 \in I
  <2> SUFFICES ASSUME k+1 <= Len(FullChain)
               PROVE  NewestOf(k+1, n, IndexOf[k+1][n])
    OBVIOUS
  <2> DEFINE o == FullChain[k+1]
  <2>1. k \in 0..Len(FullChain)-1 /\ o \in Offset /\ NewestOf(k, n, IndexOf[k][n])
    BY <1>0, <1>2
  <2>2. IndexOf[k+1][n] = FillFrom(IndexOf[k], o)[n]
    <3>1. IndexOf[k+1] = MergeSection(IndexOf[k], FullChain, k+1)
      BY <1>0, <2>1, IndexOfTurns
    <3> QED BY <2>1, <3>1, MergeFills
  <2>3. IndexOf[k+1][n] = IF IndexOf[k][n] = NoEntry /\ Mentions(o, n) THEN EntryAt(o, n)
                          ELSE IndexOf[k][n]
    BY <2>2 DEF FillFrom
  <2>4. \A j \in 1..k : Mentions(FullChain[j], n) => EntryAt(FullChain[j], n) # NoEntry
    BY <1>0, <2>1, EntryTyped
  <2>5. CASE IndexOf[k][n] = NoEntry
    <3>1. \A j \in 1..k : ~Mentions(FullChain[j], n)
      BY <2>1, <2>4, <2>5 DEF NewestOf
    <3>2. CASE Mentions(o, n)
      <4>1. IndexOf[k+1][n] = EntryAt(FullChain[k+1], n) /\ k+1 \in 1..k+1 /\ (k+1)-1 = k
        BY <2>3, <2>5, <3>2
      <4> QED BY <3>1, <3>2, <4>1 DEF NewestOf
    <3>3. CASE ~Mentions(o, n)
      <4>1. \A j \in 1..k+1 : ~Mentions(FullChain[j], n)
        BY <3>1, <3>3
      <4> QED BY <2>3, <2>5, <3>3, <4>1 DEF NewestOf
    <3> QED BY <3>2, <3>3
  <2>6. CASE IndexOf[k][n] # NoEntry
    <3>1. PICK i \in 1..k : /\ Mentions(FullChain[i], n)
                            /\ IndexOf[k][n] = EntryAt(FullChain[i], n)
                            /\ \A j \in 1..i-1 : ~Mentions(FullChain[j], n)
      BY <2>1, <2>6 DEF NewestOf
    <3>2. IndexOf[k+1][n] = IndexOf[k][n] /\ i \in 1..k+1
      BY <2>3, <2>6
    <3> QED BY <3>1, <3>2 DEF NewestOf
  <2> QED BY <2>5, <2>6
<1>3. Nat \subseteq I
  <2> HIDE DEF I
  <2> QED BY <1>1, <1>2, SetInduction
<1> QED BY <1>0, <1>3 DEF FullIndex

LEMMA FullIndexIsTrue ==
  ASSUME PlainFile
  PROVE  FullIndex \in Index /\ \A n \in Obj : Newest(FullChain, n, FullIndex[n])
<1>1. FullIndex \in Index
  BY FullChainTyped, IndexOfTurns DEF FullIndex, PlainFile
<1>2. ASSUME NEW n \in Obj PROVE NewestOf(Len(FullChain), n, FullIndex[n])
  <2>1. FileTyped /\ NoXRefStmOf(n)
    BY DEF PlainFile, NoXRefStmOf, XRefStmMentions
  <2> QED BY <2>1, IndexHasNewest
<1> QED BY <1>1, <1>2, NewestOfAll

\* What is said of a file that does not change does not change.
LEMMA SameFile ==
  ASSUME file' = file, startxref' = startxref
  PROVE  /\ FullChain' = FullChain /\ Chain' = Chain
         /\ IndexOf' = IndexOf /\ FullIndex' = FullIndex
         /\ ChainReadable' = ChainReadable
         /\ FileTyped' = FileTyped /\ PlainFile' = PlainFile
         /\ \A n : TrueEntry(n)' = TrueEntry(n)
         /\ \A c : NextOf(c)' = NextOf(c)
         /\ \A c : Begins(c)' = Begins(c)
         /\ \A n, e : Newest(FullChain, n, e)' = Newest(FullChain, n, e)
<1>1. Chain' = Chain
  BY DEF Chain, Followed, Readable
<1>2. FullChain' = FullChain
  BY <1>1 DEF FullChain
<1>3. IndexOf' = IndexOf /\ FullIndex' = FullIndex
  <2>1. IndexOf' = IndexOf
    BY <1>2 DEF IndexOf, MergeSection, FillFrom, OverrideFrom, Readable, Mentions, EntryAt
  <2> QED BY <1>2, <2>1 DEF FullIndex
<1>4. ChainReadable' = ChainReadable
  BY <1>2 DEF ChainReadable, Readable
<1>5. FileTyped' = FileTyped /\ PlainFile' = PlainFile
  BY DEF PlainFile, FileTyped
<1>6. \A n, e : Newest(FullChain, n, e)' = Newest(FullChain, n, e)
  BY <1>2 DEF Newest, RevisionEntry, XRefStmMentions, Readable, Mentions, EntryAt
<1>7. \A n : TrueEntry(n)' = TrueEntry(n)
  BY <1>6 DEF TrueEntry
<1>8. \A c : NextOf(c)' = NextOf(c)
  BY DEF NextOf
<1>9. \A c : Begins(c)' = Begins(c)
  BY <1>1 DEF Begins, FollowsPrev, Readable
<1> QED BY <1>1, <1>2, <1>3, <1>4, <1>5, <1>6, <1>7, <1>8, <1>9

-----------------------------------------------------------------------------
(* The index.                                                              *)

(***************************************************************************)
(* The loop variable is the /Prev link of the last section read, and the   *)
(* sections read so far are all in `visited'.  Before the first section,   *)
(* the table is empty and nothing has been visited: the XRefStm of the     *)
(* newest section can therefore only override entries of that section.     *)
(***************************************************************************)
LoopInv ==
  /\ FollowsPrev(chain)
  /\ \A i \in 1..Len(chain) : chain[i] \in visited
  /\ chain = <<>> =>
       current = startxref /\ table = EmptyIndex /\ phase # "done" /\ (phase = "reading" => visited = {})
  /\ chain # <<>> => current = file[chain[Len(chain)]].prev
  /\ phase = "done" => current \in {0} \union visited

IndexIInv == IndexTypeOK /\ LoopInv /\ LatestWinsUnlessOldHybrid

LEMMA IndexInitIInv == IndexInit => IndexIInv
<1> SUFFICES ASSUME IndexInit PROVE IndexIInv
  OBVIOUS
<1>0. Len(<<>>) = 0 /\ <<>> \in Seq(Offset)
  OBVIOUS
<1>1. IndexTypeOK
  BY <1>0, FilesAssumption DEF IndexInit, IndexTypeOK, Index, EmptyIndex
<1>2. LoopInv
  BY <1>0 DEF IndexInit, LoopInv, FollowsPrev
<1>3. LatestWinsUnlessOldHybrid
  BY <1>0 DEF IndexInit, LatestWinsUnlessOldHybrid, Newest, EmptyIndex
<1> QED BY <1>1, <1>2, <1>3 DEF IndexIInv

\* Entries of a readable section are entries of an index.
LEMMA EntryTypes ==
  ASSUME IndexTypeOK, NEW o \in Offset, NEW n \in Obj, Mentions(o, n)
  PROVE  EntryAt(o, n) \in IndexEntry
BY DEF IndexTypeOK, Mentions, EntryAt, IndexEntry, Section

\* Both ways of merging a section yield an index.
LEMMA MergeTypes ==
  ASSUME IndexTypeOK, NEW idx \in Index, NEW o \in Offset
  PROVE  FillFrom(idx, o) \in Index /\ OverrideFrom(idx, o) \in Index
BY EntryTypes DEF Index, FillFrom, OverrideFrom

LEMMA RevisionTypes ==
  ASSUME IndexTypeOK, NEW o \in Offset, NEW n \in Obj
  PROVE  RevisionEntry(o, n) \in IndexEntry \union {NoEntry}
<1>1. file[o].xrefStm \in Offset \union {0}
  BY DEF IndexTypeOK, Section
<1> QED BY <1>1, EntryTypes DEF RevisionEntry, XRefStmMentions

(***************************************************************************)
(* A turn of the loop: what the table says of an object afterwards, for    *)
(* the first section read (`chain' empty) and for a section without an     *)
(* XRefStm.                                                                *)
(***************************************************************************)
LEMMA TurnOfLoop ==
  ASSUME IndexIInv, ReadSection, chain = <<>> \/ file[current].xrefStm = 0, NEW n \in Obj
  PROVE  table'[n] = IF table[n] # NoEntry THEN table[n] ELSE RevisionEntry(current, n)
<1> DEFINE filled == FillFrom(table, current)
           stm == file[current].xrefStm
<1>0. current \in Offset /\ stm \in Offset \union {0} /\ 0 \notin Offset
  BY OffsetAssumption DEF IndexIInv, IndexTypeOK, ReadSection, InLoop, Ahead, Section
<1>1. filled[n] = IF table[n] # NoEntry THEN table[n]
                  ELSE IF Mentions(current, n) THEN EntryAt(current, n) ELSE NoEntry
  BY DEF FillFrom, IndexIInv, IndexTypeOK, Index
<1>2. CASE stm = 0
  <2>1. NewXRefStm(current) = {}
    BY <1>2 DEF NewXRefStm
  <2>2. table' = filled
    BY <2>1 DEF ReadSection
  <2>3. RevisionEntry(current, n) = IF Mentions(current, n) THEN EntryAt(current, n) ELSE NoEntry
    BY <1>2 DEF RevisionEntry, XRefStmMentions
  <2> QED BY <1>1, <2>2, <2>3
<1>3. CASE stm # 0
  <2>1. chain = <<>> /\ table[n] = NoEntry /\ visited = {}
    BY <1>3 DEF IndexIInv, LoopInv, EmptyIndex, ReadSection, InLoop, Ahead
  <2>2. CASE Readable(stm) /\ stm # current
    <3>1. table' = OverrideFrom(filled, stm)
      BY <1>3, <2>1, <2>2 DEF ReadSection, NewXRefStm
    <3>2. table'[n] = IF Mentions(stm, n) THEN EntryAt(stm, n) ELSE filled[n]
      BY <3>1 DEF OverrideFrom
    <3> QED BY <1>1, <1>3, <2>1, <2>2, <3>2 DEF RevisionEntry, XRefStmMentions
  <2>3. CASE ~Readable(stm) \/ stm = current
    <3>1. table' = filled
      BY <2>3 DEF ReadSection, NewXRefStm
    <3> QED BY <1>1, <2>1, <2>3, <3>1 DEF RevisionEntry, XRefStmMentions
  <2> QED BY <2>2, <2>3
<1> QED BY <1>2, <1>3

LEMMA ReadSectionKeeps ==
  ASSUME IndexIInv, ReadSection
  PROVE  IndexIInv'
<1>0. /\ current \in Offset /\ current \notin visited /\ phase = "reading"
      /\ chain \in Seq(Offset) /\ Len(chain) \in Nat
      /\ file' = file /\ startxref' = startxref /\ phase' = phase
      /\ chain' = Append(chain, current) /\ current' = file[current].prev
      /\ visited' = visited \union {current} \union NewXRefStm(current)
      /\ NewXRefStm(current) \subseteq Offset
  BY DEF IndexIInv, IndexTypeOK, ReadSection, InLoop, Ahead, NewXRefStm, Section
<1>1. /\ Len(chain') = Len(chain) + 1
      /\ chain'[Len(chain)+1] = current
      /\ \A i \in 1..Len(chain) : chain'[i] = chain[i]
      /\ chain' \in Seq(Offset) /\ chain' # <<>>
  BY <1>0
<1>2. IndexTypeOK'
  <2>1. table' \in Index
    <3>1. FillFrom(table, current) \in Index
      BY <1>0, MergeTypes DEF IndexIInv, IndexTypeOK
    <3>2. CASE \E s \in NewXRefStm(current) : Readable(s)
      <4>1. file[current].xrefStm \in Offset
        BY <1>0, <3>2 DEF NewXRefStm
      <4>2. OverrideFrom(FillFrom(table, current), file[current].xrefStm) \in Index
        BY <3>1, <4>1, MergeTypes DEF IndexIInv
      <4> QED BY <3>2, <4>2 DEF ReadSection
    <3>3. CASE ~\E s \in NewXRefStm(current) : Readable(s)
      BY <3>1, <3>3 DEF ReadSection
    <3> QED BY <3>2, <3>3
  <2>2. current' \in Offset \union {0}
    BY <1>0 DEF IndexIInv, IndexTypeOK, Section
  <2> QED BY <1>0, <1>1, <2>1, <2>2 DEF IndexIInv, IndexTypeOK
<1>3. LoopInv'
  <2>1. FollowsPrev(chain)'
    <3>1. chain'[1] = startxref
      <4>1. CASE chain = <<>>
        BY <1>0, <1>1, <4>1 DEF IndexIInv, LoopInv
      <4>2. CASE chain # <<>>
        <5>1. Len(chain) > 0
          BY <1>0, <4>2, EmptySeq
        <5> QED BY <1>0, <1>1, <5>1 DEF IndexIInv, LoopInv, FollowsPrev
      <4> QED BY <4>1, <4>2
    <3>2. ASSUME NEW i \in 1..Len(chain')-1
          PROVE  chain'[i+1] = file[chain'[i]].prev
      <4>1. CASE i = Len(chain)
        <5>1. chain # <<>> /\ current = file[chain[Len(chain)]].prev
          BY <1>0, <4>1, EmptySeq DEF IndexIInv, LoopInv
        <5> QED BY <1>0, <1>1, <4>1, <5>1
      <4>2. CASE i \in 1..Len(chain)-1
        BY <1>0, <1>1, <4>2 DEF IndexIInv, LoopInv, FollowsPrev
      <4> QED BY <1>0, <1>1, <4>1, <4>2
    <3> QED BY <1>0, <1>1, <3>1, <3>2 DEF FollowsPrev
  <2>2. \A i \in 1..Len(chain') : chain'[i] \in visited'
    BY <1>0, <1>1 DEF IndexIInv, LoopInv
  <2> QED BY <1>0, <1>1, <2>1, <2>2 DEF LoopInv
<1>4. LatestWinsUnlessOldHybrid'
  <2> SUFFICES ASSUME \A i \in 2..Len(chain') : file[chain'[i]].xrefStm = 0,
                      NEW n \in Obj
               PROVE  Newest(chain, n, table[n])'
    BY <1>0 DEF LatestWinsUnlessOldHybrid
  <2>1. chain = <<>> \/ file[current].xrefStm = 0
    <3>1. CASE chain # <<>>
      <4>1. Len(chain)+1 \in 2..Len(chain')
        BY <1>0, <1>1, <3>1, EmptySeq
      <4> QED BY <1>1, <4>1
    <3> QED BY <3>1
  <2>2. table'[n] = IF table[n] # NoEntry THEN table[n] ELSE RevisionEntry(current, n)
    BY <2>1, TurnOfLoop
  <2>3. Newest(chain, n, table[n])
    <3>1. \A i \in 2..Len(chain) : file[chain[i]].xrefStm = 0
      BY <1>0, <1>1
    <3> QED BY <3>1 DEF IndexIInv, LatestWinsUnlessOldHybrid
  <2>4. \A i \in 1..Len(chain) : RevisionEntry(chain'[i], n) = RevisionEntry(chain[i], n)
    BY <1>1
  <2>5. RevisionEntry(chain'[Len(chain)+1], n) = RevisionEntry(current, n)
    BY <1>1
  <2>6. Newest(chain', n, table'[n])
    <3>1. CASE table[n] # NoEntry
      <4>1. PICK i \in 1..Len(chain) :
              /\ table[n] = RevisionEntry(chain[i], n)
              /\ \A j \in 1..i-1 : RevisionEntry(chain[j], n) = NoEntry
        BY <2>3, <3>1 DEF Newest
      <4>2. /\ i \in 1..Len(chain')
            /\ table'[n] = RevisionEntry(chain'[i], n)
            /\ \A j \in 1..i-1 : RevisionEntry(chain'[j], n) = NoEntry
        BY <1>0, <1>1, <2>2, <2>4, <3>1, <4>1
      <4> QED BY <2>2, <3>1, <4>2 DEF Newest
    <3>2. CASE table[n] = NoEntry
      <4>1. \A i \in 1..Len(chain) : RevisionEntry(chain'[i], n) = NoEntry
        BY <2>3, <2>4, <3>2 DEF Newest
      <4>2. table'[n] = RevisionEntry(chain'[Len(chain)+1], n)
        BY <2>2, <2>5, <3>2
      <4>3. CASE table'[n] = NoEntry
        <5>1. \A i \in 1..Len(chain') : RevisionEntry(chain'[i], n) = NoEntry
          <6> SUFFICES ASSUME NEW i \in 1..Len(chain')
                       PROVE  RevisionEntry(chain'[i], n) = NoEntry
            OBVIOUS
          <6>1. i \in 1..Len(chain) \/ i = Len(chain)+1
            BY <1>0, <1>1
          <6> QED BY <4>1, <4>2, <4>3, <6>1
        <5> QED BY <4>3, <5>1 DEF Newest
      <4>4. CASE table'[n] # NoEntry
        <5>1. Len(chain)+1 \in 1..Len(chain') /\ Len(chain)+1-1 = Len(chain)
          BY <1>0, <1>1
        <5> QED BY <4>1, <4>2, <4>4, <5>1 DEF Newest
      <4> QED BY <4>3, <4>4
    <3> QED BY <3>1, <3>2
  <2>7. ASSUME NEW i
        PROVE  RevisionEntry(chain[i], n)' = RevisionEntry(chain'[i], n)
    BY <1>0 DEF RevisionEntry, XRefStmMentions, Readable, Mentions, EntryAt
  <2> QED BY <2>6, <2>7 DEF Newest
<1> QED BY <1>2, <1>3, <1>4 DEF IndexIInv

LEMMA IndexStepIInv == IndexIInv /\ [IndexNext]_indexVars => IndexIInv'
<1> SUFFICES ASSUME IndexIInv, [IndexNext]_indexVars PROVE IndexIInv'
  OBVIOUS
<1> DEFINE same == UNCHANGED <<file, startxref, current, table, chain>>
<1>1. ASSUME same, UNCHANGED visited \/ visited' = visited \union {current},
             phase' = phase \/ phase' = "failed" \/ (phase' = "done" /\ current \in {0} \union visited),
             phase = "reading" \/ UNCHANGED <<phase, visited>>,
             UNCHANGED visited \/ (phase' = "failed" /\ current \in Offset)
      PROVE  IndexIInv'
  <2>1. IndexTypeOK'
    BY <1>1 DEF IndexIInv, IndexTypeOK
  <2>2. LatestWinsUnlessOldHybrid'
    BY <1>1 DEF IndexIInv, LatestWinsUnlessOldHybrid, Newest, RevisionEntry, XRefStmMentions,
                Readable, Mentions, EntryAt
  <2>3. LoopInv'
    <3>1. chain = <<>> => phase' # "done"
      BY <1>1, OffsetAssumption DEF IndexIInv, LoopInv, IndexTypeOK
    <3> QED BY <1>1, <3>1 DEF IndexIInv, LoopInv, FollowsPrev
  <2> QED BY <2>1, <2>2, <2>3 DEF IndexIInv
<1>2. CASE ReadFails
  BY <1>1, <1>2 DEF ReadFails, InLoop, Ahead, IndexIInv, IndexTypeOK
<1>3. CASE Finish
  BY <1>1, <1>3 DEF Finish
<1>4. CASE UNCHANGED indexVars
  BY <1>1, <1>4 DEF indexVars
<1> QED BY <1>2, <1>3, <1>4, ReadSectionKeeps DEF IndexNext

(***************************************************************************)
(* The state of the loop keeps its types (xref.go:41-43).                  *)
(***************************************************************************)
THEOREM IndexTypeCorrect == IndexSpec => []IndexTypeOK
<1>1. IndexIInv => IndexTypeOK
  BY DEF IndexIInv
<1> QED BY <1>1, IndexInitIInv, IndexStepIInv, PTL DEF IndexSpec

(***************************************************************************)
(* The index is read off the /Prev chain of startxref and nothing else,    *)
(* and the walk ends where the chain ends or meets itself                  *)
(* (xref.go:41-83).                                                        *)
(***************************************************************************)
THEOREM WalksTheChain == IndexSpec => []ChainFollowed
<1>1. IndexIInv => ChainFollowed
  BY DEF IndexIInv, LoopInv, ChainFollowed
<1> QED BY <1>1, IndexInitIInv, IndexStepIInv, PTL DEF IndexSpec

(***************************************************************************)
(* In a file whose older revisions are not hybrid every object resolves to *)
(* what the newest revision that mentions it says, however many revisions  *)
(* and objects there are (xref.go:38, 52-80).                              *)
(***************************************************************************)
THEOREM NewestRevisionWins == IndexSpec => []LatestWinsUnlessOldHybrid
<1>1. IndexIInv => LatestWinsUnlessOldHybrid
  BY DEF IndexIInv
<1> QED BY <1>1, IndexInitIInv, IndexStepIInv, PTL DEF IndexSpec

-----------------------------------------------------------------------------
(* The loop of buildXRefIndex comes to the index of the whole file.        *)

\* The sections of c and their XRefStms.
Met(c) == (UNION {{c[j], file[c[j]].xrefStm} : j \in 1..Len(c)}) \ {0}

Apart == LinksApart(file) /\ startxref \notin {file[o].xrefStm : o \in Offset}

(***************************************************************************)
(* While it reads, the sections read so far are a beginning of the chain,  *)
(* nothing but them and their XRefStms has been visited, and the table is  *)
(* what they add up to.                                                    *)
(***************************************************************************)
OnItsWay ==
  /\ chain = <<>> \/ Begins(chain)
  /\ visited = Met(chain)
  /\ table = IndexOf[Len(chain)]

BuildIInv ==
  /\ IndexIInv /\ FileTyped
  /\ BuildsFullIndex
  /\ Apart /\ phase = "reading" => OnItsWay

\* Where /Prev leads is never an XRefStm: what was met there is a section of the chain.
LEMMA MetInChain ==
  ASSUME FileTyped, Apart, NEW c, Begins(c), NEW o \in Met(c), o = NextOf(c)
  PROVE  o \in Range(c)
<1>1. /\ Len(c) \in Nat \ {0} /\ c \in Seq(Offset)
      /\ \A i \in 1..Len(c) : c[i] \in Offset
  BY LastIn DEF Begins, NonEmpty
<1>2. o = file[c[Len(c)]].prev /\ o # 0 /\ c[Len(c)] \in Offset
  <2>1. c # <<>> /\ Len(c) \in 1..Len(c)
    BY <1>1, EmptySeq
  <2> QED BY <1>1, <2>1 DEF NextOf, Met
<1>3. PICK j \in 1..Len(c) : o = c[j] \/ o = file[c[j]].xrefStm
  BY DEF Met
<1>4. o # file[c[j]].xrefStm
  BY <1>1, <1>2 DEF Apart, LinksApart
<1>5. DOMAIN c = 1..Len(c)
  BY <1>1, LenProperties
<1> QED BY <1>3, <1>4, <1>5 DEF Range

\* A section that was not met before is one more step along the chain.
LEMMA LoopWalks ==
  ASSUME BuildIInv, Apart, InLoop
  PROVE  Walks(chain, current) /\ OnItsWay /\ phase = "reading"
<1>1. /\ OnItsWay /\ phase = "reading"
      /\ current \in Offset /\ current \notin visited
      /\ chain \in Seq(Offset)
      /\ \A i \in 1..Len(chain) : chain[i] \in visited
      /\ current = NextOf(chain)
  BY DEF BuildIInv, InLoop, Ahead, IndexIInv, IndexTypeOK, LoopInv, NextOf
<1>2. DOMAIN chain = 1..Len(chain)
  BY <1>1, LenProperties
<1>3. current \notin Range(chain)
  BY <1>1, <1>2 DEF Range
<1> QED BY <1>1, <1>3 DEF Walks, OnItsWay

LEMMA ReadOnTheWay ==
  ASSUME BuildIInv, Apart, ReadSection
  PROVE  OnItsWay'
<1> DEFINE d == Append(chain, current)
           n == Len(chain) + 1
           stm == file[current].xrefStm
           before == UNION {{chain[j], file[chain[j]].xrefStm} : j \in 1..Len(chain)}
           fresh == stm \notin {0, current} \union before /\ Readable(stm)
<1>1. Walks(chain, current) /\ OnItsWay /\ Readable(current) /\ FileTyped
  BY LoopWalks DEF ReadSection, BuildIInv
<1>2. /\ file' = file /\ startxref' = startxref
      /\ chain' = d
      /\ visited' = visited \union {current} \union NewXRefStm(current)
  BY DEF ReadSection
<1>3. Begins(d)
  BY <1>1, WalkBegins
<1>4. /\ Len(chain) \in Nat /\ Len(d) = n /\ d[n] = current
      /\ \A i \in 1..Len(chain) : d[i] = chain[i]
  BY <1>1, WalkTyped
<1>5. before = UNION {{d[j], file[d[j]].xrefStm} : j \in 1..n-1}
  <2>1. n-1 = Len(chain)
    BY <1>4
  <2> HIDE DEF d, n
  <2>2. \A j \in 1..Len(chain) : {chain[j], file[chain[j]].xrefStm} = {d[j], file[d[j]].xrefStm}
    BY <1>4
  <2> QED BY <2>1, <2>2
<1>6. visited = before \ {0}
  <2>1. visited = Met(chain)
    BY <1>1 DEF OnItsWay
  <2> QED BY <2>1 DEF Met
<1>7. visited' = Met(d)
  <2>1. Met(d) = (before \union {d[n], file[d[n]].xrefStm}) \ {0}
    <3> DEFINE pair(j) == {d[j], file[d[j]].xrefStm}
    <3>1. 1..n = (1..n-1) \union {n}
      BY <1>4
    <3>2. Met(d) = (UNION {pair(j) : j \in 1..n}) \ {0}
      BY <1>4 DEF Met
    <3>3. before = UNION {pair(j) : j \in 1..n-1}
      BY <1>5
    <3> HIDE DEF d, n, before, pair
    <3>4. UNION {pair(j) : j \in 1..n} = (UNION {pair(j) : j \in 1..n-1}) \union pair(n)
      BY <3>1
    <3>5. Met(d) = (before \union pair(n)) \ {0}
      BY <3>2, <3>3, <3>4
    <3> QED BY <3>5 DEF pair
  <2>2. current # 0
    BY <1>1, OffsetAssumption DEF Walks
  <2>3. NewXRefStm(current) = {stm} \ ({0, current} \union visited)
    BY DEF NewXRefStm
  <2> HIDE DEF d, n, before
  <2> QED BY <1>2, <1>4, <1>6, <2>1, <2>2, <2>3
<1>8. table' = IF fresh THEN OverrideFrom(FillFrom(table, current), stm) ELSE FillFrom(table, current)
  <2>1. (\E o \in NewXRefStm(current) : Readable(o)) <=> fresh
    <3> HIDE DEF before
    <3> QED BY <1>6 DEF NewXRefStm
  <2> HIDE DEF fresh, before
  <2> QED BY <2>1 DEF ReadSection
<1>9. table' = MergeSection(table, d, n)
  <2> HIDE DEF d, n, before
  <2>1. MergeSection(table, d, n) =
          IF file[d[n]].xrefStm \notin {0, d[n]} \union before /\ Readable(file[d[n]].xrefStm)
          THEN OverrideFrom(FillFrom(table, d[n]), file[d[n]].xrefStm)
          ELSE FillFrom(table, d[n])
    BY <1>5 DEF MergeSection
  <2> QED BY <1>4, <1>8, <2>1
<1>10. /\ n <= Len(FullChain) /\ Len(FullChain) \in Nat
       /\ \A i \in 1..n : FullChain[i] = d[i]
  <2> HIDE DEF d, n
  <2> QED BY <1>1, <1>3, <1>4, ChainGoesOn, FullChainTyped
<1>11. MergeSection(table, d, n) = MergeSection(table, FullChain, n)
  <2>1. \A j \in 1..n-1 : FullChain[j] = d[j]
    BY <1>4, <1>10
  <2>2. FullChain[n] = d[n]
    BY <1>4, <1>10
  <2> HIDE DEF d, n, before
  <2>3. UNION {{d[j], file[d[j]].xrefStm} : j \in 1..n-1}
          = UNION {{FullChain[j], file[FullChain[j]].xrefStm} : j \in 1..n-1}
    BY <2>1
  <2> QED BY <2>2, <2>3 DEF MergeSection
<1>12. IndexOf[n] = MergeSection(IndexOf[Len(chain)], FullChain, n)
  <2>1. Len(chain) \in 0..Len(FullChain)-1
    BY <1>4, <1>10
  <2> QED BY <1>1, <2>1, IndexOfTurns
<1>13. table' = IndexOf[Len(d)]
  BY <1>1, <1>4, <1>9, <1>11, <1>12 DEF OnItsWay
<1>14. IndexOf' = IndexOf /\ \A c : Begins(c)' = Begins(c)
  BY <1>2, SameFile
<1>15. \A c : Met(c)' = Met(c)
  BY <1>2 DEF Met
<1> HIDE DEF d, n
<1> QED BY <1>2, <1>3, <1>7, <1>13, <1>14, <1>15 DEF OnItsWay

\* The end of the loop is the end of the chain.
LEMMA LoopEnds ==
  ASSUME BuildIInv, Apart, Finish
  PROVE  ChainReadable /\ table = FullIndex
<1>1. /\ OnItsWay /\ phase = "reading" /\ FileTyped
      /\ current = 0 \/ current \in visited
      /\ chain = <<>> => current = startxref /\ visited = {}
      /\ current = NextOf(chain)
  BY DEF BuildIInv, Finish, IndexIInv, LoopInv, NextOf
<1>2. chain # <<>>
  BY <1>1, OffsetAssumption DEF FileTyped
<1>3. Begins(chain)
  BY <1>1, <1>2 DEF OnItsWay
<1>4. current = 0 \/ current \in Range(chain)
  BY <1>1, <1>3, MetInChain DEF OnItsWay
<1>5. file[chain[Len(chain)]].prev = current
  BY <1>1, <1>2 DEF NextOf
<1>6. chain = FullChain /\ ChainReadable
  BY <1>1, <1>3, <1>4, <1>5, ChainEnds
<1>7. table = IndexOf[Len(chain)]
  BY <1>1 DEF OnItsWay
<1> QED BY <1>6, <1>7 DEF FullIndex

LEMMA BuildStepIInv == BuildIInv /\ [IndexNext]_indexVars => BuildIInv'
<1> SUFFICES ASSUME BuildIInv, [IndexNext]_indexVars PROVE BuildIInv'
  OBVIOUS
<1>1. file' = file /\ startxref' = startxref
  BY DEF IndexNext, ReadFails, ReadSection, Finish, indexVars
<1>2. IndexIInv'
  BY IndexStepIInv DEF BuildIInv
<1>3. /\ FileTyped' /\ Apart' = Apart
      /\ ChainReadable' = ChainReadable /\ FullIndex' = FullIndex /\ IndexOf' = IndexOf
      /\ \A c : Begins(c)' = Begins(c)
      /\ \A c : Met(c)' = Met(c)
  BY <1>1, SameFile DEF BuildIInv, Apart, LinksApart, Met
<1>4. CASE ~Apart
  BY <1>2, <1>3, <1>4 DEF BuildIInv, BuildsFullIndex, Apart
<1>5. CASE Apart
  <2>1. ASSUME phase' = "reading" => OnItsWay',
               phase' = "done" => ChainReadable /\ table' = FullIndex,
               phase' = "failed" => ~ChainReadable
        PROVE  BuildIInv'
    BY <1>2, <1>3, <2>1 DEF BuildIInv, BuildsFullIndex, Apart
  <2>2. CASE ReadFails
    <3>1. ~ChainReadable
      <4>1. Walks(chain, current) /\ ~Readable(current) /\ FileTyped
        BY <1>5, <2>2, LoopWalks DEF ReadFails, BuildIInv
      <4> QED BY <4>1, WalkFails
    <3>2. phase' = "failed"
      BY <2>2 DEF ReadFails
    <3> QED BY <2>1, <3>1, <3>2
  <2>3. CASE ReadSection
    <3>1. phase' = "reading"
      BY <2>3 DEF ReadSection, InLoop
    <3> QED BY <1>5, <2>1, <2>3, <3>1, ReadOnTheWay
  <2>4. CASE Finish
    <3>1. phase' = "done" /\ table' = table
      BY <2>4 DEF Finish
    <3> QED BY <1>5, <2>1, <2>4, <3>1, LoopEnds
  <2>5. CASE UNCHANGED indexVars
    <3>1. phase' = phase /\ table' = table /\ chain' = chain /\ visited' = visited
      BY <2>5 DEF indexVars
    <3>2. OnItsWay => OnItsWay'
      BY <1>3, <3>1 DEF OnItsWay
    <3>3. /\ phase = "reading" => OnItsWay
          /\ phase = "done" => ChainReadable /\ table = FullIndex
          /\ phase = "failed" => ~ChainReadable
      BY <1>5 DEF BuildIInv, BuildsFullIndex, Apart
    <3> QED BY <2>1, <3>1, <3>2, <3>3
  <2> QED BY <2>2, <2>3, <2>4, <2>5 DEF IndexNext
<1> QED BY <1>4, <1>5

(***************************************************************************)
(* In every file whose sections are met either by /Prev or as an XRefStm,  *)
(* hybrid or not, the loop comes to the index that the lookup of an open   *)
(* document takes in one step, or fails when there is none (xref.go:41-83, *)
(* service.go:177-198).                                                    *)
(***************************************************************************)
THEOREM IndexIsFullIndex == IndexSpec => []BuildsFullIndex
<1>1. IndexInit => BuildIInv
  <2> SUFFICES ASSUME IndexInit PROVE BuildIInv
    OBVIOUS
  <2>1. IndexIInv
    BY IndexInitIInv
  <2>2. FileTyped /\ phase = "reading"
    BY DEF IndexInit, FileTyped
  <2>3. OnItsWay
    <3>1. IndexOf[0] = EmptyIndex
      BY <2>2, IndexOfTurns
    <3>2. Len(<<>>) = 0 /\ 1..0 = {}
      OBVIOUS
    <3> QED BY <3>1, <3>2 DEF IndexInit, OnItsWay, Met
  <2> QED BY <2>1, <2>2, <2>3 DEF BuildIInv, BuildsFullIndex
<1>2. BuildIInv => BuildsFullIndex
  BY DEF BuildIInv
<1> QED BY <1>1, <1>2, BuildStepIInv, PTL DEF IndexSpec

-----------------------------------------------------------------------------
(* The rewriter's collection of bodies.                                    *)

(***************************************************************************)
(* While it collects, the rewriter walks along the chain that the index is *)
(* built from; what it has walked afterwards is that chain, if it could be *)
(* read.                                                                   *)
(***************************************************************************)
CollectInv ==
  /\ phase = "root" => chain = <<>> /\ visited = {}
  /\ phase = "collect" =>
       (chain = <<>> \/ Begins(chain)) /\ visited = Range(chain) /\ current = NextOf(chain)
  /\ Collected /\ ChainReadable => chain = FullChain

RewriteIInv == RewriteTypeOK /\ FileTyped /\ CollectInv /\ KeepsNewestBody

LEMMA RewriteInitIInv == RewriteInit => RewriteIInv
<1> SUFFICES ASSUME RewriteInit PROVE RewriteIInv
  OBVIOUS
<1>0. Len(<<>>) = 0 /\ <<>> \in Seq(Offset)
  OBVIOUS
<1>1. RewriteTypeOK
  BY <1>0, FilesAssumption, RootAssumption, ZeroPrevAssumption DEF RewriteInit, RewriteTypeOK, Nothing
<1>2. KeepsNewestBody
  BY <1>0 DEF RewriteInit, KeepsNewestBody, Nothing
<1>3. FileTyped /\ CollectInv
  BY DEF RewriteInit, FileTyped, CollectInv, Collected
<1> QED BY <1>1, <1>2, <1>3 DEF RewriteIInv

\* A section that the rewriter has not been at is one more step along the chain.
LEMMA CollectWalks ==
  ASSUME RewriteIInv, Collecting
  PROVE  Walks(chain, current) /\ visited = Range(chain) /\ FileTyped
<1>1. /\ current \in Offset /\ current \notin visited
      /\ chain = <<>> \/ Begins(chain)
      /\ visited = Range(chain) /\ current = NextOf(chain)
  BY DEF RewriteIInv, RewriteTypeOK, CollectInv, Collecting, Ahead
<1> QED BY <1>1 DEF Walks, RewriteIInv

LEMMA CollectSectionKeeps ==
  ASSUME RewriteIInv, CollectSection
  PROVE  RewriteIInv'
<1>0. /\ current \in Offset /\ current # 0 /\ 0 \notin Offset
      /\ chain \in Seq(Offset) /\ Len(chain) \in Nat
      /\ file' = file /\ chain' = Append(chain, current)
      /\ kept' = KeepFrom(kept, current)
  BY OffsetAssumption DEF RewriteIInv, RewriteTypeOK, CollectSection, Collecting, Ahead
<1>1. /\ Len(chain') = Len(chain) + 1
      /\ chain'[Len(chain)+1] = current
      /\ \A i \in 1..Len(chain) : chain'[i] = chain[i]
      /\ chain' \in Seq(Offset)
  BY <1>0
<1>2. RewriteTypeOK'
  <2>1. kept' \in [Obj -> Offset \union {0}]
    BY <1>0 DEF RewriteIInv, RewriteTypeOK, KeepFrom
  <2>2. current' \in Offset \union {0}
    BY <1>0 DEF RewriteIInv, RewriteTypeOK, Section, CollectSection
  <2> QED BY <1>0, <1>1, <2>1, <2>2 DEF RewriteIInv, RewriteTypeOK, CollectSection
<1>3. KeepsNewestBody'
  <2> SUFFICES ASSUME NEW n \in Obj
               PROVE  \/ /\ kept'[n] = 0
                         /\ \A i \in 1..Len(chain') : n \notin DirectObjects(chain'[i])
                      \/ \E i \in 1..Len(chain') :
                           /\ kept'[n] = chain'[i]
                           /\ n \in DirectObjects(chain'[i])
                           /\ \A j \in 1..i-1 : n \notin DirectObjects(chain'[j])
    BY <1>0 DEF KeepsNewestBody, DirectObjects
  <2>1. kept'[n] = IF kept[n] = 0 /\ n \in DirectObjects(current) THEN current ELSE kept[n]
    BY <1>0 DEF KeepFrom
  <2>2. CASE kept[n] # 0
    <3>1. PICK i \in 1..Len(chain) :
            /\ kept[n] = chain[i]
            /\ n \in DirectObjects(chain[i])
            /\ \A j \in 1..i-1 : n \notin DirectObjects(chain[j])
      BY <2>2 DEF RewriteIInv, KeepsNewestBody
    <3>2. i \in 1..Len(chain') /\ \A j \in 1..i : chain'[j] = chain[j]
      BY <1>0, <1>1
    <3> QED BY <1>0, <1>1, <2>1, <2>2, <3>1, <3>2
  <2>3. CASE kept[n] = 0
    <3>1. \A i \in 1..Len(chain) : n \notin DirectObjects(chain'[i])
      <4>1. \A i \in 1..Len(chain) : chain[i] # 0
        BY <1>0
      <4> QED BY <1>1, <2>3, <4>1 DEF RewriteIInv, KeepsNewestBody
    <3>2. \A i \in 1..Len(chain') : i \in 1..Len(chain) \/ i = Len(chain)+1
      BY <1>0, <1>1
    <3>3. CASE n \in DirectObjects(current)
      <4>1. Len(chain)+1 \in 1..Len(chain') /\ Len(chain)+1-1 = Len(chain)
        BY <1>0, <1>1
      <4> QED BY <1>1, <2>1, <2>3, <3>1, <3>3, <4>1
    <3>4. CASE n \notin DirectObjects(current)
      BY <1>1, <2>1, <2>3, <3>1, <3>2, <3>4
    <3> QED BY <3>3, <3>4
  <2> QED BY <2>2, <2>3
<1>4. FileTyped' /\ CollectInv'
  <2>1. /\ Walks(chain, current) /\ visited = Range(chain) /\ FileTyped /\ Readable(current)
        /\ file' = file /\ startxref' = startxref /\ phase = "collect" /\ phase' = phase
        /\ visited' = visited \union {current} /\ current' = file[current].prev
    BY CollectWalks DEF CollectSection, Collecting
  <2>2. Begins(chain') /\ Range(chain') = Range(chain) \union {current}
    BY <1>0, <2>1, WalkBegins, WalkTyped
  <2>3. NextOf(chain') = file[current].prev
    <3>1. chain' # <<>>
      BY <2>2 DEF Begins, NonEmpty
    <3> QED BY <1>0, <1>1, <3>1 DEF NextOf
  <2>4. (\A c : Begins(c)' = Begins(c)) /\ FileTyped'
    BY <2>1, SameFile
  <2>5. Begins(chain)'
    BY <2>2, <2>4
  <2>6. current' = NextOf(chain)'
    BY <2>1, <2>3 DEF NextOf
  <2> QED BY <2>1, <2>2, <2>4, <2>5, <2>6 DEF CollectInv, Collected
<1> QED BY <1>2, <1>3, <1>4 DEF RewriteIInv

\* The walk ends with the chain, or before a section that the index cannot be built from.
LEMMA EndCollectKeeps ==
  ASSUME RewriteIInv, EndCollect
  PROVE  chain # <<>> /\ ChainReadable => chain = FullChain
<1> SUFFICES ASSUME chain # <<>>, ChainReadable PROVE chain = FullChain
  OBVIOUS
<1>1. /\ Begins(chain) /\ visited = Range(chain) /\ current = NextOf(chain) /\ FileTyped
      /\ phase = "collect"
  BY DEF EndCollect, RewriteIInv, CollectInv
<1>2. CASE Ahead
  <2>1. Collecting /\ ~Readable(current)
    BY <1>1, <1>2 DEF Collecting, EndCollect
  <2> QED BY <2>1, CollectWalks, WalkFails
<1>3. CASE ~Ahead
  <2>1. file[chain[Len(chain)]].prev = 0 \/ file[chain[Len(chain)]].prev \in Range(chain)
    BY <1>1, <1>3 DEF Ahead, NextOf
  <2> QED BY <1>1, <2>1, ChainEnds
<1> QED BY <1>2, <1>3

LEMMA RewriteStepIInv == RewriteIInv /\ [RewriteNext]_rewriteVars => RewriteIInv'
<1> SUFFICES ASSUME RewriteIInv, [RewriteNext]_rewriteVars PROVE RewriteIInv'
  OBVIOUS
<1>1. ASSUME RewriteTypeOK', UNCHANGED <<file, startxref, kept, chain>>,
             phase' = "root" => phase = "root" /\ visited' = visited,
             phase' = "collect" => chain = <<>> /\ visited' = {} /\ current' = startxref,
             Collected' /\ ChainReadable => chain = FullChain
      PROVE  RewriteIInv'
  <2>1. FileTyped' /\ ChainReadable' = ChainReadable /\ FullChain' = FullChain
    BY <1>1, SameFile DEF RewriteIInv
  <2>2. CollectInv'
    <3>1. phase' = "root" => chain' = <<>> /\ visited' = {}
      BY <1>1 DEF RewriteIInv, CollectInv
    <3>2. phase' = "collect" =>
            (chain = <<>> \/ Begins(chain))' /\ visited' = Range(chain') /\ current' = NextOf(chain)'
      <4>1. Range(<<>>) = {}
        BY DEF Range
      <4> QED BY <1>1, <4>1 DEF NextOf
    <3> QED BY <1>1, <2>1, <3>1, <3>2 DEF CollectInv
  <2>3. KeepsNewestBody'
    BY <1>1 DEF RewriteIInv, KeepsNewestBody, DirectObjects
  <2> QED BY <1>1, <2>1, <2>2, <2>3 DEF RewriteIInv
<1>2. CASE FindRoot
  BY <1>1, <1>2 DEF FindRoot, RewriteIInv, CollectInv, Collected, RewriteTypeOK
<1>3. CASE FollowPrevToRoot
  <2>1. PICK t \in TrailersFrom(current) \ rooted : current' = file[t].prev
    BY <1>3 DEF FollowPrevToRoot
  <2>2. t \in Offset
    BY <2>1 DEF TrailersFrom
  <2>3. current' \in Offset \union {0}
    BY <2>1, <2>2, PrevTyped DEF RewriteIInv
  <2> QED BY <1>1, <1>3, <2>3 DEF FollowPrevToRoot, RewriteIInv, Collected, RewriteTypeOK
<1>4. CASE NoRoot
  BY <1>1, <1>4 DEF NoRoot, RewriteIInv, CollectInv, Collected, RewriteTypeOK
<1>5. CASE EndCollect
  <2>1. Collected' => chain # <<>>
    BY <1>5 DEF EndCollect, Collected
  <2> QED BY <1>1, <1>5, <2>1, EndCollectKeeps DEF EndCollect, RewriteIInv, RewriteTypeOK
<1>6. CASE Write
  <2>1. Collected' => Collected
    BY <1>6 DEF Write, Collected
  <2> QED BY <1>1, <1>6, <2>1 DEF Write, Unreadable, RewriteIInv, CollectInv, RewriteTypeOK
<1>7. CASE UNCHANGED rewriteVars
  <2>1. RewriteTypeOK' /\ KeepsNewestBody' /\ file' = file /\ startxref' = startxref
        /\ phase' = phase /\ chain' = chain /\ visited' = visited /\ current' = current
    BY <1>7 DEF rewriteVars, RewriteIInv, RewriteTypeOK, KeepsNewestBody, DirectObjects
  <2>2. FileTyped' /\ ChainReadable' = ChainReadable /\ FullChain' = FullChain
        /\ Begins(chain)' = Begins(chain)
    BY <2>1, SameFile DEF RewriteIInv
  <2>3. CollectInv'
    BY <2>1, <2>2 DEF RewriteIInv, CollectInv, Collected, NextOf
  <2> QED BY <2>1, <2>2, <2>3 DEF RewriteIInv
<1> QED BY <1>2, <1>3, <1>4, <1>5, <1>6, <1>7, CollectSectionKeeps DEF RewriteNext

(***************************************************************************)
(* The body that is kept and the entry of the index are of the same, the   *)
(* newest, section: both walked the same chain.                            *)
(***************************************************************************)
LEMMA KeptIsIndexed == RewriteIInv => KeepsWhatIsIndexed
<1> SUFFICES ASSUME RewriteIInv, Collected, Indexed, NEW n \in Obj, NoXRefStmOf(n)
             PROVE  IF FullIndex[n] = NoEntry THEN kept[n] = 0
                    ELSE FullIndex[n].kind = "direct" => kept[n] = FullIndex[n].rev
  BY DEF KeepsWhatIsIndexed, NoXRefStmOf
<1>1. /\ FileTyped /\ chain = FullChain
      /\ Len(FullChain) \in Nat /\ \A i \in 1..Len(FullChain) : FullChain[i] \in Offset
  BY FullChainTyped DEF RewriteIInv, CollectInv, Indexed
<1>2. NewestOf(Len(FullChain), n, FullIndex[n])
  BY <1>1, IndexHasNewest
<1>3. \A i \in 1..Len(FullChain) : n \in DirectObjects(FullChain[i]) => Mentions(FullChain[i], n)
  BY DEF DirectObjects, Mentions
<1>4. CASE FullIndex[n] = NoEntry
  <2>1. \A i \in 1..Len(FullChain) : ~Mentions(FullChain[i], n)
    BY <1>1, <1>2, <1>4, EntryTyped DEF NewestOf
  <2> QED BY <1>1, <1>3, <1>4, <2>1 DEF RewriteIInv, KeepsNewestBody
<1>5. CASE FullIndex[n] # NoEntry /\ FullIndex[n].kind = "direct"
  <2>1. PICK i \in 1..Len(FullChain) :
          /\ FullIndex[n] = EntryAt(FullChain[i], n)
          /\ \A j \in 1..i-1 : ~Mentions(FullChain[j], n)
    BY <1>2, <1>5 DEF NewestOf
  <2>2. n \in DirectObjects(FullChain[i]) /\ FullIndex[n].rev = FullChain[i]
    BY <1>5, <2>1 DEF EntryAt, DirectObjects
  <2>3. PICK k \in 1..Len(FullChain) :
          /\ kept[n] = FullChain[k]
          /\ n \in DirectObjects(FullChain[k])
          /\ \A j \in 1..k-1 : n \notin DirectObjects(FullChain[j])
    BY <1>1, <2>2 DEF RewriteIInv, KeepsNewestBody
  <2>4. ~(k < i) /\ ~(i < k)
    <3>1. k < i => k \in 1..i-1
      BY <1>1
    <3>2. i < k => i \in 1..k-1
      BY <1>1
    <3> QED BY <1>3, <2>1, <2>2, <2>3, <3>1, <3>2
  <2>5. k = i
    BY <1>1, <2>4
  <2> QED BY <1>5, <2>2, <2>3, <2>5
<1> QED BY <1>4, <1>5

(***************************************************************************)
(* The rewriter's state keeps its types (rewrite.go:28-138).               *)
(***************************************************************************)
THEOREM RewriteTypeCorrect == RewriteSpec => []RewriteTypeOK
<1>1. RewriteIInv => RewriteTypeOK
  BY DEF RewriteIInv
<1> QED BY <1>1, RewriteInitIInv, RewriteStepIInv, PTL DEF RewriteSpec

(***************************************************************************)
(* In every file, of all direct bodies that the chain of sections leads    *)
(* to, the newest one of each object is kept (rewrite.go:143, 275-280).    *)
(***************************************************************************)
THEOREM NewestBodyKept == RewriteSpec => []KeepsNewestBody
<1>1. RewriteIInv => KeepsNewestBody
  BY DEF RewriteIInv
<1> QED BY <1>1, RewriteInitIInv, RewriteStepIInv, PTL DEF RewriteSpec

(***************************************************************************)
(* In every file that has an index and no section that is both an XRefStm  *)
(* and a /Prev link, the rewriter and buildXRefIndex, each with a walk of  *)
(* its own, agree on the bodies written directly: what the index leads to  *)
(* is kept, in the same revision (rewrite.go:140-204 against               *)
(* xref.go:36-86).  Of an object in an XRefStm nothing is said.            *)
(***************************************************************************)
THEOREM AgreesWithTheIndex == RewriteSpec => []KeepsWhatIsIndexed
<1> QED BY KeptIsIndexed, RewriteInitIInv, RewriteStepIInv, PTL DEF RewriteSpec

-----------------------------------------------------------------------------
(***************************************************************************)
(* The inductive invariant.  What is loaded is true (IndexTrue) only       *)
(* because sections are loaded from the newest on: all those before the    *)
(* one that is loaded are in the index already.  That it is the right      *)
(* section that is parsed rests on the file's position, which stays where  *)
(* the holder of the mutex put it, and that no object was mentioned when   *)
(* none is left on the chain that was discovered being the whole one.      *)
(***************************************************************************)
Locked == {"seekDiscover", "discover", "seekLoad", "load"}

Mutual(t) == pc[t] \in Locked <=> mu = t

Placed(t) == pc[t] \in {"discover", "load", "readBody"} => pos = target[t]

\* Where the operations take their threads.
Calling(t) ==
  pc[t] # "idle" =>
    /\ call[t].op \in {"entry", "index", "read"} /\ call[t].obj \in Obj
    /\ call[t].op = "entry" => pc[t] \in Locked \union {"lockEntry", "done"}
    /\ call[t].op = "index" => pc[t] \in {"lockIndex", "done"}

Discovering(t) ==
  pc[t] \in {"seekDiscover", "discover"} =>
    /\ xrefOffsets = <<>>
    /\ walk = <<>> \/ Begins(walk)
    /\ NextOf(walk) \in Offset /\ NextOf(walk) \notin Range(walk)
    /\ target[t] = <<NextOf(walk), XRefPart>>

Loading(t) ==
  pc[t] \in {"seekLoad", "load"} =>
    /\ xrefOffsets # <<>>
    /\ Left(xrefLoaded) # {}
    /\ target[t] = <<ToLoad(xrefLoaded), XRefPart>>

Reading(t) ==
  LET e == xrefIdx[call[t].obj]
  IN  /\ pc[t] \in {"lockIndex", "resolve"} /\ call[t].op = "read" => e # NoEntry
      /\ pc[t] \in {"seekBody", "readBody"} =>
           e # NoEntry /\ target[t] = <<e.rev, call[t].obj>>

EntryAnswered(t) ==
  IF ChainReadable
  THEN IF answer[t].ok THEN answer[t].entry = TrueEntry(call[t].obj)
                       ELSE TrueEntry(call[t].obj) = NoEntry
  ELSE ~answer[t].ok

BodyAnswered(t) ==
  LET e == TrueEntry(call[t].obj)
  IN  ChainReadable /\ e # NoEntry /\ e.kind # "free" =>
        answer[t].ok /\ answer[t].text = <<e.rev, call[t].obj>>

Answering(t) ==
  pc[t] = "done" => /\ call[t].op = "entry" => EntryAnswered(t)
                    /\ call[t].op = "read" => BodyAnswered(t)

ThreadTrue(t) ==
  /\ Mutual(t) /\ Placed(t) /\ Calling(t)
  /\ Discovering(t) /\ Loading(t) /\ Reading(t) /\ Answering(t)

Alone ==
  \A t, u \in Thread : t # u /\ pc[t] # "idle" /\ pc[u] # "idle" => call[t].op # "read"

OffsetsTrue ==
  /\ xrefOffsets # <<>> => indexed /\ xrefOffsets = FullChain
  /\ xrefLoaded \subseteq Range(xrefOffsets)

IndexTrue ==
  /\ indexed => ChainReadable
  /\ ~indexed => xrefIdx = EmptyIndex
  /\ \A n \in Obj : xrefIdx[n] # NoEntry => Newest(FullChain, n, xrefIdx[n])
  /\ \A o \in xrefLoaded, n \in Obj : Mentions(o, n) => xrefIdx[n] # NoEntry

CallTyped ==
  call \in [Thread -> [op : {"none", "entry", "index", "read"}, obj : Obj \union {XRefPart}]]

Shared == TypeOK /\ CallTyped /\ PlainFile /\ OffsetsTrue /\ IndexTrue

IInv == Shared /\ Alone /\ \A t \in Thread : ThreadTrue(t)

-----------------------------------------------------------------------------
(* The chain of a file that can be read, and its sections that are left.   *)

LEMMA ChainIsReadable ==
  ASSUME FileTyped, Readable(startxref)
  PROVE  \A i \in 1..Len(FullChain) : Readable(FullChain[i])
<1> DEFINE I == {n \in Nat : \A i \in 1..Len(Chain[n]) : Readable(Chain[n][i])}
<1>1. 0 \in I
  <2>1. Chain[0] = <<startxref>>
    BY ChainLinks
  <2> QED BY <2>1
<1>2. ASSUME NEW n \in Nat, n \in I PROVE n+1 \in I
  <2> DEFINE c == Chain[n]
             prev == file[c[Len(c)]].prev
  <2>1. c \in NonEmpty /\ Chain[n+1] = Followed(c)
    BY ChainLinks
  <2>2. CASE Followed(c) = c
    BY <1>2, <2>1, <2>2
  <2>3. CASE Followed(c) # c
    <3>1. Followed(c) = Append(c, prev) /\ Readable(prev)
      BY <2>3 DEF Followed
    <3>2. c \in Seq(Offset) /\ \A i \in 1..Len(c) : Readable(c[i])
      BY <1>2, <2>1 DEF NonEmpty
    <3> HIDE DEF c, prev
    <3>3. \A i \in 1..Len(Append(c, prev)) : Readable(Append(c, prev)[i])
      BY <3>1, <3>2
    <3> QED BY <2>1, <3>1, <3>3 DEF c
  <2> QED BY <2>2, <2>3
<1>3. Nat \subseteq I
  <2> HIDE DEF I
  <2> QED BY <1>1, <1>2, SetInduction
<1>4. Cardinality(Offset) \in Nat
  BY FileAssumption, FS_CardinalityType
<1> QED BY <1>3, <1>4 DEF FullChain

\* All the sections before the first that is left are loaded.
FirstLeft(loaded, i) ==
  /\ i \in 1..Len(FullChain)
  /\ FullChain[i] = ToLoad(loaded) /\ FullChain[i] \notin loaded
  /\ \A j \in 1..i-1 : FullChain[j] \in loaded

LEMMA ToLoadIsFirst ==
  ASSUME FileTyped, xrefOffsets = FullChain, NEW loaded, Left(loaded) # {}
  PROVE  \E i : FirstLeft(loaded, i)
<1>1. Len(FullChain) \in Nat /\ Left(loaded) \subseteq Nat
  BY FullChainTyped DEF Left
<1>2. \E i \in Left(loaded) : \A j \in Left(loaded) : i <= j
  <2> DEFINE T == Left(loaded)
  <2> HIDE DEF T
  <2>1. T \subseteq Nat /\ T # {}
    BY <1>1 DEF T
  <2>2. \E i \in T : \A j \in T : i <= j
    BY <2>1, LeastNumber
  <2> QED BY <2>2 DEF T
<1> DEFINE i == CHOOSE i \in Left(loaded) : \A j \in Left(loaded) : i <= j
<1>3. i \in Left(loaded) /\ \A j \in Left(loaded) : i <= j
  BY <1>2
<1>4. FullChain[i] = ToLoad(loaded)
  BY DEF ToLoad
<1> HIDE DEF i
<1>5. i \in 1..Len(FullChain) /\ FullChain[i] \notin loaded
  BY <1>3 DEF Left
<1>6. ASSUME NEW j \in 1..i-1 PROVE FullChain[j] \in loaded
  <2>1. j \in 1..Len(FullChain) /\ ~(i <= j)
    BY <1>1, <1>5
  <2> QED BY <1>3, <2>1 DEF Left
<1> QED BY <1>4, <1>5, <1>6 DEF FirstLeft

-----------------------------------------------------------------------------
(* What the steps under the mutex do.                                      *)

LEMMA FillIsTrue ==
  ASSUME PlainFile, IndexTrue, NEW i, FirstLeft(xrefLoaded, i)
  PROVE  LET idx == FillFrom(xrefIdx, FullChain[i])
         IN  \A n \in Obj :
               /\ idx[n] # NoEntry => Newest(FullChain, n, idx[n])
               /\ xrefIdx[n] # NoEntry => idx[n] = xrefIdx[n]
               /\ Mentions(FullChain[i], n) => idx[n] # NoEntry
<1> DEFINE o == FullChain[i]
           idx == FillFrom(xrefIdx, o)
<1> SUFFICES ASSUME NEW n \in Obj
             PROVE  /\ idx[n] # NoEntry => Newest(FullChain, n, idx[n])
                    /\ xrefIdx[n] # NoEntry => idx[n] = xrefIdx[n]
                    /\ Mentions(o, n) => idx[n] # NoEntry
  OBVIOUS
<1>1. idx[n] = IF xrefIdx[n] = NoEntry /\ Mentions(o, n) THEN EntryAt(o, n) ELSE xrefIdx[n]
  BY DEF FillFrom
<1>2. /\ i \in 1..Len(FullChain) /\ o \in Offset
      /\ \A j \in 1..i-1 : FullChain[j] \in Offset /\ FullChain[j] \in xrefLoaded
  <2>1. /\ Len(FullChain) \in Nat /\ i \in 1..Len(FullChain)
        /\ \A j \in 1..Len(FullChain) : FullChain[j] \in Offset
        /\ \A j \in 1..i-1 : FullChain[j] \in xrefLoaded
    BY FullChainTyped DEF PlainFile, FirstLeft
  <2>2. \A j \in 1..i-1 : j \in 1..Len(FullChain)
    BY <2>1
  <2> QED BY <2>1, <2>2
<1>3. Mentions(o, n) => RevisionEntry(o, n) = EntryAt(o, n) /\ EntryAt(o, n) # NoEntry
  BY <1>2, RevisionPlain
<1> HIDE DEF idx, o
<1>4. ASSUME xrefIdx[n] = NoEntry, Mentions(o, n)
      PROVE  Newest(FullChain, n, idx[n])
  <2>1. idx[n] # NoEntry /\ idx[n] = RevisionEntry(FullChain[i], n)
    BY <1>1, <1>3, <1>4 DEF o
  <2>2. \A j \in 1..i-1 : RevisionEntry(FullChain[j], n) = NoEntry
    <3>1. \A j \in 1..i-1 : ~Mentions(FullChain[j], n)
      BY <1>2, <1>4 DEF IndexTrue
    <3> QED BY <1>2, <3>1, RevisionPlain
  <2> QED BY <1>2, <2>1, <2>2 DEF Newest
<1>5. idx[n] # NoEntry => Newest(FullChain, n, idx[n])
  BY <1>1, <1>4 DEF IndexTrue
<1>6. Mentions(o, n) => idx[n] # NoEntry
  BY <1>1, <1>3
<1>7. xrefIdx[n] # NoEntry => idx[n] = xrefIdx[n]
  BY <1>1
<1> QED BY <1>5, <1>6, <1>7

\* With no section left, what the index does not hold is not in the file.
LEMMA NoneLeft ==
  ASSUME PlainFile, xrefOffsets = FullChain, NEW idx, NEW loaded, Left(loaded) = {},
         \A o \in loaded, n \in Obj : Mentions(o, n) => idx[n] # NoEntry,
         NEW n \in Obj, idx[n] = NoEntry
  PROVE  TrueEntry(n) = NoEntry
<1>1. FileTyped
  BY DEF PlainFile
<1>2. \A i \in 1..Len(FullChain) : FullChain[i] \in Offset /\ ~Mentions(FullChain[i], n)
  BY <1>1, FullChainTyped DEF Left
<1>3. NewestOf(Len(FullChain), n, NoEntry)
  BY <1>2 DEF NewestOf
<1>4. Newest(FullChain, n, NoEntry)
  BY <1>3, NewestOfAll
<1> QED BY <1>1, <1>4, TrueEntryIs

\* What the index holds is what the file says.
LEMMA HeldIsTrue ==
  ASSUME PlainFile, NEW idx \in Index, NEW n \in Obj, idx[n] # NoEntry,
         Newest(FullChain, n, idx[n])
  PROVE  TrueEntry(n) = idx[n] /\ idx[n] \in IndexEntry
<1>1. idx[n] \in IndexEntry \union {NoEntry}
  BY DEF Index
<1> QED BY <1>1, TrueEntryIs DEF PlainFile

LEMMA LeftOver ==
  ASSUME FileTyped, OffsetsTrue, xrefOffsets # <<>>
  PROVE  Left(xrefLoaded) = {} <=> AllLoaded
<1>1. /\ xrefOffsets = FullChain /\ xrefOffsets \in Seq(Offset)
      /\ xrefLoaded \subseteq Range(xrefOffsets)
  BY FullChainTyped DEF OffsetsTrue, NonEmpty
<1>2. Range(xrefOffsets) = {xrefOffsets[i] : i \in 1..Len(xrefOffsets)}
  BY <1>1, LenProperties DEF Range
<1> QED BY <1>1, <1>2 DEF Left, AllLoaded

-----------------------------------------------------------------------------
(* A step of one thread and the others.                                    *)

\* u takes no part in the step.
Still(u) ==
  /\ pc'[u] = pc[u] /\ call'[u] = call[u] /\ target'[u] = target[u] /\ answer'[u] = answer[u]

\* u is in no call, waits for the mutex or has its answer, and is not reading.
Quiet(u) ==
  \/ pc[u] = "idle"
  \/ pc[u] \in {"lockEntry", "lockIndex", "done"} /\ call[u].op # "read"

LEMMA OthersQuiet ==
  ASSUME Alone, \A u \in Thread : ThreadTrue(u),
         NEW t \in Thread, pc[t] # "idle", mu \in {t, Nobody} \/ call[t].op = "read",
         NEW u \in Thread, u # t
  PROVE  Quiet(u) /\ mu # u
<1>1. CASE pc[u] = "idle"
  <2>1. mu # u
    BY <1>1 DEF ThreadTrue, Mutual, Locked
  <2> QED BY <1>1, <2>1 DEF Quiet
<1>2. CASE pc[u] # "idle"
  <2>1. call[u].op # "read" /\ call[t].op # "read"
    BY <1>2 DEF Alone
  <2>2. mu # u
    BY <2>1, NobodyAssumption
  <2>3. pc[u] \notin Locked
    BY <2>2 DEF ThreadTrue, Mutual
  <2>4. Calling(u)
    BY DEF ThreadTrue
  <2>5. pc[u] \in {"lockEntry", "lockIndex", "done"}
    BY <1>2, <2>1, <2>3, <2>4 DEF Calling
  <2> QED BY <2>1, <2>2, <2>5 DEF Quiet
<1> QED BY <1>1, <1>2

\* What was answered stays an answer.
LEMMA SameAnswer ==
  ASSUME file' = file, startxref' = startxref, NEW u, call'[u] = call[u], answer'[u] = answer[u]
  PROVE  /\ EntryAnswered(u)' = EntryAnswered(u)
         /\ BodyAnswered(u)' = BodyAnswered(u)
<1>1. FullChain' = FullChain /\ ChainReadable' = ChainReadable
  BY SameFile
<1>2. EntryAnswered(u)' = EntryAnswered(u)
  BY <1>1 DEF EntryAnswered, TrueEntry, Newest, RevisionEntry, XRefStmMentions, Readable, Mentions, EntryAt
<1>3. BodyAnswered(u)' = BodyAnswered(u)
  BY <1>1 DEF BodyAnswered, TrueEntry, Newest, RevisionEntry, XRefStmMentions, Readable, Mentions, EntryAt
<1> QED BY <1>2, <1>3

LEMMA QuietStays ==
  ASSUME file' = file, startxref' = startxref, NEW u \in Thread, ThreadTrue(u),
         Quiet(u), Still(u), mu' # u
  PROVE  ThreadTrue(u)'
<1>1. Calling(u)'
  BY DEF ThreadTrue, Calling, Still, Locked
<1>2. Mutual(u)'
  BY DEF Quiet, Mutual, Still, Locked
<1>3. Placed(u)' /\ Discovering(u)' /\ Loading(u)'
  BY DEF Quiet, Placed, Discovering, Loading, Still
<1>4. Reading(u)'
  BY DEF Quiet, Reading, Still
<1>5. Answering(u)'
  <2>1. Answering(u)
    BY DEF ThreadTrue
  <2>2. EntryAnswered(u)' = EntryAnswered(u) /\ BodyAnswered(u)' = BodyAnswered(u)
    BY SameAnswer DEF Still
  <2> QED BY <2>1, <2>2 DEF Answering, Still
<1> QED BY <1>1, <1>2, <1>3, <1>4, <1>5 DEF ThreadTrue

\* Of a step that a thread takes by itself, the other threads notice nothing.
LEMMA OthersStay ==
  ASSUME file' = file, startxref' = startxref, UNCHANGED <<docVars, mu, pos, walk>>,
         NEW u \in Thread, ThreadTrue(u), Still(u)
  PROVE  ThreadTrue(u)'
<1>1. Mutual(u)' /\ Placed(u)' /\ Calling(u)'
  BY DEF ThreadTrue, Mutual, Placed, Calling, Still, Locked, docVars
<1>2. Discovering(u)'
  <2>1. Discovering(u)
    BY DEF ThreadTrue
  <2>2. NextOf(walk)' = NextOf(walk)
    BY DEF NextOf
  <2>3. Begins(walk)' = Begins(walk)
    BY SameFile DEF Begins, FollowsPrev, Readable
  <2> QED BY <2>1, <2>2, <2>3 DEF Discovering, Still, docVars
<1>3. Loading(u)' /\ Reading(u)'
  BY DEF ThreadTrue, Loading, Reading, Still, docVars, Left, ToLoad
<1>4. Answering(u)'
  <2>1. Answering(u)
    BY DEF ThreadTrue
  <2>2. EntryAnswered(u)' = EntryAnswered(u) /\ BodyAnswered(u)' = BodyAnswered(u)
    BY SameAnswer DEF Still
  <2> QED BY <2>1, <2>2 DEF Answering, Still
<1> QED BY <1>1, <1>2, <1>3, <1>4 DEF ThreadTrue

\* A step in a call, while no one else reads and no one else holds the mutex.
LEMMA StepInCall ==
  ASSUME IInv, NEW t \in Thread, pc[t] # "idle", mu \in {t, Nobody} \/ call[t].op = "read",
         file' = file, startxref' = startxref, mu' \in {t, Nobody, mu},
         \A u \in Thread : u # t => Still(u), call'[t] = call[t],
         Shared', ThreadTrue(t)'
  PROVE  IInv'
<1>1. ASSUME NEW u \in Thread, u # t PROVE ThreadTrue(u)'
  <2>1. ThreadTrue(u) /\ Still(u)
    BY <1>1 DEF IInv
  <2>2. Quiet(u) /\ mu # u
    BY <1>1, OthersQuiet DEF IInv
  <2>3. mu' # u
    BY <1>1, <2>2, NobodyAssumption
  <2> QED BY <2>1, <2>2, <2>3, QuietStays
<1>2. \A u \in Thread : call'[u] = call[u] /\ (pc'[u] # "idle" => pc[u] # "idle")
  BY DEF Still
<1>3. Alone'
  BY <1>2 DEF IInv, Alone
<1> QED BY <1>1, <1>3 DEF IInv

LEMMA AnswersTyped ==
  /\ Nil \in Answer
  /\ \A e \in IndexEntry : [Nil EXCEPT !.ok = TRUE, !.entry = e] \in Answer
  /\ \A idx \in Index : [Nil EXCEPT !.ok = TRUE, !.index = idx] \in Answer
  /\ \A place \in Place : [Nil EXCEPT !.ok = TRUE, !.text = place] \in Answer
<1>1. EmptyIndex \in Index /\ Elsewhere \in Place
  BY DEF EmptyIndex, Index, Elsewhere, Place
<1> QED BY <1>1 DEF Nil, Answer

LEMMA IndexTrueAfter ==
  ASSUME file' = file, startxref' = startxref,
         indexed' => ChainReadable, ~indexed' => xrefIdx' = EmptyIndex,
         \A n \in Obj : xrefIdx'[n] # NoEntry => Newest(FullChain, n, xrefIdx'[n]),
         \A o \in xrefLoaded', n \in Obj : Mentions(o, n) => xrefIdx'[n] # NoEntry
  PROVE  IndexTrue'
<1>1. FullChain' = FullChain /\ ChainReadable' = ChainReadable
  BY SameFile
<1> QED BY <1>1 DEF IndexTrue, EmptyIndex, Newest, RevisionEntry, XRefStmMentions, Readable,
                    Mentions, EntryAt

\* A step that leaves the document as it is.
LEMMA SharedStays ==
  ASSUME Shared, file' = file, startxref' = startxref, UNCHANGED docVars, TypeOK', CallTyped'
  PROVE  Shared'
<1>1. FullChain' = FullChain /\ PlainFile' = PlainFile
  BY SameFile
<1>2. OffsetsTrue'
  BY <1>1 DEF Shared, OffsetsTrue, docVars
<1>3. IndexTrue'
  BY IndexTrueAfter DEF Shared, IndexTrue, docVars, EmptyIndex
<1> QED BY <1>1, <1>2, <1>3 DEF Shared

\* The answers of a step, in terms of the state before it.
LEMMA AnswersAfter ==
  ASSUME file' = file, startxref' = startxref, NEW t \in Thread, call'[t] = call[t]
  PROVE  /\ EntryAnswered(t)' <=>
              IF ChainReadable
              THEN IF answer'[t].ok THEN answer'[t].entry = TrueEntry(call[t].obj)
                                    ELSE TrueEntry(call[t].obj) = NoEntry
              ELSE ~answer'[t].ok
         /\ BodyAnswered(t)' <=>
              (LET e == TrueEntry(call[t].obj)
               IN  ChainReadable /\ e # NoEntry /\ e.kind # "free" =>
                     answer'[t].ok /\ answer'[t].text = <<e.rev, call[t].obj>>)
<1>1. FullChain' = FullChain /\ ChainReadable' = ChainReadable
  BY SameFile
<1>2. TrueEntry(call[t].obj)' = TrueEntry(call[t].obj)
  BY <1>1 DEF TrueEntry, Newest, RevisionEntry, XRefStmMentions, Readable, Mentions, EntryAt
<1> QED BY <1>1, <1>2 DEF EntryAnswered, BodyAnswered

-----------------------------------------------------------------------------
(* The two outcomes of getXRefEntry.                                       *)

LEMMA FoundAnswers ==
  ASSUME TypeOK, file' = file, startxref' = startxref, call' = call,
         NEW t \in Thread, pc[t] \in Locked \union {"lockEntry"}, Calling(t),
         NEW e, EntryFound(t, e), e # NoEntry, xrefIdx'[call[t].obj] = e,
         TrueEntry(call[t].obj) = e, ChainReadable
  PROVE  ThreadTrue(t)'
<1>1. /\ pc'[t] = IF call[t].op = "read" THEN "lockIndex" ELSE "done"
      /\ answer'[t] = [Nil EXCEPT !.ok = TRUE, !.entry = e]
      /\ mu' = Nobody
  BY DEF EntryFound, Goto, TypeOK
<1>2. answer'[t].ok /\ answer'[t].entry = e
  BY <1>1 DEF Nil
<1>3. call[t].op \in {"entry", "read"} /\ call[t].obj \in Obj
  BY DEF Calling, Locked
<1>4. Mutual(t)' /\ Placed(t)' /\ Calling(t)' /\ Discovering(t)' /\ Loading(t)'
  BY <1>1, <1>3, NobodyAssumption DEF Mutual, Placed, Calling, Discovering, Loading, Locked
<1>5. Reading(t)'
  BY <1>1, <1>3 DEF Reading
<1>6. Answering(t)'
  <2>1. EntryAnswered(t)'
    BY <1>2, AnswersAfter
  <2> QED BY <1>1, <1>3, <2>1 DEF Answering
<1> QED BY <1>4, <1>5, <1>6 DEF ThreadTrue

LEMMA MissingAnswers ==
  ASSUME TypeOK, file' = file, startxref' = startxref, call' = call,
         NEW t \in Thread, pc[t] \in Locked \union {"lockEntry"}, Calling(t),
         EntryMissing(t), ChainReadable => TrueEntry(call[t].obj) = NoEntry
  PROVE  ThreadTrue(t)'
<1>1. /\ pc'[t] = IF call[t].op = "read" THEN "fallback" ELSE "done"
      /\ answer'[t] = Nil
      /\ mu' = Nobody
  BY DEF EntryMissing, Goto, TypeOK
<1>2. answer'[t].ok = FALSE
  BY <1>1 DEF Nil
<1>3. call[t].op \in {"entry", "read"} /\ call[t].obj \in Obj
  BY DEF Calling, Locked
<1>4. Mutual(t)' /\ Placed(t)' /\ Calling(t)' /\ Discovering(t)' /\ Loading(t)'
  BY <1>1, <1>3, NobodyAssumption DEF Mutual, Placed, Calling, Discovering, Loading, Locked
<1>5. Reading(t)'
  BY <1>1, <1>3 DEF Reading
<1>6. Answering(t)'
  <2>1. EntryAnswered(t)'
    BY <1>2, AnswersAfter
  <2> QED BY <1>1, <1>3, <2>1 DEF Answering
<1> QED BY <1>4, <1>5, <1>6 DEF ThreadTrue

\* Only t moves.
LEMMA OnlyMoves ==
  ASSUME TypeOK, NEW t \in Thread, NEW step, Goto(t, step),
         target' = target \/ \E p : Aim(t, p),
         answer' = answer \/ \E a : answer' = [answer EXCEPT ![t] = a],
         call' = call
  PROVE  \A u \in Thread : u # t => Still(u)
<1> SUFFICES ASSUME NEW u \in Thread, u # t PROVE Still(u)
  OBVIOUS
<1>1. pc'[u] = pc[u]
  BY DEF Goto, TypeOK
<1>2. target'[u] = target[u]
  BY DEF Aim, TypeOK
<1>3. answer'[u] = answer[u]
  BY DEF TypeOK
<1> QED BY <1>1, <1>2, <1>3 DEF Still

-----------------------------------------------------------------------------
(* The invariant is one: the steps of getXRefEntry.                        *)

LEMMA EntryCachedKeeps ==
  ASSUME IInv, NEW t \in Thread, EntryCached(t)
  PROVE  IInv'
<1> DEFINE n == call[t].obj
           e == xrefIdx[n]
<1>1. /\ TypeOK /\ CallTyped /\ PlainFile /\ FileTyped /\ OffsetsTrue /\ IndexTrue /\ Shared
      /\ ThreadTrue(t) /\ Calling(t)
  BY DEF IInv, Shared, PlainFile, ThreadTrue
<1>2. /\ pc[t] = "lockEntry" /\ mu = Nobody /\ indexed /\ ChainReadable
      /\ file' = file /\ startxref' = startxref /\ call' = call
      /\ UNCHANGED <<docVars, target>>
  BY <1>1 DEF EntryCached, IndexTrue
<1>3. n \in Obj /\ xrefIdx \in Index /\ xrefIdx' = xrefIdx
  BY <1>1, <1>2 DEF Calling, TypeOK, docVars
<1>4. CASE e # NoEntry /\ EntryFound(t, e)
  <2>1. TrueEntry(n) = e /\ e \in IndexEntry
    BY <1>1, <1>3, <1>4, HeldIsTrue DEF IndexTrue
  <2>2. ThreadTrue(t)'
    BY <1>1, <1>2, <1>3, <1>4, <2>1, FoundAnswers
  <2>3. TypeOK'
    <3>1. [Nil EXCEPT !.ok = TRUE, !.entry = e] \in Answer
      BY <2>1, AnswersTyped
    <3> HIDE DEF e
    <3> QED BY <1>1, <3>1, <1>4 DEF TypeOK, EntryCached, EntryFound, Goto, docVars
  <2>4. \A u \in Thread : u # t => Still(u)
    BY <1>1, <1>2, <1>4, OnlyMoves DEF EntryFound
  <2>5. Shared'
    BY <1>1, <1>2, <2>3, SharedStays DEF CallTyped
  <2>6. mu' = Nobody
    BY <1>4 DEF EntryFound
  <2> QED BY <1>2, <2>2, <2>4, <2>5, <2>6, StepInCall
<1>5. CASE e = NoEntry /\ AllLoaded /\ EntryMissing(t)
  <2>1. TrueEntry(n) = NoEntry
    <3>1. xrefOffsets = FullChain /\ Left(xrefLoaded) = {}
      BY <1>1, <1>5, LeftOver DEF AllLoaded, OffsetsTrue
    <3> QED BY <1>1, <1>3, <1>5, <3>1, NoneLeft DEF IndexTrue
  <2>2. ThreadTrue(t)'
    BY <1>1, <1>2, <1>5, <2>1, MissingAnswers
  <2>3. TypeOK'
    BY <1>1, <1>5, AnswersTyped DEF TypeOK, EntryCached, EntryMissing, Goto, docVars
  <2>4. \A u \in Thread : u # t => Still(u)
    BY <1>1, <1>2, <1>5, OnlyMoves DEF EntryMissing
  <2>5. Shared'
    BY <1>1, <1>2, <2>3, SharedStays DEF CallTyped
  <2>6. mu' = Nobody
    BY <1>5 DEF EntryMissing
  <2> QED BY <1>2, <2>2, <2>4, <2>5, <2>6, StepInCall
<1> QED BY <1>4, <1>5 DEF EntryCached

LEMMA EntryUncachedKeeps ==
  ASSUME IInv, NEW t \in Thread, EntryUncached(t)
  PROVE  IInv'
<1>1. /\ TypeOK /\ CallTyped /\ FileTyped /\ OffsetsTrue /\ Shared
      /\ ThreadTrue(t) /\ Calling(t)
  BY DEF IInv, Shared, PlainFile, ThreadTrue
<1>2. /\ pc[t] = "lockEntry" /\ mu = Nobody /\ mu' = t /\ walk' = <<>>
      /\ file' = file /\ startxref' = startxref /\ call' = call /\ answer' = answer
      /\ UNCHANGED docVars /\ UNCHANGED pos
  BY DEF EntryUncached
<1>3. call[t].op \in {"entry", "read"} /\ call[t].obj \in Obj
  BY <1>1, <1>2 DEF Calling, Locked
<1>4. CASE xrefOffsets = <<>>
  <2>1. Aim(t, <<startxref, XRefPart>>) /\ Goto(t, "seekDiscover")
    BY <1>4 DEF EntryUncached
  <2>2. pc'[t] = "seekDiscover" /\ target'[t] = <<startxref, XRefPart>>
    BY <1>1, <2>1 DEF Aim, Goto, TypeOK
  <2>3. TypeOK'
    <3>1. <<startxref, XRefPart>> \in Place
      BY <1>1 DEF FileTyped, Place
    <3> QED BY <1>1, <1>2, <2>1, <3>1 DEF TypeOK, Aim, Goto, docVars
  <2>4. ThreadTrue(t)'
    <3>1. Mutual(t)' /\ Placed(t)' /\ Calling(t)' /\ Loading(t)' /\ Answering(t)' /\ Reading(t)'
      BY <1>2, <1>3, <2>2 DEF Mutual, Placed, Calling, Loading, Answering, Reading, Locked
    <3>2. NextOf(walk)' = startxref
      BY <1>2 DEF NextOf
    <3>3. startxref \in Offset /\ startxref \notin Range(<<>>)
      BY <1>1 DEF FileTyped, Range
    <3>4. Discovering(t)'
      BY <1>2, <1>4, <2>2, <3>2, <3>3 DEF Discovering, docVars
    <3> QED BY <3>1, <3>4 DEF ThreadTrue
  <2>5. \A u \in Thread : u # t => Still(u)
    BY <1>1, <1>2, <2>1, OnlyMoves
  <2>6. Shared'
    BY <1>1, <1>2, <2>3, SharedStays DEF CallTyped
  <2> QED BY <1>2, <2>4, <2>5, <2>6, StepInCall
<1>5. CASE xrefOffsets # <<>>
  <2>1. Aim(t, <<ToLoad(xrefLoaded), XRefPart>>) /\ Goto(t, "seekLoad")
    BY <1>5 DEF EntryUncached
  <2>2. pc'[t] = "seekLoad" /\ target'[t] = <<ToLoad(xrefLoaded), XRefPart>>
    BY <1>1, <2>1 DEF Aim, Goto, TypeOK
  <2>3. ~AllLoaded
    BY <1>1, <1>5 DEF EntryUncached, OffsetsTrue
  <2>4. Left(xrefLoaded) # {} /\ xrefOffsets = FullChain
    BY <1>1, <1>5, <2>3, LeftOver DEF OffsetsTrue
  <2>5. ToLoad(xrefLoaded) \in Offset
    BY <1>1, <2>4, ToLoadIsFirst, FullChainTyped DEF FirstLeft
  <2>6. TypeOK'
    <3>1. <<ToLoad(xrefLoaded), XRefPart>> \in Place
      BY <2>5 DEF Place
    <3> QED BY <1>1, <1>2, <2>1, <3>1 DEF TypeOK, Aim, Goto, docVars
  <2>7. ThreadTrue(t)'
    <3>1. Mutual(t)' /\ Placed(t)' /\ Calling(t)' /\ Discovering(t)' /\ Answering(t)' /\ Reading(t)'
      BY <1>2, <1>3, <2>2 DEF Mutual, Placed, Calling, Discovering, Answering, Reading, Locked
    <3>2. Loading(t)'
      BY <1>2, <1>5, <2>2, <2>4 DEF Loading, Left, ToLoad, docVars
    <3> QED BY <3>1, <3>2 DEF ThreadTrue
  <2>8. \A u \in Thread : u # t => Still(u)
    BY <1>1, <1>2, <2>1, OnlyMoves
  <2>9. Shared'
    BY <1>1, <1>2, <2>6, SharedStays DEF CallTyped
  <2> QED BY <1>2, <2>7, <2>8, <2>9, StepInCall
<1> QED BY <1>4, <1>5

LEMMA DiscoverKeeps ==
  ASSUME IInv, NEW t \in Thread, Discover(t)
  PROVE  IInv'
<1> DEFINE o == target[t][1]
           found == Append(walk, o)
           prev == file[o].prev
<1>1. /\ TypeOK /\ CallTyped /\ FileTyped /\ PlainFile /\ OffsetsTrue /\ IndexTrue
      /\ Mutual(t) /\ Placed(t) /\ Calling(t) /\ Discovering(t)
  BY DEF IInv, Shared, PlainFile, ThreadTrue
<1>2. /\ pc[t] = "discover" /\ pos' = Elsewhere
      /\ file' = file /\ startxref' = startxref /\ call' = call /\ answer' = answer
      /\ mu' = mu /\ xrefIdx' = xrefIdx
  BY DEF Discover
<1>3. /\ mu = t /\ pos = target[t] /\ target[t] = <<NextOf(walk), XRefPart>>
      /\ xrefOffsets = <<>>
      /\ walk = <<>> \/ Begins(walk)
      /\ NextOf(walk) \in Offset /\ NextOf(walk) \notin Range(walk)
  BY <1>1, <1>2 DEF Mutual, Placed, Discovering, Locked
<1>4. o = NextOf(walk) /\ pos[1] = o /\ Walks(walk, o)
  BY <1>3 DEF Walks
<1>5. Readable(o)
  BY <1>4 DEF Discover, SectionHere
<1>6. call[t].op \in {"entry", "read"} /\ call[t].obj \in Obj
  BY <1>1, <1>2 DEF Calling
<1>7. /\ found \in NonEmpty /\ found \in Seq(Offset)
      /\ Len(found) \in Nat \ {0} /\ found[Len(found)] = o
      /\ \A i \in 1..Len(found) : found[i] \in Offset
  <2>1. found \in NonEmpty /\ Len(found) = Len(walk) + 1 /\ found[Len(walk) + 1] = o
    BY <1>4, WalkTyped
  <2> HIDE DEF found
  <2> QED BY <2>1, LastIn DEF NonEmpty
<1> HIDE DEF found
<1>8. CASE prev = 0 \/ prev \in Range(found)
  <2>1. found = FullChain /\ ChainReadable
    BY <1>1, <1>4, <1>5, <1>8, WalkEnds DEF found
  <2>2. /\ xrefOffsets' = found /\ xrefLoaded' = {} /\ indexed' = TRUE /\ walk' = <<>>
        /\ Aim(t, <<Head(found), XRefPart>>) /\ Goto(t, "seekLoad")
    BY <1>4, <1>8 DEF Discover, found
  <2>3. Head(found) = found[1] /\ found[1] \in Offset
    BY <1>7, HeadTailProperties DEF NonEmpty
  <2>4. pc'[t] = "seekLoad" /\ target'[t] = <<found[1], XRefPart>>
    BY <1>1, <2>2, <2>3 DEF Aim, Goto, TypeOK
  <2>5. TypeOK'
    <3>1. <<Head(found), XRefPart>> \in Place /\ Elsewhere \in Place
      BY <2>3 DEF Place, Elsewhere
    <3> QED BY <1>1, <1>2, <1>7, <2>2, <3>1 DEF TypeOK, Aim, Goto
  <2>6. Left(xrefLoaded)' = 1..Len(found)
    BY <2>2 DEF Left
  <2>7. ToLoad(xrefLoaded)' = found[1]
    <3> DEFINE first == CHOOSE i \in 1..Len(found) : \A j \in 1..Len(found) : i <= j
    <3>1. 1 \in 1..Len(found) /\ \A j \in 1..Len(found) : 1 <= j
      BY <1>7
    <3>2. \E i \in 1..Len(found) : \A j \in 1..Len(found) : i <= j
      BY <3>1
    <3>3. first \in 1..Len(found) /\ \A j \in 1..Len(found) : first <= j
      BY <3>2
    <3>4. ToLoad(xrefLoaded)' = found[first]
      BY <2>2, <2>6 DEF ToLoad
    <3> HIDE DEF first
    <3>5. first = 1
      BY <1>7, <3>1, <3>3
    <3> QED BY <3>4, <3>5
  <2>8. ThreadTrue(t)'
    <3>1. /\ Mutual(t)' /\ Placed(t)' /\ Calling(t)' /\ Discovering(t)' /\ Answering(t)'
          /\ Reading(t)'
      BY <1>2, <1>3, <1>6, <2>4 DEF Mutual, Placed, Calling, Discovering, Answering, Reading, Locked
    <3>2. Left(xrefLoaded)' # {} /\ xrefOffsets' # <<>>
      <4>1. 1 \in 1..Len(found) /\ found # <<>>
        BY <1>7 DEF NonEmpty
      <4> QED BY <2>2, <2>6, <4>1
    <3>3. Loading(t)'
      BY <2>4, <2>7, <3>2 DEF Loading
    <3> QED BY <3>1, <3>3 DEF ThreadTrue
  <2>9. Shared'
    <3>1. FullChain' = FullChain /\ PlainFile' = PlainFile
      BY <1>2, SameFile
    <3>2. OffsetsTrue'
      BY <2>1, <2>2, <3>1 DEF OffsetsTrue
    <3>3. IndexTrue'
      BY <1>1, <1>2, <2>1, <2>2, IndexTrueAfter DEF IndexTrue
    <3>4. CallTyped'
      BY <1>1, <1>2 DEF CallTyped
    <3> QED BY <1>1, <2>5, <3>1, <3>2, <3>3, <3>4 DEF Shared
  <2>10. \A u \in Thread : u # t => Still(u)
    BY <1>1, <1>2, <2>2, OnlyMoves
  <2> QED BY <1>2, <1>3, <2>8, <2>9, <2>10, StepInCall
<1>9. CASE ~(prev = 0 \/ prev \in Range(found))
  <2>1. /\ walk' = found
        /\ Aim(t, <<prev, XRefPart>>) /\ Goto(t, "seekDiscover")
        /\ UNCHANGED docVars
    BY <1>2, <1>4, <1>9 DEF Discover, found, docVars
  <2>2. prev \in Offset /\ prev \notin Range(found)
    BY <1>1, <1>4, <1>9, PrevTyped DEF Walks
  <2>3. pc'[t] = "seekDiscover" /\ target'[t] = <<prev, XRefPart>>
    BY <1>1, <2>1 DEF Aim, Goto, TypeOK
  <2>4. TypeOK'
    <3>1. <<prev, XRefPart>> \in Place /\ Elsewhere \in Place
      BY <2>2 DEF Place, Elsewhere
    <3> HIDE DEF prev
    <3> QED BY <1>1, <1>2, <1>7, <2>1, <3>1 DEF TypeOK, Aim, Goto, docVars
  <2>5. ThreadTrue(t)'
    <3>1. Mutual(t)' /\ Placed(t)' /\ Calling(t)' /\ Loading(t)' /\ Answering(t)' /\ Reading(t)'
      BY <1>2, <1>3, <1>6, <2>3 DEF Mutual, Placed, Calling, Loading, Answering, Reading, Locked
    <3>2. NextOf(walk)' = prev
      BY <1>2, <1>7, <2>1 DEF NextOf, NonEmpty
    <3>3. Begins(walk)'
      <4>1. Begins(found)
        BY <1>1, <1>4, <1>5, WalkBegins DEF found
      <4>2. Chain' = Chain
        BY <1>2, SameFile
      <4> QED BY <1>2, <2>1, <4>1, <4>2 DEF Begins, FollowsPrev, Readable
    <3>4. Discovering(t)'
      <4> HIDE DEF prev
      <4> QED BY <1>3, <2>1, <2>2, <2>3, <3>2, <3>3 DEF Discovering, docVars
    <3> QED BY <3>1, <3>4 DEF ThreadTrue
  <2>6. Shared'
    BY <1>1, <1>2, <2>1, <2>4, SharedStays DEF CallTyped, IInv
  <2>7. \A u \in Thread : u # t => Still(u)
    BY <1>1, <1>2, <2>1, OnlyMoves
  <2> QED BY <1>2, <1>3, <2>5, <2>6, <2>7, StepInCall
<1> QED BY <1>8, <1>9

LEMMA LoadKeeps ==
  ASSUME IInv, NEW t \in Thread, Load(t)
  PROVE  IInv'
<1> DEFINE n == call[t].obj
           o == pos[1]
           idx == FillFrom(xrefIdx, o)
           e == idx[n]
           loaded == xrefLoaded \union {o}
<1>1. /\ TypeOK /\ CallTyped /\ FileTyped /\ PlainFile /\ OffsetsTrue /\ IndexTrue
      /\ Mutual(t) /\ Placed(t) /\ Calling(t) /\ Loading(t)
  BY DEF IInv, Shared, PlainFile, ThreadTrue
<1>2. /\ pc[t] = "load" /\ pos' = Elsewhere
      /\ file' = file /\ startxref' = startxref /\ call' = call
      /\ indexed' = indexed /\ xrefOffsets' = xrefOffsets /\ walk' = walk
      /\ xrefIdx' = idx
  BY DEF Load
<1>3. /\ mu = t /\ pos = target[t] /\ target[t] = <<ToLoad(xrefLoaded), XRefPart>>
      /\ xrefOffsets # <<>> /\ xrefOffsets = FullChain /\ indexed /\ ChainReadable
      /\ Left(xrefLoaded) # {}
  BY <1>1, <1>2 DEF Mutual, Placed, Loading, Locked, OffsetsTrue, IndexTrue
<1>4. xrefLoaded' = loaded
  BY <1>3 DEF Load
<1>5. PICK i : FirstLeft(xrefLoaded, i)
  BY <1>1, <1>3, ToLoadIsFirst
<1>6. o = FullChain[i] /\ o \in Offset /\ i \in 1..Len(FullChain)
  BY <1>1, <1>3, <1>5, FullChainTyped DEF FirstLeft
<1>7. /\ idx \in Index /\ xrefIdx \in Index /\ n \in Obj
      /\ call[t].op \in {"entry", "read"}
  BY <1>1, <1>2, <1>6, FillTyped DEF TypeOK, Calling
<1>8. \A m \in Obj : /\ idx[m] # NoEntry => Newest(FullChain, m, idx[m])
                     /\ xrefIdx[m] # NoEntry => idx[m] = xrefIdx[m]
                     /\ Mentions(o, m) => idx[m] # NoEntry
  BY <1>1, <1>5, <1>6, FillIsTrue
<1>9. \A p \in loaded, m \in Obj : Mentions(p, m) => idx[m] # NoEntry
  BY <1>1, <1>8 DEF IndexTrue
<1> HIDE DEF idx, o
<1>10. OffsetsTrue'
  <2>1. FullChain' = FullChain
    BY <1>2, SameFile
  <2>2. o \in Range(xrefOffsets)
    <3>1. FullChain \in Seq(Offset)
      BY <1>1, FullChainTyped DEF NonEmpty
    <3> QED BY <1>3, <1>6, <3>1, LenProperties DEF Range
  <2> QED BY <1>1, <1>2, <1>4, <2>1, <2>2 DEF OffsetsTrue
<1>11. IndexTrue'
  BY <1>1, <1>2, <1>3, <1>4, <1>8, <1>9, IndexTrueAfter
<1>12. PlainFile' = PlainFile
  BY <1>2, SameFile
<1>13. CallTyped'
  BY <1>1, <1>2 DEF CallTyped
<1>14. ASSUME TypeOK' PROVE Shared'
  BY <1>1, <1>10, <1>11, <1>12, <1>13, <1>14 DEF Shared
<1>15. CASE e # NoEntry
  <2>1. EntryFound(t, e) /\ target' = target
    BY <1>2, <1>15 DEF Load
  <2>2. TrueEntry(n) = e /\ e \in IndexEntry
    BY <1>1, <1>7, <1>8, <1>15, HeldIsTrue
  <2>3. TypeOK'
    <3>1. [Nil EXCEPT !.ok = TRUE, !.entry = e] \in Answer /\ Elsewhere \in Place
      BY <2>2, AnswersTyped DEF Place, Elsewhere
    <3> HIDE DEF e
    <3> QED BY <1>1, <1>2, <1>4, <1>6, <1>7, <2>1, <3>1 DEF TypeOK, EntryFound, Goto
  <2>4. ThreadTrue(t)'
    BY <1>1, <1>2, <1>3, <1>15, <2>1, <2>2, FoundAnswers DEF Locked
  <2>5. \A u \in Thread : u # t => Still(u)
    BY <1>1, <1>2, <2>1, OnlyMoves DEF EntryFound
  <2>6. mu' = Nobody
    BY <2>1 DEF EntryFound
  <2> QED BY <1>2, <1>3, <1>14, <2>3, <2>4, <2>5, <2>6, StepInCall
<1>16. CASE e = NoEntry /\ Left(loaded) = {}
  <2>1. EntryMissing(t) /\ target' = target
    BY <1>2, <1>4, <1>16 DEF Load
  <2>2. TrueEntry(n) = NoEntry
    <3> HIDE DEF loaded
    <3> QED BY <1>1, <1>3, <1>7, <1>9, <1>16, NoneLeft
  <2>3. TypeOK'
    <3>1. Nil \in Answer /\ Elsewhere \in Place
      BY AnswersTyped DEF Place, Elsewhere
    <3> QED BY <1>1, <1>2, <1>4, <1>6, <1>7, <2>1, <3>1 DEF TypeOK, EntryMissing, Goto
  <2>4. ThreadTrue(t)'
    BY <1>1, <1>2, <2>1, <2>2, MissingAnswers DEF Locked
  <2>5. \A u \in Thread : u # t => Still(u)
    BY <1>1, <1>2, <2>1, OnlyMoves DEF EntryMissing
  <2>6. mu' = Nobody
    BY <2>1 DEF EntryMissing
  <2> QED BY <1>2, <1>3, <1>14, <2>3, <2>4, <2>5, <2>6, StepInCall
<1>17. CASE e = NoEntry /\ Left(loaded) # {}
  <2>1. /\ Aim(t, <<ToLoad(loaded), XRefPart>>) /\ Goto(t, "seekLoad")
        /\ mu' = mu /\ answer' = answer
    BY <1>2, <1>4, <1>17 DEF Load
  <2>2. ToLoad(loaded) \in Offset
    <3> HIDE DEF loaded
    <3> QED BY <1>1, <1>3, <1>17, ToLoadIsFirst, FullChainTyped DEF FirstLeft
  <2>3. pc'[t] = "seekLoad" /\ target'[t] = <<ToLoad(loaded), XRefPart>>
    BY <1>1, <2>1 DEF Aim, Goto, TypeOK
  <2>4. TypeOK'
    <3>1. <<ToLoad(loaded), XRefPart>> \in Place /\ Elsewhere \in Place
      BY <2>2 DEF Place, Elsewhere
    <3> QED BY <1>1, <1>2, <1>4, <1>6, <1>7, <2>1, <3>1 DEF TypeOK, Aim, Goto
  <2>5. ThreadTrue(t)'
    <3>1. /\ Mutual(t)' /\ Placed(t)' /\ Calling(t)' /\ Discovering(t)' /\ Answering(t)'
          /\ Reading(t)'
      BY <1>2, <1>3, <1>7, <2>1, <2>3 DEF Mutual, Placed, Calling, Discovering, Answering, Reading, Locked
    <3>2. Left(xrefLoaded)' = Left(loaded) /\ ToLoad(xrefLoaded)' = ToLoad(loaded)
      BY <1>2, <1>4 DEF Left, ToLoad
    <3>3. Loading(t)'
      <4> HIDE DEF loaded
      <4> QED BY <1>2, <1>3, <1>17, <2>3, <3>2 DEF Loading
    <3> QED BY <3>1, <3>3 DEF ThreadTrue
  <2>6. \A u \in Thread : u # t => Still(u)
    BY <1>1, <1>2, <2>1, OnlyMoves
  <2> QED BY <1>2, <1>3, <1>14, <2>1, <2>4, <2>5, <2>6, StepInCall
<1> QED BY <1>15, <1>16, <1>17

LEMMA SectionFailsKeeps ==
  ASSUME IInv, NEW t \in Thread, SectionFails(t)
  PROVE  IInv'
<1>1. /\ TypeOK /\ CallTyped /\ FileTyped /\ OffsetsTrue /\ IndexTrue /\ Shared
      /\ Mutual(t) /\ Placed(t) /\ Calling(t) /\ Discovering(t) /\ Loading(t)
  BY DEF IInv, Shared, PlainFile, ThreadTrue
<1>2. /\ pc[t] \in {"discover", "load"} /\ SectionHere = {} /\ EntryMissing(t)
      /\ file' = file /\ startxref' = startxref /\ call' = call /\ target' = target
      /\ walk' = <<>> /\ pos' = Elsewhere
      /\ UNCHANGED docVars
  BY DEF SectionFails
<1>3. ~ChainReadable
  <2>1. CASE pc[t] = "discover"
    <3> DEFINE o == NextOf(walk)
    <3>1. Walks(walk, o) /\ pos = <<o, XRefPart>>
      BY <1>1, <2>1 DEF Walks, Placed, Discovering
    <3>2. o # 0
      BY <3>1, OffsetAssumption DEF Walks
    <3> HIDE DEF o
    <3>3. ~Readable(o)
      BY <1>2, <3>1, <3>2 DEF SectionHere
    <3> QED BY <1>1, <3>1, <3>3, WalkFails
  <2>2. CASE pc[t] = "load"
    <3> DEFINE o == ToLoad(xrefLoaded)
    <3>1. /\ xrefOffsets = FullChain /\ ChainReadable /\ Left(xrefLoaded) # {}
          /\ pos = <<o, XRefPart>>
      BY <1>1, <2>2 DEF Loading, Placed, OffsetsTrue, IndexTrue
    <3>2. PICK i : FirstLeft(xrefLoaded, i)
      BY <1>1, <3>1, ToLoadIsFirst
    <3>3. o = FullChain[i] /\ i \in 1..Len(FullChain) /\ o \in Offset
      BY <1>1, <3>2, FullChainTyped DEF FirstLeft
    <3>4. Readable(o)
      BY <1>1, <3>1, <3>3, ChainIsReadable DEF ChainReadable
    <3>5. o # 0
      BY <3>3, OffsetAssumption
    <3> HIDE DEF o
    <3> QED BY <1>2, <3>1, <3>4, <3>5 DEF SectionHere
  <2> QED BY <1>2, <2>1, <2>2
<1>4. ThreadTrue(t)'
  BY <1>1, <1>2, <1>3, MissingAnswers DEF Locked
<1>5. TypeOK'
  <2>1. Nil \in Answer /\ Elsewhere \in Place
    BY AnswersTyped DEF Place, Elsewhere
  <2> QED BY <1>1, <1>2, <2>1 DEF TypeOK, EntryMissing, Goto, docVars
<1>6. \A u \in Thread : u # t => Still(u)
  BY <1>1, <1>2, OnlyMoves DEF EntryMissing
<1>7. Shared'
  BY <1>1, <1>2, <1>5, SharedStays DEF CallTyped
<1>8. mu = t /\ mu' = Nobody
  BY <1>1, <1>2 DEF Mutual, Locked, EntryMissing
<1> QED BY <1>2, <1>4, <1>6, <1>7, <1>8, StepInCall

-----------------------------------------------------------------------------
(* The steps of getXRefIndex and readObject.                               *)

LEMMA IndexCachedKeeps ==
  ASSUME IInv, NEW t \in Thread, IndexCached(t)
  PROVE  IInv'
<1> DEFINE next == IF call[t].op = "read" THEN "resolve" ELSE "done"
<1>1. /\ TypeOK /\ CallTyped /\ Shared /\ Calling(t) /\ Reading(t)
  BY DEF IInv, Shared, ThreadTrue
<1>2. /\ pc[t] = "lockIndex" /\ mu = Nobody /\ mu' = mu /\ Goto(t, next)
      /\ answer' = [answer EXCEPT ![t] = [Nil EXCEPT !.ok = TRUE, !.index = xrefIdx]]
      /\ file' = file /\ startxref' = startxref /\ call' = call /\ target' = target
      /\ UNCHANGED docVars /\ UNCHANGED <<pos, walk>>
  BY DEF IndexCached
<1>3. pc'[t] = next /\ call[t].op \in {"index", "read"} /\ call[t].obj \in Obj
  BY <1>1, <1>2 DEF Goto, TypeOK, Calling, Locked
<1>4. ThreadTrue(t)'
  <2>1. Mutual(t)' /\ Placed(t)' /\ Calling(t)' /\ Discovering(t)' /\ Loading(t)' /\ Answering(t)'
    BY <1>2, <1>3, NobodyAssumption
       DEF Mutual, Placed, Calling, Discovering, Loading, Answering, Locked
  <2>2. Reading(t)'
    BY <1>1, <1>2, <1>3 DEF Reading, docVars
  <2> QED BY <2>1, <2>2 DEF ThreadTrue
<1>5. TypeOK'
  <2>1. [Nil EXCEPT !.ok = TRUE, !.index = xrefIdx] \in Answer
    BY <1>1, AnswersTyped DEF TypeOK
  <2>2. next \in {"resolve", "done"}
    OBVIOUS
  <2> HIDE DEF next
  <2> QED BY <1>1, <1>2, <2>1, <2>2 DEF TypeOK, Goto, docVars
<1>6. \A u \in Thread : u # t => Still(u)
  BY <1>1, <1>2, OnlyMoves
<1>7. Shared'
  BY <1>1, <1>2, <1>5, SharedStays DEF CallTyped
<1> QED BY <1>2, <1>4, <1>6, <1>7, StepInCall

LEMMA IndexBuildKeeps ==
  ASSUME IInv, NEW t \in Thread, IndexBuild(t)
  PROVE  IInv'
<1>1. /\ TypeOK /\ CallTyped /\ FileTyped /\ PlainFile /\ OffsetsTrue /\ IndexTrue
      /\ Calling(t) /\ Reading(t)
  BY DEF IInv, Shared, PlainFile, ThreadTrue
<1>2. /\ pc[t] = "lockIndex" /\ mu = Nobody /\ mu' = mu /\ ~indexed
      /\ Goto(t, "done") /\ pos' = Elsewhere
      /\ file' = file /\ startxref' = startxref /\ call' = call /\ target' = target
      /\ UNCHANGED <<xrefOffsets, xrefLoaded, walk>>
  BY DEF IndexBuild
<1>3. call[t].op = "index" /\ call[t].obj \in Obj
  <2>1. call[t].op \in {"index", "read"} /\ call[t].obj \in Obj
    BY <1>1, <1>2 DEF Calling, Locked
  <2>2. xrefIdx[call[t].obj] = NoEntry
    BY <1>1, <1>2, <2>1 DEF IndexTrue, EmptyIndex
  <2> QED BY <1>1, <1>2, <2>1, <2>2 DEF Reading
<1>4. pc'[t] = "done"
  BY <1>1, <1>2 DEF Goto, TypeOK
<1>5. ThreadTrue(t)'
  BY <1>2, <1>3, <1>4, NobodyAssumption
     DEF ThreadTrue, Mutual, Placed, Calling, Discovering, Loading, Reading, Answering, Locked
<1>6. xrefOffsets = <<>> /\ xrefLoaded = {}
  BY <1>1, <1>2 DEF OffsetsTrue, Range
<1>7. FullIndex \in Index /\ \A n \in Obj : Newest(FullChain, n, FullIndex[n])
  BY <1>1, FullIndexIsTrue
<1>8. \/ /\ ChainReadable /\ indexed' = TRUE /\ xrefIdx' = FullIndex
         /\ answer' = [answer EXCEPT ![t] = [Nil EXCEPT !.ok = TRUE, !.index = FullIndex]]
      \/ UNCHANGED <<indexed, xrefIdx, answer>>
  BY DEF IndexBuild
<1>9. \A u \in Thread : u # t => Still(u)
  <2>1. answer' = answer \/ \E a : answer' = [answer EXCEPT ![t] = a]
    BY <1>8
  <2> QED BY <1>1, <1>2, <2>1, OnlyMoves
<1>10. TypeOK'
  <2>1. [Nil EXCEPT !.ok = TRUE, !.index = FullIndex] \in Answer /\ Elsewhere \in Place
    BY <1>7, AnswersTyped DEF Place, Elsewhere
  <2> QED BY <1>1, <1>2, <1>7, <1>8, <2>1 DEF TypeOK, Goto
<1>11. Shared'
  <2>1. FullChain' = FullChain /\ PlainFile' = PlainFile
    BY <1>2, SameFile
  <2>2. OffsetsTrue'
    BY <1>2, <1>6 DEF OffsetsTrue
  <2>3. IndexTrue'
    <3>1. indexed' => ChainReadable
      BY <1>1, <1>8 DEF IndexTrue
    <3>2. ~indexed' => xrefIdx' = EmptyIndex
      BY <1>1, <1>8 DEF IndexTrue
    <3>3. \A n \in Obj : xrefIdx'[n] # NoEntry => Newest(FullChain, n, xrefIdx'[n])
      BY <1>1, <1>7, <1>8 DEF IndexTrue
    <3> QED BY <1>2, <1>6, <3>1, <3>2, <3>3, IndexTrueAfter
  <2>4. CallTyped'
    BY <1>1, <1>2 DEF CallTyped
  <2> QED BY <1>1, <1>10, <2>1, <2>2, <2>3, <2>4 DEF Shared
<1> QED BY <1>2, <1>5, <1>9, <1>11, StepInCall

\* A thread that is past its look at the index is reading an object.
LEMMA ReadersRead ==
  ASSUME NEW t \in Thread, Calling(t), pc[t] \in {"resolve", "seekBody", "readBody", "fallback"}
  PROVE  call[t].op = "read" /\ call[t].obj \in Obj
BY DEF Calling, Locked

LEMMA ResolveKeeps ==
  ASSUME IInv, NEW t \in Thread, Resolve(t)
  PROVE  IInv'
<1> DEFINE n == call[t].obj
           e == xrefIdx[n]
<1>1. /\ TypeOK /\ CallTyped /\ Shared /\ PlainFile /\ IndexTrue
      /\ Mutual(t) /\ Calling(t) /\ Reading(t)
  BY DEF IInv, Shared, ThreadTrue
<1>2. /\ pc[t] = "resolve" /\ mu' = mu
      /\ file' = file /\ startxref' = startxref /\ call' = call /\ answer' = answer
      /\ UNCHANGED docVars /\ UNCHANGED <<pos, walk>>
  BY DEF Resolve
<1>3. call[t].op = "read" /\ n \in Obj /\ mu # t
  BY <1>1, <1>2, ReadersRead DEF Mutual, Locked
<1>4. e # NoEntry /\ e \in IndexEntry
  BY <1>1, <1>2, <1>3 DEF Reading, TypeOK, Index
<1> HIDE DEF e
<1>5. CASE Aim(t, <<e.rev, n>>) /\ Goto(t, "seekBody")
  <2>1. pc'[t] = "seekBody" /\ target'[t] = <<e.rev, n>>
    BY <1>1, <1>5 DEF Aim, Goto, TypeOK
  <2>2. ThreadTrue(t)'
    <3>1. /\ Mutual(t)' /\ Placed(t)' /\ Calling(t)' /\ Discovering(t)' /\ Loading(t)'
          /\ Answering(t)'
      BY <1>2, <1>3, <2>1 DEF Mutual, Placed, Calling, Discovering, Loading, Answering, Locked
    <3>2. Reading(t)'
      BY <1>2, <1>4, <2>1 DEF Reading, docVars, e
    <3> QED BY <3>1, <3>2 DEF ThreadTrue
  <2>3. TypeOK'
    <3>1. <<e.rev, n>> \in Place
      BY <1>3, <1>4 DEF Place, IndexEntry
    <3> HIDE DEF n
    <3> QED BY <1>1, <1>2, <1>5, <3>1 DEF TypeOK, Aim, Goto, docVars
  <2>4. \A u \in Thread : u # t => Still(u)
    BY <1>1, <1>2, <1>5, OnlyMoves
  <2>5. Shared'
    BY <1>1, <1>2, <2>3, SharedStays DEF CallTyped
  <2> QED BY <1>2, <1>3, <2>2, <2>4, <2>5, StepInCall
<1>6. CASE Goto(t, "fallback") /\ target' = target
  <2>1. pc'[t] = "fallback"
    BY <1>1, <1>6 DEF Goto, TypeOK
  <2>2. ThreadTrue(t)'
    BY <1>2, <1>3, <2>1
       DEF ThreadTrue, Mutual, Placed, Calling, Discovering, Loading, Reading, Answering, Locked
  <2>3. TypeOK'
    BY <1>1, <1>2, <1>6 DEF TypeOK, Goto, docVars
  <2>4. \A u \in Thread : u # t => Still(u)
    BY <1>1, <1>2, <1>6, OnlyMoves
  <2>5. Shared'
    BY <1>1, <1>2, <2>3, SharedStays DEF CallTyped
  <2> QED BY <1>2, <1>3, <2>2, <2>4, <2>5, StepInCall
<1> QED BY <1>5, <1>6 DEF Resolve, e

\* A read that ends with the answer a.
LEMMA ReadAnswers ==
  ASSUME IInv, NEW t \in Thread, call[t].op = "read", call[t].obj \in Obj, mu # t,
         NEW a \in Answer, answer' = [answer EXCEPT ![t] = a], Goto(t, "done"),
         pos' = Elsewhere, UNCHANGED <<file, startxref, docVars, mu, call, target, walk>>,
         pc[t] # "idle",
         LET e == TrueEntry(call[t].obj)
         IN  ChainReadable /\ e # NoEntry /\ e.kind # "free" =>
               a.ok /\ a.text = <<e.rev, call[t].obj>>
  PROVE  IInv'
<1>1. TypeOK /\ CallTyped /\ Shared
  BY DEF IInv, Shared
<1>2. pc'[t] = "done" /\ answer'[t] = a
  BY <1>1 DEF Goto, TypeOK
<1>3. ThreadTrue(t)'
  <2>1. /\ Mutual(t)' /\ Placed(t)' /\ Calling(t)' /\ Discovering(t)' /\ Loading(t)' /\ Reading(t)'
    BY <1>2 DEF Mutual, Placed, Calling, Discovering, Loading, Reading, Locked
  <2>2. BodyAnswered(t)'
    BY <1>2, AnswersAfter
  <2>3. Answering(t)'
    BY <2>2 DEF Answering
  <2> QED BY <2>1, <2>3 DEF ThreadTrue
<1>4. TypeOK'
  <2>1. Elsewhere \in Place
    BY DEF Place, Elsewhere
  <2> QED BY <1>1, <2>1 DEF TypeOK, Goto, docVars
<1>5. \A u \in Thread : u # t => Still(u)
  BY <1>1, OnlyMoves
<1>6. Shared'
  BY <1>1, <1>4, SharedStays DEF CallTyped
<1> QED BY <1>3, <1>5, <1>6, StepInCall

LEMMA ReadBodyKeeps ==
  ASSUME IInv, NEW t \in Thread, ReadBody(t)
  PROVE  IInv'
<1> DEFINE n == call[t].obj
           e == xrefIdx[n]
           a == [Nil EXCEPT !.ok = TRUE, !.text = pos]
<1>1. /\ TypeOK /\ PlainFile /\ IndexTrue
      /\ Mutual(t) /\ Placed(t) /\ Calling(t) /\ Reading(t)
  BY DEF IInv, Shared, ThreadTrue
<1>2. pc[t] = "readBody"
  BY DEF ReadBody
<1>3. call[t].op = "read" /\ n \in Obj /\ mu # t
  BY <1>1, <1>2, ReadersRead DEF Mutual, Locked
<1>4. e # NoEntry /\ pos = <<e.rev, n>>
  BY <1>1, <1>2 DEF Reading, Placed
<1>5. TrueEntry(n) = e
  BY <1>1, <1>3, <1>4, HeldIsTrue DEF IndexTrue, TypeOK
<1>6. a \in Answer
  BY <1>1, AnswersTyped DEF TypeOK
<1>7. a.ok /\ a.text = pos
  BY DEF Nil
<1>8. answer' = [answer EXCEPT ![t] = a]
  BY DEF ReadBody
<1>9. /\ Goto(t, "done") /\ pos' = Elsewhere
      /\ UNCHANGED <<file, startxref, docVars, mu, call, target, walk>>
  BY DEF ReadBody
<1> HIDE DEF a
<1> QED BY <1>2, <1>3, <1>4, <1>5, <1>6, <1>7, <1>8, <1>9, ReadAnswers

LEMMA FallbackKeeps ==
  ASSUME IInv, NEW t \in Thread, Fallback(t)
  PROVE  IInv'
<1> DEFINE n == call[t].obj
           e == IF ChainReadable THEN FullIndex[n] ELSE NoEntry
           text(place) == [Nil EXCEPT !.ok = TRUE, !.text = place]
<1>1. TypeOK /\ PlainFile /\ FileTyped /\ Mutual(t) /\ Calling(t)
  BY DEF IInv, Shared, ThreadTrue, PlainFile
<1>2. /\ pc[t] = "fallback" /\ Goto(t, "done") /\ pos' = Elsewhere
      /\ UNCHANGED <<file, startxref, docVars, mu, call, target, walk>>
  BY DEF Fallback
<1>3. call[t].op = "read" /\ n \in Obj /\ mu # t
  BY <1>1, <1>2, ReadersRead DEF Mutual, Locked
<1>4. ChainReadable => e = TrueEntry(n) /\ e \in IndexEntry \union {NoEntry}
  <2>1. FullIndex \in Index /\ Newest(FullChain, n, FullIndex[n])
    BY <1>1, <1>3, FullIndexIsTrue
  <2>2. FullIndex[n] \in IndexEntry \union {NoEntry}
    BY <1>3, <2>1 DEF Index
  <2> QED BY <1>1, <1>3, <2>1, <2>2, TrueEntryIs
<1>5. \A place : text(place).ok /\ text(place).text = place
  BY DEF Nil
<1>6. \A place \in Place : text(place) \in Answer
  BY AnswersTyped
<1>7. CASE e # NoEntry /\ e.kind # "free"
  <2>1. answer' = [answer EXCEPT ![t] = text(<<e.rev, n>>)]
    BY <1>7 DEF Fallback
  <2>2. ChainReadable
    BY <1>7
  <2>3. <<e.rev, n>> \in Place
    BY <1>3, <1>4, <1>7, <2>2 DEF Place, IndexEntry
  <2> DEFINE a == text(<<e.rev, n>>)
  <2>4. a \in Answer /\ a.ok /\ a.text = <<e.rev, n>> /\ answer' = [answer EXCEPT ![t] = a]
    <3> HIDE DEF text
    <3> QED BY <1>5, <1>6, <2>1, <2>3
  <2>5. TrueEntry(n) = e
    BY <1>4, <2>2
  <2> HIDE DEF a, e
  <2> QED BY <1>2, <1>3, <2>4, <2>5, ReadAnswers
<1>8. CASE ~(e # NoEntry /\ e.kind # "free")
  <2>1. ~(ChainReadable /\ TrueEntry(n) # NoEntry /\ TrueEntry(n).kind # "free")
    BY <1>4, <1>8
  <2>2. CASE answer' = [answer EXCEPT ![t] = Nil]
    BY <1>2, <1>3, <2>1, <2>2, AnswersTyped, ReadAnswers
  <2>3. ASSUME NEW place \in LegacyPlaces(n), answer' = [answer EXCEPT ![t] = text(place)]
        PROVE  IInv'
    <3>1. place \in Place
      BY <1>3 DEF LegacyPlaces, Place
    <3> DEFINE a == text(place)
    <3>2. a \in Answer /\ answer' = [answer EXCEPT ![t] = a]
      BY <1>6, <2>3, <3>1
    <3> HIDE DEF a
    <3> QED BY <1>2, <1>3, <2>1, <3>2, ReadAnswers
  <2> QED BY <1>8, <2>2, <2>3 DEF Fallback
<1> QED BY <1>7, <1>8

LEMMA SeekKeeps ==
  ASSUME IInv, NEW t \in Thread, Seek(t)
  PROVE  IInv'
<1> DEFINE next == CASE pc[t] = "seekDiscover" -> "discover"
                     [] pc[t] = "seekLoad" -> "load"
                     [] pc[t] = "seekBody" -> "readBody"
<1>1. /\ TypeOK /\ CallTyped /\ Shared /\ Mutual(t) /\ Calling(t)
      /\ Discovering(t) /\ Loading(t) /\ Reading(t)
  BY DEF IInv, Shared, ThreadTrue
<1>2. /\ pc[t] \in {"seekDiscover", "seekLoad", "seekBody"} /\ pos' = target[t] /\ Goto(t, next)
      /\ mu' = mu /\ walk' = walk /\ answer' = answer /\ target' = target
      /\ file' = file /\ startxref' = startxref /\ call' = call
      /\ UNCHANGED docVars
  BY DEF Seek
<1>3. /\ pc[t] = "seekDiscover" => next = "discover"
      /\ pc[t] = "seekLoad" => next = "load"
      /\ pc[t] = "seekBody" => next = "readBody"
  OBVIOUS
<1> HIDE DEF next
<1>4. pc'[t] = next
  BY <1>1, <1>2 DEF Goto, TypeOK
<1>5. mu = t \/ call[t].op = "read"
  BY <1>1, <1>2, ReadersRead DEF Mutual, Locked
<1>6. ThreadTrue(t)'
  <2>1. Mutual(t)' /\ Placed(t)' /\ Calling(t)' /\ Answering(t)'
    BY <1>1, <1>2, <1>3, <1>4 DEF Mutual, Placed, Calling, Answering, Locked
  <2>2. Discovering(t)'
    <3>1. NextOf(walk)' = NextOf(walk)
      BY <1>2 DEF NextOf
    <3>2. Begins(walk)' = Begins(walk)
      <4>1. Chain' = Chain
        BY <1>2, SameFile
      <4> QED BY <1>2, <4>1 DEF Begins, FollowsPrev, Readable
    <3> QED BY <1>1, <1>2, <1>3, <1>4, <3>1, <3>2 DEF Discovering, docVars
  <2>3. Loading(t)' /\ Reading(t)'
    BY <1>1, <1>2, <1>3, <1>4 DEF Loading, Reading, Left, ToLoad, docVars
  <2> QED BY <2>1, <2>2, <2>3 DEF ThreadTrue
<1>7. TypeOK'
  BY <1>1, <1>2, <1>3 DEF TypeOK, Goto, docVars
<1>8. \A u \in Thread : u # t => Still(u)
  BY <1>1, <1>2, OnlyMoves
<1>9. Shared'
  BY <1>1, <1>2, <1>7, SharedStays DEF CallTyped
<1> QED BY <1>2, <1>5, <1>6, <1>8, <1>9, StepInCall

-----------------------------------------------------------------------------
(* Calls and returns.                                                      *)

LEMMA CallKeeps ==
  ASSUME ReadsAlone, IInv, NEW t \in Thread, NEW op \in Op, NEW n \in Obj, Call(t, op, n)
  PROVE  IInv'
<1> DEFINE step == IF op = "index" THEN "lockIndex" ELSE "lockEntry"
<1>1. TypeOK /\ CallTyped /\ Shared /\ Mutual(t)
  BY DEF IInv, Shared, ThreadTrue
<1>2. /\ pc[t] = "idle" /\ Admitted(op) /\ Goto(t, step)
      /\ call' = [call EXCEPT ![t] = [op |-> op, obj |-> n]]
      /\ answer' = [answer EXCEPT ![t] = Nil]
      /\ file' = file /\ startxref' = startxref /\ target' = target
      /\ UNCHANGED docVars /\ UNCHANGED <<mu, pos, walk>>
  BY DEF Call
<1>3. op \in {"entry", "index", "read"}
  BY OpAssumption
<1>4. step \in {"lockIndex", "lockEntry"} /\ (op = "index" <=> step = "lockIndex")
  OBVIOUS
<1> HIDE DEF step
<1>5. /\ pc'[t] = step
      /\ call'[t] = [op |-> op, obj |-> n] /\ call'[t].op = op /\ call'[t].obj = n
  BY <1>1, <1>2 DEF Goto, TypeOK, CallTyped
<1>6. ThreadTrue(t)'
  <2>1. Mutual(t)' /\ Placed(t)' /\ Discovering(t)' /\ Loading(t)' /\ Answering(t)'
    BY <1>1, <1>2, <1>4, <1>5 DEF Mutual, Placed, Discovering, Loading, Answering, Locked
  <2>2. Calling(t)'
    BY <1>3, <1>4, <1>5 DEF Calling
  <2>3. Reading(t)'
    BY <1>4, <1>5 DEF Reading
  <2> QED BY <2>1, <2>2, <2>3 DEF ThreadTrue
<1>7. \A u \in Thread : u # t => Still(u)
  BY <1>1, <1>2 DEF Still, TypeOK, CallTyped, Goto
<1>8. \A u \in Thread : u # t => ThreadTrue(u)'
  BY <1>2, <1>7, OthersStay DEF IInv
<1>9. Alone'
  <2>1. \A u \in Thread : pc[u] = "idle" \/ (op # "read" /\ call[u].op # "read")
    BY <1>2 DEF Admitted
  <2>2. \A u \in Thread : u # t => pc'[u] = pc[u] /\ call'[u] = call[u]
    BY <1>7 DEF Still
  <2> QED BY <1>5, <2>1, <2>2 DEF Alone, IInv
<1>10. TypeOK'
  BY <1>1, <1>2, <1>4, AnswersTyped DEF TypeOK, Goto, docVars
<1>11. CallTyped'
  BY <1>1, <1>2, <1>3 DEF CallTyped
<1>12. Shared'
  BY <1>1, <1>2, <1>10, <1>11, SharedStays
<1> QED BY <1>6, <1>8, <1>9, <1>12 DEF IInv

LEMMA ReturnKeeps ==
  ASSUME IInv, NEW t \in Thread, Return(t)
  PROVE  IInv'
<1>1. TypeOK /\ CallTyped /\ Shared /\ Mutual(t)
  BY DEF IInv, Shared, ThreadTrue
<1>2. /\ pc[t] = "done" /\ Goto(t, "idle") /\ Aim(t, Elsewhere)
      /\ call' = [call EXCEPT ![t] = NoCall] /\ answer' = [answer EXCEPT ![t] = Nil]
      /\ file' = file /\ startxref' = startxref
      /\ UNCHANGED docVars /\ UNCHANGED <<mu, pos, walk>>
  BY DEF Return
<1>3. pc'[t] = "idle"
  BY <1>1, <1>2 DEF Goto, TypeOK
<1>4. ThreadTrue(t)'
  BY <1>1, <1>2, <1>3
     DEF ThreadTrue, Mutual, Placed, Calling, Discovering, Loading, Reading, Answering, Locked
<1>5. \A u \in Thread : u # t => Still(u)
  BY <1>1, <1>2 DEF Still, TypeOK, CallTyped, Goto, Aim
<1>6. \A u \in Thread : u # t => ThreadTrue(u)'
  BY <1>2, <1>5, OthersStay DEF IInv
<1>7. Alone'
  BY <1>3, <1>5 DEF Alone, IInv, Still
<1>8. TypeOK'
  <2>1. Elsewhere \in Place
    BY DEF Place, Elsewhere
  <2> QED BY <1>1, <1>2, <2>1, AnswersTyped DEF TypeOK, Goto, Aim, docVars
<1>9. CallTyped'
  <2>1. NoCall \in [op : {"none", "entry", "index", "read"}, obj : Obj \union {XRefPart}]
    BY DEF NoCall
  <2> QED BY <1>1, <1>2, <2>1 DEF CallTyped
<1>10. Shared'
  BY <1>1, <1>2, <1>8, <1>9, SharedStays
<1> QED BY <1>4, <1>6, <1>7, <1>10 DEF IInv

-----------------------------------------------------------------------------
(* The invariant, for every file without hybrid sections.                  *)

LEMMA InitIInv == NoHybrids /\ Init => IInv
<1> SUFFICES ASSUME NoHybrids, Init PROVE IInv
  OBVIOUS
<1>1. FileTyped /\ PlainFile
  <2>1. file \in [Offset -> Section] /\ file \in Files
    BY FilesAssumption DEF Init
  <2>2. FileTyped
    BY <2>1 DEF FileTyped, Init
  <2> QED BY <2>2, NoHybridsIsPlain
<1>2. TypeOK
  <2>1. EmptyIndex \in Index /\ Elsewhere \in Place
    BY DEF EmptyIndex, Index, Elsewhere, Place
  <2>2. file \in [Offset -> Section] /\ startxref \in Offset
    BY FilesAssumption DEF Init
  <2>3. xrefOffsets \in Seq(Offset) /\ walk \in Seq(Offset)
    BY EmptySeq DEF Init
  <2>4. answer \in [Thread -> Answer] /\ target \in [Thread -> Place]
    BY <2>1, AnswersTyped DEF Init
  <2> QED BY <2>1, <2>2, <2>3, <2>4 DEF TypeOK, Init
<1>3. CallTyped
  BY DEF CallTyped, Init, NoCall
<1>4. OffsetsTrue /\ IndexTrue
  BY DEF Init, OffsetsTrue, IndexTrue, EmptyIndex
<1>5. Alone
  BY DEF Alone, Init
<1>6. ASSUME NEW t \in Thread PROVE ThreadTrue(t)
  <2>1. pc[t] = "idle" /\ mu = Nobody
    BY DEF Init
  <2> QED BY <2>1, NobodyAssumption
          DEF ThreadTrue, Mutual, Placed, Calling, Discovering, Loading, Reading, Answering, Locked
<1> QED BY <1>1, <1>2, <1>3, <1>4, <1>5, <1>6 DEF IInv, Shared

LEMMA StepIInv == ReadsAlone /\ IInv /\ [Next]_vars => IInv'
<1> SUFFICES ASSUME ReadsAlone, IInv, [Next]_vars PROVE IInv'
  OBVIOUS
<1>1. ASSUME NEW t \in Thread, NEW op \in Op, NEW n \in Obj, Call(t, op, n) PROVE IInv'
  BY <1>1, CallKeeps
<1>2. ASSUME NEW t \in Thread, Acquire(t) PROVE IInv'
  BY <1>2, EntryCachedKeeps, EntryUncachedKeeps, IndexCachedKeeps, IndexBuildKeeps DEF Acquire
<1>3. ASSUME NEW t \in Thread, Proceed(t) PROVE IInv'
  BY <1>3, SeekKeeps, DiscoverKeeps, LoadKeeps, SectionFailsKeeps, ResolveKeeps, ReadBodyKeeps,
     FallbackKeeps, ReturnKeeps DEF Proceed
<1>4. ASSUME UNCHANGED vars PROVE IInv'
  <2>1. /\ file' = file /\ startxref' = startxref /\ UNCHANGED docVars
        /\ UNCHANGED <<mu, pos, walk>>
        /\ pc' = pc /\ call' = call /\ target' = target /\ answer' = answer
    BY <1>4 DEF vars
  <2>2. \A u \in Thread : ThreadTrue(u)'
    BY <2>1, OthersStay DEF IInv, Still
  <2>3. TypeOK' /\ CallTyped'
    BY <2>1 DEF IInv, Shared, TypeOK, CallTyped, docVars
  <2>4. Shared'
    BY <2>1, <2>3, SharedStays DEF IInv
  <2>5. Alone'
    BY <2>1 DEF IInv, Alone
  <2> QED BY <2>2, <2>4, <2>5 DEF IInv
<1> QED BY <1>1, <1>2, <1>3, <1>4 DEF Next

(***************************************************************************)
(* Every variable keeps to its type: offsets are those of sections, a      *)
(* place that is sought is one of the file, the index holds entries        *)
(* (service.go:98-272).                                                    *)
(***************************************************************************)
THEOREM TypeCorrect == ASSUME NoHybrids, ReadsAlone PROVE Spec => []TypeOK
<1>1. Init => IInv
  BY InitIInv
<1>2. IInv /\ [Next]_vars => IInv'
  BY StepIInv
<1>3. IInv => TypeOK
  BY DEF IInv, Shared
<1> QED BY <1>1, <1>2, <1>3, PTL DEF Spec

(***************************************************************************)
(* However the loading is spread over calls and threads, the index so far  *)
(* holds what the newest revision says of each object, and a file whose    *)
(* chain cannot be read gives no index (service.go:205-272).               *)
(***************************************************************************)
THEOREM PartialIndexIsTrue == ASSUME NoHybrids, ReadsAlone PROVE Spec => []IndexSoFarIsTrue
<1>1. Init => IInv
  BY InitIInv
<1>2. IInv /\ [Next]_vars => IInv'
  BY StepIInv
<1>3. IInv => IndexSoFarIsTrue
  BY DEF IInv, Shared, IndexTrue, IndexSoFarIsTrue
<1> QED BY <1>1, <1>2, <1>3, PTL DEF Spec

(***************************************************************************)
(* getXRefEntry reports an object missing only when no section of the      *)
(* chain mentions it, or the chain cannot be read, and the entry it does   *)
(* report is that of the newest revision (service.go:209-218, 246-271).    *)
(***************************************************************************)
THEOREM LookupIsRight == ASSUME NoHybrids, ReadsAlone PROVE Spec => []MissingIsMissing
<1>1. Init => IInv
  BY InitIInv
<1>2. IInv /\ [Next]_vars => IInv'
  BY StepIInv
<1>3. IInv => MissingIsMissing
  BY DEF IInv, ThreadTrue, Answering, EntryAnswered, MissingIsMissing, Returned
<1> QED BY <1>1, <1>2, <1>3, PTL DEF Spec

(***************************************************************************)
(* readObject returns the body of the newest revision, through the part    *)
(* of the index that is loaded or through the fallback, whatever was       *)
(* called before it (service.go:98-144, 1928-1974).                        *)
(***************************************************************************)
THEOREM ReadIsOfNewest == ASSUME NoHybrids, ReadsAlone PROVE Spec => []ReadsNewestBody
<1>1. Init => IInv
  BY InitIInv
<1>2. IInv /\ [Next]_vars => IInv'
  BY StepIInv
<1>3. IInv => ReadsNewestBody
  BY DEF IInv, ThreadTrue, Answering, BodyAnswered, ReadsNewestBody, Returned
<1> QED BY <1>1, <1>2, <1>3, PTL DEF Spec
=============================================================================
