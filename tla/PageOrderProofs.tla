--------------------------- MODULE PageOrderProofs ---------------------------
(***************************************************************************)
(* Lemmas about the order of the document, for every tree.                 *)
(***************************************************************************)
EXTENDS PageOrder, FiniteSetTheorems, SequenceTheorems, WellFoundedInduction, TLAPS

-----------------------------------------------------------------------------
(* Induction over the numbers, in sets, and recursion over them.           *)

LEMMA LeastNumber ==
  ASSUME NEW T, T \subseteq Nat, T # {}
  PROVE  \E m \in T : \A k \in T : m <= k
<1> DEFINE R == {ss \in Nat \X Nat : ss[1] < ss[2]}
<1>1. IsWellFoundedOn(R, Nat)
  BY NatLessThanWellFounded DEF OpToRel
<1>2. PICK m \in T : \A k \in T : <<k, m>> \notin R
  <2> HIDE DEF R
  <2> QED BY <1>1, WFMin
<1>3. ASSUME NEW k \in T PROVE m <= k
  <2>1. <<k, m>> \notin R
    BY <1>2
  <2>2. <<k, m>>[1] = k /\ <<k, m>>[2] = m
    OBVIOUS
  <2> QED BY <2>1, <2>2
<1> QED BY <1>3

LEMMA SetInduction ==
  ASSUME NEW S, 0 \in S, \A n \in Nat : n \in S => n+1 \in S
  PROVE  Nat \subseteq S
<1> DEFINE T == Nat \ S
<1> SUFFICES ASSUME T # {} PROVE FALSE
  OBVIOUS
<1>1. PICK m \in T : \A k \in T : m <= k
  BY LeastNumber
<1>2. m # 0 /\ m - 1 \in Nat /\ m - 1 + 1 = m
  OBVIOUS
<1>3. m - 1 \in S
  BY <1>1, <1>2
<1> QED BY <1>2, <1>3

\* What is true of the first and goes from each to the next is true of all.
LEMMA FromEachToTheNext ==
  ASSUME NEW T, NEW n \in Nat, T \subseteq 1..n, n >= 1 => 1 \in T,
         \A i \in 1..n-1 : i \in T => i+1 \in T
  PROVE  T = 1..n
<1> DEFINE U == (1..n) \ T
<1> SUFFICES ASSUME U # {} PROVE FALSE
  OBVIOUS
<1>1. PICK m \in U : \A k \in U : m <= k
  <2>1. U \subseteq Nat
    OBVIOUS
  <2> QED BY <2>1, LeastNumber
<1>2. m \in 1..n /\ m # 1 /\ m - 1 \in 1..n-1 /\ m - 1 + 1 = m
  BY <1>1
<1>3. m - 1 \in T
  <2>1. m - 1 \notin U
    BY <1>1, <1>2
  <2> QED BY <1>2, <2>1
<1> QED BY <1>1, <1>2, <1>3

\* g is the function that starts with base and goes on with step, up to n.
PartOf(S, base, step, n, g) ==
  /\ g \in [0..n -> S]
  /\ g[0] = base
  /\ \A i \in 0..n-1 : g[i+1] = step[g[i]]

LEMMA PartsExist ==
  ASSUME NEW S, NEW base \in S, NEW step \in [S -> S]
  PROVE  \A n \in Nat : \E g : PartOf(S, base, step, n, g)
<1> DEFINE I == {n \in Nat : \E g : PartOf(S, base, step, n, g)}
<1>1. 0 \in I
  <2> DEFINE g == [i \in 0..0 |-> base]
  <2>1. PartOf(S, base, step, 0, g)
    BY DEF PartOf
  <2> QED BY <2>1
<1>2. ASSUME NEW n \in Nat, n \in I PROVE n+1 \in I
  <2>1. PICK g : PartOf(S, base, step, n, g)
    BY <1>2
  <2> DEFINE next == step[g[n]]
             h == [i \in 0..n+1 |-> IF i = n+1 THEN next ELSE g[i]]
  <2>2. g[n] \in S /\ next \in S
    BY <2>1 DEF PartOf
  <2>3. h[n+1] = next /\ \A i \in 0..n : h[i] = g[i]
    OBVIOUS
  <2>4. h \in [0..n+1 -> S]
    <3> HIDE DEF next
    <3> QED BY <2>1, <2>2 DEF PartOf
  <2> HIDE DEF h
  <2>5. ASSUME NEW i \in 0..n PROVE h[i+1] = step[h[i]]
    <3>1. CASE i = n
      BY <2>3, <3>1
    <3>2. CASE i # n
      <4>1. i \in 0..n-1 /\ i+1 \in 0..n
        BY <3>2
      <4> QED BY <2>1, <2>3, <4>1 DEF PartOf
    <3> QED BY <3>1, <3>2
  <2>6. h[0] = base
    BY <2>1, <2>3 DEF PartOf
  <2>7. PartOf(S, base, step, n+1, h)
    <3>1. 0..n+1-1 = 0..n
      OBVIOUS
    <3> QED BY <2>4, <2>5, <2>6, <3>1 DEF PartOf
  <2> QED BY <2>7
<1>3. Nat \subseteq I
  <2> HIDE DEF I
  <2> QED BY <1>1, <1>2, SetInduction
<1> QED BY <1>3

LEMMA PartsAgree ==
  ASSUME NEW S, NEW base \in S, NEW step \in [S -> S],
         NEW m \in Nat, NEW n \in Nat, NEW g, NEW h,
         PartOf(S, base, step, m, g), PartOf(S, base, step, n, h)
  PROVE  \A i \in Nat : i <= m /\ i <= n => g[i] = h[i]
<1> DEFINE I == {i \in Nat : i <= m /\ i <= n => g[i] = h[i]}
<1>1. 0 \in I
  BY DEF PartOf
<1>2. ASSUME NEW i \in Nat, i \in I PROVE i+1 \in I
  <2> SUFFICES ASSUME i+1 <= m, i+1 <= n PROVE g[i+1] = h[i+1]
    OBVIOUS
  <2>1. g[i] = h[i]
    BY <1>2
  <2>2. i \in 0..m-1 /\ i \in 0..n-1
    OBVIOUS
  <2> QED BY <2>1, <2>2 DEF PartOf
<1>3. Nat \subseteq I
  <2> HIDE DEF I
  <2> QED BY <1>1, <1>2, SetInduction
<1> QED BY <1>3

\* f starts with base and goes on with step.
Recurs(S, base, step, f) ==
  /\ f \in [Nat -> S]
  /\ f[0] = base
  /\ \A n \in Nat : f[n+1] = step[f[n]]

LEMMA RecursionExists ==
  ASSUME NEW S, NEW base \in S, NEW step \in [S -> S]
  PROVE  \E f : Recurs(S, base, step, f)
<1> DEFINE part == [n \in Nat |-> CHOOSE g : PartOf(S, base, step, n, g)]
           f == [n \in Nat |-> part[n][n]]
<1>1. \A n \in Nat : PartOf(S, base, step, n, part[n])
  BY PartsExist
<1>2. \A n \in Nat : f[n] = part[n][n]
  OBVIOUS
<1> HIDE DEF part
<1>3. f \in [Nat -> S]
  <2>1. ASSUME NEW n \in Nat PROVE part[n][n] \in S
    <3>1. part[n] \in [0..n -> S] /\ n \in 0..n
      BY <1>1 DEF PartOf
    <3> QED BY <3>1
  <2> QED BY <2>1
<1> HIDE DEF f
<1>4. f[0] = base
  BY <1>1, <1>2 DEF PartOf
<1>5. ASSUME NEW n \in Nat PROVE f[n+1] = step[f[n]]
  <2>1. PartOf(S, base, step, n+1, part[n+1]) /\ PartOf(S, base, step, n, part[n])
    BY <1>1
  <2>2. part[n+1][n] = part[n][n]
    <3>1. n+1 \in Nat /\ n <= n+1 /\ n <= n
      OBVIOUS
    <3>2. \A i \in Nat : i <= n+1 /\ i <= n => part[n+1][i] = part[n][i]
      <4> DEFINE g == part[n+1]
                 h == part[n]
      <4>1. PartOf(S, base, step, n+1, g) /\ PartOf(S, base, step, n, h)
        BY <2>1
      <4> HIDE DEF g, h
      <4>2. \A i \in Nat : i <= n+1 /\ i <= n => g[i] = h[i]
        BY <3>1, <4>1, PartsAgree
      <4> QED BY <4>2 DEF g, h
    <3> QED BY <3>1, <3>2
  <2>3. part[n+1][n+1] = step[part[n+1][n]]
    <3>1. n \in 0..(n+1)-1
      OBVIOUS
    <3> QED BY <2>1, <3>1 DEF PartOf
  <2>4. f[n+1] = part[n+1][n+1] /\ f[n] = part[n][n]
    BY <1>2
  <2> QED BY <2>2, <2>3, <2>4
<1>6. Recurs(S, base, step, f)
  BY <1>3, <1>4, <1>5 DEF Recurs
<1> QED BY <1>6

-----------------------------------------------------------------------------
(* The walk.                                                               *)

TreeTyped == tree \in [Node -> NodeObject]

LEMMA KidsTyped ==
  ASSUME TreeTyped, NEW nodes \in Seq(Node), NEW i \in 0..Len(nodes)
  PROVE  /\ KidsAt(nodes, i) \in Seq(Node)
         /\ Len(KidsAt(nodes, i)) \in Nat
         /\ \A j \in 1..Len(KidsAt(nodes, i)) : KidsAt(nodes, i)[j] \in Node
<1>1. \A n \in Node : Kids(n) \in Seq(Node)
  BY DEF TreeTyped, Kids, NodeObject
<1>2. i # 0 => nodes[i] \in Node
  OBVIOUS
<1>3. KidsAt(nodes, i) \in Seq(Node)
  BY <1>1, <1>2, RootAssumption, EmptySeq DEF KidsAt
<1> QED BY <1>3

\* One more node is met.
LEMMA OneMoreMet ==
  ASSUME NEW nodes \in Seq(Node), NEW n \in Node
  PROVE  LET more == Append(nodes, n)
         IN  /\ more \in Seq(Node) /\ Len(more) = Len(nodes) + 1
             /\ \A m : IsMet(more, m) <=> IsMet(nodes, m) \/ m = n
             /\ \A i \in 0..Len(nodes) : KidsAt(more, i) = KidsAt(nodes, i)
             /\ KidsAt(more, Len(nodes)+1) = IF Pages(n) THEN Kids(n) ELSE <<>>
             /\ \A i \in 0..Len(nodes) : Finished(nodes, i) => Finished(more, i)
<1> DEFINE more == Append(nodes, n)
<1>1. /\ more \in Seq(Node) /\ Len(nodes) \in Nat /\ Len(more) = Len(nodes) + 1
      /\ more[Len(nodes)+1] = n
      /\ \A i \in 1..Len(nodes) : more[i] = nodes[i]
  BY AppendProperties
<1> HIDE DEF more
<1>2. \A i : i \in 1..Len(more) <=> i \in 1..Len(nodes) \/ i = Len(nodes)+1
  BY <1>1
<1>3. \A m : IsMet(more, m) <=> IsMet(nodes, m) \/ m = n
  BY <1>1, <1>2 DEF IsMet
<1>4. \A i \in 0..Len(nodes) : KidsAt(more, i) = KidsAt(nodes, i)
  <2>1. \A i \in 0..Len(nodes) : i = 0 \/ more[i] = nodes[i]
    BY <1>1
  <2> QED BY <2>1 DEF KidsAt
<1>5. KidsAt(more, Len(nodes)+1) = IF Pages(n) THEN Kids(n) ELSE <<>>
  BY <1>1 DEF KidsAt
<1>6. \A i \in 0..Len(nodes) : Finished(nodes, i) => Finished(more, i)
  BY <1>3, <1>4 DEF Finished
<1> QED BY <1>1, <1>3, <1>4, <1>5, <1>6 DEF more

\* As long as a kid is left there is a next node.
LEMMA NextExists ==
  ASSUME TreeTyped, NEW nodes \in Seq(Node), ~AllFinished(nodes)
  PROVE  \E n \in Node : IsNext(nodes, n)
<1> DEFINE L == Len(nodes)
           T == {d \in 0..L : ~Finished(nodes, L - d)}
<1>1. L \in Nat
  OBVIOUS
<1>2. PICK i \in 0..L : ~Finished(nodes, i)
  BY DEF AllFinished
<1>3. PICK d \in T : \A e \in T : d <= e
  <2>1. L - i \in 0..L /\ L - (L - i) = i
    BY <1>1, <1>2
  <2>2. T \subseteq Nat /\ L - i \in T
    BY <1>1, <1>2, <2>1
  <2> HIDE DEF T
  <2> QED BY <2>2, LeastNumber
<1> DEFINE m == L - d
           kids == KidsAt(nodes, m)
           U == {j \in 1..Len(kids) : ~IsMet(nodes, kids[j])}
<1>4. m \in 0..L /\ ~Finished(nodes, m)
  BY <1>1, <1>3
<1>5. \A l \in m+1..L : Finished(nodes, l)
  <2> SUFFICES ASSUME NEW l \in m+1..L, ~Finished(nodes, l) PROVE FALSE
    OBVIOUS
  <2>1. L - l \in 0..L /\ L - (L - l) = l /\ ~(d <= L - l)
    BY <1>1, <1>3
  <2> QED BY <1>3, <2>1
<1> HIDE DEF m, T
<1>6. /\ Len(kids) \in Nat /\ \A j \in 1..Len(kids) : kids[j] \in Node
  BY <1>4, KidsTyped
<1> HIDE DEF kids
<1>7. PICK j \in U : \A e \in U : j <= e
  <2>1. U # {}
    BY <1>4 DEF Finished, kids
  <2>2. U \subseteq Nat
    BY <1>6
  <2> HIDE DEF U
  <2> QED BY <2>1, <2>2, LeastNumber
<1>8. \A l \in 1..j-1 : IsMet(nodes, kids[l])
  <2> SUFFICES ASSUME NEW l \in 1..j-1, ~IsMet(nodes, kids[l]) PROVE FALSE
    OBVIOUS
  <2>1. l \in 1..Len(kids) /\ ~(j <= l)
    BY <1>6, <1>7
  <2> QED BY <1>7, <2>1
<1>9. IsNext(nodes, kids[j])
  BY <1>4, <1>5, <1>7, <1>8 DEF IsNext, kids
<1> QED BY <1>6, <1>7, <1>9

\* The place of the next node: the j-th kid of the i-th node met.
NextAt(nodes, n, i, j) ==
  /\ j <= Len(KidsAt(nodes, i))
  /\ n = KidsAt(nodes, i)[j]
  /\ ~IsMet(nodes, n)
  /\ \A l \in 1..j-1 : IsMet(nodes, KidsAt(nodes, i)[l])
  /\ \A l \in i+1..Len(nodes) : Finished(nodes, l)

LEMMA NextPlace ==
  ASSUME TreeTyped, NEW nodes \in Seq(Node), NEW n
  PROVE  IsNext(nodes, n) <=>
           \E i \in 0..Len(nodes) : \E j \in Nat \ {0} : NextAt(nodes, n, i, j)
<1>1. \A i \in 0..Len(nodes) : Len(KidsAt(nodes, i)) \in Nat
  BY KidsTyped
<1>2. \A i \in 0..Len(nodes) : \A j : j \in 1..Len(KidsAt(nodes, i)) <=>
        j \in Nat \ {0} /\ j <= Len(KidsAt(nodes, i))
  BY <1>1
<1> HIDE DEF IsMet, Finished
<1> QED BY <1>2 DEF IsNext, NextAt

\* And one only.
LEMMA NextUnique ==
  ASSUME TreeTyped, NEW nodes \in Seq(Node), NEW n, NEW m, IsNext(nodes, n), IsNext(nodes, m)
  PROVE  n = m
<1>1. PICK i \in 0..Len(nodes), j \in Nat \ {0} : NextAt(nodes, n, i, j)
  BY NextPlace
<1>2. PICK p \in 0..Len(nodes), q \in Nat \ {0} : NextAt(nodes, m, p, q)
  BY NextPlace
<1> USE DEF NextAt
<1>3. ~Finished(nodes, i) /\ ~Finished(nodes, p)
  BY <1>1, <1>2 DEF Finished
<1>4. i = p
  <2>1. i \notin p+1..Len(nodes) /\ p \notin i+1..Len(nodes)
    BY <1>1, <1>2, <1>3
  <2> QED BY <2>1
<1>5. j = q
  <2>1. j \notin 1..q-1 /\ q \notin 1..j-1
    BY <1>1, <1>2, <1>4
  <2> QED BY <2>1
<1> QED BY <1>1, <1>2, <1>4, <1>5

LEMMA MeetTyped ==
  ASSUME NEW met \in Progress, NEW n \in Node
  PROVE  Meet(met, n) \in Progress
BY AppendProperties DEF Meet, Progress

\* A turn of the walk that meets a node, and one that does not.
LEMMA TurnOfWalk ==
  ASSUME TreeTyped, NEW met \in Progress
  PROVE  /\ AllFinished(met.nodes) => MeetNext[met] = met
         /\ \A n \in Node : IsNext(met.nodes, n) => MeetNext[met] = Meet(met, n)
         /\ AllFinished(met.nodes) \/ \E n \in Node : IsNext(met.nodes, n)
<1>0. met.nodes \in Seq(Node)
  BY DEF Progress
<1>1. MeetNext[met] = IF AllFinished(met.nodes) THEN met
                      ELSE Meet(met, CHOOSE n \in Node : IsNext(met.nodes, n))
  BY DEF MeetNext
<1>2. ASSUME NEW n \in Node, IsNext(met.nodes, n)
      PROVE  MeetNext[met] = Meet(met, n)
  <2>1. ~AllFinished(met.nodes)
    BY <1>2 DEF IsNext, AllFinished, Finished
  <2>2. (CHOOSE m \in Node : IsNext(met.nodes, m)) = n
    <3>1. \A m \in Node : IsNext(met.nodes, m) => m = n
      BY <1>0, <1>2, NextUnique
    <3> QED BY <1>2, <3>1
  <2> QED BY <1>1, <2>1, <2>2
<1>3. AllFinished(met.nodes) \/ \E n \in Node : IsNext(met.nodes, n)
  BY <1>0, NextExists
<1> QED BY <1>1, <1>2, <1>3

LEMMA MeetNextTyped ==
  ASSUME TreeTyped
  PROVE  MeetNext \in [Progress -> Progress]
<1>1. ASSUME NEW met \in Progress PROVE MeetNext[met] \in Progress
  BY TurnOfWalk, MeetTyped
<1>2. MeetNext = [met \in Progress |-> MeetNext[met]]
  BY DEF MeetNext
<1> QED BY <1>1, <1>2

\* The definition of Met does define it.
LEMMA MetTurns ==
  ASSUME TreeTyped
  PROVE  /\ Met \in [Nat -> Progress]
         /\ Met[0] = NothingMet
         /\ \A k \in Nat : Met[k+1] = MeetNext[Met[k]]
<1> DEFINE Fits(g) == g = [k \in Nat |-> IF k = 0 THEN NothingMet ELSE MeetNext[g[k-1]]]
<1>1. NothingMet \in Progress
  BY EmptySeq DEF NothingMet, Progress
<1>2. PICK f : Recurs(Progress, NothingMet, MeetNext, f)
  BY <1>1, MeetNextTyped, RecursionExists
<1>3. Fits(f)
  <2>1. ASSUME NEW k \in Nat
        PROVE  f[k] = IF k = 0 THEN NothingMet ELSE MeetNext[f[k-1]]
    <3>1. k # 0 => k-1 \in Nat /\ k-1+1 = k
      OBVIOUS
    <3> QED BY <1>2, <3>1 DEF Recurs
  <2>2. f = [k \in Nat |-> f[k]]
    BY <1>2 DEF Recurs
  <2> QED BY <2>1, <2>2
<1>4. Fits(Met)
  <2>1. Met = CHOOSE g : Fits(g)
    BY DEF Met
  <2> HIDE DEF Fits
  <2> QED BY <1>3, <2>1
<1>5. \A k \in Nat : Met[k] = IF k = 0 THEN NothingMet ELSE MeetNext[Met[k-1]]
  BY <1>4
<1>6. Met[0] = NothingMet /\ \A k \in Nat : Met[k+1] = MeetNext[Met[k]]
  <2>1. \A k \in Nat : k+1 \in Nat /\ k+1 # 0 /\ k+1-1 = k
    OBVIOUS
  <2> QED BY <1>5, <2>1
<1>7. \A k \in Nat : Met[k] \in Progress
  <2> DEFINE I == {k \in Nat : Met[k] \in Progress}
  <2>1. 0 \in I
    BY <1>1, <1>6
  <2>2. \A k \in Nat : k \in I => k+1 \in I
    BY <1>6, MeetNextTyped
  <2>3. Nat \subseteq I
    <3> HIDE DEF I
    <3> QED BY <2>1, <2>2, SetInduction
  <2> QED BY <2>3
<1>8. Met = [k \in Nat |-> Met[k]]
  <2>1. Met = [k \in Nat |-> IF k = 0 THEN NothingMet ELSE MeetNext[Met[k-1]]]
    BY <1>4
  <2> QED BY <2>1
<1> QED BY <1>6, <1>7, <1>8

\* a is how b begins.
Beginning(a, b) == Len(a) <= Len(b) /\ \A i \in 1..Len(a) : a[i] = b[i]

LEMMA BeginningTransitive ==
  ASSUME NEW S, NEW a \in Seq(S), NEW b \in Seq(S), NEW c \in Seq(S),
         Beginning(a, b), Beginning(b, c)
  PROVE  Beginning(a, c)
BY DEF Beginning

LEMMA AppendedBegins ==
  ASSUME NEW S, NEW a \in Seq(S), NEW n \in S
  PROVE  Beginning(a, a) /\ Beginning(a, Append(a, n))
<1>1. /\ Len(a) \in Nat /\ Len(Append(a, n)) = Len(a) + 1
      /\ \A i \in 1..Len(a) : Append(a, n)[i] = a[i]
  BY AppendProperties
<1> QED BY <1>1 DEF Beginning

\* What was met stays met, and where it was.
GrowsTo(met, later) ==
  /\ Beginning(met.nodes, later.nodes)
  /\ Beginning(met.pages, later.pages)
  /\ Beginning(met.readable, later.readable)

LEMMA MeetGrows ==
  ASSUME NEW met \in Progress, NEW n \in Node
  PROVE  GrowsTo(met, met) /\ GrowsTo(met, Meet(met, n))
BY AppendedBegins DEF Progress, Meet, GrowsTo

LEMMA MetGrows ==
  ASSUME TreeTyped, NEW j \in Nat, NEW k \in Nat, j <= k
  PROVE  GrowsTo(Met[j], Met[k])
<1> DEFINE I == {i \in Nat : j <= i => GrowsTo(Met[j], Met[i])}
<1>0. \A i \in Nat : Met[i] \in Progress
  BY MetTurns
<1>1. 0 \in I
  <2>1. j <= 0 => j = 0
    OBVIOUS
  <2>2. GrowsTo(Met[j], Met[j])
    BY <1>0, RootAssumption, MeetGrows
  <2> QED BY <2>1, <2>2
<1>2. ASSUME NEW i \in Nat, i \in I PROVE i+1 \in I
  <2>1. CASE j <= i
    <3>1. GrowsTo(Met[j], Met[i])
      BY <1>2, <2>1
    <3>2. GrowsTo(Met[i], Met[i+1])
      <4>1. Met[i+1] = MeetNext[Met[i]]
        BY MetTurns
      <4>2. Met[i+1] = Met[i] \/ \E n \in Node : Met[i+1] = Meet(Met[i], n)
        BY <1>0, <4>1, TurnOfWalk
      <4> QED BY <1>0, <4>2, RootAssumption, MeetGrows
    <3>3. Met[i+1] \in Progress /\ Met[i] \in Progress /\ Met[j] \in Progress
      BY <1>0
    <3>4. GrowsTo(Met[j], Met[i+1])
      BY <3>1, <3>2, <3>3, BeginningTransitive DEF GrowsTo, Progress
    <3> QED BY <3>4
  <2>2. CASE ~(j <= i)
    <3>1. j <= i+1 => j = i+1
      BY <2>2
    <3>2. GrowsTo(Met[j], Met[j])
      BY <1>0, RootAssumption, MeetGrows
    <3> QED BY <3>1, <3>2
  <2> QED BY <2>1, <2>2
<1>3. Nat \subseteq I
  <2> HIDE DEF I
  <2> QED BY <1>1, <1>2, SetInduction
<1> QED BY <1>3

\* A walk that has met all there is goes no further.
LEMMA MetStays ==
  ASSUME TreeTyped, NEW j \in Nat, NEW k \in Nat, j <= k, AllFinished(Met[j].nodes)
  PROVE  Met[k] = Met[j]
<1> DEFINE I == {i \in Nat : j <= i => Met[i] = Met[j]}
<1>1. 0 \in I
  <2>1. j <= 0 => j = 0
    OBVIOUS
  <2> QED BY <2>1
<1>2. ASSUME NEW i \in Nat, i \in I PROVE i+1 \in I
  <2>1. CASE j <= i
    <3>1. Met[i] = Met[j] /\ Met[i] \in Progress
      BY <1>2, <2>1, MetTurns
    <3>2. Met[i+1] = MeetNext[Met[i]]
      BY MetTurns
    <3>3. Met[i+1] = Met[i]
      BY <3>1, <3>2, TurnOfWalk
    <3> QED BY <3>1, <3>3
  <2>2. CASE ~(j <= i)
    <3>1. j <= i+1 => j = i+1
      BY <2>2
    <3> QED BY <3>1
  <2> QED BY <2>1, <2>2
<1>3. Nat \subseteq I
  <2> HIDE DEF I
  <2> QED BY <1>1, <1>2, SetInduction
<1> QED BY <1>3

\* The order is that of the tree, which nobody changes.
LEMMA OrderKept ==
  ASSUME tree' = tree
  PROVE  Met' = Met /\ DocumentOrder' = DocumentOrder /\ Readables' = Readables
<1>1. Met' = Met
  BY DEF Met, MeetNext, Meet, IsNext, AllFinished, Finished, IsMet, KidsAt, Kids, Pages, Page
<1> QED BY <1>1 DEF DocumentOrder, Readables

-----------------------------------------------------------------------------
(* The first page.                                                         *)

\* As long as a kid is left each turn meets another node.
LEMMA MetCount ==
  ASSUME TreeTyped, NEW k \in Nat, ~AllFinished(Met[k].nodes)
  PROVE  Cardinality({n \in Node : IsMet(Met[k].nodes, n)}) = k
<1> DEFINE Seen(i) == {n \in Node : IsMet(Met[i].nodes, n)}
           I == {i \in Nat : ~AllFinished(Met[i].nodes) => Cardinality(Seen(i)) = i}
<1>0. \A i \in Nat : Met[i] \in Progress /\ Met[i].nodes \in Seq(Node)
  BY MetTurns DEF Progress
<1>1. 0 \in I
  <2>1. Met[0].nodes = <<>> /\ Len(<<>>) = 0
    BY MetTurns DEF NothingMet
  <2>2. Seen(0) = {}
    BY <2>1 DEF IsMet
  <2> QED BY <2>2, FS_EmptySet
<1>2. ASSUME NEW i \in Nat, i \in I PROVE i+1 \in I
  <2> SUFFICES ASSUME ~AllFinished(Met[i+1].nodes)
               PROVE  Cardinality(Seen(i+1)) = i+1
    OBVIOUS
  <2>1. Met[i+1] = MeetNext[Met[i]]
    BY MetTurns
  <2>2. ~AllFinished(Met[i].nodes)
    BY <1>0, <2>1, TurnOfWalk
  <2>3. PICK n \in Node : IsNext(Met[i].nodes, n)
    BY <1>0, <2>2, TurnOfWalk
  <2>4. Met[i+1].nodes = Append(Met[i].nodes, n)
    <3>1. Met[i+1] = Meet(Met[i], n)
      BY <1>0, <2>1, <2>3, TurnOfWalk
    <3> QED BY <3>1 DEF Meet
  <2>5. \A m : IsMet(Met[i+1].nodes, m) <=> IsMet(Met[i].nodes, m) \/ m = n
    BY <1>0, <2>4, OneMoreMet
  <2>6. Seen(i+1) = Seen(i) \union {n} /\ n \notin Seen(i)
    BY <2>3, <2>5 DEF IsNext
  <2>7. IsFiniteSet(Seen(i))
    BY NodeAssumption, FS_Subset
  <2> HIDE DEF Seen
  <2>8. Cardinality(Seen(i+1)) = Cardinality(Seen(i)) + 1
    BY <2>6, <2>7, FS_AddElement
  <2> QED BY <1>2, <2>2, <2>8
<1>3. Nat \subseteq I
  <2> HIDE DEF I
  <2> QED BY <1>1, <1>2, SetInduction
<1> QED BY <1>3

\* Nodes that have no page under them.
PageFree(S) ==
  \A n \in S : ~Page(n) /\ (Pages(n) => \A i \in 1..Len(Kids(n)) : Kids(n)[i] \in S)

Barren(n) == \E S \in SUBSET Node : n \in S /\ PageFree(S)

LEMMA BarrenKids ==
  ASSUME NEW n, Barren(n)
  PROVE  /\ n \in Node /\ ~Page(n)
         /\ Pages(n) => \A i \in 1..Len(Kids(n)) : Barren(Kids(n)[i])
BY DEF Barren, PageFree

LEMMA BarrenNode ==
  ASSUME NEW n \in Node, ~Page(n), Pages(n) => \A i \in 1..Len(Kids(n)) : Barren(Kids(n)[i])
  PROVE  Barren(n)
<1> DEFINE B == {m \in Node : Barren(m)}
           S == B \union {n}
<1>1. \A m \in B : ~Page(m) /\ (Pages(m) => \A i \in 1..Len(Kids(m)) : Kids(m)[i] \in B)
  BY BarrenKids
<1>2. Pages(n) => \A i \in 1..Len(Kids(n)) : Kids(n)[i] \in B
  BY BarrenKids
<1> HIDE DEF B
<1>3. PageFree(S)
  BY <1>1, <1>2 DEF PageFree
<1>4. S \in SUBSET Node
  BY DEF B
<1> QED BY <1>3, <1>4 DEF Barren

\* A document without a page.
LEMMA NoPageMet ==
  ASSUME TreeTyped, Pages(Root), Barren(Root)
  PROVE  DocumentOrder = <<>>
<1> DEFINE Good(met) == /\ met.pages = <<>>
                        /\ \A i \in 1..Len(met.nodes) : Barren(met.nodes[i])
           I == {k \in Nat : Good(Met[k])}
<1>0. \A k \in Nat : Met[k] \in Progress /\ Met[k].nodes \in Seq(Node)
  BY MetTurns DEF Progress
<1>1. 0 \in I
  <2>1. Met[0].nodes = <<>> /\ Met[0].pages = <<>> /\ Len(<<>>) = 0
    BY MetTurns DEF NothingMet
  <2> QED BY <2>1
<1>2. ASSUME NEW k \in Nat, k \in I PROVE k+1 \in I
  <2> DEFINE nodes == Met[k].nodes
  <2>1. Met[k+1] = MeetNext[Met[k]]
    BY MetTurns
  <2>2. CASE AllFinished(nodes)
    <3>1. Met[k+1] = Met[k]
      BY <1>0, <2>1, <2>2, TurnOfWalk
    <3> QED BY <1>2, <3>1
  <2>3. CASE ~AllFinished(nodes)
    <3>1. PICK n \in Node : IsNext(nodes, n)
      BY <1>0, <2>3, TurnOfWalk
    <3>2. Met[k+1] = Meet(Met[k], n)
      BY <1>0, <2>1, <3>1, TurnOfWalk
    <3>3. Barren(n)
      <4>1. PICK i \in 0..Len(nodes) : \E j \in 1..Len(KidsAt(nodes, i)) : n = KidsAt(nodes, i)[j]
        BY <3>1 DEF IsNext
      <4>2. CASE i = 0
        BY <4>1, <4>2, BarrenKids DEF KidsAt
      <4>3. CASE i # 0 /\ Pages(nodes[i])
        <5>1. i \in 1..Len(nodes)
          BY <1>0, <4>3
        <5>2. Barren(nodes[i])
          BY <1>2, <5>1
        <5> QED BY <4>1, <4>3, <5>2, BarrenKids DEF KidsAt
      <4>4. CASE i # 0 /\ ~Pages(nodes[i])
        BY <4>1, <4>4 DEF KidsAt
      <4> QED BY <4>2, <4>3, <4>4
    <3>4. Met[k+1].pages = <<>> /\ Met[k+1].nodes = Append(nodes, n)
      BY <1>2, <3>2, <3>3, BarrenKids DEF Meet
    <3>5. \A i \in 1..Len(Append(nodes, n)) :
            \/ i \in 1..Len(nodes) /\ Append(nodes, n)[i] = nodes[i]
            \/ Append(nodes, n)[i] = n
      BY <1>0, AppendProperties
    <3>6. \A i \in 1..Len(Append(nodes, n)) : Barren(Append(nodes, n)[i])
      BY <1>2, <3>3, <3>5
    <3> HIDE DEF nodes
    <3> QED BY <3>4, <3>6
  <2> QED BY <2>2, <2>3
<1>3. Nat \subseteq I
  <2> HIDE DEF I
  <2> QED BY <1>1, <1>2, SetInduction
<1>4. Cardinality(Node) \in Nat
  BY NodeAssumption, FS_CardinalityType
<1> QED BY <1>3, <1>4 DEF DocumentOrder

\* way goes down from the root to a page, in each node past kids without pages.
BarrenUpTo(n, c) == \A h \in 1..c : Barren(Kids(n)[h])

LeadsOn(n, c, m) ==
  /\ c \in 1..Len(Kids(n))
  /\ Kids(n)[c] = m
  /\ BarrenUpTo(n, c-1)

IsWay(way, L) ==
  /\ L \in Nat \ {0}
  /\ way \in [1..L+1 -> Node]
  /\ way[1] = Root
  /\ \A l \in 1..L : Pages(way[l]) /\ \E c \in Nat : LeadsOn(way[l], c, way[l+1])
  /\ Page(way[L+1])

LEMMA WayNotBarren ==
  ASSUME NEW way, NEW L, IsWay(way, L), NEW l \in 1..L+1
  PROVE  ~Barren(way[l])
<1> SUFFICES ASSUME NEW S \in SUBSET Node, way[l] \in S, PageFree(S) PROVE FALSE
  BY DEF Barren
<1> DEFINE m == L + 2 - l
           T == {k \in 1..m : way[l + k - 1] \in S}
<1>0. L \in Nat \ {0}
  BY DEF IsWay
<1>1. m \in Nat /\ m >= 1
  BY <1>0
<1>2. 1 \in T
  <2>1. l + 1 - 1 = l
    BY <1>0
  <2> QED BY <1>1, <2>1
<1>3. ASSUME NEW k \in 1..m-1, k \in T PROVE k+1 \in T
  <2> DEFINE i == l + k - 1
  <2>1. i \in 1..L /\ i + 1 = l + (k+1) - 1 /\ k+1 \in 1..m
    BY <1>0
  <2>2. way[i] \in S
    BY <1>3
  <2> HIDE DEF i, m
  <2>3. Pages(way[i]) /\ \E c \in 1..Len(Kids(way[i])) : Kids(way[i])[c] = way[i+1]
    BY <2>1 DEF IsWay, LeadsOn
  <2>4. way[i+1] \in S
    BY <2>2, <2>3 DEF PageFree
  <2> QED BY <2>1, <2>4
<1>4. m \in T
  <2>1. T = 1..m
    <3> HIDE DEF m
    <3> QED BY <1>1, <1>2, <1>3, FromEachToTheNext
  <2> HIDE DEF T
  <2> QED BY <1>1, <2>1
<1>5. l + m - 1 = L + 1
  BY <1>0
<1> QED BY <1>4, <1>5 DEF IsWay, PageFree

LEMMA WayGoesOn ==
  ASSUME NEW way, NEW L, IsWay(way, L), NEW a \in 1..L, NEW b \in 1..L, way[a] = way[b]
  PROVE  way[a+1] = way[b+1]
<1>1. PICK c \in Nat : LeadsOn(way[a], c, way[a+1])
  BY DEF IsWay
<1>2. PICK d \in Nat : LeadsOn(way[b], d, way[b+1])
  BY DEF IsWay
<1>3. ~Barren(way[a+1]) /\ ~Barren(way[b+1])
  <2>1. a+1 \in 1..L+1 /\ b+1 \in 1..L+1
    BY DEF IsWay
  <2> QED BY <2>1, WayNotBarren
<1>4. c \in Nat \ {0} /\ d \in Nat \ {0}
  BY <1>1, <1>2 DEF LeadsOn
<1>5. ~(c < d)
  BY <1>1, <1>2, <1>3, <1>4 DEF LeadsOn, BarrenUpTo
<1>6. ~(d < c)
  BY <1>1, <1>2, <1>3, <1>4 DEF LeadsOn, BarrenUpTo
<1>7. c = d
  BY <1>4, <1>5, <1>6
<1> QED BY <1>1, <1>2, <1>7 DEF LeadsOn

\* A way that came to a node twice would never come to the page.
LEMMA WayHasNoLoop ==
  ASSUME NEW way, NEW L, IsWay(way, L), NEW a \in 1..L+1, NEW b \in 1..L+1, a < b
  PROVE  way[a] # way[b]
<1> SUFFICES ASSUME way[a] = way[b] PROVE FALSE
  OBVIOUS
<1> DEFINE m == L + 2 - b
           T == {k \in 1..m : way[a + k - 1] = way[b + k - 1]}
<1>0. L \in Nat \ {0}
  BY DEF IsWay
<1>1. m \in Nat /\ m >= 1
  BY <1>0
<1>2. 1 \in T
  <2>1. a + 1 - 1 = a /\ b + 1 - 1 = b
    BY <1>0
  <2> QED BY <1>1, <2>1
<1>3. ASSUME NEW k \in 1..m-1, k \in T PROVE k+1 \in T
  <2>1. /\ a + k - 1 \in 1..L /\ b + k - 1 \in 1..L /\ k+1 \in 1..m
        /\ (a + k - 1) + 1 = a + (k+1) - 1 /\ (b + k - 1) + 1 = b + (k+1) - 1
    BY <1>0
  <2>2. way[a + k - 1] = way[b + k - 1]
    BY <1>3
  <2> QED BY <2>1, <2>2, WayGoesOn
<1>4. m \in T
  <2>1. T = 1..m
    <3> HIDE DEF m
    <3> QED BY <1>1, <1>2, <1>3, FromEachToTheNext
  <2> HIDE DEF T
  <2> QED BY <1>1, <2>1
<1>5. b + m - 1 = L + 1 /\ a + m - 1 \in 1..L
  BY <1>0
<1>6. Pages(way[L+1]) /\ Page(way[L+1])
  BY <1>4, <1>5 DEF IsWay
<1> QED BY <1>6 DEF Pages, Page

(***************************************************************************)
(* Until the page at its end is met, the walk has met of the way the nodes *)
(* up to the t-th, that one at p, and what it met besides has no page      *)
(* under it.                                                               *)
(***************************************************************************)
HeadsFor(nodes, way, t, p) ==
  /\ IF t = 1 THEN p = 0 ELSE p # 0 /\ nodes[p] = way[t]
  /\ \A i \in 1..Len(nodes) : Barren(nodes[i]) \/ \E l \in 2..t : nodes[i] = way[l]
  /\ \A i \in p+1..Len(nodes) : Barren(nodes[i])

LEMMA HeadNext ==
  ASSUME TreeTyped, NEW way, NEW L, IsWay(way, L), NEW nodes \in Seq(Node),
         NEW t \in 1..L, NEW p \in 0..Len(nodes), HeadsFor(nodes, way, t, p)
  PROVE  /\ ~IsMet(nodes, way[t+1]) /\ ~AllFinished(nodes)
         /\ \A n : IsNext(nodes, n) => Barren(n) \/ n = way[t+1]
<1>0. L \in Nat \ {0} /\ Len(nodes) \in Nat /\ t+1 \in 1..L+1
  BY DEF IsWay
<1>1. ~IsMet(nodes, way[t+1])
  <2> SUFFICES ASSUME NEW i \in 1..Len(nodes), nodes[i] = way[t+1] PROVE FALSE
    BY DEF IsMet
  <2>1. ~Barren(nodes[i])
    BY <1>0, WayNotBarren
  <2>2. PICK l \in 2..t : nodes[i] = way[l]
    BY <2>1 DEF HeadsFor
  <2>3. l \in 1..L+1 /\ l < t+1
    BY <1>0
  <2> QED BY <1>0, <2>2, <2>3, WayHasNoLoop
<1> DEFINE kids == KidsAt(nodes, p)
<1>2. kids = Kids(way[t])
  BY DEF HeadsFor, KidsAt, IsWay
<1>3. PICK c \in Nat : LeadsOn(way[t], c, way[t+1])
  BY DEF IsWay
<1> HIDE DEF kids
<1>4. c \in 1..Len(kids) /\ kids[c] = way[t+1] /\ \A h \in 1..c-1 : Barren(kids[h])
  BY <1>2, <1>3 DEF LeadsOn, BarrenUpTo
<1>5. ~Finished(nodes, p)
  BY <1>1, <1>4 DEF Finished, kids
<1>6. ASSUME NEW n, IsNext(nodes, n) PROVE Barren(n) \/ n = way[t+1]
  <2>1. PICK i \in 0..Len(nodes), j \in Nat \ {0} : NextAt(nodes, n, i, j)
    BY <1>6, NextPlace
  <2>2. /\ j <= Len(KidsAt(nodes, i)) /\ n = KidsAt(nodes, i)[j]
        /\ \A l \in 1..j-1 : IsMet(nodes, KidsAt(nodes, i)[l])
        /\ \A l \in i+1..Len(nodes) : Finished(nodes, l)
    BY <2>1 DEF NextAt
  <2>3. ~(i < p)
    BY <1>0, <1>5, <2>2
  <2>4. CASE i = p
    <3>1. ~(c < j)
      <4> SUFFICES ASSUME c < j PROVE FALSE
        OBVIOUS
      <4>1. c \in 1..j-1
        BY <1>4
      <4> QED BY <1>1, <1>4, <2>2, <2>4, <4>1 DEF kids
    <3>2. j = c \/ j \in 1..c-1
      BY <3>1
    <3> QED BY <1>4, <2>2, <2>4, <3>2 DEF kids
  <2>5. CASE i > p
    <3>1. i \in p+1..Len(nodes) /\ i # 0 /\ i \in 1..Len(nodes)
      BY <1>0, <2>5
    <3>2. Barren(nodes[i])
      BY <3>1 DEF HeadsFor
    <3>3. CASE Pages(nodes[i])
      <4>1. KidsAt(nodes, i) = Kids(nodes[i]) /\ Len(Kids(nodes[i])) \in Nat
        BY <3>1, <3>3, KidsTyped DEF KidsAt
      <4>2. j \in 1..Len(Kids(nodes[i]))
        BY <2>2, <4>1
      <4> QED BY <2>2, <3>2, <3>3, <4>1, <4>2, BarrenKids
    <3>4. CASE ~Pages(nodes[i])
      <4>1. Len(KidsAt(nodes, i)) = 0
        BY <3>1, <3>4 DEF KidsAt
      <4> QED BY <2>2, <4>1
    <3> QED BY <3>3, <3>4
  <2> QED BY <2>3, <2>4, <2>5
<1> QED BY <1>1, <1>5, <1>6 DEF AllFinished

OnTheWay(met, way, L) ==
  IF met.pages = <<>>
  THEN \E t \in 1..L : \E p \in 0..Len(met.nodes) : HeadsFor(met.nodes, way, t, p)
  ELSE met.pages[1] = way[L+1]

LEMMA MeetOnTheWay ==
  ASSUME TreeTyped, NEW way, NEW L, IsWay(way, L), NEW met \in Progress,
         NEW n \in Node, IsNext(met.nodes, n), OnTheWay(met, way, L)
  PROVE  OnTheWay(Meet(met, n), way, L)
<1> DEFINE nodes == met.nodes
           more == Append(nodes, n)
<1>0. /\ L \in Nat \ {0} /\ nodes \in Seq(Node) /\ met.pages \in Seq(Node)
      /\ Meet(met, n).nodes = more
      /\ Meet(met, n).pages = IF Page(n) THEN Append(met.pages, n) ELSE met.pages
  BY DEF IsWay, Progress, Meet
<1>1. /\ Len(nodes) \in Nat /\ Len(more) = Len(nodes) + 1 /\ more[Len(nodes)+1] = n
      /\ \A i \in 1..Len(nodes) : more[i] = nodes[i]
      /\ \A i \in 1..Len(more) : i \in 1..Len(nodes) \/ i = Len(nodes)+1
  BY <1>0, AppendProperties
<1>2. CASE met.pages # <<>>
  <2>1. Len(met.pages) \in Nat \ {0}
    BY <1>0, <1>2, EmptySeq
  <2>2. /\ Append(met.pages, n) # <<>>
        /\ Append(met.pages, n)[1] = met.pages[1]
    BY <1>0, <2>1, AppendProperties, EmptySeq
  <2> QED BY <1>0, <1>2, <2>2 DEF OnTheWay
<1>3. CASE met.pages = <<>>
  <2>1. PICK t \in 1..L, p \in 0..Len(nodes) : HeadsFor(nodes, way, t, p)
    BY <1>3 DEF OnTheWay
  <2>2. Barren(n) \/ n = way[t+1]
    BY <1>0, <2>1, HeadNext
  <2> HIDE DEF nodes, more
  <2>3. CASE Barren(n)
    <3>1. Meet(met, n).pages = <<>> /\ p \in 0..Len(more)
      BY <1>0, <1>1, <1>3, <2>3, BarrenKids
    <3>2. HeadsFor(more, way, t, p)
      <4>1. IF t = 1 THEN p = 0 ELSE p # 0 /\ more[p] = way[t]
        BY <1>1, <2>1 DEF HeadsFor
      <4>2. \A i \in 1..Len(more) : Barren(more[i]) \/ \E l \in 2..t : more[i] = way[l]
        BY <1>1, <2>1, <2>3 DEF HeadsFor
      <4>3. ASSUME NEW i \in p+1..Len(more) PROVE Barren(more[i])
        <5>1. (i \in p+1..Len(nodes) /\ more[i] = nodes[i]) \/ more[i] = n
          BY <1>1
        <5> QED BY <2>1, <2>3, <5>1 DEF HeadsFor
      <4> QED BY <4>1, <4>2, <4>3 DEF HeadsFor
    <3> QED BY <1>0, <3>1, <3>2 DEF OnTheWay
  <2>4. CASE n = way[t+1] /\ t # L
    <3>1. t+1 \in 1..L /\ t+1 # 1 /\ \A l \in 2..t : l \in 2..t+1
      BY <1>0, <2>4
    <3>2. Meet(met, n).pages = <<>>
      BY <1>0, <1>3, <2>4, <3>1 DEF IsWay, Pages, Page
    <3> DEFINE q == Len(nodes) + 1
    <3>3. q \in 0..Len(more) /\ q # 0 /\ more[q] = way[t+1] /\ \A i \in q+1..Len(more) : FALSE
      BY <1>1, <2>4
    <3>4. \A i \in 1..Len(more) : Barren(more[i]) \/ \E l \in 2..t+1 : more[i] = way[l]
      <4>1. t+1 \in 2..t+1
        BY <1>0
      <4> QED BY <1>1, <2>1, <2>4, <3>1, <4>1 DEF HeadsFor
    <3> HIDE DEF q
    <3>5. HeadsFor(more, way, t+1, q)
      BY <3>1, <3>3, <3>4 DEF HeadsFor
    <3> QED BY <1>0, <3>1, <3>2, <3>3, <3>5 DEF OnTheWay
  <2>5. CASE n = way[t+1] /\ t = L
    <3>1. Page(n)
      BY <2>5 DEF IsWay
    <3>2. Append(<<>>, n) = <<n>> /\ <<n>> # <<>> /\ <<n>>[1] = n
      OBVIOUS
    <3> QED BY <1>0, <1>3, <2>5, <3>1, <3>2 DEF OnTheWay
  <2> QED BY <2>2, <2>3, <2>4, <2>5
<1> QED BY <1>2, <1>3

\* The page at the end of such a way is the first of the document.
LEMMA WayToFirstPage ==
  ASSUME TreeTyped, NEW way, NEW L, IsWay(way, L)
  PROVE  DocumentOrder # <<>> /\ DocumentOrder[1] = way[L+1]
<1> DEFINE I == {k \in Nat : OnTheWay(Met[k], way, L)}
           N == Cardinality(Node)
<1>0. \A k \in Nat : Met[k] \in Progress /\ Met[k].nodes \in Seq(Node)
  BY MetTurns DEF Progress
<1>1. 0 \in I
  <2>1. Met[0].nodes = <<>> /\ Met[0].pages = <<>> /\ Len(<<>>) = 0
    BY MetTurns DEF NothingMet
  <2>2. HeadsFor(<<>>, way, 1, 0)
    BY <2>1 DEF HeadsFor
  <2>3. 1 \in 1..L
    BY DEF IsWay
  <2> QED BY <2>1, <2>2, <2>3 DEF OnTheWay
<1>2. ASSUME NEW k \in Nat, k \in I PROVE k+1 \in I
  <2>1. Met[k+1] = MeetNext[Met[k]]
    BY MetTurns
  <2>2. CASE AllFinished(Met[k].nodes)
    <3>1. Met[k+1] = Met[k]
      BY <1>0, <2>1, <2>2, TurnOfWalk
    <3> QED BY <1>2, <3>1
  <2>3. CASE ~AllFinished(Met[k].nodes)
    <3>1. PICK n \in Node : IsNext(Met[k].nodes, n)
      BY <1>0, <2>3, TurnOfWalk
    <3>2. Met[k+1] = Meet(Met[k], n)
      BY <1>0, <2>1, <3>1, TurnOfWalk
    <3> QED BY <1>0, <1>2, <3>1, <3>2, MeetOnTheWay
  <2> QED BY <2>2, <2>3
<1>3. Nat \subseteq I
  <2> HIDE DEF I
  <2> QED BY <1>1, <1>2, SetInduction
<1>4. N \in Nat
  BY NodeAssumption, FS_CardinalityType
<1>5. OnTheWay(Met[N], way, L)
  BY <1>3, <1>4
<1>6. DocumentOrder # <<>>
  <2> SUFFICES ASSUME Met[N].pages = <<>> PROVE FALSE
    BY DEF DocumentOrder
  <2> DEFINE nodes == Met[N].nodes
             seen == {n \in Node : IsMet(nodes, n)}
  <2>1. PICK t \in 1..L, p \in 0..Len(nodes) : HeadsFor(nodes, way, t, p)
    BY <1>5 DEF OnTheWay
  <2>2. ~IsMet(nodes, way[t+1]) /\ ~AllFinished(nodes)
    BY <1>0, <1>4, <2>1, HeadNext
  <2>3. Cardinality(seen) = N
    BY <1>4, <2>2, MetCount
  <2>4. seen = Node
    <3>1. seen \subseteq Node
      OBVIOUS
    <3> HIDE DEF seen
    <3> QED BY <2>3, <3>1, NodeAssumption, FS_Subset
  <2>5. way[t+1] \in Node
    BY DEF IsWay
  <2> QED BY <2>2, <2>4, <2>5
<1> QED BY <1>5, <1>6 DEF OnTheWay, DocumentOrder
==============================================================================
