------------------------- MODULE PageIteratorProofs --------------------------
(* The page iterator on every tree: any number of nodes, kids and cycles. *)
EXTENDS PageIteration, PageOrderProofs

(***************************************************************************)
(* A page was marked before it was returned, so a second visit to its      *)
(* reference never gets as far as returning it.                            *)
(***************************************************************************)
ReturnedSeen == \A i \in 1..Len(out) : out[i].ref \in visited

IInv == TypeOK /\ ReturnedSeen /\ NoPageTwice /\ NoBranchLost

\* A kid is in a stack at a place in one of its arrays.
LEMMA InStack ==
  ASSUME NEW stack, NEW m
  PROVE  m \in KidsIn(stack) <=>
           \E i \in 1..Len(stack) : \E j \in 1..Len(stack[i]) : m = stack[i][j]
BY DEF KidsIn

\* A stack without its innermost array.
LEMMA ShorterStack ==
  ASSUME NEW s \in Seq(Seq(Node)), s # <<>>
  PROVE  LET b == SubSeq(s, 1, Len(s) - 1)
         IN  /\ b \in Seq(Seq(Node))
             /\ Len(b) = Len(s) - 1
             /\ \A i \in 1..Len(b) : b[i] = s[i]
<1> DEFINE m == Len(s) - 1
           b == SubSeq(s, 1, m)
<1>1. Len(s) \in Nat \ {0}
  BY EmptySeq
<1>2. m \in Nat /\ m \in Int /\ \A i \in 1..m : s[i] \in Seq(Node)
  BY <1>1
<1> HIDE DEF m
<1>3. /\ b \in Seq(Seq(Node))
      /\ Len(b) = IF 1 <= m THEN m-1+1 ELSE 0
      /\ \A i \in 1..m-1+1 : b[i] = s[1+i-1]
  BY <1>2, SubSeqProperties
<1> HIDE DEF b
<1>4. Len(b) = m
  BY <1>2, <1>3
<1>5. \A i \in 1..m : b[i] = s[i]
  BY <1>2, <1>3
<1> QED BY <1>3, <1>4, <1>5 DEF m, b

LEMMA InitIInv == Init => IInv
<1> SUFFICES ASSUME Init PROVE IInv
  OBVIOUS
<1>0. tree[Root] \in NodeObject /\ Kids(Root) \in Seq(Node)
  BY RootAssumption, TreesAssumption DEF Init, Kids, NodeObject
<1>1. TypeOK
  <2>1. tree \in [Node -> NodeObject]
    BY TreesAssumption DEF Init
  <2>2. <<Kids(Root)>> \in Seq(Seq(Node)) /\ <<>> \in Seq(Returned)
    BY <1>0
  <2> QED BY <2>1, <2>2 DEF Init, TypeOK
<1>2. ReturnedSeen /\ NoPageTwice
  BY DEF Init, ReturnedSeen, NoPageTwice
<1>3. NoBranchLost
  <2>1. kidsStack[1] = Kids(Root) /\ Len(kidsStack) = 1 /\ visited = {}
    BY <1>0 DEF Init
  <2>2. \A j \in 1..Len(Kids(Root)) : Kids(Root)[j] \in Pending
    BY <2>1, InStack DEF Pending
  <2> QED BY <2>1, <2>2 DEF NoBranchLost
<1> QED BY <1>1, <1>2, <1>3 DEF IInv

\* The innermost array and its first kid.
LEMMA AtKidTypes ==
  ASSUME TypeOK, AtKid
  PROVE  /\ Len(kidsStack) \in Nat \ {0}
         /\ Top \in Seq(Node) /\ Len(Top) \in Nat \ {0}
         /\ Head(Top) \in Node /\ Head(Top) = Top[1]
         /\ Below \in Seq(Seq(Node)) /\ Len(Below) = Len(kidsStack) - 1
         /\ \A i \in 1..Len(Below) : Below[i] = kidsStack[i]
         /\ Tail(Top) \in Seq(Node) /\ Len(Tail(Top)) = Len(Top) - 1
         /\ \A j \in 1..Len(Tail(Top)) : Tail(Top)[j] = Top[j+1]
<1>1. kidsStack \in Seq(Seq(Node)) /\ kidsStack # <<>>
  BY DEF TypeOK, AtKid
<1>2. Len(kidsStack) \in Nat \ {0}
  BY <1>1, EmptySeq
<1>3. Top \in Seq(Node) /\ Top # <<>>
  BY <1>1, <1>2 DEF Top, AtKid
<1>4. /\ Below \in Seq(Seq(Node)) /\ Len(Below) = Len(kidsStack) - 1
      /\ \A i \in 1..Len(Below) : Below[i] = kidsStack[i]
  BY <1>1, ShorterStack DEF Below
<1>5. Len(Top) \in Nat \ {0}
  BY <1>3, EmptySeq
<1>6. /\ Head(Top) \in Node /\ Head(Top) = Top[1]
      /\ Tail(Top) \in Seq(Node) /\ Len(Tail(Top)) = Len(Top) - 1
      /\ \A j \in 1..Len(Tail(Top)) : Tail(Top)[j] = Top[j+1]
  BY <1>3, <1>5, HeadTailProperties
<1> QED BY <1>2, <1>3, <1>4, <1>5, <1>6

\* The stack without its first kid, alone or with the kids of a node on top.
LEMMA AdvancedTypes ==
  ASSUME TypeOK, AtKid, NEW k \in Seq(Node)
  PROVE  /\ Advanced \in Seq(Seq(Node)) /\ Append(Advanced, k) \in Seq(Seq(Node))
         /\ Len(Advanced) = Len(kidsStack)
         /\ Len(Append(Advanced, k)) = Len(kidsStack) + 1
         /\ Append(Advanced, k)[Len(kidsStack) + 1] = k
         /\ \A i \in 1..Len(kidsStack) : Append(Advanced, k)[i] = Advanced[i]
         /\ Advanced[Len(kidsStack)] = Tail(Top)
         /\ \A i \in 1..Len(kidsStack)-1 : Advanced[i] = kidsStack[i]
<1>1. /\ Len(kidsStack) \in Nat \ {0}
      /\ Below \in Seq(Seq(Node)) /\ Len(Below) = Len(kidsStack) - 1
      /\ \A i \in 1..Len(Below) : Below[i] = kidsStack[i]
      /\ Tail(Top) \in Seq(Node)
  BY AtKidTypes
<1>2. /\ Advanced \in Seq(Seq(Node)) /\ Len(Advanced) = Len(kidsStack)
      /\ Advanced[Len(kidsStack)] = Tail(Top)
      /\ \A i \in 1..Len(kidsStack)-1 : Advanced[i] = kidsStack[i]
  BY <1>1, AppendProperties DEF Advanced
<1>3. /\ Append(Advanced, k) \in Seq(Seq(Node))
      /\ Len(Append(Advanced, k)) = Len(kidsStack) + 1
      /\ Append(Advanced, k)[Len(kidsStack) + 1] = k
      /\ \A i \in 1..Len(kidsStack) : Append(Advanced, k)[i] = Advanced[i]
  BY <1>1, <1>2, AppendProperties
<1> QED BY <1>2, <1>3

\* Taking the first kid off the stack loses that kid and no other.
LEMMA PendingAdvances ==
  ASSUME TypeOK, AtKid, NEW k \in Seq(Node),
         kidsStack' = Advanced \/ kidsStack' = Append(Advanced, k)
  PROVE  Pending \subseteq Pending' \union {Head(Top)}
<1> SUFFICES ASSUME NEW m \in Pending, m # Head(Top)
             PROVE  m \in Pending'
  OBVIOUS
<1>a. PICK i \in 1..Len(kidsStack) : \E j \in 1..Len(kidsStack[i]) : m = kidsStack[i][j]
  BY InStack DEF Pending
<1>b. PICK j \in 1..Len(kidsStack[i]) : m = kidsStack[i][j]
  BY <1>a
<1>0. Len(kidsStack) \in Nat \ {0}
  BY AtKidTypes
<1>1. \E r \in 1..Len(kidsStack') : \E s \in 1..Len(kidsStack'[r]) :
        m = kidsStack'[r][s]
  <2>1. /\ i \in 1..Len(kidsStack')
        /\ kidsStack'[i] = Advanced[i]
    <3>1. CASE kidsStack' = Advanced
      BY <1>0, <3>1, AdvancedTypes
    <3>2. CASE kidsStack' = Append(Advanced, k)
      BY <1>0, <3>2, AdvancedTypes
    <3> QED BY <3>1, <3>2
  <2>2. CASE i \in 1..Len(kidsStack)-1
    <3>1. kidsStack'[i] = kidsStack[i]
      BY <2>1, <2>2, AdvancedTypes
    <3> QED BY <1>b, <2>1, <3>1
  <2>3. CASE i = Len(kidsStack)
    <3>1. kidsStack[i] = Top /\ kidsStack'[i] = Tail(Top)
      BY <2>1, <2>3, AdvancedTypes DEF Top
    <3>2. j # 1 /\ j-1 \in 1..Len(Tail(Top)) /\ Tail(Top)[j-1] = Top[j]
      BY <1>b, <3>1, AtKidTypes
    <3> QED BY <1>b, <2>1, <3>1, <3>2
  <2> QED BY <1>0, <2>2, <2>3
<1> QED BY <1>1, InStack DEF Pending

\* The kids put on top are pending.
LEMMA PendingKids ==
  ASSUME TypeOK, AtKid, NEW k \in Seq(Node), kidsStack' = Append(Advanced, k)
  PROVE  \A j \in 1..Len(k) : k[j] \in Pending'
<1>1. Len(kidsStack) + 1 \in 1..Len(kidsStack') /\ kidsStack'[Len(kidsStack) + 1] = k
  BY AtKidTypes, AdvancedTypes
<1> QED BY <1>1, InStack DEF Pending

(***************************************************************************)
(* A turn that takes the first kid off the stack: a kid that is a /Pages   *)
(* node and was not seen before is descended into.                         *)
(***************************************************************************)
LEMMA TakeKidLosesNothing ==
  ASSUME IInv, AtKid, tree' = tree, NEW k \in Seq(Node),
         visited' = visited \union {Head(Top)},
         \/ kidsStack' = Advanced /\ (Head(Top) \in visited \/ ~Pages(Head(Top)))
         \/ kidsStack' = Append(Advanced, k) /\ k = Kids(Head(Top))
  PROVE  NoBranchLost'
<1> SUFFICES ASSUME NEW n \in {Root} \union {m \in visited' : Pages(m)},
                    NEW i \in 1..Len(Kids(n))
             PROVE  Kids(n)[i] \in visited' \union Pending'
  BY DEF NoBranchLost, Pages, Kids
<1>1. Pending \subseteq Pending' \union visited'
  BY PendingAdvances DEF IInv
<1>2. CASE n \in {Root} \union {m \in visited : Pages(m)}
  <2>1. Kids(n)[i] \in visited \union Pending
    BY <1>2 DEF IInv, NoBranchLost
  <2> QED BY <1>1, <2>1
<1>3. CASE n = Head(Top) /\ n \notin visited /\ Pages(n)
  <2>1. kidsStack' = Append(Advanced, k) /\ k = Kids(n)
    BY <1>3
  <2> QED BY <2>1, PendingKids DEF IInv
<1> QED BY <1>2, <1>3

LEMMA ReturnPageIInv ==
  ASSUME IInv, ReturnPage
  PROVE  IInv'
<1> DEFINE n == Head(Top)
<1>0. /\ AtKid /\ n \notin visited /\ visited' = visited \union {n}
      /\ Page(n) /\ ~Pages(n) /\ kidsStack' = Advanced /\ tree' = tree
  BY DEF ReturnPage, Visit, Page, Pages
<1>1. n \in Node /\ out \in Seq(Returned) /\ Len(out) \in Nat
  BY <1>0, AtKidTypes DEF IInv, TypeOK
<1>2. [num |-> pageNum', ref |-> n, fresh |-> fresh] \in Returned
  BY <1>1 DEF IInv, TypeOK, Returned, ReturnPage
<1>3. /\ out' \in Seq(Returned) /\ Len(out') = Len(out) + 1
      /\ out'[Len(out)+1].ref = n
      /\ \A i \in 1..Len(out) : out'[i] = out[i]
  BY <1>1, <1>2, AppendProperties DEF ReturnPage
<1>4. \A i \in 1..Len(out') : i \in 1..Len(out) \/ i = Len(out)+1
  BY <1>1, <1>3
<1>5. TypeOK'
  <2>1. Advanced \in Seq(Seq(Node))
    BY <1>0, AdvancedTypes, EmptySeq DEF IInv
  <2>2. visited' \subseteq Node /\ pageNum' \in Nat
    BY <1>0, <1>1 DEF IInv, TypeOK, ReturnPage
  <2> QED BY <1>0, <1>3, <2>1, <2>2 DEF IInv, TypeOK, ReturnPage
<1>6. ReturnedSeen'
  BY <1>0, <1>3, <1>4 DEF IInv, ReturnedSeen
<1>7. NoPageTwice'
  <2> SUFFICES ASSUME NEW i \in 1..Len(out'), NEW j \in 1..Len(out'),
                      out'[i].ref = out'[j].ref
               PROVE  i = j
    BY DEF NoPageTwice
  <2>1. \A h \in 1..Len(out) : out'[h].ref # n
    BY <1>0, <1>3 DEF IInv, ReturnedSeen
  <2>2. CASE i \in 1..Len(out) /\ j \in 1..Len(out)
    BY <1>3, <2>2 DEF IInv, NoPageTwice
  <2> QED BY <1>3, <1>4, <2>1, <2>2
<1>8. NoBranchLost'
  BY <1>0, TakeKidLosesNothing, EmptySeq
<1> QED BY <1>5, <1>6, <1>7, <1>8 DEF IInv

\* The turns that take a kid off the stack and return no page.
LEMMA TakeKidIInv ==
  ASSUME IInv, SkipSeen \/ SkipUnusable \/ Descend \/ PassBlank
  PROVE  IInv'
<1> DEFINE n == Head(Top)
<1>1. /\ AtKid /\ tree' = tree /\ out' = out /\ visited' = visited \union {n}
      /\ calling' = calling /\ exhausted' = exhausted /\ fresh' = fresh
      /\ halfReset' = halfReset /\ pageNum' \in Nat
  BY DEF SkipSeen, SkipUnusable, Descend, PassBlank, Visit, IInv, TypeOK
<1>2. n \in Node /\ Kids(n) \in Seq(Node)
  BY <1>1, AtKidTypes DEF IInv, TypeOK, Kids, NodeObject
<1>3. \/ kidsStack' = Advanced /\ (n \in visited \/ ~Pages(n))
      \/ kidsStack' = Append(Advanced, Kids(n))
  BY DEF SkipSeen, SkipUnusable, Descend, PassBlank, Pages, Page
<1>4. TypeOK'
  <2>1. kidsStack' \in Seq(Seq(Node))
    BY <1>1, <1>2, <1>3, AdvancedTypes DEF IInv
  <2> QED BY <1>1, <1>2, <2>1 DEF IInv, TypeOK
<1>5. ReturnedSeen' /\ NoPageTwice'
  BY <1>1 DEF IInv, ReturnedSeen, NoPageTwice
<1>6. NoBranchLost'
  BY <1>1, <1>2, <1>3, TakeKidLosesNothing
<1> QED BY <1>4, <1>5, <1>6 DEF IInv

\* The array that is popped is empty: nothing pending is lost.
LEMMA PopEmptyIInv ==
  ASSUME IInv, PopEmpty
  PROVE  IInv'
<1>1. kidsStack \in Seq(Seq(Node)) /\ Len(kidsStack) \in Nat \ {0} /\ Top = <<>>
  BY EmptySeq DEF IInv, TypeOK, PopEmpty
<1>2. /\ kidsStack' \in Seq(Seq(Node)) /\ Len(kidsStack') = Len(kidsStack) - 1
      /\ \A i \in 1..Len(kidsStack') : kidsStack'[i] = kidsStack[i]
  BY <1>1, ShorterStack, EmptySeq DEF PopEmpty, Below
<1>3. TypeOK' /\ ReturnedSeen' /\ NoPageTwice'
  BY <1>2 DEF PopEmpty, IInv, TypeOK, ReturnedSeen, NoPageTwice
<1>4. Pending \subseteq Pending'
  <2> SUFFICES ASSUME NEW m \in Pending PROVE m \in Pending'
    OBVIOUS
  <2>a. PICK i \in 1..Len(kidsStack) : \E j \in 1..Len(kidsStack[i]) : m = kidsStack[i][j]
    BY InStack DEF Pending
  <2>1. i # Len(kidsStack)
    <3>1. Len(Top) = 0
      BY <1>1
    <3> QED BY <1>1, <2>a, <3>1 DEF Top
  <2>2. i \in 1..Len(kidsStack') /\ kidsStack'[i] = kidsStack[i]
    BY <1>1, <1>2, <2>1
  <2> QED BY <2>a, <2>2, InStack DEF Pending
<1>5. NoBranchLost'
  BY <1>4 DEF PopEmpty, IInv, NoBranchLost, Pages, Kids
<1> QED BY <1>3, <1>5 DEF IInv

\* A Reset that reads the file begins as a new iterator does.
LEMMA ResetIInv ==
  ASSUME IInv, Reset
  PROVE  IInv'
<1>1. Kids(Root) \in Seq(Node)
  BY RootAssumption DEF IInv, TypeOK, Kids, NodeObject
<1>2. TypeOK' /\ ReturnedSeen' /\ NoPageTwice'
  <2>1. kidsStack' \in Seq(Seq(Node)) /\ out' \in Seq(Returned) /\ Len(out') = 0
    BY <1>1 DEF Reset
  <2>2. TypeOK'
    BY <2>1 DEF Reset, IInv, TypeOK
  <2> QED BY <2>1, <2>2 DEF ReturnedSeen, NoPageTwice
<1>3. kidsStack'[1] = Kids(Root) /\ Len(kidsStack') = 1 /\ visited' = {} /\ tree' = tree
  BY <1>1 DEF Reset
<1>4. \A j \in 1..Len(Kids(Root)) : Kids(Root)[j] \in Pending'
  BY <1>3, InStack DEF Pending
<1>5. NoBranchLost'
  BY <1>3, <1>4 DEF NoBranchLost, Pages, Kids
<1> QED BY <1>2, <1>5 DEF IInv

LEMMA StepIInv == IInv /\ [Next]_vars => IInv'
<1> SUFFICES ASSUME IInv, [Next]_vars PROVE IInv'
  OBVIOUS
<1>1. ASSUME UNCHANGED <<tree, kidsStack, visited, out>>, TypeOK'
      PROVE  IInv'
  BY <1>1 DEF IInv, ReturnedSeen, NoPageTwice, NoBranchLost, Pending, Pages, Kids
<1>2. CASE CallNext
  BY <1>1, <1>2 DEF CallNext, IInv, TypeOK
<1>3. CASE Exhaust
  BY <1>1, <1>3 DEF Exhaust, IInv, TypeOK
<1>4. CASE ResetFails
  BY <1>1, <1>4 DEF ResetFails, IInv, TypeOK
<1>5. CASE UNCHANGED vars
  BY <1>1, <1>5 DEF vars, IInv, TypeOK
<1> QED BY <1>2, <1>3, <1>4, <1>5, TakeKidIInv, ReturnPageIInv, PopEmptyIInv, ResetIInv
        DEF Next, Turn

(***************************************************************************)
(* The iterator's state keeps its types, whatever the tree                 *)
(* (iterator.go:16-67).                                                    *)
(***************************************************************************)
THEOREM TypeCorrect == Spec => []TypeOK
<1>1. IInv => TypeOK
  BY DEF IInv
<1> QED BY <1>1, InitIInv, StepIInv, PTL DEF Spec

(***************************************************************************)
(* In every tree, cyclic ones included, a page is returned at most once    *)
(* since the walk was begun, also when a Reset failed half way             *)
(* (iterator.go:102-106).                                                  *)
(***************************************************************************)
THEOREM EachPageOnce == Spec => []NoPageTwice
<1>1. IInv => NoPageTwice
  BY DEF IInv
<1> QED BY <1>1, InitIInv, StepIInv, PTL DEF Spec

(***************************************************************************)
(* In every tree, whatever a suspended walk has not looked at is reachable *)
(* from its stack (iterator.go:89-134).                                    *)
(***************************************************************************)
THEOREM EveryBranchWalked == Spec => []NoBranchLost
<1>1. IInv => NoBranchLost
  BY DEF IInv
<1> QED BY <1>1, InitIInv, StepIInv, PTL DEF Spec

-----------------------------------------------------------------------------
(***************************************************************************)
(* The order of the pages.  The references taken are the nodes that the    *)
(* walk of the document has met after as many turns, and every array of    *)
(* the stack is what is left of the kids of one of them.                   *)
(***************************************************************************)
SoFar == Met[Cardinality(visited)]

\* level is what is left of the kids of the i-th node met.
PartOfKids(level, nodes, i) ==
  LET kids == KidsAt(nodes, i)
      gone == Len(kids) - Len(level)
  IN  /\ gone \in Nat
      /\ \A j \in 1..Len(level) : level[j] = kids[gone + j]
      /\ \A j \in 1..gone : IsMet(nodes, kids[j])

\* pos says which node each array is of: later ones further up, and no other has a kid left.
StackedAt(stack, nodes, pos) ==
  /\ \A l \in 1..Len(stack) : PartOfKids(stack[l], nodes, pos[l])
  /\ \A l, m \in 1..Len(stack) : m < l => pos[m] < pos[l]
  /\ \A i \in 0..Len(nodes) : (\A l \in 1..Len(stack) : pos[l] # i) => Finished(nodes, i)

StackOf(stack, nodes) ==
  \E pos \in [1..Len(stack) -> 0..Len(nodes)] : StackedAt(stack, nodes, pos)

StackTrue ==
  /\ \A n \in Node : n \in visited <=> IsMet(SoFar.nodes, n)
  /\ StackOf(kidsStack, SoFar.nodes)
  /\ exhausted => kidsStack = <<>>

PagesTrue ==
  /\ pageNum = Len(SoFar.pages)
  /\ Len(out) = Len(SoFar.readable)
  /\ \A i \in 1..Len(out) : /\ out[i].ref = SoFar.readable[i]
                            /\ out[i].num \in 1..pageNum
                            /\ SoFar.pages[out[i].num] = out[i].ref

InOrder == ~halfReset => StackTrue /\ PagesTrue

OrderInv == IInv /\ InOrder

\* The first kid left on top of the stack is the next one of the walk.
LEMMA TopIsNext ==
  ASSUME TreeTyped, NEW stack \in Seq(Seq(Node)), NEW nodes \in Seq(Node),
         StackOf(stack, nodes), Len(stack) # 0, Len(stack[Len(stack)]) # 0,
         ~IsMet(nodes, stack[Len(stack)][1])
  PROVE  IsNext(nodes, stack[Len(stack)][1])
<1> DEFINE L == Len(stack)
           level == stack[L]
<1>1. L \in Nat \ {0} /\ Len(level) \in Nat \ {0}
  <2>1. L \in 1..L /\ L \in Nat
    OBVIOUS
  <2> QED BY <2>1
<1>2. PICK pos \in [1..L -> 0..Len(nodes)] : StackedAt(stack, nodes, pos)
  BY DEF StackOf
<1> DEFINE i == pos[L]
           kids == KidsAt(nodes, i)
           gone == Len(kids) - Len(level)
<1>3. i \in 0..Len(nodes) /\ L \in 1..L
  BY <1>1, <1>2
<1>4. /\ gone \in Nat /\ level[1] = kids[gone + 1]
      /\ \A j \in 1..gone : IsMet(nodes, kids[j])
  <2>1. PartOfKids(level, nodes, i)
    BY <1>2, <1>3 DEF StackedAt
  <2>2. 1 \in 1..Len(level)
    BY <1>1
  <2> HIDE DEF level, i
  <2> QED BY <2>1, <2>2 DEF PartOfKids
<1>5. \A l \in i+1..Len(nodes) : Finished(nodes, l)
  <2> SUFFICES ASSUME NEW l \in i+1..Len(nodes) PROVE Finished(nodes, l)
    OBVIOUS
  <2>1. \A h \in 1..L : pos[h] # l
    <3> SUFFICES ASSUME NEW h \in 1..L, pos[h] = l PROVE FALSE
      OBVIOUS
    <3>1. h < L => pos[h] < i
      BY <1>2, <1>3 DEF StackedAt
    <3> QED BY <1>1, <1>3, <3>1
  <2>2. l \in 0..Len(nodes)
    BY <1>3
  <2> QED BY <1>2, <2>1, <2>2 DEF StackedAt
<1>6. Len(kids) \in Nat
  BY <1>3, KidsTyped
<1> DEFINE at == gone + 1
<1> HIDE DEF kids, level, i
<1>7. at \in Nat \ {0} /\ at <= Len(kids) /\ at - 1 = gone
  BY <1>1, <1>4, <1>6
<1>8. level[1] = kids[at] /\ \A j \in 1..at-1 : IsMet(nodes, kids[j])
  BY <1>4, <1>7
<1> HIDE DEF at
<1>9. NextAt(nodes, level[1], i, at)
  BY <1>5, <1>7, <1>8 DEF NextAt, kids, level
<1> QED BY <1>3, <1>7, <1>9, NextPlace DEF level

\* An array that is used up may go.
LEMMA StackPopped ==
  ASSUME TreeTyped, NEW stack \in Seq(Seq(Node)), NEW nodes \in Seq(Node),
         StackOf(stack, nodes), Len(stack) # 0, Len(stack[Len(stack)]) = 0,
         NEW below \in Seq(Seq(Node)), Len(below) = Len(stack) - 1,
         \A l \in 1..Len(below) : below[l] = stack[l]
  PROVE  StackOf(below, nodes)
<1> DEFINE L == Len(stack)
<1>1. L \in Nat \ {0} /\ L \in 1..L
  OBVIOUS
<1>2. PICK pos \in [1..L -> 0..Len(nodes)] : StackedAt(stack, nodes, pos)
  BY DEF StackOf
<1> DEFINE q == [l \in 1..Len(below) |-> pos[l]]
<1>3. /\ q \in [1..Len(below) -> 0..Len(nodes)]
      /\ \A l \in 1..Len(below) : l \in 1..L /\ q[l] = pos[l]
      /\ \A l \in 1..L : l = L \/ l \in 1..Len(below)
  BY <1>1, <1>2
<1> HIDE DEF q
<1>4. Finished(nodes, pos[L])
  <2> DEFINE kids == KidsAt(nodes, pos[L])
  <2>1. Len(kids) \in Nat
    BY <1>1, <1>2, KidsTyped
  <2>2. PartOfKids(stack[L], nodes, pos[L])
    BY <1>1, <1>2 DEF StackedAt
  <2> HIDE DEF L
  <2>3. Len(kids) - Len(stack[L]) = Len(kids)
    BY <2>1 DEF L
  <2>4. \A j \in 1..Len(kids) : IsMet(nodes, kids[j])
    BY <2>2, <2>3 DEF PartOfKids
  <2> QED BY <2>4 DEF Finished
<1>5. StackedAt(below, nodes, q)
  <2>1. \A l \in 1..Len(below) : PartOfKids(below[l], nodes, q[l])
    BY <1>2, <1>3 DEF StackedAt
  <2>2. \A l, m \in 1..Len(below) : m < l => q[m] < q[l]
    BY <1>2, <1>3 DEF StackedAt
  <2>3. ASSUME NEW i \in 0..Len(nodes), \A l \in 1..Len(below) : q[l] # i
        PROVE  Finished(nodes, i)
    <3>1. i = pos[L] \/ \A l \in 1..L : pos[l] # i
      BY <1>3, <2>3
    <3> QED BY <1>2, <1>4, <3>1 DEF StackedAt
  <2> QED BY <2>1, <2>2, <2>3 DEF StackedAt
<1> QED BY <1>3, <1>5 DEF StackOf

\* A kid that was met may be taken off its array.
LEMMA StackAdvanced ==
  ASSUME TreeTyped, NEW stack \in Seq(Seq(Node)), NEW nodes \in Seq(Node),
         StackOf(stack, nodes), NEW l \in 1..Len(stack), Len(stack[l]) # 0,
         IsMet(nodes, stack[l][1]),
         NEW next \in Seq(Seq(Node)), Len(next) = Len(stack), next[l] = Tail(stack[l]),
         \A m \in 1..Len(stack) : m # l => next[m] = stack[m]
  PROVE  StackOf(next, nodes)
<1>1. PICK pos \in [1..Len(stack) -> 0..Len(nodes)] : StackedAt(stack, nodes, pos)
  BY DEF StackOf
<1> DEFINE level == stack[l]
           kids == KidsAt(nodes, pos[l])
           gone == Len(kids) - Len(level)
<1>2. /\ level \in Seq(Node) /\ Len(level) \in Nat \ {0}
      /\ Len(Tail(level)) = Len(level) - 1
      /\ \A j \in 1..Len(Tail(level)) : Tail(level)[j] = level[j+1]
  <2>1. level \in Seq(Node)
    OBVIOUS
  <2> HIDE DEF level
  <2>2. Len(level) \in Nat \ {0} /\ level # <<>>
    BY <2>1, EmptySeq DEF level
  <2> QED BY <2>1, <2>2, HeadTailProperties
<1>3. Len(kids) \in Nat
  BY <1>1, KidsTyped
<1>4. /\ gone \in Nat
      /\ \A j \in 1..Len(level) : level[j] = kids[gone + j]
      /\ \A j \in 1..gone : IsMet(nodes, kids[j])
  BY <1>1 DEF StackedAt, PartOfKids
<1>5. PartOfKids(next[l], nodes, pos[l])
  <2> HIDE DEF level, kids
  <2>1. Len(kids) - Len(Tail(level)) = gone + 1
    BY <1>2, <1>3
  <2>2. \A j \in 1..Len(Tail(level)) : Tail(level)[j] = kids[gone + 1 + j]
    <3> SUFFICES ASSUME NEW j \in 1..Len(Tail(level))
                 PROVE  Tail(level)[j] = kids[gone + 1 + j]
      OBVIOUS
    <3>1. j + 1 \in 1..Len(level) /\ gone + (j + 1) = gone + 1 + j
      BY <1>2, <1>3
    <3> QED BY <1>2, <1>4, <3>1
  <2>3. \A j \in 1..gone+1 : IsMet(nodes, kids[j])
    <3>1. 1 \in 1..Len(level)
      BY <1>2
    <3>2. level[1] = kids[gone + 1]
      BY <1>4, <3>1
    <3>3. \A j \in 1..gone+1 : j \in 1..gone \/ j = gone+1
      <4> HIDE DEF gone
      <4> QED BY <1>4
    <3>4. IsMet(nodes, level[1])
      BY DEF level
    <3> QED BY <1>4, <3>2, <3>3, <3>4
  <2>4. gone + 1 \in Nat /\ next[l] = Tail(level)
    BY <1>4 DEF level
  <2> QED BY <2>1, <2>2, <2>3, <2>4 DEF PartOfKids, kids
<1>6. StackedAt(next, nodes, pos)
  <2>1. \A m \in 1..Len(next) : PartOfKids(next[m], nodes, pos[m])
    BY <1>1, <1>5 DEF StackedAt
  <2> QED BY <1>1, <2>1 DEF StackedAt
<1> QED BY <1>1, <1>6 DEF StackOf

\* What was gone from an array stays gone when another node is met.
LEMMA PartKept ==
  ASSUME NEW nodes \in Seq(Node), NEW n \in Node, NEW i \in 0..Len(nodes), NEW level,
         PartOfKids(level, nodes, i)
  PROVE  PartOfKids(level, Append(nodes, n), i)
BY OneMoreMet DEF PartOfKids

\* Meeting a node without kids leaves the stack as it is.
LEMMA StackKept ==
  ASSUME NEW stack \in Seq(Seq(Node)), NEW nodes \in Seq(Node), NEW n \in Node,
         StackOf(stack, nodes), ~Pages(n)
  PROVE  StackOf(stack, Append(nodes, n))
<1> DEFINE more == Append(nodes, n)
<1>1. PICK pos \in [1..Len(stack) -> 0..Len(nodes)] : StackedAt(stack, nodes, pos)
  BY DEF StackOf
<1>2. /\ Len(nodes) \in Nat /\ Len(more) = Len(nodes) + 1
      /\ KidsAt(more, Len(nodes)+1) = <<>>
      /\ \A i \in 0..Len(nodes) : Finished(nodes, i) => Finished(more, i)
  BY OneMoreMet
<1>3. Finished(more, Len(nodes)+1)
  <2>1. Len(<<>>) = 0
    OBVIOUS
  <2> HIDE DEF more
  <2> QED BY <1>2, <2>1 DEF Finished
<1>4. \A l \in 1..Len(stack) : PartOfKids(stack[l], more, pos[l])
  BY <1>1, PartKept DEF StackedAt
<1> HIDE DEF more
<1>5. StackedAt(stack, more, pos)
  <2>1. \A i \in 0..Len(more) : i \in 0..Len(nodes) \/ i = Len(nodes)+1
    BY <1>2
  <2>2. ASSUME NEW i \in 0..Len(more), \A l \in 1..Len(stack) : pos[l] # i
        PROVE  Finished(more, i)
    BY <1>1, <1>2, <1>3, <2>1, <2>2 DEF StackedAt
  <2>3. \A l, m \in 1..Len(stack) : m < l => pos[m] < pos[l]
    BY <1>1 DEF StackedAt
  <2> QED BY <1>4, <2>2, <2>3 DEF StackedAt
<1>6. pos \in [1..Len(stack) -> 0..Len(more)]
  BY <1>1, <1>2
<1> QED BY <1>5, <1>6 DEF StackOf, more

\* Meeting a node with kids puts them on the stack.
LEMMA StackPushed ==
  ASSUME TreeTyped, NEW stack \in Seq(Seq(Node)), NEW nodes \in Seq(Node), NEW n \in Node,
         StackOf(stack, nodes), Pages(n)
  PROVE  StackOf(Append(stack, Kids(n)), Append(nodes, n))
<1> DEFINE more == Append(nodes, n)
           L == Len(stack)
           k == Kids(n)
           next == Append(stack, k)
<1>1. PICK pos \in [1..L -> 0..Len(nodes)] : StackedAt(stack, nodes, pos)
  BY DEF StackOf
<1>2. /\ Len(nodes) \in Nat /\ Len(more) = Len(nodes) + 1
      /\ KidsAt(more, Len(nodes)+1) = k
      /\ \A i \in 0..Len(nodes) : Finished(nodes, i) => Finished(more, i)
  BY OneMoreMet
<1>3. k \in Seq(Node) /\ Len(k) \in Nat
  BY DEF TreeTyped, Kids, NodeObject
<1> HIDE DEF k
<1>4. /\ L \in Nat /\ Len(next) = L + 1 /\ next[L+1] = k
      /\ \A l \in 1..L : next[l] = stack[l]
  BY <1>3, AppendProperties
<1>5. \A l \in 1..L : PartOfKids(stack[l], more, pos[l])
  BY <1>1, PartKept DEF StackedAt
<1> DEFINE top == Len(nodes) + 1
           q == [l \in 1..L+1 |-> IF l = L+1 THEN top ELSE pos[l]]
<1>6. /\ top \in 0..Len(more)
      /\ \A i \in 0..Len(more) : i \in 0..Len(nodes) \/ i = top
      /\ \A i \in 0..Len(nodes) : i < top
  BY <1>2
<1> HIDE DEF more, next, L
<1>7. /\ \A l \in 1..L : q[l] = pos[l] /\ pos[l] \in 0..Len(nodes)
      /\ q[L+1] = top
      /\ \A l \in 1..L+1 : l \in 1..L \/ l = L+1
      /\ \A l \in 1..L : l \in 1..L+1
      /\ L+1 \in 1..L+1 /\ ~(\E l \in 1..L : l+0 > L)
  BY <1>1, <1>4
<1>8. q \in [1..L+1 -> 0..Len(more)]
  <2>1. \A l \in 1..L+1 : q[l] \in 0..Len(more)
    <3> HIDE DEF q
    <3> QED BY <1>2, <1>6, <1>7
  <2> QED BY <2>1
<1> HIDE DEF q, top
<1>9. PartOfKids(k, more, top)
  <2>1. KidsAt(more, top) = k
    BY <1>2 DEF top
  <2> QED BY <1>3, <2>1 DEF PartOfKids
<1>10. StackedAt(next, more, q)
  <2>1. \A l \in 1..L+1 : PartOfKids(next[l], more, q[l])
    BY <1>4, <1>5, <1>7, <1>9
  <2>2. ASSUME NEW l \in 1..L+1, NEW m \in 1..L+1, m < l PROVE q[m] < q[l]
    <3>1. m \in 1..L
      BY <1>4, <2>2
    <3>2. CASE l \in 1..L
      BY <1>1, <1>7, <2>2, <3>1, <3>2 DEF StackedAt, L
    <3>3. CASE l = L+1
      BY <1>6, <1>7, <3>1, <3>3
    <3> QED BY <1>7, <3>2, <3>3
  <2>3. ASSUME NEW i \in 0..Len(more), \A l \in 1..L+1 : q[l] # i
        PROVE  Finished(more, i)
    <3>1. i \in 0..Len(nodes) /\ \A l \in 1..L : pos[l] # i
      BY <1>6, <1>7, <2>3
    <3> QED BY <1>1, <1>2, <3>1 DEF StackedAt, L
  <2> QED BY <1>4, <2>1, <2>2, <2>3 DEF StackedAt
<1> QED BY <1>4, <1>8, <1>10 DEF StackOf, more, next, L, k

-----------------------------------------------------------------------------
(* The steps.                                                              *)

LEMMA VisitedCounted ==
  ASSUME TypeOK
  PROVE  /\ Cardinality(visited) \in Nat
         /\ Cardinality(Node) \in Nat
         /\ Cardinality(visited) <= Cardinality(Node)
         /\ SoFar \in Progress /\ SoFar.nodes \in Seq(Node)
         /\ TreeTyped
<1>1. TreeTyped
  BY DEF TypeOK, TreeTyped
<1>2. /\ IsFiniteSet(visited) /\ Cardinality(visited) <= Cardinality(Node)
  BY NodeAssumption, FS_Subset DEF TypeOK
<1>3. Cardinality(visited) \in Nat /\ Cardinality(Node) \in Nat
  BY <1>2, NodeAssumption, FS_CardinalityType
<1>4. SoFar \in Progress
  BY <1>1, <1>3, MetTurns DEF SoFar
<1> QED BY <1>1, <1>2, <1>3, <1>4 DEF Progress

\* The stack that a walk begins with.
LEMMA FirstStack ==
  ASSUME TreeTyped
  PROVE  StackOf(<<Kids(Root)>>, <<>>) /\ \A n : ~IsMet(<<>>, n)
<1> DEFINE stack == <<Kids(Root)>>
           pos == [l \in 1..1 |-> 0]
<1>1. Len(<<>>) = 0 /\ Len(stack) = 1 /\ stack[1] = Kids(Root)
  OBVIOUS
<1>2. pos \in [1..1 -> 0..0] /\ pos[1] = 0 /\ \A l \in 1..1 : l = 1
  OBVIOUS
<1>3. KidsAt(<<>>, 0) = Kids(Root) /\ Len(Kids(Root)) \in Nat
  BY RootAssumption DEF KidsAt, TreeTyped, Kids, NodeObject
<1> HIDE DEF pos, stack
<1>4. PartOfKids(Kids(Root), <<>>, 0)
  <2>1. Len(Kids(Root)) - Len(Kids(Root)) = 0
    BY <1>3
  <2>2. \A j \in 1..Len(Kids(Root)) : 0 + j = j
    BY <1>3
  <2>3. \A j \in 1..0 : FALSE
    OBVIOUS
  <2> QED BY <1>3, <2>1, <2>2, <2>3 DEF PartOfKids
<1>5. \A i \in 0..0 : i = pos[1]
  BY <1>2
<1>6. StackedAt(stack, <<>>, pos)
  BY <1>1, <1>2, <1>4, <1>5 DEF StackedAt
<1>7. StackOf(stack, <<>>)
  BY <1>1, <1>2, <1>6 DEF StackOf
<1>8. \A n : ~IsMet(<<>>, n)
  BY <1>1 DEF IsMet
<1> QED BY <1>7, <1>8 DEF stack

\* What makes StackTrue true after a step, said of the tree before it.
LEMMA StackTrueAfter ==
  ASSUME tree' = tree,
         \A n \in Node : n \in visited' <=> IsMet(SoFar'.nodes, n),
         StackOf(kidsStack', SoFar'.nodes),
         exhausted' => kidsStack' = <<>>
  PROVE  StackTrue'
<1>1. \A i : KidsAt(SoFar.nodes, i)' = KidsAt(SoFar'.nodes, i)
  BY DEF KidsAt, Pages, Kids
<1>2. PICK pos \in [1..Len(kidsStack') -> 0..Len(SoFar'.nodes)] :
        StackedAt(kidsStack', SoFar'.nodes, pos)
  BY DEF StackOf
<1>3. StackedAt(kidsStack, SoFar.nodes, pos)'
  <2>1. ASSUME NEW i, Finished(SoFar'.nodes, i)
        PROVE  Finished(SoFar.nodes, i)'
    BY <1>1, <2>1 DEF Finished, IsMet
  <2>2. ASSUME NEW l \in 1..Len(kidsStack')
        PROVE  PartOfKids(kidsStack[l], SoFar.nodes, pos[l])'
    <3>1. PartOfKids(kidsStack'[l], SoFar'.nodes, pos[l])
      BY <1>2 DEF StackedAt
    <3> QED BY <1>1, <3>1 DEF PartOfKids, IsMet
  <2>3. ASSUME NEW i \in 0..Len(SoFar'.nodes), \A l \in 1..Len(kidsStack') : pos[l] # i
        PROVE  Finished(SoFar.nodes, i)'
    BY <1>2, <2>1, <2>3 DEF StackedAt
  <2> QED BY <1>2, <2>2, <2>3 DEF StackedAt
<1> QED BY <1>2, <1>3 DEF StackTrue, StackOf, IsMet

\* A walk that begins, at the start or again.
LEMMA InitOrder == Init => OrderInv
<1> SUFFICES ASSUME Init PROVE OrderInv
  OBVIOUS
<1>1. IInv /\ TreeTyped
  BY InitIInv DEF IInv, TypeOK, TreeTyped
<1>2. SoFar = NothingMet
  BY <1>1, FS_EmptySet, MetTurns DEF SoFar, Init
<1>3. SoFar.nodes = <<>> /\ SoFar.pages = <<>> /\ SoFar.readable = <<>> /\ Len(<<>>) = 0
  BY <1>2 DEF NothingMet
<1>4. StackTrue /\ PagesTrue
  BY <1>1, <1>3, FirstStack DEF Init, StackTrue, PagesTrue
<1> QED BY <1>1, <1>4 DEF OrderInv, InOrder

LEMMA ResetOrder ==
  ASSUME OrderInv, Reset
  PROVE  StackTrue' /\ PagesTrue'
<1>1. TreeTyped /\ tree' = tree /\ visited' = {} /\ kidsStack' = <<Kids(Root)>>
  BY DEF OrderInv, IInv, TypeOK, TreeTyped, Reset
<1>2. SoFar' = NothingMet
  <2>1. SoFar' = Met[Cardinality({})]
    BY <1>1, OrderKept DEF SoFar
  <2> QED BY <1>1, <2>1, FS_EmptySet, MetTurns
<1>3. SoFar'.nodes = <<>> /\ SoFar'.pages = <<>> /\ SoFar'.readable = <<>> /\ Len(<<>>) = 0
  BY <1>2 DEF NothingMet
<1>4. StackTrue'
  BY <1>1, <1>3, FirstStack, StackTrueAfter DEF Reset
<1>5. PagesTrue'
  BY <1>3 DEF Reset, PagesTrue
<1> QED BY <1>4, <1>5

\* The kid taken is the node that the document has next.
LEMMA VisitMeetsNext ==
  ASSUME TypeOK, StackTrue, AtKid, tree' = tree, Visit(Head(Top))
  PROVE  /\ SoFar' = Meet(SoFar, Head(Top))
         /\ \A n \in Node : n \in visited' <=> IsMet(SoFar'.nodes, n)
         /\ SoFar' \in Progress
<1> DEFINE n == Head(Top)
<1>1. /\ Len(kidsStack) \in Nat \ {0} /\ Len(Top) \in Nat \ {0}
      /\ n \in Node /\ n = Top[1] /\ Top = kidsStack[Len(kidsStack)]
  BY AtKidTypes DEF Top
<1>2. visited' = visited \union {n} /\ n \notin visited
  BY DEF Visit
<1>3. /\ Cardinality(visited) \in Nat /\ SoFar \in Progress /\ SoFar.nodes \in Seq(Node)
      /\ TreeTyped
  BY VisitedCounted
<1> HIDE DEF n
<1>4. Cardinality(visited') = Cardinality(visited) + 1
  <2>1. IsFiniteSet(visited)
    BY NodeAssumption, FS_Subset DEF TypeOK
  <2> QED BY <1>2, <2>1, FS_AddElement
<1>5. IsNext(SoFar.nodes, n)
  <2>1. ~IsMet(SoFar.nodes, n) /\ StackOf(kidsStack, SoFar.nodes)
    BY <1>1, <1>2 DEF StackTrue
  <2>2. kidsStack \in Seq(Seq(Node))
    BY DEF TypeOK
  <2> QED BY <1>1, <1>3, <2>1, <2>2, TopIsNext
<1>6. SoFar' = Meet(SoFar, n)
  <2>1. SoFar' = Met[Cardinality(visited)+1]
    BY <1>4, OrderKept DEF SoFar
  <2>2. Met[Cardinality(visited)+1] = MeetNext[SoFar]
    BY <1>3, MetTurns DEF SoFar
  <2> QED BY <1>1, <1>3, <1>5, <2>1, <2>2, TurnOfWalk
<1>7. SoFar'.nodes = Append(SoFar.nodes, n)
  BY <1>6 DEF Meet
<1>8. \A m \in Node : m \in visited' <=> IsMet(SoFar'.nodes, m)
  <2>1. \A m : IsMet(SoFar'.nodes, m) <=> IsMet(SoFar.nodes, m) \/ m = n
    BY <1>1, <1>3, <1>7, OneMoreMet
  <2> QED BY <1>2, <2>1 DEF StackTrue
<1>9. SoFar' \in Progress
  BY <1>1, <1>3, <1>6, MeetTyped
<1> QED BY <1>6, <1>8, <1>9 DEF n

\* The stack once its first kid is taken, and met.
LEMMA AdvancedInOrder ==
  ASSUME TypeOK, AtKid, TreeTyped, NEW nodes \in Seq(Node),
         StackOf(kidsStack, nodes), IsMet(nodes, Head(Top))
  PROVE  StackOf(Advanced, nodes)
<1> DEFINE L == Len(kidsStack)
<1>1. kidsStack \in Seq(Seq(Node)) /\ Advanced \in Seq(Seq(Node))
  BY AdvancedTypes, EmptySeq DEF TypeOK
<1>2. /\ L \in Nat \ {0} /\ Top = kidsStack[L] /\ Len(Top) # 0 /\ Head(Top) = Top[1]
  BY AtKidTypes DEF Top
<1>3. /\ Len(Advanced) = L /\ Advanced[L] = Tail(Top)
      /\ \A i \in 1..L-1 : Advanced[i] = kidsStack[i]
  BY AdvancedTypes, EmptySeq
<1>4. /\ L \in 1..L /\ Len(kidsStack[L]) # 0 /\ IsMet(nodes, kidsStack[L][1])
      /\ Advanced[L] = Tail(kidsStack[L])
      /\ \A m \in 1..L : m # L => Advanced[m] = kidsStack[m]
  <2>1. \A m \in 1..L : m # L => m \in 1..L-1
    BY <1>2
  <2> QED BY <1>2, <1>3, <2>1
<1> QED BY <1>1, <1>3, <1>4, StackAdvanced

\* The same with the kids of a node on top of it.
LEMMA PushedInOrder ==
  ASSUME TypeOK, AtKid, TreeTyped, NEW nodes \in Seq(Node), NEW k \in Seq(Node),
         StackOf(Append(kidsStack, k), nodes), IsMet(nodes, Head(Top))
  PROVE  StackOf(Append(Advanced, k), nodes)
<1> DEFINE L == Len(kidsStack)
           stack == Append(kidsStack, k)
           next == Append(Advanced, k)
<1>1. /\ L \in Nat \ {0} /\ Top = kidsStack[L] /\ Len(Top) # 0 /\ Head(Top) = Top[1]
  BY AtKidTypes DEF Top
<1>2. /\ next \in Seq(Seq(Node)) /\ Len(next) = L + 1 /\ next[L+1] = k
      /\ \A i \in 1..L : next[i] = Advanced[i]
      /\ Advanced[L] = Tail(Top)
      /\ \A i \in 1..L-1 : Advanced[i] = kidsStack[i]
  BY AdvancedTypes
<1>3. /\ stack \in Seq(Seq(Node)) /\ Len(stack) = L + 1 /\ stack[L+1] = k
      /\ \A i \in 1..L : stack[i] = kidsStack[i]
  <2>1. kidsStack \in Seq(Seq(Node))
    BY DEF TypeOK
  <2> QED BY <2>1, AppendProperties
<1> HIDE DEF stack, next, L
<1>4. /\ L \in 1..L /\ L \in 1..L+1
      /\ \A m \in 1..L+1 : m = L \/ m = L+1 \/ (m \in 1..L-1 /\ m \in 1..L)
  BY <1>1
<1>5. /\ Len(stack[L]) # 0 /\ IsMet(nodes, stack[L][1]) /\ next[L] = Tail(stack[L])
      /\ \A m \in 1..L+1 : m # L => next[m] = stack[m]
  BY <1>1, <1>2, <1>3, <1>4
<1>6. StackOf(stack, nodes)
  BY DEF stack
<1>7. StackOf(next, nodes)
  BY <1>2, <1>3, <1>4, <1>5, <1>6, StackAdvanced
<1> QED BY <1>7 DEF next

\* The turns that meet a node.
LEMMA MeetOrder ==
  ASSUME OrderInv, ~halfReset, SkipUnusable \/ Descend \/ PassBlank \/ ReturnPage
  PROVE  StackTrue' /\ PagesTrue'
<1> DEFINE n == Head(Top)
<1>1. /\ TypeOK /\ StackTrue /\ PagesTrue
  BY DEF OrderInv, InOrder, IInv
<1>2. /\ AtKid /\ Visit(n) /\ tree' = tree /\ exhausted' = exhausted
  BY DEF SkipUnusable, Descend, PassBlank, ReturnPage, Visit
<1>3. n \in Node
  BY <1>1, <1>2, AtKidTypes
<1>4. /\ SoFar' = Meet(SoFar, n) /\ SoFar' \in Progress
      /\ \A m \in Node : m \in visited' <=> IsMet(SoFar'.nodes, m)
  BY <1>1, <1>2, VisitMeetsNext
<1>5. /\ SoFar \in Progress /\ SoFar.nodes \in Seq(Node) /\ TreeTyped
      /\ kidsStack \in Seq(Seq(Node)) /\ StackOf(kidsStack, SoFar.nodes)
  BY <1>1, VisitedCounted DEF StackTrue, TypeOK
<1> HIDE DEF n
<1>6. SoFar'.nodes = Append(SoFar.nodes, n) /\ SoFar'.nodes \in Seq(Node)
  BY <1>4 DEF Meet, Progress
<1>7. IsMet(SoFar'.nodes, n)
  BY <1>3, <1>5, <1>6, OneMoreMet
<1>8. StackOf(kidsStack', SoFar'.nodes)
  <2>1. CASE ~Pages(n)
    <3>1. kidsStack' = Advanced
      BY <2>1 DEF SkipUnusable, Descend, PassBlank, ReturnPage, n
    <3>2. StackOf(kidsStack, SoFar'.nodes)
      BY <1>3, <1>5, <1>6, <2>1, StackKept
    <3>3. StackOf(Advanced, SoFar'.nodes)
      BY <1>1, <1>2, <1>5, <1>6, <1>7, <3>2, AdvancedInOrder DEF n
    <3> QED BY <3>1, <3>3
  <2>2. CASE Pages(n)
    <3>1. kidsStack' = Append(Advanced, Kids(n)) /\ Kids(n) \in Seq(Node)
      BY <1>3, <1>5, <2>2
         DEF SkipUnusable, Descend, PassBlank, ReturnPage, Page, Pages, n, TreeTyped, Kids, NodeObject
    <3>2. StackOf(Append(kidsStack, Kids(n)), SoFar'.nodes)
      BY <1>3, <1>5, <1>6, <2>2, StackPushed
    <3>3. StackOf(Append(Advanced, Kids(n)), SoFar'.nodes)
      BY <1>1, <1>2, <1>5, <1>6, <1>7, <3>1, <3>2, PushedInOrder DEF n
    <3> QED BY <3>1, <3>3
  <2> QED BY <2>1, <2>2
<1>9. ~exhausted'
  BY <1>1, <1>2 DEF StackTrue, AtKid
<1>10. StackTrue'
  BY <1>2, <1>4, <1>8, <1>9, StackTrueAfter
<1>11. PagesTrue'
  <2>1. /\ SoFar.pages \in Seq(Node) /\ SoFar.readable \in Seq(Node) /\ out \in Seq(Returned)
    BY <1>1, <1>5 DEF Progress, TypeOK
  <2>2. /\ pageNum = Len(SoFar.pages) /\ Len(out) = Len(SoFar.readable)
        /\ \A i \in 1..Len(out) : /\ out[i].ref = SoFar.readable[i]
                                  /\ out[i].num \in 1..pageNum
                                  /\ SoFar.pages[out[i].num] = out[i].ref
    BY <1>1 DEF PagesTrue
  <2>3. CASE ~Page(n)
    <3>1. pageNum' = pageNum /\ out' = out
      BY <2>3 DEF SkipUnusable, Descend, PassBlank, ReturnPage, n
    <3>2. SoFar'.pages = SoFar.pages /\ SoFar'.readable = SoFar.readable
      BY <1>4, <2>3 DEF Meet
    <3> QED BY <2>2, <3>1, <3>2 DEF PagesTrue
  <2>4. CASE Page(n)
    <3>1. pageNum' = pageNum + 1 /\ SoFar'.pages = Append(SoFar.pages, n)
      BY <1>4, <2>4 DEF SkipUnusable, Descend, PassBlank, ReturnPage, Meet, Page, Pages, n
    <3>2. /\ Len(SoFar.pages) \in Nat /\ Len(SoFar'.pages) = pageNum'
          /\ SoFar'.pages[pageNum'] = n /\ pageNum' \in 1..pageNum'
          /\ \A i \in 1..pageNum : SoFar'.pages[i] = SoFar.pages[i] /\ i \in 1..pageNum'
      BY <1>3, <2>1, <2>2, <3>1, AppendProperties
    <3>3. CASE ~tree[n].contents
      <4>1. out' = out /\ SoFar'.readable = SoFar.readable
        BY <1>4, <2>4, <3>3 DEF SkipUnusable, Descend, PassBlank, ReturnPage, Meet, Page, Pages, n
      <4> QED BY <2>2, <3>2, <4>1 DEF PagesTrue
    <3>4. CASE tree[n].contents
      <4> DEFINE page == [num |-> pageNum', ref |-> n, fresh |-> fresh]
      <4>1. out' = Append(out, page) /\ SoFar'.readable = Append(SoFar.readable, n)
        BY <1>4, <2>4, <3>4 DEF SkipUnusable, Descend, PassBlank, ReturnPage, Meet, Page, Pages, n
      <4>2. page \in Returned /\ page.num = pageNum' /\ page.ref = n
        BY <1>1, <1>3, <3>1 DEF TypeOK, Returned
      <4> HIDE DEF page
      <4>3. /\ Len(out) \in Nat /\ Len(out') = Len(out) + 1 /\ out'[Len(out)+1] = page
            /\ \A i \in 1..Len(out) : out'[i] = out[i]
        BY <2>1, <4>1, <4>2, AppendProperties
      <4>4. /\ Len(SoFar'.readable) = Len(out) + 1 /\ SoFar'.readable[Len(out)+1] = n
            /\ \A i \in 1..Len(out) : SoFar'.readable[i] = SoFar.readable[i]
        BY <1>3, <2>1, <2>2, <4>1, AppendProperties
      <4>5. \A i \in 1..Len(out') : i \in 1..Len(out) \/ i = Len(out)+1
        BY <4>3
      <4>6. ASSUME NEW i \in 1..Len(out')
            PROVE  /\ out'[i].ref = SoFar'.readable[i]
                   /\ out'[i].num \in 1..pageNum'
                   /\ SoFar'.pages[out'[i].num] = out'[i].ref
        <5>1. CASE i \in 1..Len(out)
          <6>1. out'[i] = out[i] /\ SoFar'.readable[i] = SoFar.readable[i]
            BY <4>3, <4>4, <5>1
          <6>2. out[i].num \in 1..pageNum /\ out[i].ref = SoFar.readable[i]
            BY <2>2, <5>1
          <6>3. SoFar'.pages[out[i].num] = out[i].ref /\ out[i].num \in 1..pageNum'
            BY <2>2, <3>2, <5>1, <6>2
          <6> QED BY <6>1, <6>2, <6>3
        <5>2. CASE i = Len(out)+1
          BY <3>2, <4>2, <4>3, <4>4, <5>2
        <5> QED BY <4>5, <5>1, <5>2
      <4> QED BY <3>2, <4>3, <4>4, <4>6 DEF PagesTrue
    <3> QED BY <3>3, <3>4
  <2> QED BY <2>3, <2>4
<1> QED BY <1>10, <1>11

LEMMA StepOrder == OrderInv /\ [Next]_vars => OrderInv'
<1> SUFFICES ASSUME OrderInv, [Next]_vars PROVE OrderInv'
  OBVIOUS
<1>1. IInv /\ IInv' /\ InOrder /\ TypeOK /\ TypeOK'
  BY StepIInv DEF OrderInv, IInv
<1> SUFFICES ASSUME ~halfReset' PROVE StackTrue' /\ PagesTrue'
  BY <1>1 DEF OrderInv, InOrder
<1>2. CASE Reset
  BY <1>2, ResetOrder
<1>3. CASE ~Reset
  <2>1. ~halfReset /\ StackTrue /\ PagesTrue
    BY <1>1, <1>3 DEF Next, Turn, CallNext, PopEmpty, SkipSeen, SkipUnusable, Descend, PassBlank,
                      ReturnPage, Exhaust, ResetFails, vars, InOrder
  <2>2. ASSUME UNCHANGED <<tree, visited, pageNum, out>>,
               StackOf(kidsStack', SoFar.nodes), exhausted' => kidsStack' = <<>>
        PROVE  StackTrue' /\ PagesTrue'
    <3>1. SoFar' = SoFar
      BY <2>2, OrderKept DEF SoFar
    <3>2. StackTrue'
      BY <2>1, <2>2, <3>1, StackTrueAfter DEF StackTrue
    <3> QED BY <2>1, <2>2, <3>1, <3>2 DEF PagesTrue
  <2>3. /\ SoFar.nodes \in Seq(Node) /\ TreeTyped /\ kidsStack \in Seq(Seq(Node))
        /\ StackOf(kidsStack, SoFar.nodes)
        /\ exhausted => kidsStack = <<>>
    BY <1>1, <2>1, VisitedCounted DEF StackTrue, TypeOK
  <2>4. CASE CallNext \/ UNCHANGED vars
    BY <2>2, <2>3, <2>4 DEF CallNext, vars
  <2>5. CASE Exhaust
    BY <2>2, <2>3, <2>5 DEF Exhaust
  <2>6. CASE PopEmpty
    <3>1. /\ Len(kidsStack) # 0 /\ Len(kidsStack[Len(kidsStack)]) = 0 /\ ~exhausted
      BY <2>3, <2>6, EmptySeq DEF PopEmpty, Top
    <3>2. /\ Below \in Seq(Seq(Node)) /\ Len(Below) = Len(kidsStack) - 1
          /\ \A i \in 1..Len(Below) : Below[i] = kidsStack[i]
      BY <2>3, <2>6, ShorterStack DEF PopEmpty, Below
    <3>3. StackOf(Below, SoFar.nodes)
      BY <2>3, <3>1, <3>2, StackPopped
    <3> QED BY <2>2, <2>6, <3>1, <3>3 DEF PopEmpty
  <2>7. CASE SkipSeen
    <3>1. AtKid /\ IsMet(SoFar.nodes, Head(Top)) /\ ~exhausted
      BY <1>1, <2>1, <2>3, <2>7, AtKidTypes DEF SkipSeen, StackTrue, AtKid
    <3>2. StackOf(Advanced, SoFar.nodes)
      BY <1>1, <2>3, <3>1, AdvancedInOrder
    <3> QED BY <2>2, <2>7, <3>1, <3>2 DEF SkipSeen
  <2> QED BY <1>3, <2>1, <2>4, <2>5, <2>6, <2>7, MeetOrder DEF Next, Turn, ResetFails
<1> QED BY <1>2, <1>3

-----------------------------------------------------------------------------
(* What was returned is how the document begins.                           *)

OutFits ==
  /\ Len(out) \in Nat /\ Len(Readables) \in Nat /\ Len(out) <= Len(Readables)
  /\ \A i \in 1..Len(out) : /\ out[i].ref = Readables[i]
                            /\ DocumentOrder[out[i].num] = out[i].ref
  /\ kidsStack = <<>> => Len(out) = Len(Readables)

LEMMA OutBeginsDocument == OrderInv /\ ~halfReset => OutFits
<1> SUFFICES ASSUME OrderInv, ~halfReset PROVE OutFits
  OBVIOUS
<1>1. /\ TypeOK /\ StackTrue /\ PagesTrue
  BY DEF OrderInv, InOrder, IInv
<1> DEFINE seen == Cardinality(visited)
           all == Cardinality(Node)
<1>2. /\ TreeTyped /\ seen \in Nat /\ all \in Nat /\ seen <= all
      /\ SoFar \in Progress /\ SoFar = Met[seen]
  BY <1>1, VisitedCounted DEF SoFar
<1>3. /\ Met[all] \in Progress
      /\ DocumentOrder = Met[all].pages /\ Readables = Met[all].readable
  BY <1>2, MetTurns DEF DocumentOrder, Readables
<1> HIDE DEF seen, all
<1>4. Beginning(SoFar.pages, DocumentOrder) /\ Beginning(SoFar.readable, Readables)
  BY <1>2, <1>3, MetGrows DEF GrowsTo
<1>5. Len(out) \in Nat /\ Len(Readables) \in Nat /\ Len(out) <= Len(Readables)
  BY <1>1, <1>3, <1>4 DEF Progress, TypeOK, PagesTrue, Beginning
<1>6. ASSUME NEW i \in 1..Len(out)
      PROVE  out[i].ref = Readables[i] /\ DocumentOrder[out[i].num] = out[i].ref
  <2>1. /\ out[i].ref = SoFar.readable[i] /\ i \in 1..Len(SoFar.readable)
        /\ out[i].num \in 1..Len(SoFar.pages) /\ SoFar.pages[out[i].num] = out[i].ref
    BY <1>1 DEF PagesTrue
  <2> QED BY <1>4, <2>1 DEF Beginning
<1>7. ASSUME kidsStack = <<>> PROVE Len(out) = Len(Readables)
  <2>1. AllFinished(SoFar.nodes)
    <3>1. Len(kidsStack) = 0 /\ StackOf(kidsStack, SoFar.nodes)
      BY <1>1, <1>7 DEF StackTrue
    <3> QED BY <3>1 DEF StackOf, StackedAt, AllFinished
  <2>2. Met[all] = SoFar
    BY <1>2, <2>1, MetStays
  <2> QED BY <1>1, <1>3, <2>2 DEF PagesTrue
<1> QED BY <1>5, <1>6, <1>7 DEF OutFits

LEMMA OutBeginsDocumentNext == OrderInv' /\ ~halfReset' => OutFits'
BY OutBeginsDocument, PTL

(***************************************************************************)
(* The number that comes with a page is its place in the document, in      *)
(* every tree, unless the last Reset failed (iterator.go:115-139).         *)
(***************************************************************************)
THEOREM NumbersArePlaces == Spec => []NumberIsPlace
<1>1. OrderInv => NumberIsPlace
  BY OutBeginsDocument DEF NumberIsPlace, OutFits
<1> QED BY <1>1, InitOrder, StepOrder, PTL DEF Spec

-----------------------------------------------------------------------------
(* The iterator is a source of the pages in order.                         *)

LastOut == IF out = <<>> THEN NoPage ELSE out[Len(out)].ref

LEMMA InitSource == Init => Source!Init
<1> SUFFICES ASSUME Init PROVE Source!Init
  OBVIOUS
<1>1. Len(<<>>) = 0
  OBVIOUS
<1> QED BY <1>1 DEF Init, Source!Init

LEMMA SourceStutters ==
  ASSUME UNCHANGED <<tree, out, exhausted, halfReset>>
  PROVE  UNCHANGED Source!vars
BY OrderKept DEF Source!vars

LEMMA StepSource == OrderInv /\ [Next]_vars => [Source!Next]_Source!vars
<1> SUFFICES ASSUME OrderInv, [Next]_vars PROVE Source!Next \/ UNCHANGED Source!vars
  OBVIOUS
<1>0. OrderInv' /\ TypeOK
  BY StepOrder DEF OrderInv, IInv
<1>1. CASE halfReset'
  <2>1. tree' = tree
    BY DEF Next, Turn, CallNext, PopEmpty, SkipSeen, SkipUnusable, Descend, PassBlank, ReturnPage,
           Exhaust, Reset, ResetFails, vars
  <2>2. halfReset' = TRUE
    BY <1>0, <1>1 DEF OrderInv, IInv, TypeOK
  <2> QED BY <2>1, <2>2, OrderKept DEF Source!Lost, Source!Next
<1>2. CASE Reset
  <2>1. Len(<<>>) = 0 /\ tree' = tree
    BY <1>2 DEF Reset
  <2>2. Source!Reset
    BY <1>2, <2>1, OrderKept DEF Reset, Source!Reset
  <2> QED BY <2>2 DEF Source!Next
<1>3. CASE ~halfReset' /\ ReturnPage
  <2>1. ~halfReset /\ halfReset' = halfReset /\ exhausted' = exhausted /\ tree' = tree /\ AtKid
    BY <1>3 DEF ReturnPage, Visit
  <2>2. ~exhausted
    BY <2>1 DEF OrderInv, InOrder, StackTrue, AtKid
  <2> DEFINE page == [num |-> pageNum', ref |-> Head(Top), fresh |-> fresh]
  <2>3. out' = Append(out, page) /\ page \in Returned /\ out \in Seq(Returned)
    BY <1>0, <1>3, <2>1, AtKidTypes DEF ReturnPage, TypeOK, Returned
  <2> HIDE DEF page
  <2>4. Len(out') = Len(out) + 1 /\ Len(out) \in Nat /\ out' # <<>>
    BY <2>3, AppendProperties, EmptySeq
  <2>5. Readables' = Readables
    BY <2>1, OrderKept
  <2>6. /\ Len(out') <= Len(Readables) /\ Len(Readables) \in Nat
        /\ out'[Len(out')].ref = Readables[Len(out')]
    <3>1. /\ Len(out') \in Nat /\ Len(Readables') \in Nat /\ Len(out') <= Len(Readables')
          /\ \A i \in 1..Len(out') : out'[i].ref = Readables'[i]
      BY <1>0, <1>3, OutBeginsDocumentNext DEF OutFits
    <3>2. Len(out') \in 1..Len(out')
      BY <2>4
    <3> QED BY <2>5, <3>1, <3>2
  <2>7. Source!NextPage
    BY <2>1, <2>2, <2>4, <2>5, <2>6 DEF Source!NextPage
  <2> QED BY <2>7 DEF Source!Next
<1>4. CASE ~halfReset' /\ Exhaust
  <2>1. /\ ~halfReset /\ kidsStack = <<>> /\ exhausted' = TRUE
        /\ tree' = tree /\ out' = out /\ halfReset' = halfReset
    BY <1>4 DEF Exhaust
  <2>2. Source!EndOfPages
    BY <2>1, OutBeginsDocument, OrderKept DEF OutFits, Source!EndOfPages
  <2> QED BY <2>2 DEF Source!Next
<1>5. CASE ResetFails
  BY <1>1, <1>5 DEF ResetFails
<1>6. CASE CallNext \/ PopEmpty \/ SkipSeen \/ SkipUnusable \/ Descend \/ PassBlank \/ UNCHANGED vars
  BY <1>6, SourceStutters DEF CallNext, PopEmpty, SkipSeen, SkipUnusable, Descend, PassBlank, vars
<1> QED BY <1>1, <1>2, <1>3, <1>4, <1>5, <1>6 DEF Next, Turn

(***************************************************************************)
(* Calls of Next return the pages in the order of the document, each once  *)
(* and none left out, and then io.EOF, in every tree: every behaviour of   *)
(* the iterator is one of PageSource (iterator.go:80-212).                 *)
(***************************************************************************)
THEOREM IteratorIsPageSource == Spec => ImplementsPageSource
<1>1. Spec => []OrderInv
  BY InitOrder, StepOrder, PTL DEF Spec
<1> QED BY <1>1, InitSource, StepSource, PTL DEF Spec, ImplementsPageSource, Source!Spec
=============================================================================
