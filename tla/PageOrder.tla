------------------------------ MODULE PageOrder ------------------------------
(***************************************************************************)
(* The order of the document: its pages where a depth-first walk of the    *)
(* tree first meets them.  The walk is said without the stacks and the     *)
(* recursive calls of the code, by which node comes next.                  *)
(***************************************************************************)
EXTENDS PageTree

\* The kids at the i-th node met; the walk starts, as it were at the node 0, with those of the root.
KidsAt(nodes, i) ==
  IF i = 0 THEN Kids(Root) ELSE IF Pages(nodes[i]) THEN Kids(nodes[i]) ELSE <<>>

IsMet(nodes, n) == \E l \in 1..Len(nodes) : nodes[l] = n

Finished(nodes, i) ==
  \A j \in 1..Len(KidsAt(nodes, i)) : IsMet(nodes, KidsAt(nodes, i)[j])

AllFinished(nodes) == \A i \in 0..Len(nodes) : Finished(nodes, i)

\* n is the first kid not met of the latest node that has one.
IsNext(nodes, n) ==
  \E i \in 0..Len(nodes) : \E j \in 1..Len(KidsAt(nodes, i)) :
    /\ n = KidsAt(nodes, i)[j]
    /\ ~IsMet(nodes, n)
    /\ \A l \in 1..j-1 : IsMet(nodes, KidsAt(nodes, i)[l])
    /\ \A l \in i+1..Len(nodes) : Finished(nodes, l)

\* The nodes met; of them the pages, and of those the ones that have contents.
NothingMet == [nodes |-> <<>>, pages |-> <<>>, readable |-> <<>>]

Meet(met, n) ==
  [nodes    |-> Append(met.nodes, n),
   pages    |-> IF Page(n) THEN Append(met.pages, n) ELSE met.pages,
   readable |-> IF Page(n) /\ tree[n].contents THEN Append(met.readable, n) ELSE met.readable]

\* How far a walk has come.
Progress == [nodes : Seq(Node), pages : Seq(Node), readable : Seq(Node)]

MeetNext[met \in Progress] ==
  IF AllFinished(met.nodes) THEN met
  ELSE Meet(met, CHOOSE n \in Node : IsNext(met.nodes, n))

Met[k \in Nat] == IF k = 0 THEN NothingMet ELSE MeetNext[Met[k-1]]

\* No node is met twice.
DocumentOrder == Met[Cardinality(Node)].pages

\* The pages that an iteration is to yield.
Readables == Met[Cardinality(Node)].readable
=============================================================================
