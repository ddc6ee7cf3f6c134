-------------------------- MODULE MCPageIteration ----------------------------
(***************************************************************************)
(* Every tree of a root, an inner /Pages node and two pages, with or       *)
(* without contents, and a kid that cannot be read: up to three kids of    *)
(* the root and two of the inner node, repetitions and cycles included.    *)
(***************************************************************************)
EXTENDS PageIteration

CONSTANTS r, p, a, b, x

MCNode == {r, p, a, b, x}
MCRoot == r

SeqsUpTo(S, lo, hi) == UNION {[1..k -> S] : k \in lo..hi}

Inner(kids) == [type |-> "Pages", kids |-> kids, count |-> 0, contents |-> FALSE]
Leaf(contents) == [type |-> "Page", kids |-> <<>>, count |-> 0, contents |-> contents]
Broken == [type |-> "other", kids |-> <<>>, count |-> 0, contents |-> FALSE]

TreesOf(rootKids, innerKids, contents) ==
  {[n \in MCNode |-> CASE n = r -> Inner(rk) [] n = p -> Inner(pk)
                       [] n = a -> Leaf(ca) [] n = b -> Leaf(cb) [] n = x -> Broken] :
     rk \in rootKids, pk \in innerKids, ca \in contents, cb \in contents}

MCTrees == TreesOf(SeqsUpTo({p, a, b}, 0, 3), SeqsUpTo({r, p, b, x}, 0, 2), BOOLEAN)
=============================================================================
