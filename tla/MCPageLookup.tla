---------------------------- MODULE MCPageLookup -----------------------------
(***************************************************************************)
(* Every tree of a root, an inner /Pages node and three pages: up to three *)
(* kids of the root and two of the inner node, whose /Count may be wrong.  *)
(***************************************************************************)
EXTENDS PageLookup

CONSTANTS r, p, a, b, c

MCNode == {r, p, a, b, c}
MCRoot == r

SeqsUpTo(S, lo, hi) == UNION {[1..k -> S] : k \in lo..hi}

Inner(kids, count) == [type |-> "Pages", kids |-> kids, count |-> count, contents |-> FALSE]
Leaf(contents) == [type |-> "Page", kids |-> <<>>, count |-> 0, contents |-> contents]

TreesOf(counts, contents) ==
  {[n \in MCNode |-> CASE n = r -> Inner(rk, rc) [] n = p -> Inner(pk, pc)
                       [] n = a -> Leaf(ca) [] n = b -> Leaf(cb) [] n = c -> Leaf(TRUE)] :
     rk \in SeqsUpTo({p, a, b, c}, 1, 3), pk \in SeqsUpTo({a, b, c}, 0, 2),
     rc \in {2, 3}, pc \in counts, ca \in contents, cb \in contents}

MCTrees == TreesOf({1, 2}, BOOLEAN)
=============================================================================
