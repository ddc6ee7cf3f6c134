----------------------------- MODULE MCLRUCache -----------------------------
(* Instances of LRUCache with values of every size up to one over the limit. *)
EXTENDS LRUCache

CONSTANTS empty, one, two, three, four

MCMaxBytes == 3
MCSize == [v \in Value |->
  CASE v = empty -> 0 [] v = one -> 1 [] v = two -> 2 [] v = three -> 3 [] v = four -> 4]
=============================================================================
