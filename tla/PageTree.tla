------------------------------ MODULE PageTree -------------------------------
(***************************************************************************)
(* The page tree of a document as internal/pdf reads it: /Pages nodes with *)
(* kids, and /Page leaves.  Nothing keeps a file from having a node in two *)
(* places or inside itself, a /Count that is not the number of pages, or   *)
(* kids that cannot be read.  A /Pages without /Kids is one with no kids,  *)
(* and every page names its /Parent (readAllPages skips one that does      *)
(* not).                                                                   *)
(***************************************************************************)
EXTENDS Integers, Sequences, FiniteSets

CONSTANTS
  Node,       \* the references that the tree's kids may name
  Root,       \* the /Pages of the catalog
  Trees       \* the trees considered, subset of [Node -> NodeObject]

ASSUME RootAssumption == Root \in Node
\* A file has finitely many objects.
ASSUME NodeAssumption == IsFiniteSet(Node)

\* "other" is an object without a usable /Type, or one that cannot be read.
NodeObject ==
  [type : {"Pages", "Page", "other"},
   kids : Seq(Node),       \* of a /Pages node
   count : Nat,            \* its /Count
   contents : BOOLEAN]     \* whether a /Page has /Contents

ASSUME TreesAssumption ==
  \A t \in Trees : t \in [Node -> NodeObject] /\ t[Root].type = "Pages"

VARIABLE tree

Pages(n) == tree[n].type = "Pages"
Page(n) == tree[n].type = "Page"
Kids(n) == tree[n].kids
=============================================================================
