--------------------------- MODULE PageAttributes ----------------------------
(***************************************************************************)
(* Inheritance of page attributes: /MediaBox, /Resources and /Rotate are   *)
(* looked for at a page and then at one /Parent after the other            *)
(* (internal/pdf/service.go:2767-2960).  A file may have any /Parent, also *)
(* one that is not the node whose /Kids name the page.  Each recursive     *)
(* call is one step; the map of visited references and the depth of the    *)
(* recursion are the sequence of the nodes passed.                         *)
(***************************************************************************)
EXTENDS PageTree

CONSTANTS
  NoNode,       \* a /Parent that is not there
  MaxLookup     \* maxAncestorLookupDepth

Attributes ==
  [parent : Node \union {NoNode},
   box : BOOLEAN,                               \* has a /MediaBox
   resources : {"none", "ref", "inline"},
   rotate : {"none", "integer", "other"},
   fonts : {"good", "incomplete", "wrong type", "unreadable"}]   \* of its resources

ASSUME LookupAssumption == NoNode \notin Node /\ MaxLookup \in Nat

VARIABLES
  own,      \* the attributes that each node has itself
  climb     \* the lookup in progress, or the last one

Attribute == {"MediaBox", "Resources", "Rotate"}

Has(attribute, n) ==
  CASE attribute = "MediaBox" -> own[n].box
    [] attribute = "Resources" -> own[n].resources # "none"
    [] attribute = "Rotate" -> own[n].rotate # "none"

Dictionary(n) == tree[n].type \in {"Page", "Pages"}

NoLookup == [attribute |-> "MediaBox", page |-> Root, at |-> Root, passed |-> <<>>, result |-> "absent"]

Passed == {climb.passed[i] : i \in 1..Len(climb.passed)}
Climbing == climb.result = "climbing"

\* The lookup starts at the page itself.
Lookup(attribute, n) ==
  climb' = [attribute |-> attribute, page |-> n, at |-> n, passed |-> <<>>, result |-> "climbing"]

End(result) == climb' = [climb EXCEPT !.result = result]

TooDeep == Len(climb.passed) > MaxLookup
Cyclic == climb.at \in Passed

\* Too deep, in a cycle, or at something that is no node of a page tree.
Fail ==
  /\ Climbing
  /\ TooDeep \/ Cyclic \/ ~Dictionary(climb.at)
  /\ End("failed")

\* A /Rotate that is no integer is an error.
Find ==
  /\ Climbing
  /\ ~TooDeep /\ ~Cyclic /\ Dictionary(climb.at)
  /\ Has(climb.attribute, climb.at)
  /\ End(IF climb.attribute = "Rotate" /\ own[climb.at].rotate = "other" THEN "failed" ELSE "found")

\* Without a /Parent: only a /Rotate may be missing.
Top ==
  /\ Climbing
  /\ ~TooDeep /\ ~Cyclic /\ Dictionary(climb.at)
  /\ ~Has(climb.attribute, climb.at)
  /\ own[climb.at].parent = NoNode
  /\ End(IF climb.attribute = "Rotate" THEN "absent" ELSE "failed")

\* Mutant of Up: the lookup goes on at the root of the tree.
UpToRoot ==
  /\ Climbing
  /\ ~TooDeep /\ ~Cyclic /\ Dictionary(climb.at)
  /\ ~Has(climb.attribute, climb.at)
  /\ own[climb.at].parent # NoNode
  /\ climb' = [climb EXCEPT !.at = Root, !.passed = Append(@, climb.at)]

Up ==
  /\ Climbing
  /\ ~TooDeep /\ ~Cyclic /\ Dictionary(climb.at)
  /\ ~Has(climb.attribute, climb.at)
  /\ own[climb.at].parent # NoNode
  /\ climb' = [climb EXCEPT !.at = own[climb.at].parent, !.passed = Append(@, climb.at)]

Climb == Fail \/ Find \/ Top \/ Up

-----------------------------------------------------------------------------
LookupTypeOK ==
  /\ own \in [Node -> Attributes]
  /\ climb \in [attribute : Attribute, page : Node, at : Node, passed : Seq(Node),
                result : {"climbing", "found", "failed", "absent"}]

(***************************************************************************)
(* What a lookup finds is the value of the nearest ancestor that has one:  *)
(* every node between it and the page is passed, each is the /Parent of    *)
(* the one before, none of them has the attribute, and none is passed      *)
(* twice though the /Parents may form a cycle (service.go:2777-2828,       *)
(* 2842-2893, 2907-2959).                                                  *)
(***************************************************************************)
NearestAncestor ==
  LET chain == Append(climb.passed, climb.at)
  IN  /\ chain[1] = climb.page
      /\ \A i \in 1..Len(climb.passed) :
           /\ chain[i + 1] = own[chain[i]].parent
           /\ ~Has(climb.attribute, chain[i])
           /\ \A j \in 1..Len(climb.passed) : chain[i] = chain[j] => i = j
      /\ climb.result = "found" => Has(climb.attribute, climb.at) /\ climb.at \notin Passed
      /\ Len(climb.passed) <= MaxLookup + 1
=============================================================================
