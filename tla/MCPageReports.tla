--------------------------- MODULE MCPageReports -----------------------------
(***************************************************************************)
(* Files with a root, three inner nodes and two pages, in three families.  *)
(***************************************************************************)
EXTENDS PageReports, TLC

CONSTANTS r, p, q, s, a, b, none

MCNode == {r, p, q, s, a, b}

SeqsUpTo(S, lo, hi) == UNION {[1..k -> S] : k \in lo..hi}
Inner(kids) == [type |-> "Pages", kids |-> kids, count |-> 2, contents |-> FALSE]
Leaf(contents) == [type |-> "Page", kids |-> <<>>, count |-> 0, contents |-> contents]
Other == [type |-> "other", kids |-> <<>>, count |-> 0, contents |-> FALSE]

Tree(rk, pk, qk, ca) ==
  [n \in MCNode |-> CASE n = r -> Inner(rk) [] n = p -> Inner(pk) [] n = q -> qk [] n = s -> Inner(<<b>>)
                      [] n = a -> Leaf(ca) [] n = b -> Leaf(TRUE)]

FixedTree == Tree(<<p, b>>, <<q>>, Inner(<<a>>), TRUE)

\* The /Parents as the kids of FixedTree have it.
Bare == [parent |-> none, box |-> FALSE, resources |-> "none", rotate |-> "none", fonts |-> "good"]
Parents == (r :> none) @@ (p :> r) @@ (q :> p) @@ (s :> q) @@ (a :> q) @@ (b :> r)
Plain == [n \in MCNode |-> [Bare EXCEPT !.parent = Parents[n], !.box = (n = p), !.resources = "ref"]]

Sound == [header |-> TRUE, startxref |-> TRUE, index |-> "good", trailer |-> "good", root |-> "found",
          catalog |-> "good", count |-> "good", pages |-> "good"]

\* Every small tree, cycles and shared kids included, with attributes in a few places.
SmallTrees(contents) ==
  {Tree(rk, pk, qk, contents) :
     rk \in SeqsUpTo({p, q, a}, 0, 2), pk \in SeqsUpTo({r, q, a}, 0, 2),
     qk \in {Inner(<<a>>), Inner(<<s, p>>), Other}}

ManyTrees == SmallTrees(TRUE)
BlankTrees == SmallTrees(FALSE)   \* a page of theirs has no contents

TreeFiles ==
  [tree : BlankTrees, prologue : {Sound}, own : {Plain}] \union
  [tree : ManyTrees, prologue : {Sound},
   own : {Plain} \union
         {[Plain EXCEPT ![p].box = FALSE, ![a].box = x.box, ![a].parent = x.parent] :
            x \in {[box |-> TRUE, parent |-> q], [box |-> FALSE, parent |-> q],
                   [box |-> FALSE, parent |-> none]}}]

\* Any /Parent, and attributes where lookups differ by them.
AttributeFiles ==
  [tree : {FixedTree, [FixedTree EXCEPT ![q] = Other]}, prologue : {Sound},
   own : {[n \in MCNode |->
             [parent |-> CASE n = a -> ap [] n = p -> pp [] n = r -> rp [] OTHER -> Parents[n],
              box |-> n \in boxes,
              resources |-> IF n = a THEN ar ELSE IF n = p THEN pa.resources ELSE "none",
              rotate |-> IF n = p THEN pa.rotate ELSE "none",
              fonts |-> IF n = p THEN "wrong type" ELSE "good"]] :
            ap \in {q, a, none}, pp \in {r, q, none}, rp \in {none, p},
            boxes \in SUBSET {r, p}, ar \in {"none", "ref", "inline"},
            pa \in {[resources |-> x, rotate |-> "none"] : x \in {"none", "ref", "inline"}}
                   \union {[resources |-> "ref", rotate |-> "other"]}}]

\* Any damage before the tree; with a /Root in the trailer there is one.
PrologueFiles ==
  [tree : {FixedTree}, own : {Plain, [Plain EXCEPT ![p].box = FALSE]},
   prologue : {[header |-> h, startxref |-> x, index |-> i, trailer |-> t, root |-> o,
                catalog |-> c, count |-> n, pages |-> g] :
                 h \in BOOLEAN, x \in BOOLEAN, i \in {"good"},
                 t \in {"no root", "stream"}, o \in {"none", "found", "endless"},
                 c \in {"unreadable", "no dictionary", "wrong type", "array", "no pages", "good"},
                 n \in {"negative", "good"},
                 g \in {"unreadable", "no dictionary", "wrong type", "no kids", "not an array", "good"}}]

MCFiles == TreeFiles \union AttributeFiles \union PrologueFiles
MCTrees ==
  ManyTrees \union BlankTrees \union {FixedTree, [FixedTree EXCEPT ![q] = Other]}
=============================================================================
