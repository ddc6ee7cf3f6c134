------------------------------ MODULE MCRewrite ------------------------------
(***************************************************************************)
(* Every file of three sections that concerns one object, the catalog: the *)
(* newest (30) and the middle (20) are tables, possibly hybrid, or xref    *)
(* streams, or damaged; the oldest (10) is a table or a stream.  /Prev of  *)
(* the newest two may lead anywhere.                                       *)
(***************************************************************************)
EXTENDS Rewrite

CONSTANTS n1, n2

MCObj == {n1}
MCOffset == {10, 20, 30}
MCRooted == {{}, {10}, {30}}
MCZeroPrevs == {{}, {10}}

SectionOf(form, prevs, stms, kinds) ==
  [form : {form}, prev : prevs, xrefStm : stms, entry : [MCObj -> kinds]]

Tables(prevs, stms) == SectionOf("table", prevs, stms, {"absent", "free", "direct"})
Streams(prevs) == SectionOf("stream", prevs, {0}, {"absent", "free", "direct", "inObjStm"})
Damaged == SectionOf("unreadable", {0}, {0}, {"absent"})

Anywhere == MCOffset \union {0}

MCFiles ==
  {[o \in MCOffset |-> CASE o = 30 -> a [] o = 20 -> b [] o = 10 -> c] :
     a \in Tables(Anywhere, {0}) \union Streams(Anywhere) \union Damaged,
     b \in Tables(Anywhere, {0, 10}) \union Streams(Anywhere) \union Damaged,
     c \in Tables({0}, {0}) \union Streams({0})}

\* Files of tables none of which is its own predecessor.
MCFilesNoSelfLink ==
  {f \in MCFiles : \A o \in MCOffset : f[o].form = "table" /\ f[o].prev # o}

\* Files of two objects and one section, an xref stream.
MCTwoObj == {n1, n2}
MCOneOffset == {10}
MCOneStream ==
  [MCOneOffset ->
     [form : {"stream"}, prev : {0}, xrefStm : {0},
      entry : [MCTwoObj -> {"absent", "direct", "inObjStm"}]]]
MCOneRooted == {{10}}
MCNoZeroPrev == {{}}
=============================================================================
