----------------------------- MODULE MCXRefIndex -----------------------------
(***************************************************************************)
(* Every file of three sections that concerns one object: the newest (30)  *)
(* and the middle (20) are tables, possibly hybrid, or xref streams; the   *)
(* oldest (10) is a table, an xref stream, the XRefStm of a hybrid         *)
(* section, or damaged.  /Prev may lead anywhere.                          *)
(***************************************************************************)
EXTENDS XRefIndex

CONSTANT n1

MCObj == {n1}
MCOffset == {10, 20, 30}

SectionOf(form, stms, kinds) ==
  [form : {form}, prev : MCOffset \union {0}, xrefStm : stms, entry : [MCObj -> kinds]]

Tables(stms) == SectionOf("table", stms, {"absent", "free", "direct"})
Streams == SectionOf("stream", {0}, {"absent", "free", "direct", "inObjStm"})
Damaged ==
  [form : {"unreadable"}, prev : {0}, xrefStm : {0}, entry : [MCObj -> {"absent"}]]

MCFiles ==
  {[o \in MCOffset |-> CASE o = 30 -> a [] o = 20 -> b [] o = 10 -> c] :
     a \in Tables({0, 10}) \union Streams,
     b \in Tables({0, 10}) \union Streams \union Damaged,
     c \in Tables({0}) \union Streams \union Damaged}
=============================================================================
