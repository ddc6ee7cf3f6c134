--------------------------- MODULE PageIteration -----------------------------
(***************************************************************************)
(* The PDF page iterator against the order of the document.                *)
(***************************************************************************)
EXTENDS PageIterator, PageOrder

CONSTANT NoPage

(***************************************************************************)
(* The pages of the tree are returned in the order of the document, each   *)
(* once and none left out, whatever the shape of the tree: the walk with   *)
(* the suspended stack is the depth-first one (iterator.go:80-181).          *)
(***************************************************************************)
Source == INSTANCE PageSource WITH
  order <- Readables,
  at    <- Len(out),
  last  <- IF out = <<>> THEN NoPage ELSE out[Len(out)].ref,
  eof   <- exhausted,
  lost  <- halfReset

ImplementsPageSource == Source!Spec

(***************************************************************************)
(* The number of a page is its place in the document, pages without        *)
(* contents included ("1-based page number", interfaces.go:123).           *)
(***************************************************************************)
NumberIsPlace == ~halfReset => \A i \in 1..Len(out) : DocumentOrder[out[i].num] = out[i].ref

(***************************************************************************)
(* "After Reset, the next call to Next returns the first page (Number=1)"  *)
(* (iterator.go:184).                                                      *)
(***************************************************************************)
FirstPageAfterReset ==
  \A i \in 1..Len(out) : out[i].fresh => out[i].num = 1 /\ out[i].ref = DocumentOrder[1]
=============================================================================
