---------------------------- MODULE PageReports ------------------------------
(***************************************************************************)
(* What Validate and FirstPageInfo say of a file, against what the file    *)
(* holds and against each other.                                           *)
(***************************************************************************)
EXTENDS PageChecks, PageOrder, Functions

(***************************************************************************)
(* The nodes of the document: the least set with the root and with the     *)
(* kids of every /Pages in it.                                             *)
(***************************************************************************)
Closed(S) == \A n \in S : Pages(n) => \A i \in 1..Len(Kids(n)) : Kids(n)[i] \in S

Document ==
  LET closed == {S \in {{Root} \union T : T \in SUBSET (Node \ {Root})} : Closed(S)}
  IN  {n \in Node : \A S \in closed : n \in S}

DocumentPages == {n \in Document : Page(n)}

\* The walks of Validate cut no branch.
Shallow == Cardinality({n \in Document : Pages(n)}) <= MaxTreeDepth + 1

(***************************************************************************)
(* The rule of inheritance: from n along /Parent to the first node that    *)
(* has the attribute, as far as a lookup may go.                           *)
(***************************************************************************)
Lines(attribute, n) ==
  {line \in UNION {[1..d -> Node] : d \in 1..MaxLookup+1} :
     /\ line[1] = n
     /\ \A i \in 1..Len(line) : Dictionary(line[i])
     /\ \A i \in 1..Len(line)-1 :
          ~Has(attribute, line[i]) /\ line[i+1] = own[line[i]].parent}

Source(attribute, n) ==
  {m \in {line[Len(line)] : line \in Lines(attribute, n)} : Has(attribute, m)}

Inherits(attribute, n) == Source(attribute, n) # {}

(***************************************************************************)
(* Validate looks at the attributes of every page of the document, though  *)
(* the tree may have nodes in several places and cycles, and at nothing    *)
(* else (validation.go:409-490).                                           *)
(***************************************************************************)
EveryPageChecked ==
  (op = "fonts" \/ report.done) /\ WalksPages /\ Shallow => checked = DocumentPages

(***************************************************************************)
(* A document that is reported valid has a /MediaBox for each of its       *)
(* pages, own or inherited, and a page that has one is not complained of   *)
(* (validation.go:464-478).                                                *)
(***************************************************************************)
ValidMeansBoxes ==
  report.done /\ WalksPages /\ Shallow =>
    report.boxless = {n \in DocumentPages : ~Inherits("MediaBox", n)}

(***************************************************************************)
(* Of a document that Validate finds valid FirstPageInfo does not say that *)
(* its first page has no /MediaBox, or that it has no page tree unless     *)
(* there is nothing in it or Validate has left a damaged dictionary at a   *)
(* warning (service.go:2721-2727, validation.go:42-97).                    *)
(***************************************************************************)
ReportsAgree ==
  report.done /\ report.valid /\ Shallow /\ first.done =>
    /\ first.why # "MediaBox"
    /\ first.why = "structure" =>
         \/ prologue.catalog = "no dictionary"
         \/ prologue.pages \in {"no dictionary", "no kids"}
         \/ Kids(Root) = <<>>

\* A /Rotate may be missing, but what is found has to be an integer.
RotateReadable(n) ==
  \E line \in Lines("Rotate", n) :
    LET m == line[Len(line)]
    IN  IF Has("Rotate", m) THEN own[m].rotate = "integer" ELSE own[m].parent = NoNode

\* What FirstPageInfo needs of a page.
Usable(n) ==
  /\ own[n].parent # NoNode
  /\ Inherits("MediaBox", n)
  /\ Inherits("Resources", n)
  /\ tree[n].contents
  /\ RotateReadable(n)

(***************************************************************************)
(* When all pages are usable FirstPageInfo describes the first page of the *)
(* document, however deep it is and whatever stands before it              *)
(* (service.go:2670-2768).                                                 *)
(***************************************************************************)
FirstPageIsFirst ==
  first.done /\ first.why # "structure" =>
    LET order == DocumentOrder
    IN  (\A n \in Range(order) : Usable(n)) =>
          IF order = <<>> THEN first.why = "no page" ELSE first.page = order[1]


(***************************************************************************)
(* "maxPageTreeDepth limits recursion when traversing the PDF Pages tree   *)
(* to prevent stack overflow from maliciously deep or cyclic trees"        *)
(* (service.go:51-52).                                                     *)
(***************************************************************************)
DescentBounded == Len(stack) <= Cardinality(Node) + 1

(***************************************************************************)
(* "ValidationReport contains errors (fatal)" (service.go:411): a valid    *)
(* document has none.                                                      *)
(***************************************************************************)
ValidHasNoErrors == report.done /\ report.valid => report.badFonts = {}

(***************************************************************************)
(* FirstPageInfo is about "first-page structure" (service.go:2962): a page *)
(* that it cannot describe makes it fail, and not go on to a later one.    *)
(***************************************************************************)
NoLaterPage == first.ok => first.page = DocumentOrder[1]

(***************************************************************************)
(* "checks font resource reference integrity for all pages"                *)
(* (validation.go:490), whose resources may be inherited.                  *)
(***************************************************************************)
EveryFontChecked ==
  report.done /\ WalksPages /\ Shallow =>
    \A n \in DocumentPages :
      \A s \in Source("Resources", n) : own[s].fonts = "wrong type" => s \in report.badFonts
=============================================================================
