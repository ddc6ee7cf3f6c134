----------------------------- MODULE PageLookup ------------------------------
(***************************************************************************)
(* Reading a page by its number and numbering a page by its reference:     *)
(* ExtractTextPage (internal/pdf/service.go:621-698), which takes the      *)
(* contents from readAllPages (service.go:442-548) and the fonts from      *)
(* findPageObject (font.go:201-284); the tool document_read_page           *)
(* (internal/mcp/handler.go:426-499), which runs the page iterator up to   *)
(* the number; and GoTo of the navigator (navigator.go:23-222).            *)
(***************************************************************************)
EXTENDS PageOrder, SequencesExt

CONSTANTS
  NoPage,
  MaxDepth     \* maxPageTreeDepth

ASSUME MaxDepthAssumption == MaxDepth \in Nat

VARIABLE lookup      \* the last lookup and its answer

(***************************************************************************)
(* readAllPages keeps the pages that have contents; a branch that is too   *)
(* deep or that has no kids is skipped.                                    *)
(***************************************************************************)
RECURSIVE ReadAll(_, _, _)
ReadAll(acc, n, depth) ==
  IF depth > MaxDepth THEN acc
  ELSE FoldLeft(
         LAMBDA a, kid :
           IF kid \in a.seen THEN a
           ELSE LET here == [a EXCEPT !.seen = @ \union {kid}]
                IN  IF Pages(kid) THEN ReadAll(here, kid, depth + 1)
                    ELSE IF Page(kid) /\ tree[kid].contents
                         THEN [here EXCEPT !.pages = Append(@, kid)]
                    ELSE here,
         acc, Kids(n))

\* Mutant of ReadAllPages: only the kids of the root are looked at.
ReadDirectPages == SelectSeq(Kids(Root), LAMBDA n : Page(n) /\ tree[n].contents)

ReadAllPages == ReadAll([pages |-> <<>>, seen |-> {}], Root, 0).pages

\* Mutant of FindPage: the kids are counted as if all of them were pages.
FindKid(n, index) == IF index < Len(Kids(n)) THEN <<Kids(n)[index + 1]>> ELSE <<>>

(***************************************************************************)
(* findPageObject trusts /Count to skip a branch, counts pages without     *)
(* contents, and does not note where it was: <<>> when no page has the     *)
(* index.  Only on trees without cycles does it return.                    *)
(***************************************************************************)
RECURSIVE FindPage(_, _)
FindPage(n, index) ==
  LET Scan(acc, kid) ==
        IF acc.found # <<>> \/ acc.stop THEN acc
        ELSE IF Page(kid)
             THEN IF acc.at = index THEN [acc EXCEPT !.found = <<kid>>]
                                    ELSE [acc EXCEPT !.at = @ + 1]
        ELSE IF Pages(kid)
             THEN IF acc.at + tree[kid].count > index
                  THEN [acc EXCEPT !.found = FindPage(kid, index - acc.at), !.stop = TRUE]
                  ELSE [acc EXCEPT !.at = @ + tree[kid].count]
        ELSE acc
  IN  FoldLeft(Scan, [at |-> 0, found |-> <<>>, stop |-> FALSE], Kids(n)).found

(***************************************************************************)
(* traverseForNumber stops the loop over the kids of the node that has the *)
(* target; the loops around it go on counting.                             *)
(***************************************************************************)
RECURSIVE Traverse(_, _, _, _)
Traverse(acc, n, target, depth) ==
  IF depth > MaxDepth \/ n \in acc.seen \/ ~Pages(n) THEN acc
  ELSE LET Step(a, kid) ==
             IF a.stop \/ kid \in a.seen THEN a
             ELSE IF Pages(kid) THEN Traverse(a, kid, target, depth + 1)
             ELSE IF Page(kid) THEN [a EXCEPT !.count = @ + 1, !.stop = (kid = target)]
             ELSE a
           last == FoldLeft(Step, [acc EXCEPT !.seen = @ \union {n}], Kids(n))
       IN  [last EXCEPT !.stop = FALSE]

PageNumber(target) == Traverse([count |-> 0, seen |-> {}, stop |-> FALSE], Root, target, 0).count

-----------------------------------------------------------------------------
\* The nodes at and under n, with repetition; depth bounds the walk of a cycle.
RECURSIVE Under(_, _)
Under(n, depth) ==
  IF depth = 0 \/ ~Pages(n) THEN <<n>>
  ELSE <<n>> \o FlattenSeq([i \in 1..Len(Kids(n)) |-> Under(Kids(n)[i], depth - 1)])

AllUnder(n) == Under(n, Cardinality(Node) + 1)

(***************************************************************************)
(* A tree as the format wants it: every node in one place, every /Count    *)
(* the number of pages under the node, and no deeper than the code allows. *)
(***************************************************************************)
WellFormed ==
  /\ IsInjective(AllUnder(Root))
  /\ \A n \in Range(AllUnder(Root)) :
       Pages(n) => tree[n].count = Len(SelectSeq(AllUnder(n), Page))
  /\ AllUnder(Root) = Under(Root, MaxDepth + 1)

NoBlankPage == \A n \in Range(DocumentOrder) : tree[n].contents

-----------------------------------------------------------------------------
None == [op |-> "none", asked |-> 0, number |-> 0, page |-> NoPage, fonts |-> <<>>]

Init == tree \in Trees /\ lookup = None

\* An error of findPageObject leaves the page without fonts.
ExtractTextPage(number) ==
  /\ number <= Len(ReadAllPages)
  /\ lookup' = [op |-> "extract", asked |-> number, number |-> number,
                page |-> ReadAllPages[number], fonts |-> FindPage(Root, number - 1)]
  /\ UNCHANGED tree

\* What the iterator yields of an order of pages, see PageIteration: the numbers of the readable ones.
Yielded(order) == {i \in 1..Len(order) : tree[order[i]].contents}

(***************************************************************************)
(* The loop ends at the page with the number, or with the last page that   *)
(* the iterator yields, or with the zero PageData.                         *)
(***************************************************************************)
ReadPage(number) ==
  /\ number <= tree[Root].count
  /\ lookup' =
       LET order == DocumentOrder
           yielded == Yielded(order)
           i == IF number \in yielded THEN number ELSE Max(yielded)
       IN  IF yielded = {} THEN [None EXCEPT !.op = "readpage", !.asked = number]
           ELSE [op |-> "readpage", asked |-> number, number |-> i, page |-> order[i], fonts |-> <<>>]
  /\ UNCHANGED tree

(***************************************************************************)
(* GoTo refuses what is no page and a page without contents.  Every page   *)
(* here has a /MediaBox; its lookup is PageAttributes.                     *)
(***************************************************************************)
GoTo(n) ==
  /\ Page(n)
  /\ tree[n].contents
  /\ lookup' = [op |-> "goto", asked |-> 0, number |-> PageNumber(n), page |-> n, fonts |-> <<>>]
  /\ UNCHANGED tree

Next == \/ \E number \in 1..Cardinality(Node) : ExtractTextPage(number) \/ ReadPage(number)
        \/ \E n \in Node : GoTo(n)

Spec == Init /\ [][Next]_<<tree, lookup>>

-----------------------------------------------------------------------------
TypeOK ==
  /\ tree \in [Node -> NodeObject]
  /\ lookup \in [op : {"none", "extract", "readpage", "goto"}, asked : Nat, number : Nat,
                 page : Node \union {NoPage}, fonts : Seq(Node)]

\* The place of a page in the document.
Place(n) == CHOOSE i \in 1..Len(DocumentOrder) : DocumentOrder[i] = n

(***************************************************************************)
(* In a well-formed tree whose pages all have contents, the two traversals *)
(* that ExtractTextPage combines meet at one page (service.go:621-698,     *)
(* font.go:201-284).                                                       *)
(***************************************************************************)
ExtractsWholePage ==
  lookup.op = "extract" /\ WellFormed /\ NoBlankPage =>
    lookup.fonts = <<lookup.page>>

(***************************************************************************)
(* In such a tree document_read_page returns the page asked for, and it    *)
(* and ExtractTextPage mean the same page by a number                      *)
(* (handler.go:471-489, service.go:666-672).                               *)
(***************************************************************************)
NumbersMeanTheSame ==
  lookup.op \in {"extract", "readpage"} /\ WellFormed /\ NoBlankPage =>
    lookup.number = lookup.asked /\ lookup.page = DocumentOrder[lookup.asked]

(***************************************************************************)
(* The navigator numbers a page that is directly under the root by its     *)
(* place, and counts none twice and none too few for the others            *)
(* (navigator.go:155-222).                                                 *)
(***************************************************************************)
NavigatorNumber ==
  lookup.op = "goto" /\ WellFormed =>
    LET n == lookup.page
    IN  /\ n \in Range(Kids(Root)) => lookup.number = Place(n)
        /\ n \in Range(DocumentOrder) => lookup.number \in Place(n)..Len(DocumentOrder)

(***************************************************************************)
(* "findPageNumber traverses the Pages tree to find the 1-based index of   *)
(* the given page ref" (navigator.go:122).                                 *)
(***************************************************************************)
NavigatorFindsIndex ==
  lookup.op = "goto" /\ WellFormed /\ lookup.page \in Range(DocumentOrder) =>
    lookup.number = Place(lookup.page)

(***************************************************************************)
(* "Resolve fonts for this page" (service.go:584): the text of a page is   *)
(* decoded with the fonts of that page.                                    *)
(***************************************************************************)
FontsOfThisPage ==
  lookup.op = "extract" /\ WellFormed => lookup.fonts = <<lookup.page>>

(***************************************************************************)
(* "It reads a specific page ... by 1-based page number"                   *)
(* (handler.go:424-425): the page returned is the one asked for.           *)
(***************************************************************************)
ReadsPageAsked == lookup.op = "readpage" /\ WellFormed => lookup.number = lookup.asked
=============================================================================
