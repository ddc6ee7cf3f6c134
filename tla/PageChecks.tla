----------------------------- MODULE PageChecks ------------------------------
(***************************************************************************)
(* The operations on an open PDF that look up attributes of pages on a     *)
(* walk of the page tree: FirstPageInfo (internal/pdf/service.go:1118,     *)
(* 2670-2768, 2963-2992) and the six levels of Validate (validation.go).   *)
(* A walk keeps a stack with the kids that are left of each node it is in; *)
(* a lookup of PageAttributes runs while pc waits for it.                  *)
(***************************************************************************)
EXTENDS PageAttributes

CONSTANTS
  MaxTreeDepth,     \* maxPageTreeDepth, of the walks of Validate
  Files,            \* the files considered
  OnLoops           \* FirstPageInfo is called on trees with cycles, too

\* The file up to the page tree, as far as the levels look at it.
Prologue ==
  [header : BOOLEAN,                            \* a version can be read
   startxref : BOOLEAN,
   index : {"unreadable", "empty", "outside", "good"},
   trailer : {"unreadable", "no root", "no size", "stream", "good"},
   root : {"none", "found", "endless"},         \* /Root in it or an older one: what the search finds
   catalog : {"unreadable", "no dictionary", "wrong type", "array", "no pages", "good"},
   count : {"missing", "negative", "good"},     \* of the /Pages of the catalog
   pages : {"unreadable", "no dictionary", "wrong type", "no kids", "not an array", "good"}]

ASSUME FilesAssumption ==
  /\ MaxTreeDepth \in Nat
  /\ OnLoops \in BOOLEAN
  /\ \A f \in Files : f \in [tree : Trees, own : [Node -> Attributes], prologue : Prologue]

VARIABLES
  prologue,
  op,         \* the operation and for Validate its level
  pc,         \* what the walk does next
  stack,      \* the nodes that it is in, the root first
  seen,       \* the /Pages that a walk of Validate has visited
  page,       \* the page under examination
  report,     \* of Validate
  first,      \* the result of FirstPageInfo
  checked     \* history: the pages whose attributes Validate has looked at

file == <<tree, own, prologue>>
walk == <<stack, seen, page>>
results == <<report, first, checked>>
vars == <<file, climb, op, pc, walk, results>>

NoReport == [done |-> FALSE, valid |-> TRUE, errors |-> {}, boxless |-> {}, badFonts |-> {}]
NoFirst == [done |-> FALSE, ok |-> FALSE, page |-> NoNode, why |-> "none"]

Init ==
  /\ \E f \in Files : tree = f.tree /\ own = f.own /\ prologue = f.prologue
  /\ climb = NoLookup
  /\ op = "idle"
  /\ pc = "kids"
  /\ stack = <<>>
  /\ seen = {}
  /\ page = Root
  /\ report = NoReport
  /\ first = NoFirst
  /\ checked = {}

Top1 == stack[Len(stack)]
Kid == Top1.kids[1]
Enter(n) == Append(stack, [node |-> n, kids |-> Kids(n)])
\* The stack without the first kid of the node that the walk is in.
Advanced == [stack EXCEPT ![Len(stack)].kids = Tail(@)]
Left == SubSeq(stack, 1, Len(stack) - 1)
Walking == pc = "kids" /\ stack # <<>>

-----------------------------------------------------------------------------
(***************************************************************************)
(* The search for /Root follows /Prev and does not note where it was: on   *)
(* trailers without one that name each other it never ends, and the        *)
(* operation that made it never returns.                                   *)
(***************************************************************************)
RootSearchLoops == prologue.startxref /\ prologue.root = "endless"

SearchRootForever ==
  /\ op = "idle"
  /\ ~first.done \/ ~report.done
  /\ RootSearchLoops
  /\ op' = "searching"
  /\ UNCHANGED <<file, climb, pc, walk, results>>

\* The catalog can be reached, and read as far as its /Pages.
ToRoot == prologue.startxref /\ prologue.root = "found"
ToPages == ToRoot /\ prologue.catalog \in {"wrong type", "array", "good"}

\* No node is under itself.
LoopFree ==
  LET kids[n \in Node] == {Kids(n)[i] : i \in 1..Len(Kids(n))}
      under[d \in Nat] == IF d = 0 THEN kids
                          ELSE [n \in Node |-> under[d - 1][n] \union
                                               UNION {kids[k] : k \in under[d - 1][n]}]
  IN  \A n \in Node : n \notin under[Cardinality(Node)][n]

(***************************************************************************)
(* FirstPageInfo descends into the first kid that is a /Pages, without a   *)
(* limit and without noting where it was.                                  *)
(***************************************************************************)
FirstPageInfo ==
  /\ op = "idle"
  /\ ~first.done
  /\ ~RootSearchLoops
  /\ OnLoops \/ LoopFree
  /\ IF ToPages /\ prologue.pages = "good" /\ Kids(Root) # <<>>
     THEN op' = "firstpage" /\ stack' = Enter(Root) /\ first' = first
     ELSE op' = op /\ stack' = stack /\ first' = [NoFirst EXCEPT !.done = TRUE, !.why = "structure"]
  /\ UNCHANGED <<file, climb, pc, seen, page, report, checked>>

\* A kid that cannot be read or is no node, or a /Pages whose /Kids is empty, is left out.
PassKid ==
  /\ op = "firstpage" /\ Walking
  /\ Top1.kids # <<>>
  /\ ~Page(Kid)
  /\ Pages(Kid) => Kids(Kid) = <<>>
  /\ stack' = Advanced
  /\ UNCHANGED <<file, climb, op, pc, seen, page, results>>


Descend ==
  /\ op = "firstpage" /\ Walking
  /\ Top1.kids # <<>>
  /\ Pages(Kid)
  /\ Kids(Kid) # <<>>
  /\ stack' = Append(Advanced, [node |-> Kid, kids |-> Kids(Kid)])
  /\ UNCHANGED <<file, climb, op, pc, seen, page, results>>

(***************************************************************************)
(* An error ends the node that the walk is in: the one above goes on with  *)
(* its next kid, and above the root it is the result.                      *)
(***************************************************************************)
GiveUp(why) ==
  /\ stack' = Left
  /\ pc' = "kids"
  /\ IF Len(stack) > 1
     THEN UNCHANGED <<op, first>>
     ELSE op' = "idle" /\ first' = [NoFirst EXCEPT !.done = TRUE, !.why = why]

\* Mutant of NoPageHere: a node without a page ends the search.
NoPageAnywhere ==
  /\ op = "firstpage" /\ Walking
  /\ Top1.kids = <<>>
  /\ op' = "idle"
  /\ first' = [NoFirst EXCEPT !.done = TRUE, !.why = "no page"]
  /\ stack' = <<>>
  /\ UNCHANGED <<file, climb, pc, seen, page, report, checked>>

NoPageHere ==
  /\ op = "firstpage" /\ Walking
  /\ Top1.kids = <<>>
  /\ GiveUp("no page")
  /\ UNCHANGED <<file, climb, seen, page, report, checked>>

\* Mutant of FirstKidPage: what the page inherits is not looked up.
FirstKidPageAlone ==
  /\ op = "firstpage" /\ Walking
  /\ Top1.kids # <<>>
  /\ Page(Kid)
  /\ page' = Kid
  /\ IF own[Kid].parent = NoNode
     THEN GiveUp("Parent") /\ UNCHANGED climb
     ELSE pc' = "box" /\ climb' = NoLookup /\ UNCHANGED <<op, stack, first>>
  /\ UNCHANGED <<file, seen, report, checked>>

\* The first page of a node: it needs a /Parent, and then each attribute in turn.
FirstKidPage ==
  /\ op = "firstpage" /\ Walking
  /\ Top1.kids # <<>>
  /\ Page(Kid)
  /\ page' = Kid
  /\ IF own[Kid].parent = NoNode
     THEN GiveUp("Parent") /\ UNCHANGED climb
     ELSE /\ pc' = "box"
          /\ IF own[Kid].box THEN UNCHANGED climb ELSE Lookup("MediaBox", Kid)
          /\ UNCHANGED <<op, stack, first>>
  /\ UNCHANGED <<file, seen, report, checked>>

HasBox == own[page].box \/ (climb.attribute = "MediaBox" /\ climb.page = page /\ climb.result = "found")
HasResources ==
  own[page].resources # "none"
    \/ (climb.attribute = "Resources" /\ climb.page = page /\ climb.result = "found")

FirstBox ==
  /\ op = "firstpage" /\ pc = "box" /\ ~Climbing
  /\ IF HasBox
     THEN /\ pc' = "resources"
          /\ IF own[page].resources = "none" THEN Lookup("Resources", page) ELSE UNCHANGED climb
          /\ UNCHANGED <<op, stack, first>>
     ELSE GiveUp("MediaBox") /\ UNCHANGED climb
  /\ UNCHANGED <<file, seen, page, report, checked>>

FirstResources ==
  /\ op = "firstpage" /\ pc = "resources" /\ ~Climbing
  /\ IF HasResources /\ tree[page].contents
     THEN /\ pc' = "rotate"
          /\ Lookup("Rotate", page)
          /\ UNCHANGED <<op, stack, first>>
     ELSE GiveUp(IF HasResources THEN "Contents" ELSE "Resources") /\ UNCHANGED climb
  /\ UNCHANGED <<file, seen, page, report, checked>>

FirstRotate ==
  /\ op = "firstpage" /\ pc = "rotate" /\ ~Climbing
  /\ IF climb.result = "failed"
     THEN GiveUp("Rotate")
     ELSE /\ op' = "idle"
          /\ pc' = "kids"
          /\ stack' = <<>>
          /\ first' = [done |-> TRUE, ok |-> TRUE, page |-> page, why |-> "none"]
  /\ UNCHANGED <<file, climb, seen, page, report, checked>>

FirstPageStep ==
  \/ PassKid \/ Descend \/ NoPageHere \/ FirstKidPage \/ FirstBox \/ FirstResources \/ FirstRotate

-----------------------------------------------------------------------------
\* The errors of the first four levels.
HeaderErrors == IF prologue.header THEN {} ELSE {"header"}
XRefErrors == IF prologue.startxref /\ prologue.index = "good" THEN {} ELSE {"xref"}
TrailerErrors == IF prologue.startxref /\ prologue.trailer \in {"stream", "good"} THEN {} ELSE {"trailer"}
CatalogErrors ==
  IF ToRoot /\ prologue.catalog \in {"no dictionary", "good"} THEN {} ELSE {"catalog"}

\* A catalog or a /Pages that is no dictionary is a warning, and ends the level.
PagesErrors ==
  IF \/ ~ToRoot \/ prologue.catalog \in {"unreadable", "array", "no pages"}
     \/ prologue.catalog \in {"wrong type", "good"} /\ prologue.pages \in {"unreadable", "wrong type", "not an array"}
     \/ prologue.catalog \in {"wrong type", "good"} /\ prologue.pages \in {"no kids", "good"} /\ prologue.count = "negative"
  THEN {"pages"} ELSE {}
FontsErrors == IF ToRoot /\ prologue.catalog \in {"wrong type", "no dictionary", "good"} THEN {} ELSE {"fonts"}
WalksPages == ToRoot /\ prologue.catalog \in {"wrong type", "good"} /\ prologue.pages = "good"

Flag(errors) == [report EXCEPT !.errors = @ \union errors, !.valid = @ /\ errors = {}]

(***************************************************************************)
(* Every level is run whatever the others found; the last two walk the     *)
(* tree.                                                                   *)
(***************************************************************************)
Validate ==
  /\ op = "idle"
  /\ ~report.done
  /\ ~RootSearchLoops
  /\ report' = Flag(HeaderErrors \union XRefErrors \union TrailerErrors
                      \union CatalogErrors \union PagesErrors)
  /\ op' = "pages"
  /\ stack' = IF WalksPages THEN Enter(Root) ELSE <<>>
  /\ seen' = {Root}
  /\ UNCHANGED <<file, climb, pc, page, first, checked>>

Validating == op \in {"pages", "fonts"}

\* A /Pages that was visited, and what is no node; a page may be checked again.
ValidatePass ==
  /\ Validating /\ Walking
  /\ Top1.kids # <<>>
  /\ Kid \in seen \/ ~Dictionary(Kid)
  /\ stack' = Advanced
  /\ UNCHANGED <<file, climb, op, pc, seen, page, results>>

\* A branch that is too deep is left out, and not noted as visited.
ValidateCut ==
  /\ Validating /\ Walking
  /\ Top1.kids # <<>>
  /\ Kid \notin seen
  /\ Pages(Kid)
  /\ Len(stack) > MaxTreeDepth
  /\ stack' = Advanced
  /\ UNCHANGED <<file, climb, op, pc, seen, page, results>>

\* Mutant of ValidateDescend: the pages after the branch are left out.
ValidateDescendLast ==
  /\ Validating /\ Walking
  /\ Top1.kids # <<>>
  /\ Kid \notin seen
  /\ Pages(Kid)
  /\ Len(stack) <= MaxTreeDepth
  /\ seen' = seen \union {Kid}
  /\ stack' = Append(Left, [node |-> Kid, kids |-> Kids(Kid)])
  /\ UNCHANGED <<file, climb, op, pc, page, results>>

ValidateDescend ==
  /\ Validating /\ Walking
  /\ Top1.kids # <<>>
  /\ Kid \notin seen
  /\ Pages(Kid)
  /\ Len(stack) <= MaxTreeDepth
  /\ seen' = seen \union {Kid}
  /\ stack' = Append(Advanced, [node |-> Kid, kids |-> Kids(Kid)])
  /\ UNCHANGED <<file, climb, op, pc, page, results>>

ValidateLeave ==
  /\ Validating /\ Walking
  /\ Top1.kids = <<>>
  /\ stack' = Left
  /\ UNCHANGED <<file, climb, op, pc, seen, page, results>>

\* Mutant of ValidateBox: a lookup that found nothing is not an error.
ValidateBoxLenient ==
  /\ op = "pages" /\ pc = "box" /\ ~Climbing
  /\ checked' = checked \union {page}
  /\ pc' = "resources"
  /\ IF own[page].resources = "none" THEN Lookup("Resources", page) ELSE UNCHANGED climb
  /\ UNCHANGED <<file, op, walk, report, first>>

\* A page has a /MediaBox or looks it up, and so for /Resources, which only warn.
ValidatePage ==
  /\ op = "pages" /\ Walking
  /\ Top1.kids # <<>>
  /\ Page(Kid)
  /\ page' = Kid
  /\ stack' = Advanced
  /\ pc' = "box"
  /\ IF own[Kid].box THEN UNCHANGED climb ELSE Lookup("MediaBox", Kid)
  /\ UNCHANGED <<file, op, seen, results>>

ValidateBox ==
  /\ op = "pages" /\ pc = "box" /\ ~Climbing
  /\ report' = IF HasBox THEN report ELSE [report EXCEPT !.boxless = @ \union {page}, !.valid = FALSE]
  /\ checked' = checked \union {page}
  /\ pc' = "resources"
  /\ IF own[page].resources = "none" THEN Lookup("Resources", page) ELSE UNCHANGED climb
  /\ UNCHANGED <<file, op, walk, first>>

ValidateResources ==
  /\ op = "pages" /\ pc = "resources" /\ ~Climbing
  /\ pc' = "kids"
  /\ UNCHANGED <<file, climb, op, walk, results>>

\* The level of the fonts walks anew.
PagesDone ==
  /\ op = "pages" /\ pc = "kids" /\ stack = <<>>
  /\ op' = "fonts"
  /\ report' = Flag(FontsErrors)
  /\ stack' = IF ToRoot /\ prologue.catalog \in {"wrong type", "good"} /\ prologue.pages \in {"wrong type", "good"}
              THEN Enter(Root) ELSE <<>>
  /\ seen' = {Root}
  /\ UNCHANGED <<file, climb, pc, page, first, checked>>

\* Resources given inline are at hand; others are looked up, the page's own too.
ValidateFontsOf ==
  /\ op = "fonts" /\ Walking
  /\ Top1.kids # <<>>
  /\ Page(Kid)
  /\ page' = Kid
  /\ stack' = Advanced
  /\ pc' = "fonts"
  /\ IF own[Kid].resources = "inline" THEN UNCHANGED climb ELSE Lookup("Resources", Kid)
  /\ UNCHANGED <<file, op, seen, results>>

(***************************************************************************)
(* Resources that an ancestor has inline come back as no reference: their  *)
(* fonts are not checked.  A wrong /Type is an error that leaves the level *)
(* passed.                                                                 *)
(***************************************************************************)
FontsAt == IF own[page].resources = "inline" THEN {page}
           ELSE {n \in {climb.at} : climb.result = "found" /\ own[n].resources = "ref"}

ValidateFonts ==
  /\ op = "fonts" /\ pc = "fonts" /\ ~Climbing
  /\ report' = [report EXCEPT !.badFonts = @ \union {n \in FontsAt : own[n].fonts = "wrong type"}]
  /\ pc' = "kids"
  /\ UNCHANGED <<file, climb, op, walk, first, checked>>

FontsDone ==
  /\ op = "fonts" /\ pc = "kids" /\ stack = <<>>
  /\ op' = "idle"
  /\ report' = [report EXCEPT !.done = TRUE]
  /\ UNCHANGED <<file, climb, pc, walk, first, checked>>

ValidateStep ==
  \/ ValidatePass \/ ValidateCut \/ ValidateDescend \/ ValidateLeave
  \/ ValidatePage \/ ValidateBox \/ ValidateResources \/ PagesDone
  \/ ValidateFontsOf \/ ValidateFonts \/ FontsDone

LookupStep == Climb /\ UNCHANGED <<file, op, pc, walk, results>>

Next == FirstPageInfo \/ Validate \/ SearchRootForever \/ FirstPageStep \/ ValidateStep \/ LookupStep

Spec == Init /\ [][Next]_vars

\* A call that was made goes on.
FairSpec == Spec /\ WF_vars(FirstPageStep \/ ValidateStep \/ LookupStep)

-----------------------------------------------------------------------------
TypeOK ==
  /\ LookupTypeOK
  /\ tree \in [Node -> NodeObject]
  /\ prologue \in Prologue
  /\ op \in {"idle", "searching", "firstpage", "pages", "fonts"}
  /\ pc \in {"kids", "box", "resources", "rotate", "fonts"}
  /\ stack \in Seq([node : Node, kids : Seq(Node)])
  /\ seen \subseteq Node
  /\ page \in Node
  /\ report \in [done : BOOLEAN, valid : BOOLEAN, boxless : SUBSET Node, badFonts : SUBSET Node,
                 errors : SUBSET {"header", "xref", "trailer", "catalog", "pages", "fonts"}]
  /\ first \in [done : BOOLEAN, ok : BOOLEAN, page : Node \union {NoNode},
                why : {"none", "structure", "no page", "Parent", "MediaBox", "Resources",
                       "Contents", "Rotate"}]
  /\ checked \subseteq Node
=============================================================================
