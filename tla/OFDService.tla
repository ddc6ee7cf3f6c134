----------------------------- MODULE OFDService ------------------------------
(***************************************************************************)
(* The OFD service and one document it opened (internal/ofd/service.go):   *)
(* information with its part that is loaded once, validation, text, the    *)
(* page iterator and the navigator, and Close at any time.  An operation   *)
(* is one step: the service keeps no lock and the repository starts no     *)
(* goroutine.                                                              *)
(***************************************************************************)
EXTENDS OFDPackage

VARIABLES
  meta,     \* what metaOnce has loaded
  it,       \* the page iterator
  given,    \* history: the pages it has returned since it was at the start
  answer    \* the last operation and its result

vars == <<pkg, zip, meta, it, given, answer>>

NotLoaded == [done |-> FALSE, failed |-> FALSE, version |-> FALSE, count |-> 0]
NoIterator == [made |-> FALSE, index |-> 0]
NothingGiven == [pages |-> <<>>, ended |-> FALSE]
Failed(op) == [op |-> op, ok |-> FALSE]

Init ==
  /\ pkg \in Packages
  /\ zip = "none"
  /\ meta = NotLoaded
  /\ it = NoIterator
  /\ given = NothingGiven
  /\ answer = Failed("none")

\* validateZipSafety refuses a package for its size, and it is closed again.
Open ==
  /\ zip \in {"none", "refused"}
  /\ zip' = IF pkg.bomb THEN "refused" ELSE "open"
  /\ answer' = [op |-> "open", ok |-> ~pkg.bomb]
  /\ UNCHANGED <<pkg, meta, it, given>>

\* There is a document to call the operations with.
Opened == zip \in {"open", "closed"}

\* The handle is not cleared: the second Close is one of a closed file.
Close ==
  /\ Opened
  /\ zip' = "closed"
  /\ answer' = [op |-> "close", ok |-> zip = "open"]
  /\ UNCHANGED <<pkg, meta, it, given>>

\* The version may be loaded and the count not.
LoadMeta ==
  [done |-> TRUE,
   failed |-> ~GetPageCount,
   version |-> GoodFirst(OFDXml),
   count |-> IF GetPageCount THEN PageCount ELSE 0]

Info ==
  /\ Opened
  /\ meta' = IF meta.done THEN meta ELSE LoadMeta
  /\ answer' = [op |-> "info", ok |-> TRUE,
                version |-> meta'.version, count |-> meta'.count,
                seals |-> CollectSealSummaries, fonts |-> Resources,
                pages |-> CollectPageInfo, annotations |-> CollectAnnotationInfo]
  /\ UNCHANGED <<pkg, zip, it, given>>

EntryErrors ==
  (IF Present(OFDXml) THEN {} ELSE {"missing OFD.xml"}) \union
  (IF \E n \in DocumentNames : Present(n) THEN {} ELSE {"missing Document.xml"})

DocRootErrors ==
  CASE ~GetDocRoot -> {"failed to parse DocRoot"}
    [] GetDocRoot /\ pkg.docRoot = NotGiven -> {"DocRoot is missing"}
    [] GetDocRoot /\ pkg.docRoot # NotGiven /\ ~(RootTrimmed(2) /\ Present(pkg.docRoot)) ->
         {"DocRoot points to a non-existent file"}
    [] OTHER -> {}

Validate ==
  /\ Opened
  /\ LET hasDocument == \E n \in DocumentNames : Present(n)
         errors == EntryErrors \union (IF hasDocument THEN DocRootErrors ELSE {})
     IN  answer' = [op |-> "validate", ok |-> TRUE,
                    valid |-> errors = {}, errors |-> errors,
                    seals |-> IF hasDocument THEN ValidateSeals ELSE {},
                    resources |-> IF hasDocument THEN ValidateResources ELSE {}]
  /\ UNCHANGED <<pkg, zip, meta, it, given>>

\* A page that is missing or damaged is left out.
ExtractText ==
  /\ Opened
  /\ answer' = IF ReadDocumentXML
               THEN [op |-> "text", ok |-> TRUE, pages |-> Kept(PageLocations, {n \in Name : Good(n)})]
               ELSE Failed("text")
  /\ UNCHANGED <<pkg, zip, meta, it, given>>

\* Mutant of ExtractTextPage: the pages that are there are numbered.
ExtractPresentPage(number) ==
  /\ Opened
  /\ LET pages == Kept(PageLocations, {n \in Name : Good(n)})
     IN  answer' = IF ReadDocumentXML /\ number \in 1..Len(pages)
                   THEN [op |-> "textpage", ok |-> TRUE, number |-> number, page |-> pages[number]]
                   ELSE Failed("textpage")
  /\ UNCHANGED <<pkg, zip, meta, it, given>>

ExtractTextPage(number) ==
  /\ Opened
  /\ answer' = IF /\ ReadDocumentXML
                  /\ number \in 1..Len(PageLocations)
                  /\ Good(PageLocations[number])
               THEN [op |-> "textpage", ok |-> TRUE, number |-> number, page |-> PageLocations[number]]
               ELSE Failed("textpage")
  /\ UNCHANGED <<pkg, zip, meta, it, given>>

FirstPageInfo ==
  /\ Opened
  /\ answer' = IF ReadDocumentXML THEN [op |-> "firstpage", ok |-> TRUE, box |-> FirstPhysicalBox]
               ELSE Failed("firstpage")
  /\ UNCHANGED <<pkg, zip, meta, it, given>>

NewPageIterator ==
  /\ Opened
  /\ IF ReadDocumentXML
     THEN /\ it' = [made |-> TRUE, index |-> 0]
          /\ given' = NothingGiven
          /\ answer' = [op |-> "iterator", ok |-> TRUE]
     ELSE /\ answer' = Failed("iterator")
          /\ UNCHANGED <<it, given>>
  /\ UNCHANGED <<pkg, zip, meta>>

NextEOF ==
  /\ it.made
  /\ it.index >= Len(PageLocations)
  /\ given' = [given EXCEPT !.ended = TRUE]
  /\ answer' = [op |-> "next", ok |-> FALSE, eof |-> TRUE]
  /\ UNCHANGED <<pkg, zip, meta, it>>

\* Mutant of NextFails: the page is passed over.
NextSkips ==
  /\ it.made
  /\ it.index < Len(PageLocations)
  /\ ~Good(PageLocations[it.index + 1])
  /\ it' = [it EXCEPT !.index = @ + 1]
  /\ answer' = [op |-> "next", ok |-> FALSE, eof |-> FALSE]
  /\ UNCHANGED <<pkg, zip, meta, given>>

\* Mutant of NextFails: a page that is not there is taken for the end.
NextEnds ==
  /\ it.made
  /\ it.index < Len(PageLocations)
  /\ ~Good(PageLocations[it.index + 1])
  /\ given' = [given EXCEPT !.ended = TRUE]
  /\ answer' = [op |-> "next", ok |-> FALSE, eof |-> TRUE]
  /\ UNCHANGED <<pkg, zip, meta, it>>

\* The index stays: the next call comes to the same page.
NextFails ==
  /\ it.made
  /\ it.index < Len(PageLocations)
  /\ ~Good(PageLocations[it.index + 1])
  /\ answer' = [op |-> "next", ok |-> FALSE, eof |-> FALSE]
  /\ UNCHANGED <<pkg, zip, meta, it, given>>

NextPage ==
  /\ it.made
  /\ it.index < Len(PageLocations)
  /\ LET page == PageLocations[it.index + 1]
     IN  /\ Good(page)
         /\ given' = [given EXCEPT !.pages = Append(@, page)]
         /\ answer' = [op |-> "next", ok |-> TRUE, number |-> it.index + 1, page |-> page]
  /\ it' = [it EXCEPT !.index = @ + 1]
  /\ UNCHANGED <<pkg, zip, meta>>

Reset ==
  /\ it.made
  /\ it' = [it EXCEPT !.index = 0]
  /\ given' = NothingGiven
  /\ answer' = [op |-> "reset", ok |-> TRUE]
  /\ UNCHANGED <<pkg, zip, meta>>

\* The number of an entry that is no page is zero, of one listed twice the first.
NumberOf(n) ==
  LET places == {i \in 1..Len(PageLocations) : PageLocations[i] = n}
  IN  IF places = {} THEN 0 ELSE CHOOSE i \in places : \A j \in places : i <= j

(***************************************************************************)
(* A navigator is made and used: it keeps the names and the list, which    *)
(* do not change, and it cannot be made of a closed document.              *)
(***************************************************************************)
GoTo(n) ==
  /\ Opened
  /\ answer' = IF ReadDocumentXML /\ Good(n)
               THEN [op |-> "goto", ok |-> TRUE, number |-> NumberOf(n), page |-> n]
               ELSE Failed("goto")
  /\ UNCHANGED <<pkg, zip, meta, it, given>>

Next ==
  \/ Open \/ Close \/ Info \/ Validate \/ ExtractText \/ FirstPageInfo
  \/ \E number \in 1..Len(pkg.list) : ExtractTextPage(number)
  \/ NewPageIterator \/ NextEOF \/ NextFails \/ NextPage \/ Reset
  \/ \E n \in Name : GoTo(n)

Spec == Init /\ [][Next]_vars

-----------------------------------------------------------------------------
TypeOK ==
  /\ pkg \in Package
  /\ zip \in {"none", "refused", "open", "closed"}
  /\ meta \in [done : BOOLEAN, failed : BOOLEAN, version : BOOLEAN, count : Nat]
  /\ it \in [made : BOOLEAN, index : 0..Len(PageLocations)]
  /\ given \in [pages : Seq(Name), ended : BOOLEAN]

(***************************************************************************)
(* The pages one after the other and then io.EOF, and from the first again *)
(* after Reset: a page whose entry is missing or damaged, or a document    *)
(* that is closed in between, never makes the iterator pass one over or    *)
(* end early (service.go:947-972; interfaces.go:110-117).                  *)
(***************************************************************************)
Source == INSTANCE PageSource WITH
  order  <- PageLocations,
  at     <- Len(given.pages),
  last   <- IF given.pages = <<>> THEN NotGiven ELSE Last(given.pages),
  eof    <- given.ended,
  lost   <- FALSE,
  NoPage <- NotGiven

ImplementsPageSource == Source!Spec

(***************************************************************************)
(* A page has one number, whichever way it is reached: by the iterator,    *)
(* wherever it was reset or stopped, by the text of a page, or by the      *)
(* navigator, which numbers a page that is listed twice by its first place *)
(* and an entry that is no page zero (service.go:660-722, 947-1005).       *)
(***************************************************************************)
NumberNamesPage ==
  answer.ok /\ answer.op \in {"next", "textpage", "goto"} =>
    \/ answer.number > 0 /\ PageLocations[answer.number] = answer.page
    \/ answer.op = "goto" /\ answer.number = 0 /\ answer.page \notin Range(PageLocations)

(***************************************************************************)
(* An iterator that came to the end has given what the whole text is taken *)
(* from: the one stops at a missing page, the other goes on, and neither   *)
(* leaves out a page that is there (service.go:630-655, 947-967).          *)
(***************************************************************************)
TextHasEveryPage ==
  answer.ok /\ answer.op = "text" =>
    /\ given.ended => answer.pages = given.pages
    /\ given.pages # <<>> => IsPrefix(given.pages, answer.pages)

(***************************************************************************)
(* What Validate finds valid can be read: three functions look for         *)
(* Document.xml by rules of their own (service.go:401-459, 822-846,        *)
(* 892-944, 1165-1186).  A DocRoot with two prefixes is excepted, see      *)
(* ValidCanBeRead.                                                         *)
(***************************************************************************)
ValidOpens ==
  answer.op = "validate" /\ answer.valid /\ pkg.dots < 2 =>
    pkg.docRoot # NotGiven /\ (Sound(pkg.docRoot) => ReadDocumentXML)

(***************************************************************************)
(* The page count that is loaded once and the list of pages that Info      *)
(* makes each time agree, whatever was called or closed in between         *)
(* (service.go:66-83, 118-160, 234-298, 1190-1240).  Where Document.xml    *)
(* has two entries, the one counts the first and the other lists the last. *)
(***************************************************************************)
CountMatchesPages ==
  answer.op = "info" /\ answer.pages # <<>> /\ pkg.whole /\ Once(pkg.docRoot) =>
    answer.count = Len(answer.pages)

(***************************************************************************)
(* Info and Validate find and read the seal of a signature with code of    *)
(* their own (service.go:351-397, 502-542).  Info has a summary of every   *)
(* signature that Validate has no complaint about; and where the seal has  *)
(* one entry in the archive, the summary describes it if and only if       *)
(* Validate has none.  Where there are two, Info reads the first and       *)
(* Validate the last, see SealsAlwaysAgree.                                *)
(***************************************************************************)
SealsAgree ==
  answer.op = "info" =>
    /\ \A i \in 1..Len(Signatures) \ ValidateSeals : i \in DOMAIN answer.seals
    /\ \A i \in DOMAIN answer.seals :
         Once(Signatures[i]) => (answer.seals[i] <=> i \notin ValidateSeals)

(***************************************************************************)
(* SealsAgree with no exception: Info and Validate say the same of a seal  *)
(* that has two entries (service.go:367-387, 509-523).                     *)
(***************************************************************************)
SealsAlwaysAgree ==
  answer.op = "info" =>
    \A i \in DOMAIN answer.seals : answer.seals[i] <=> i \notin ValidateSeals

(***************************************************************************)
(* "It is safe to call Close multiple times; subsequent calls are no-ops"  *)
(* (service.go:56).                                                        *)
(***************************************************************************)
CloseAgainIsFine == answer.op = "close" => answer.ok

(***************************************************************************)
(* What Validate finds valid can be read, when it is not damaged           *)
(* ("validates DocRoot references", service.go:400).                       *)
(***************************************************************************)
ValidCanBeRead ==
  answer.op = "validate" /\ answer.valid =>
    pkg.docRoot # NotGiven /\ (Sound(pkg.docRoot) => ReadDocumentXML)

(***************************************************************************)
(* "Uses document-level default width/height if page has no                *)
(* Area/PhysicalBox" (service.go:261): a page that has one has its own.    *)
(***************************************************************************)
PageHasOwnBox ==
  answer.op = "info" =>
    \A i \in 1..Len(answer.pages) :
      pkg.list[i].box # NotGiven => answer.pages[i].box = pkg.list[i].box

(***************************************************************************)
(* "reads the Signatures.xml file and returns signature entries"           *)
(* (seal.go:34): all of them.                                              *)
(***************************************************************************)
EverySignature ==
  answer.op = "info" /\ Good(SignaturesXml) => Len(Signatures) = Len(pkg.sigs)

(***************************************************************************)
(* "Returns (nil, nil) if PhysicalBox is not present" (service.go:799).    *)
(***************************************************************************)
NoResultWithoutBox == answer.op = "firstpage" /\ answer.ok => answer.box # NotGiven

(***************************************************************************)
(* "per-page physical dimensions" (service.go:153) carry the number that   *)
(* the other operations give the page.                                     *)
(***************************************************************************)
InfoNumbersPages ==
  answer.op = "info" =>
    \A i \in 1..Len(answer.pages) :
      pkg.list[i].loc # NotGiven => /\ answer.pages[i].number <= Len(PageLocations)
                                    /\ PageLocations[answer.pages[i].number] = pkg.list[i].loc
=============================================================================
