----------------------------- MODULE OFDPackage ------------------------------
(***************************************************************************)
(* An OFD package as internal/ofd reads it: the entries of a ZIP archive,  *)
(* and what the XML in them says.  Names are those of the entries, the     *)
(* prefixes "./" and "/" that the code trims being gone, except before     *)
(* DocRoot, where two places trim a different number of them.  A name may  *)
(* have several entries: nothing keeps an archive from that, and "x" and   *)
(* "./x" are two of one name.  The loops that stop at the entry they look  *)
(* for take the first, the indexes by name hold the last.  An entry that   *)
(* cannot be read is one whose data is damaged or longer than the limit of *)
(* readLimited; for the side files it is also one whose XML cannot be      *)
(* parsed, which is treated alike.                                         *)
(***************************************************************************)
EXTENDS Integers, Sequences, SequencesExt, FiniteSets

CONSTANTS
  Name,             \* the names of entries
  OFDXml,           \* "OFD.xml"
  DocumentNames,    \* the names that end with "/Document.xml"
  SignaturesXml,    \* "Doc_0/Signs/Signatures.xml"
  ResourceNames,    \* "Doc_0/PublicRes.xml", "Doc_0/DocumentRes.xml"
  AnnotationsXml,   \* "Doc_0/Annots/Annotations.xml"
  NotGiven,         \* an attribute, element or result that is not there
  Box,              \* the physical boxes
  Packages          \* the packages considered, subset of Package

ASSUME NamesAssumption ==
  /\ {OFDXml, SignaturesXml, AnnotationsXml} \union DocumentNames \union ResourceNames \subseteq Name
  /\ NotGiven \notin Name \union Box

Named == Name \union {NotGiven}

\* "seal" is an entry that ParseSealESL accepts.
Entry == {"damaged", "good", "seal"}

Package ==
  [bomb : BOOLEAN,                      \* more entries or data than Open allows
   file : [Name -> Seq(Entry)],         \* the entries of each name, in their order
   docRoot : Named,                     \* DocRoot in OFD.xml, its first entry
   dots : 0..2,                         \* how many "./" stand before it
   area : Box \union {NotGiven},        \* PhysicalBox of the document
   list : Seq([loc : Named,             \* BaseLoc of each <Page>
               box : Box \union {NotGiven}]),
   whole : BOOLEAN,                     \* Document.xml, its first entry, is well-formed to its end
   earlier : Nat,                       \* the pages of the first entry, where there is another
   sigs : Seq([base : Named,            \* BaseLoc of each <Signature>
               info : BOOLEAN,          \* has a SignedInfo
               seal : Named]),          \* Seal/BaseLoc in it
   fonts : [ResourceNames -> Seq(Named)],   \* FontFile, MediaFile of each entry
   notes : [Name -> Nat],               \* how many annotations an entry has
   annots : Seq(Named)]                 \* FileLoc of each page with annotations

ASSUME PackagesAssumption == Packages \subseteq Package

VARIABLES
  pkg,      \* the package
  zip       \* the handle on it: "none", "refused", "open" or "closed"

(***************************************************************************)
(* Of the first i elements of a sequence those in a set, in their order:   *)
(* SelectSeq, in a form that a proof can unfold.                           *)
(***************************************************************************)
KeptUpTo(s, S) ==
  LET kept[i \in Nat] == IF i = 0 THEN <<>>
                         ELSE IF s[i] \in S THEN Append(kept[i-1], s[i]) ELSE kept[i-1]
  IN  kept

Kept(s, S) == KeptUpTo(s, S)[Len(s)]

Present(n) == pkg.file[n] # <<>>
Once(n) == Len(pkg.file[n]) <= 1

FirstEntry(n) == pkg.file[n][1]
LastEntry(n) == pkg.file[n][Len(pkg.file[n])]

Sound(n) == Present(n) /\ LastEntry(n) # "damaged"

\* A file of an archive that was closed can still be named, and no longer be read.
Good(n) == zip = "open" /\ Sound(n)
GoodFirst(n) == zip = "open" /\ Present(n) /\ FirstEntry(n) # "damaged"

\* getDocRoot finds DocRoot or the empty string, or fails.
GetDocRoot == GoodFirst(OFDXml)

(***************************************************************************)
(* Every reader of Document.xml trims the prefix of DocRoot once, but      *)
(* getPageCount and validateDocRoot do it twice; and but getPageCount, all *)
(* read the last entry of its name.                                        *)
(***************************************************************************)
RootTrimmed(times) == pkg.docRoot # NotGiven /\ pkg.dots <= times
ReadDocumentXML == GetDocRoot /\ RootTrimmed(1) /\ Good(pkg.docRoot)
GetPageCount == GetDocRoot /\ RootTrimmed(2) /\ GoodFirst(pkg.docRoot) /\ pkg.whole

\* The pages that have a BaseLoc, wherever the XML ends.
PageLocations == Kept([i \in 1..Len(pkg.list) |-> pkg.list[i].loc], Name)

PageCount == IF pkg.docRoot # NotGiven /\ Once(pkg.docRoot) THEN Len(pkg.list) ELSE pkg.earlier

(***************************************************************************)
(* The box of the document is the first PhysicalBox of its XML.  The one   *)
(* of a page is parsed out of the text of the element by a function that   *)
(* looks for an element, and is never found: the page has the default.     *)
(***************************************************************************)
FirstPhysicalBox ==
  LET boxes == Kept(<<pkg.area>> \o [i \in 1..Len(pkg.list) |-> pkg.list[i].box], Box)
  IN  IF boxes = <<>> THEN NotGiven ELSE boxes[1]

CollectPageInfo ==
  IF ReadDocumentXML THEN [i \in 1..Len(pkg.list) |-> [number |-> i, box |-> FirstPhysicalBox]]
  ELSE <<>>

(***************************************************************************)
(* The parser of SignedInfo reads to the end of the file: the first        *)
(* signature that has one takes the last seal named from there on, and is  *)
(* the last signature.                                                     *)
(***************************************************************************)
Signatures ==
  LET withInfo == {i \in 1..Len(pkg.sigs) : pkg.sigs[i].info}
      last == IF withInfo = {} THEN Len(pkg.sigs)
              ELSE CHOOSE i \in withInfo : \A j \in withInfo : i <= j
      sealed == {i \in last..Len(pkg.sigs) : pkg.sigs[i].info /\ pkg.sigs[i].seal # NotGiven}
      SealBaseLoc(i) ==
        IF i = last /\ sealed # {}
        THEN pkg.sigs[CHOOSE j \in sealed : \A k \in sealed : k <= j].seal
        ELSE pkg.sigs[i].base
  IN  IF Good(SignaturesXml) THEN [i \in 1..last |-> SealBaseLoc(i)] ELSE <<>>

\* Of every signature that names a seal: whether the seal was read, from the first entry.
CollectSealSummaries ==
  [i \in {j \in 1..Len(Signatures) : Signatures[j] # NotGiven} |->
     GoodFirst(Signatures[i]) /\ FirstEntry(Signatures[i]) = "seal"]

\* Mutant of SealProblem: what is there is not read.
SealNotFound(loc) == IF loc # NotGiven /\ Present(loc) THEN "none" ELSE "not found"

\* validateSeals takes the last entry.
SealProblem(loc) == CASE loc = NotGiven -> "missing SealBaseLoc"
                      [] loc # NotGiven /\ ~Present(loc) -> "not found"
                      [] loc # NotGiven /\ Present(loc) /\ ~Good(loc) -> "failed to read"
                      [] loc # NotGiven /\ Good(loc) /\ LastEntry(loc) # "seal" -> "parse failed"
                      [] OTHER -> "none"

\* The signatures that Validate warns of.
ValidateSeals == {i \in 1..Len(Signatures) : SealProblem(Signatures[i]) # "none"}

\* One resource file that cannot be read hides the other.
Resources ==
  LET present == {r \in ResourceNames : Present(r)}
  IN  IF \A r \in present : Good(r) THEN UNION {Range(pkg.fonts[r]) : r \in present} ELSE {}

ValidateResources == {f \in Resources \ {NotGiven} : ~Present(f)}

CollectAnnotationInfo ==
  IF Good(AnnotationsXml)
  THEN Kept(pkg.annots, {f \in Name : Good(f) /\ pkg.notes[f] > 0})
  ELSE <<>>
=============================================================================
