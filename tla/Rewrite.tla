------------------------------- MODULE Rewrite -------------------------------
(***************************************************************************)
(* RewriteFile (internal/pdf/rewrite.go:28-138): find the catalog, collect *)
(* the offsets of the bodies to keep from the newest section to the        *)
(* oldest, write the bodies out as a file of one revision.  The rewriter   *)
(* reads the sections with code of its own, not with buildXRefIndex, whose *)
(* index (XRefChain) is here only what a property compares with.           *)
(***************************************************************************)
EXTENDS SectionWalk, XRefChain

CONSTANTS
  RootObj,    \* the object that the trailers name as the catalog
  Rooted,     \* the sets of sections that may be the ones whose trailer has /Root
  ZeroPrevs   \* the sets of sections that may be the ones whose /Prev, if 0, is written out

ASSUME RootAssumption == RootObj \in Obj /\ Rooted \subseteq SUBSET Offset
ASSUME ZeroPrevAssumption == ZeroPrevs \subseteq SUBSET Offset

VARIABLES
  rooted,     \* the sections whose trailer has a /Root
  zeroPrev,   \* the sections that have a /Prev even where it is 0
  kept,       \* result of collectXrefOffsets: whose body is kept, 0 for none
  skipped,    \* history: the objects that could not be read back
  output      \* the bodies in the new file

rewriteVars == <<file, startxref, rooted, zeroPrev, phase, current, visited, kept, chain, skipped, output>>

Nothing == [n \in Obj |-> 0]

RewriteInit ==
  /\ file \in Files
  /\ startxref \in Offset
  /\ rooted \in Rooted
  /\ zeroPrev \in ZeroPrevs
  /\ phase = "root"
  /\ current = startxref
  /\ visited = {}
  /\ kept = Nothing
  /\ chain = <<>>
  /\ skipped = {}
  /\ output = Nothing

(***************************************************************************)
(* The trailer that readTrailerDictLines finds from an offset: that of the *)
(* first table at or after it, or the dictionary of the stream that is     *)
(* there when no table follows.                                            *)
(***************************************************************************)
TrailersFrom(o) ==
  LET tables == {t \in Offset : t >= o /\ file[t].form = "table"}
  IN  IF tables # {} THEN {t \in tables : \A u \in tables : t <= u}
      ELSE {t \in {o} \intersect Offset : file[t].form = "stream"}

\* This search alone takes a /Prev of 0 for a link, to the start of the file.
HasPrev(t) == file[t].prev # 0 \/ t \in zeroPrev

FindRoot ==
  /\ phase = "root"
  /\ TrailersFrom(current) \intersect rooted # {}
  /\ phase' = "collect"
  /\ current' = startxref
  /\ UNCHANGED <<file, startxref, rooted, zeroPrev, visited, kept, chain, skipped, output>>

\* readTrailerRootRef calls itself on /Prev, and does not note where it was.
FollowPrevToRoot ==
  /\ phase = "root"
  /\ \E t \in TrailersFrom(current) \ rooted :
       /\ HasPrev(t)
       /\ current' = file[t].prev
  /\ UNCHANGED <<file, startxref, rooted, zeroPrev, phase, visited, kept, chain, skipped, output>>

NoRoot ==
  /\ phase = "root"
  /\ \A t \in TrailersFrom(current) : t \notin rooted /\ ~HasPrev(t)
  /\ phase' = "failed"
  /\ UNCHANGED <<file, startxref, rooted, zeroPrev, current, visited, kept, chain, skipped, output>>

Collecting == phase = "collect" /\ Ahead

\* The type 1 entries of an xref stream, the "n" entries of a table; all others are passed by.
DirectObjects(o) == {n \in Obj : file[o].entry[n] = "direct"}

\* Mutant of KeepFrom: an older body replaces a newer one.
KeepOldest(k, o) ==
  [n \in Obj |-> IF n \in DirectObjects(o) THEN o ELSE k[n]]

\* Bodies written directly; a body already recorded, from a newer section, stays.
KeepFrom(k, o) ==
  [n \in Obj |-> IF k[n] = 0 /\ n \in DirectObjects(o) THEN o ELSE k[n]]

\* Mutant of CollectSection: the /Prev of an xref stream is not passed on.
CollectWithoutPrev ==
  /\ Collecting
  /\ Readable(current)
  /\ visited' = visited \union {current}
  /\ kept' = KeepFrom(kept, current)
  /\ chain' = Append(chain, current)
  /\ current' = IF file[current].form = "stream" THEN 0 ELSE file[current].prev
  /\ UNCHANGED <<file, startxref, rooted, zeroPrev, phase, skipped, output>>

CollectSection ==
  /\ Collecting
  /\ Readable(current)
  /\ visited' = visited \union {current}
  /\ kept' = KeepFrom(kept, current)
  /\ chain' = Append(chain, current)
  /\ current' = file[current].prev
  /\ UNCHANGED <<file, startxref, rooted, zeroPrev, phase, skipped, output>>

\* Mutant of EndCollect: only the end of the chain ends the walk.
EndCollectAtEnd ==
  /\ phase = "collect"
  /\ current = 0
  /\ phase' = IF kept = Nothing THEN "failed" ELSE "write"
  /\ UNCHANGED <<file, startxref, rooted, zeroPrev, current, visited, kept, chain, skipped, output>>

\* The walk is over at the chain's end, at a cycle, and at a section it cannot parse.
EndCollect ==
  /\ phase = "collect"
  /\ ~(Collecting /\ Readable(current))
  /\ visited' = visited \union ({current} \ {0})
  /\ phase' = IF kept = Nothing THEN "failed" ELSE "write"
  /\ UNCHANGED <<file, startxref, rooted, zeroPrev, current, kept, chain, skipped, output>>

\* The recorded offsets at which readRawObject may find no object.
Unreadable == SUBSET {n \in Obj : kept[n] # 0}

\* A body that cannot be read is left out.
Write ==
  /\ phase = "write"
  /\ skipped' \in Unreadable
  /\ LET written == [n \in Obj |-> IF n \in skipped' THEN 0 ELSE kept[n]]
     IN  IF written = Nothing THEN phase' = "failed" /\ UNCHANGED output
                              ELSE phase' = "done" /\ output' = written
  /\ UNCHANGED <<file, startxref, rooted, zeroPrev, current, visited, kept, chain>>

RewriteNext ==
  \/ FindRoot \/ FollowPrevToRoot \/ NoRoot
  \/ CollectSection \/ EndCollect
  \/ Write

RewriteSpec == RewriteInit /\ [][RewriteNext]_rewriteVars /\ WF_rewriteVars(RewriteNext)

-----------------------------------------------------------------------------
RewriteTypeOK ==
  /\ file \in [Offset -> Section]
  /\ startxref \in Offset
  /\ rooted \subseteq Offset
  /\ zeroPrev \subseteq Offset
  /\ phase \in {"root", "collect", "write", "done", "failed"}
  /\ current \in Offset \union {0}
  /\ visited \subseteq Offset
  /\ kept \in [Obj -> Offset \union {0}]
  /\ chain \in Seq(Offset)
  /\ skipped \subseteq Obj
  /\ output \in [Obj -> Offset \union {0}]

(***************************************************************************)
(* "Objects in later revisions take precedence" (rewrite.go:143): of the   *)
(* bodies that the chain leads to, the kept one is the newest, and no      *)
(* object with a body is missed (rewrite.go:156-204, 275-280).             *)
(***************************************************************************)
KeepsNewestBody ==
  \A n \in Obj :
    \/ /\ kept[n] = 0
       /\ \A i \in 1..Len(chain) : n \notin DirectObjects(chain[i])
    \/ \E i \in 1..Len(chain) :
         /\ kept[n] = chain[i]
         /\ n \in DirectObjects(chain[i])
         /\ \A j \in 1..i-1 : n \notin DirectObjects(chain[j])

Collected == phase \notin {"root", "collect"} /\ chain # <<>>

\* The index that buildXRefIndex builds (BuildsFullIndex) is there, and is FullIndex.
Indexed ==
  /\ ChainReadable
  /\ LinksApart(file) /\ startxref \notin {file[o].xrefStm : o \in Offset}

(***************************************************************************)
(* The rewriter's walk and buildXRefIndex, which share no code, agree on   *)
(* the bodies written directly: what the index leads to is kept, in the    *)
(* same revision, and what it does not know is not kept (rewrite.go:18-21  *)
(* against xref.go:36-86).  Not of an object in an XRefStm, which the      *)
(* rewriter does not read; nor in a file that has no index or in which a   *)
(* section is both an XRefStm and a /Prev link, where the index ends       *)
(* before the rewriter's walk.                                             *)
(***************************************************************************)
KeepsWhatIsIndexed ==
  Collected /\ Indexed =>
    \A n \in Obj : (\A o \in Offset : ~XRefStmMentions(o, n)) =>
      IF FullIndex[n] = NoEntry THEN kept[n] = 0
      ELSE FullIndex[n].kind = "direct" => kept[n] = FullIndex[n].rev

\* The index entry that the body of a section stands for.
BodyEntry(rev) == IF rev = 0 THEN NoEntry ELSE [kind |-> "direct", rev |-> rev]

(***************************************************************************)
(* "Discards deleted and superseded object revisions" (rewrite.go:21):     *)
(* every body of the new file is the one that a reader of the source sees. *)
(***************************************************************************)
NothingSuperseded ==
  \A n \in Obj : output[n] # 0 => Newest(chain, n, BodyEntry(output[n]))

(***************************************************************************)
(* "The result is a valid single-revision PDF" (rewrite.go:23): when every *)
(* body could be read, the catalog that the new trailer names is there.    *)
(***************************************************************************)
ResultHasCatalog == phase = "done" /\ skipped = {} => output[RootObj] # 0

(***************************************************************************)
(* Once the catalog is found, collecting and writing end on every file,    *)
(* whatever its /Prev links (rewrite.go:157-160).                          *)
(***************************************************************************)
CollectEnds == (phase = "collect") ~> (phase \in {"done", "failed"})

(***************************************************************************)
(* "Prev chain loops ...; stop recursion" (docs/pdf-compatibility.md:101): *)
(* the search for the catalog ends on every file.                          *)
(***************************************************************************)
RootSearchEnds == (phase = "root") ~> (phase # "root")
=============================================================================
