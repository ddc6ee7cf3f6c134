------------------------------ MODULE XRefIndex ------------------------------
(***************************************************************************)
(* buildXRefIndex (internal/pdf/xref.go:36-86): one index for the whole    *)
(* file, built by following the sections from the newest to the oldest.    *)
(* ReadSection is one turn of its loop.                                    *)
(***************************************************************************)
EXTENDS SectionWalk, XRefChain

VARIABLE table      \* the index under construction

indexVars == <<file, startxref, phase, current, visited, table, chain>>

IndexInit ==
  /\ file \in Files
  /\ startxref \in Offset
  /\ phase = "reading"
  /\ current = startxref
  /\ visited = {}
  /\ table = EmptyIndex
  /\ chain = <<>>

InLoop == phase = "reading" /\ Ahead

\* Mutant of ReadFails: the sections before it are taken for the whole.
ReadFailsQuietly ==
  /\ InLoop
  /\ ~Readable(current)
  /\ phase' = "done"
  /\ visited' = visited \union {current}
  /\ UNCHANGED <<file, startxref, current, table, chain>>

\* Any section that cannot be parsed makes the whole build fail.
ReadFails ==
  /\ InLoop
  /\ ~Readable(current)
  /\ phase' = "failed"
  /\ visited' = visited \union {current}
  /\ UNCHANGED <<file, startxref, current, table, chain>>

\* The XRefStm of the section at o, when it is one the walk has not met.
NewXRefStm(o) == {file[o].xrefStm} \ ({0, o} \union visited)

(***************************************************************************)
(* The section's entries fill the gaps of the table; those of its XRefStm, *)
(* if it can be parsed, replace what the table has.                        *)
(***************************************************************************)
ReadSection ==
  /\ InLoop
  /\ Readable(current)
  /\ visited' = visited \union {current} \union NewXRefStm(current)
  /\ LET filled == FillFrom(table, current)
     IN  table' = IF \E s \in NewXRefStm(current) : Readable(s)
                  THEN OverrideFrom(filled, file[current].xrefStm)
                  ELSE filled
  /\ chain' = Append(chain, current)
  /\ current' = file[current].prev
  /\ UNCHANGED <<file, startxref, phase>>

\* Mutant of Finish: only the end of the chain will do.
FinishAtEnd ==
  /\ phase = "reading"
  /\ current = 0
  /\ phase' = "done"
  /\ UNCHANGED <<file, startxref, current, visited, table, chain>>

Finish ==
  /\ phase = "reading"
  /\ current = 0 \/ current \in visited
  /\ phase' = "done"
  /\ UNCHANGED <<file, startxref, current, visited, table, chain>>

IndexNext == ReadFails \/ ReadSection \/ Finish

IndexSpec == IndexInit /\ [][IndexNext]_indexVars /\ WF_indexVars(IndexNext)

-----------------------------------------------------------------------------
IndexTypeOK ==
  /\ file \in [Offset -> Section]
  /\ startxref \in Offset
  /\ phase \in {"reading", "done", "failed"}
  /\ current \in Offset \union {0}
  /\ visited \subseteq Offset
  /\ table \in Index
  /\ chain \in Seq(Offset)

(***************************************************************************)
(* The index never mixes in a section that the /Prev links do not lead to, *)
(* and stops only at the end of the chain or where it bends back on itself *)
(* (xref.go:41-83).                                                        *)
(***************************************************************************)
ChainFollowed ==
  /\ FollowsPrev(chain)
  /\ phase = "done" => file[chain[Len(chain)]].prev \in {0} \union visited

(***************************************************************************)
(* "Later revisions take precedence; entries are not overwritten"          *)
(* (xref.go:38): each object resolves to what the newest revision that     *)
(* mentions it says of it.                                                 *)
(***************************************************************************)
LatestWins == phase = "done" => \A n \in Obj : Newest(chain, n, table[n])

(***************************************************************************)
(* The same, of files in which only the newest section has an XRefStm (no  *)
(* section of a file that is not hybrid has one): this is what the code    *)
(* guarantees, at every turn of the loop (xref.go:52-80).                  *)
(***************************************************************************)
LatestWinsUnlessOldHybrid ==
  (\A i \in 2..Len(chain) : file[chain[i]].xrefStm = 0) =>
    \A n \in Obj : Newest(chain, n, table[n])

(***************************************************************************)
(* Turn by turn the loop comes to the index that the lookup of an open     *)
(* document takes in one step, and fails just when that index does not     *)
(* exist (xref.go:41-83, service.go:177-198), in a file whose sections are *)
(* met either by /Prev or as an XRefStm.                                   *)
(***************************************************************************)
BuildsFullIndex ==
  LinksApart(file) /\ startxref \notin {file[o].xrefStm : o \in Offset} =>
    /\ phase = "done" => ChainReadable /\ table = FullIndex
    /\ phase = "failed" => ~ChainReadable

(***************************************************************************)
(* "Prev chain loops or points to invalid offset; stop recursion"          *)
(* (docs/pdf-compatibility.md:101): once a section has been read, a bad    *)
(* /Prev link does not lose the index.                                     *)
(***************************************************************************)
BadPrevTolerated == chain # <<>> => phase # "failed"

(***************************************************************************)
(* The build ends on every file, with /Prev cycles of any length and       *)
(* through XRefStm links too.                                              *)
(***************************************************************************)
Terminates == <>(phase # "reading")
=============================================================================
