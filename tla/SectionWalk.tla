----------------------------- MODULE SectionWalk -----------------------------
(***************************************************************************)
(* A walk over the sections of a file from the newest to the oldest, as    *)
(* buildXRefIndex (internal/pdf/xref.go:41-83) and collectXrefOffsets      *)
(* (internal/pdf/rewrite.go:140-204) each make one.                        *)
(***************************************************************************)
EXTENDS PDFFile

VARIABLES
  phase,         \* "reading" of the index; "root", "collect", "write" of the rewriter;
              \* "done" or "failed" (an error was returned) of both
  current,    \* the offset that the walk is at
  visited,    \* offsets already parsed
  chain       \* history: the sections read from, newest first

\* There is a section ahead that the walk has not been at.
Ahead == current # 0 /\ current \notin visited
=============================================================================
