----------------------------- MODULE PageSource ------------------------------
(***************************************************************************)
(* What doc.PageIterator promises (internal/doc/interfaces.go:110-117):    *)
(* the pages of the document one after the other, then io.EOF, and from    *)
(* the first page again after Reset.  Reset cannot report an error: after  *)
(* one that failed nothing is promised until one succeeds.                 *)
(***************************************************************************)
EXTENDS Integers, Sequences

CONSTANT NoPage

VARIABLES
  order,    \* the pages of the document
  at,       \* how many have been returned
  last,     \* the page returned last
  eof,      \* io.EOF has been returned
  lost      \* the last Reset failed

vars == <<order, at, last, eof, lost>>

Init == at = 0 /\ last = NoPage /\ eof = FALSE /\ lost = FALSE

NextPage ==
  /\ ~eof
  /\ at < Len(order)
  /\ at' = at + 1
  /\ last' = order[at']
  /\ UNCHANGED <<order, eof, lost>>

EndOfPages ==
  /\ at = Len(order)
  /\ eof' = TRUE
  /\ UNCHANGED <<order, at, last, lost>>

Reset ==
  /\ at' = 0
  /\ last' = NoPage
  /\ eof' = FALSE
  /\ lost' = FALSE
  /\ UNCHANGED order

Lost ==
  /\ lost' = TRUE
  /\ UNCHANGED order

Next == NextPage \/ EndOfPages \/ Reset \/ Lost

Spec == Init /\ [][Next]_vars
=============================================================================
