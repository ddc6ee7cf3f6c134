------------------------------- MODULE PDFFile -------------------------------
(***************************************************************************)
(* A PDF file as the cross-reference code of internal/pdf sees it: a file  *)
(* holds xref sections at some offsets, linked from the newest to the      *)
(* oldest by /Prev, and startxref leads to the newest one.  Each revision  *)
(* of the document wrote one section; a section of a hybrid file also      *)
(* points, by /XRefStm, to an xref stream of the same revision.            *)
(*                                                                         *)
(* What a section says of an object is one of: nothing, that it is free    *)
(* (deleted), that its body was written directly, or that it is packed in  *)
(* an object stream.  Two revisions never share a body, so a body is named *)
(* by the section whose entry leads to it.  The text of the sections, the  *)
(* two entry encodings and the dictionaries are abstracted.                *)
(***************************************************************************)
EXTENDS Integers, Sequences, FiniteSets

CONSTANTS
  Obj,        \* object numbers
  Offset,     \* offsets that the file's links lead to; 0 is no link
  Files,      \* the files considered, subset of [Offset -> Section]
  NoEntry     \* an object number that an index does not hold

ASSUME OffsetAssumption == Offset \subseteq Nat \ {0}

Kind == {"free", "direct", "inObjStm"}

Section ==
  [form    : {"table", "stream", "unreadable"},
   prev    : Offset \union {0},
   xrefStm : Offset \union {0},
   entry   : [Obj -> Kind \union {"absent"}]]

ASSUME FilesAssumption == Files \subseteq [Offset -> Section]

\* An entry of an index: how the object is stored, by which section's entry.
IndexEntry == [kind : Kind, rev : Offset]

Index == [Obj -> IndexEntry \union {NoEntry}]

ASSUME NoEntryAssumption == NoEntry \notin IndexEntry

VARIABLES
  file,       \* file[o]: the section at offset o
  startxref   \* the offset of the newest section

Mentions(o, n) == file[o].entry[n] # "absent"
EntryAt(o, n) == [kind |-> file[o].entry[n], rev |-> o]
Readable(o) == file[o].form # "unreadable"

EmptyIndex == [n \in Obj |-> NoEntry]

\* Entries of an XRefStm replace those the index has.
OverrideFrom(idx, o) ==
  [n \in Obj |-> IF Mentions(o, n) THEN EntryAt(o, n) ELSE idx[n]]

\* Entries of an older section fill the gaps of the index.
FillFrom(idx, o) ==
  [n \in Obj |-> IF idx[n] = NoEntry /\ Mentions(o, n) THEN EntryAt(o, n) ELSE idx[n]]

(***************************************************************************)
(* What one revision says of an object: its XRefStm, when the section has  *)
(* a readable one that mentions the object, and else the section itself.   *)
(***************************************************************************)
XRefStmMentions(o, n) ==
  /\ file[o].xrefStm # 0
  /\ Readable(file[o].xrefStm)
  /\ Mentions(file[o].xrefStm, n)

RevisionEntry(o, n) ==
  IF XRefStmMentions(o, n) THEN EntryAt(file[o].xrefStm, n)
  ELSE IF Mentions(o, n) THEN EntryAt(o, n)
  ELSE NoEntry

(***************************************************************************)
(* What a chain of revisions, newest first, says of an object: the word of *)
(* the newest revision that has one.                                       *)
(***************************************************************************)
Newest(chain, n, e) ==
  \/ /\ e = NoEntry
     /\ \A i \in 1..Len(chain) : RevisionEntry(chain[i], n) = NoEntry
  \/ /\ e # NoEntry
     /\ \E i \in 1..Len(chain) :
          /\ e = RevisionEntry(chain[i], n)
          /\ \A j \in 1..i-1 : RevisionEntry(chain[j], n) = NoEntry

\* c follows the /Prev links from startxref.
FollowsPrev(c) ==
  /\ Len(c) > 0 => c[1] = startxref
  /\ \A i \in 1..Len(c)-1 : c[i+1] = file[c[i]].prev
=============================================================================
