------------------------------- MODULE LazyXRef ------------------------------
(***************************************************************************)
(* The object lookup of an open document (internal/pdf/service.go:98-144,  *)
(* 166-272).  getXRefEntry discovers the chain of sections and then parses *)
(* them one at a time, newest first, until the object is found; the index  *)
(* grows under the mutex.  readObject then reads the body from the shared  *)
(* file, without the mutex, and when anything fails starts over with an    *)
(* index of the whole file.                                                *)
(*                                                                         *)
(* Every read is a seek and a read of one os.File, whose position all      *)
(* threads share.  A thread that holds the mutex is interleaved with the   *)
(* threads that read without it.                                           *)
(***************************************************************************)
EXTENDS XRefChain

CONSTANTS
  Thread,     \* the callers of the document
  Op,         \* the operations that they call, subset of {"entry", "index", "read"}
  ReadsAlone, \* bound: a "read" is the only call in progress
  XRefPart,   \* what is at a section's offset, as opposed to an object's body
  Nobody      \* the holder of a free mutex

ASSUME OpAssumption == Op \subseteq {"entry", "index", "read"}
ASSUME ReadsAlone \in BOOLEAN
ASSUME PartAssumption == XRefPart \notin Obj
ASSUME NobodyAssumption == Nobody \notin Thread

\* No section is both a link of a /Prev chain and the XRefStm of another.
ASSUME XRefStmAssumption == \A f \in Files : LinksApart(f)

\* A place in the file: a section, the body that a section's entry leads to, or neither.
Place == (Offset \X (Obj \union {XRefPart})) \union {<<0, XRefPart>>}
Elsewhere == <<0, XRefPart>>

VARIABLES
  indexed,      \* xrefIdx # nil
  xrefIdx,      \* the index, as far as it is loaded
  xrefOffsets,  \* the chain of sections; empty until it is discovered
  xrefLoaded,   \* the sections parsed into the index
  mu,           \* the holder of the mutex
  pos,          \* the position of the file
  pc,           \* what each thread is about to do
  call,         \* [op, obj] of each thread
  target,       \* the place that each thread wants to read next
  walk,         \* offsets of the discovery in progress, under the mutex
  answer        \* what each thread's call returned, see Answer

docVars == <<indexed, xrefIdx, xrefOffsets, xrefLoaded>>
vars == <<file, startxref, docVars, mu, pos, pc, call, target, walk, answer>>

(***************************************************************************)
(* An operation returns an error, an entry (getXRefEntry), an index        *)
(* (getXRefIndex) or the text that was at a place (readObject).            *)
(***************************************************************************)
Nil == [ok |-> FALSE, entry |-> NoEntry, index |-> EmptyIndex, text |-> Elsewhere]
Answer ==
  [ok : BOOLEAN, entry : IndexEntry \union {NoEntry}, index : Index, text : Place]

NoCall == [op |-> "none", obj |-> XRefPart]

Init ==
  /\ file \in Files
  /\ startxref \in Offset \ {file[o].xrefStm : o \in Offset}
  /\ indexed = FALSE
  /\ xrefIdx = EmptyIndex
  /\ xrefOffsets = <<>>
  /\ xrefLoaded = {}
  /\ mu = Nobody
  /\ pos = Elsewhere
  /\ pc = [t \in Thread |-> "idle"]
  /\ call = [t \in Thread |-> NoCall]
  /\ target = [t \in Thread |-> Elsewhere]
  /\ walk = <<>>
  /\ answer = [t \in Thread |-> Nil]

Goto(t, step) == pc' = [pc EXCEPT ![t] = step]
Aim(t, place) == target' = [target EXCEPT ![t] = place]

\* The calls that a bound on the callers lets in beside a call of op.
Admitted(op) ==
  ReadsAlone =>
    \A u \in Thread : pc[u] = "idle" \/ (op # "read" /\ call[u].op # "read")

Call(t, op, n) ==
  /\ pc[t] = "idle"
  /\ op \in Op
  /\ Admitted(op)
  /\ call' = [call EXCEPT ![t] = [op |-> op, obj |-> n]]
  /\ answer' = [answer EXCEPT ![t] = Nil]
  /\ Goto(t, IF op = "index" THEN "lockIndex" ELSE "lockEntry")
  /\ UNCHANGED <<file, startxref, docVars, mu, pos, target, walk>>

-----------------------------------------------------------------------------
\* getXRefEntry: the deferred unlock, and what the caller does with the outcome.
EntryFound(t, entry) ==
  /\ mu' = Nobody
  /\ answer' = [answer EXCEPT ![t] = [Nil EXCEPT !.ok = TRUE, !.entry = entry]]
  /\ Goto(t, IF call[t].op = "read" THEN "lockIndex" ELSE "done")

\* Mutant of EntryMissing: an error return that forgets to unlock.
EntryMissingLocked(t) ==
  /\ UNCHANGED mu
  /\ answer' = [answer EXCEPT ![t] = Nil]
  /\ Goto(t, IF call[t].op = "read" THEN "fallback" ELSE "done")

EntryMissing(t) ==
  /\ mu' = Nobody
  /\ answer' = [answer EXCEPT ![t] = Nil]
  /\ Goto(t, IF call[t].op = "read" THEN "fallback" ELSE "done")

\* Mutant of AllLoaded: the chain is known, whether it is loaded or not.
Discovered == xrefOffsets # <<>>

AllLoaded == xrefOffsets # <<>> /\ xrefLoaded = Range(xrefOffsets)

\* The sections of the chain that are not loaded, and the first of them.
Left(loaded) == {i \in 1..Len(xrefOffsets) : xrefOffsets[i] \notin loaded}
ToLoad(loaded) ==
  xrefOffsets[CHOOSE i \in Left(loaded) : \A j \in Left(loaded) : i <= j]

EntryCached(t) ==
  /\ pc[t] = "lockEntry" /\ mu = Nobody
  /\ indexed
  /\ LET e == xrefIdx[call[t].obj]
     IN  \/ e # NoEntry /\ EntryFound(t, e)
         \/ e = NoEntry /\ AllLoaded /\ EntryMissing(t)
  /\ UNCHANGED <<file, startxref, docVars, pos, call, target, walk>>

EntryUncached(t) ==
  /\ pc[t] = "lockEntry" /\ mu = Nobody
  /\ ~(indexed /\ (xrefIdx[call[t].obj] # NoEntry \/ AllLoaded))
  /\ mu' = t
  /\ IF xrefOffsets = <<>>
     THEN Aim(t, <<startxref, XRefPart>>) /\ Goto(t, "seekDiscover")
     ELSE Aim(t, <<ToLoad(xrefLoaded), XRefPart>>) /\ Goto(t, "seekLoad")
  /\ walk' = <<>>
  /\ UNCHANGED <<file, startxref, docVars, pos, call, answer>>

\* The section that a read at the current position parses, if any.
SectionHere == {o \in {pos[1]} : pos[2] = XRefPart /\ o # 0 /\ Readable(o)}

\* discoverXRefOffsets, one section.
Discover(t) ==
  /\ pc[t] = "discover"
  /\ SectionHere # {}
  /\ LET found == Append(walk, target[t][1])
         prev  == file[pos[1]].prev
     IN  IF prev = 0 \/ prev \in Range(found)
         THEN /\ xrefOffsets' = found
              /\ xrefLoaded' = {}
              /\ indexed' = TRUE
              /\ walk' = <<>>
              /\ Aim(t, <<Head(found), XRefPart>>)
              /\ Goto(t, "seekLoad")
         ELSE /\ walk' = found
              /\ Aim(t, <<prev, XRefPart>>)
              /\ Goto(t, "seekDiscover")
              /\ UNCHANGED <<indexed, xrefOffsets, xrefLoaded>>
  /\ pos' = Elsewhere
  /\ UNCHANGED <<file, startxref, xrefIdx, mu, call, answer>>

\* One section is parsed into the index.
Load(t) ==
  /\ pc[t] = "load"
  /\ SectionHere # {}
  /\ xrefIdx' = FillFrom(xrefIdx, pos[1])
  /\ xrefLoaded' = xrefLoaded \union {target[t][1]}
  /\ LET e == xrefIdx'[call[t].obj]
     IN  IF e # NoEntry THEN EntryFound(t, e) /\ UNCHANGED target
         ELSE IF Left(xrefLoaded') = {} THEN EntryMissing(t) /\ UNCHANGED target
         ELSE /\ Aim(t, <<ToLoad(xrefLoaded'), XRefPart>>)
              /\ Goto(t, "seekLoad")
              /\ UNCHANGED <<mu, answer>>
  /\ pos' = Elsewhere
  /\ UNCHANGED <<file, startxref, indexed, xrefOffsets, call, walk>>

\* A section that cannot be parsed ends the call; what was loaded before stays.
SectionFails(t) ==
  /\ pc[t] \in {"discover", "load"}
  /\ SectionHere = {}
  /\ EntryMissing(t)
  /\ walk' = <<>>
  /\ pos' = Elsewhere
  /\ UNCHANGED <<file, startxref, docVars, call, target>>

-----------------------------------------------------------------------------
\* getXRefIndex returns what there is, complete or not.
IndexCached(t) ==
  /\ pc[t] = "lockIndex" /\ mu = Nobody
  /\ indexed
  /\ answer' = [answer EXCEPT ![t] = [Nil EXCEPT !.ok = TRUE, !.index = xrefIdx]]
  /\ Goto(t, IF call[t].op = "read" THEN "resolve" ELSE "done")
  /\ UNCHANGED <<file, startxref, docVars, mu, pos, call, target, walk>>

IndexBuild(t) ==
  /\ pc[t] = "lockIndex" /\ mu = Nobody
  /\ ~indexed
  /\ IF ChainReadable
     THEN /\ indexed' = TRUE
          /\ xrefIdx' = FullIndex
          /\ answer' = [answer EXCEPT ![t] = [Nil EXCEPT !.ok = TRUE, !.index = FullIndex]]
     ELSE UNCHANGED <<indexed, xrefIdx, answer>>
  /\ Goto(t, "done")
  /\ pos' = Elsewhere
  /\ UNCHANGED <<file, startxref, xrefOffsets, xrefLoaded, mu, call, target, walk>>

-----------------------------------------------------------------------------
(***************************************************************************)
(* readObject looks the object up in the map it was given, without the     *)
(* mutex.  An object in an object stream needs the entry of the container  *)
(* too; when that is not loaded yet, the lookup fails.                     *)
(***************************************************************************)
Resolve(t) ==
  /\ pc[t] = "resolve"
  /\ LET e == xrefIdx[call[t].obj]
     IN  \/ /\ e # NoEntry /\ e.kind \in {"direct", "inObjStm"}
            /\ Aim(t, <<e.rev, call[t].obj>>)
            /\ Goto(t, "seekBody")
         \/ /\ e = NoEntry \/ e.kind \in {"free", "inObjStm"}
            /\ Goto(t, "fallback")
            /\ UNCHANGED target
  /\ UNCHANGED <<file, startxref, docVars, mu, pos, call, walk, answer>>

\* What is at the position is returned, with a header of its own if it has another.
ReadBody(t) ==
  /\ pc[t] = "readBody"
  /\ answer' = [answer EXCEPT ![t] = [Nil EXCEPT !.ok = TRUE, !.text = pos]]
  /\ Goto(t, "done")
  /\ pos' = Elsewhere
  /\ UNCHANGED <<file, startxref, docVars, mu, call, target, walk>>

\* The bodies of an object that readObjectLegacy may come across, or none.
LegacyPlaces(n) == {<<o, n>> : o \in {p \in Offset : file[p].entry[n] = "direct"}}

\* Mutant of Fallback: the file is searched for a header at once.
FallbackToLegacy(t) ==
  /\ pc[t] = "fallback"
  /\ \E place \in LegacyPlaces(call[t].obj) :
       answer' = [answer EXCEPT ![t] = [Nil EXCEPT !.ok = TRUE, !.text = place]]
  /\ Goto(t, "done")
  /\ pos' = Elsewhere
  /\ UNCHANGED <<file, startxref, docVars, mu, call, target, walk>>

\* The package-level readObject, with an index of its own.
Fallback(t) ==
  /\ pc[t] = "fallback"
  /\ LET n == call[t].obj
         e == IF ChainReadable THEN FullIndex[n] ELSE NoEntry
     IN  IF e # NoEntry /\ e.kind # "free"
         THEN answer' = [answer EXCEPT ![t] = [Nil EXCEPT !.ok = TRUE, !.text = <<e.rev, n>>]]
         ELSE \/ answer' = [answer EXCEPT ![t] = Nil]
              \/ \E place \in LegacyPlaces(n) :
                   answer' = [answer EXCEPT ![t] = [Nil EXCEPT !.ok = TRUE, !.text = place]]
  /\ Goto(t, "done")
  /\ pos' = Elsewhere
  /\ UNCHANGED <<file, startxref, docVars, mu, call, target, walk>>

Seek(t) ==
  /\ pc[t] \in {"seekDiscover", "seekLoad", "seekBody"}
  /\ pos' = target[t]
  /\ Goto(t, CASE pc[t] = "seekDiscover" -> "discover"
              [] pc[t] = "seekLoad" -> "load"
              [] pc[t] = "seekBody" -> "readBody")
  /\ UNCHANGED <<file, startxref, docVars, mu, call, target, walk, answer>>

Return(t) ==
  /\ pc[t] = "done"
  /\ Goto(t, "idle")
  /\ call' = [call EXCEPT ![t] = NoCall]
  /\ answer' = [answer EXCEPT ![t] = Nil]
  /\ Aim(t, Elsewhere)
  /\ UNCHANGED <<file, startxref, docVars, mu, pos, walk>>

Acquire(t) == EntryCached(t) \/ EntryUncached(t) \/ IndexCached(t) \/ IndexBuild(t)

Proceed(t) ==
  \/ Seek(t) \/ Discover(t) \/ Load(t) \/ SectionFails(t)
  \/ Resolve(t) \/ ReadBody(t) \/ Fallback(t) \/ Return(t)

Next == \E t \in Thread :
  \/ \E op \in Op, n \in Obj : Call(t, op, n)
  \/ Acquire(t)
  \/ Proceed(t)

\* A thread in a call goes on, and sync.Mutex starves no one.
Fairness == \A t \in Thread : WF_vars(Proceed(t)) /\ SF_vars(Acquire(t))

Spec == Init /\ [][Next]_vars /\ Fairness

-----------------------------------------------------------------------------
TypeOK ==
  /\ file \in [Offset -> Section]
  /\ startxref \in Offset
  /\ indexed \in BOOLEAN
  /\ xrefIdx \in Index
  /\ xrefOffsets \in Seq(Offset)
  /\ xrefLoaded \subseteq Offset
  /\ mu \in Thread \union {Nobody}
  /\ pos \in Place
  /\ pc \in [Thread -> {"idle", "lockEntry", "lockIndex", "seekDiscover", "discover", "seekLoad",
                        "load", "resolve", "seekBody", "readBody", "fallback", "done"}]
  /\ target \in [Thread -> Place]
  /\ walk \in Seq(Offset)
  /\ answer \in [Thread -> Answer]

Returned(t, op) == pc[t] = "done" /\ call[t].op = op

\* What the newest revision with a word on it says of an object.
TrueEntry(n) == CHOOSE e \in IndexEntry \union {NoEntry} : Newest(FullChain, n, e)

(***************************************************************************)
(* However the loading was spread over calls, and over threads, the index  *)
(* so far holds what the newest revision says of each object and nothing   *)
(* else (service.go:205-272), and a file whose chain cannot be read gives  *)
(* no index.                                                               *)
(***************************************************************************)
IndexSoFarIsTrue ==
  indexed => /\ ChainReadable
             /\ \A n \in Obj : xrefIdx[n] # NoEntry => Newest(FullChain, n, xrefIdx[n])

(***************************************************************************)
(* getXRefEntry never reports an object missing that some section of a     *)
(* readable chain mentions: not before the last section was looked at      *)
(* (service.go:209-218, 246-271).                                          *)
(***************************************************************************)
MissingIsMissing ==
  \A t \in Thread :
    Returned(t, "entry") =>
      IF ChainReadable
      THEN IF answer[t].ok THEN answer[t].entry = TrueEntry(call[t].obj)
                           ELSE TrueEntry(call[t].obj) = NoEntry
      ELSE ~answer[t].ok

(***************************************************************************)
(* "This method is safe for concurrent use" (service.go:204): the same,    *)
(* while other threads read objects of the document.                       *)
(***************************************************************************)
EntrySafeForConcurrentUse == MissingIsMissing

(***************************************************************************)
(* A read through the partly loaded index and a read through the fallback  *)
(* come to the same: the text of an object is that of its newest revision, *)
(* never a superseded one or something else (service.go:98-144,            *)
(* 1928-1974).                                                             *)
(***************************************************************************)
ReadsNewestBody ==
  \A t \in Thread :
    Returned(t, "read") =>
      LET e == TrueEntry(call[t].obj)
      IN  ChainReadable /\ e # NoEntry /\ e.kind # "free" =>
            answer[t].ok /\ answer[t].text = <<e.rev, call[t].obj>>

(***************************************************************************)
(* "getXRefIndex returns the unified xref index for this document"         *)
(* (service.go:166): whatever was called before it, the index that it      *)
(* returns knows every object of the file.                                 *)
(***************************************************************************)
IndexComplete ==
  \A t \in Thread :
    Returned(t, "index") /\ answer[t].ok => \A n \in Obj : answer[t].index[n] = TrueEntry(n)

(***************************************************************************)
(* "This method is safe for concurrent use" (service.go:168): no thread    *)
(* reads the map that getXRefIndex gave it while getXRefEntry, in another, *)
(* is writing it.                                                          *)
(***************************************************************************)
NoUnguardedMapRead ==
  \A t, u \in Thread : ~(pc[t] = "resolve" /\ pc[u] = "load")

(***************************************************************************)
(* Every call returns: no failure leaves the mutex locked.                 *)
(***************************************************************************)
CallReturns == \A t \in Thread : (pc[t] # "idle") ~> (pc[t] = "idle")
=============================================================================
