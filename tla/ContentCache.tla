---------------------------- MODULE ContentCache ----------------------------
(***************************************************************************)
(* document.readCachedContentStream (internal/pdf/service.go:153-164): the *)
(* decoded content streams of one open PDF document, kept in an LRUCache   *)
(* under the key of their object reference.  A caller asks the cache,      *)
(* reads and decodes the stream itself on a miss, with no lock held, and   *)
(* puts what it read.  Several goroutines may be in a call at once.        *)
(*                                                                         *)
(* readContentStream (service.go:700-850) seeks and reads the document's   *)
(* one *os.File: the table of startxref, cross-reference sections, the     *)
(* object, perhaps its /Length, the data.  Nothing keeps another goroutine *)
(* from moving the position between a Seek and a Read, or between two      *)
(* Reads.  A Read that does not start where its own goroutine left the     *)
(* position has gone astray, and from there on the call may end in an      *)
(* error or with any bytes at all.                                         *)
(***************************************************************************)
EXTENDS LRUCache

CONSTANTS
  Thread,     \* goroutines reading pages of the document
  Content,    \* Content[k]: the decoded stream of k, NoValue if unreadable
  Reads,      \* Reads[k]: the Reads of the file that an undisturbed call for k makes
  Nobody      \* not a goroutine

ASSUME ContentAssumption == Content \in [Key -> Value \union {NoValue}]
ASSUME ReadsAssumption == Reads \in [Key -> Nat \ {0}]
ASSUME NobodyAssumption == Nobody \notin Thread

VARIABLES
  call,       \* call[t]: where t is in readCachedContentStream, and its ref
  moved,      \* the goroutine that moved the position of the file last
  left,       \* left[t]: the Reads that t's call still has to make
  astray,     \* the goroutines in a call one of whose Reads went astray
  misread,    \* history: the keys for which a call decoded other bytes than theirs
  data,       \* data[t]: the stream t read itself
  result      \* result[t]: what t's last call returned, NoValue for an error

reading == <<moved, left, astray, misread>>
docVars == <<vars, call, reading, data, result>>

Stage == {"returned", "missed", "sought", "read", "storing"}

At(t, s) == call[t].stage = s
GoTo(t, s) == call' = [call EXCEPT ![t].stage = s]

DocInit ==
  /\ Init
  /\ \E k \in Key : call = [t \in Thread |-> [stage |-> "returned", key |-> k]]
  /\ moved = Nobody
  /\ left = [t \in Thread |-> 0]
  /\ astray = {}
  /\ misread = {}
  /\ data = [t \in Thread |-> NoValue]
  /\ result = [t \in Thread |-> NoValue]

\* Lines 154-157: a hit is returned at once.
Lookup(t, k) ==
  /\ At(t, "returned")
  /\ Get(k)
  /\ IF items[k] # NoValue
     THEN /\ call' = [call EXCEPT ![t].key = k]
          /\ result' = [result EXCEPT ![t] = items[k]]
          /\ UNCHANGED left
     ELSE /\ call' = [call EXCEPT ![t] = [stage |-> "missed", key |-> k]]
          /\ result' = [result EXCEPT ![t] = NoValue]
          /\ left' = [left EXCEPT ![t] = Reads[k]]
  /\ UNCHANGED <<moved, astray, misread, data>>

\* The position is set for the next Read.
Seek(t) ==
  /\ At(t, "missed")
  /\ moved' = t
  /\ GoTo(t, "sought")
  /\ UNCHANGED <<vars, left, astray, misread, data, result>>

\* The position is not where t left it, or a Read of this call has gone astray before.
Astray(t) == moved # t \/ t \in astray

\* A Read after which the call reads on or seeks another place.  One that is astray
\* need not bring it nearer to its end: the end of the file may have moved away.
Read(t) ==
  /\ At(t, "sought")
  /\ moved' = t
  /\ astray' = IF Astray(t) THEN astray \union {t} ELSE astray
  /\ \E n \in {left[t] - 1} \union (IF Astray(t) THEN {left[t]} ELSE {}) :
       n > 0 /\ left' = [left EXCEPT ![t] = n]
  /\ GoTo(t, "missed") \/ GoTo(t, "sought")
  /\ UNCHANGED <<vars, misread, data, result>>

\* The last Read and what is decoded from it (lines 808-850).  An error is returned and
\* not cached (lines 158-161); it may come before the last Read.
ReadEnds(t) ==
  /\ At(t, "sought")
  /\ left[t] = 1 \/ Astray(t) \/ Content[call[t].key] = NoValue
  /\ \E v \in IF Astray(t) THEN Value \union {NoValue} ELSE {Content[call[t].key]} :
       IF v = NoValue
       THEN GoTo(t, "returned") /\ UNCHANGED <<misread, data>>
       ELSE /\ GoTo(t, "read")
            /\ data' = [data EXCEPT ![t] = v]
            /\ misread' = IF v = Content[call[t].key] THEN misread
                          ELSE misread \union {call[t].key}
  /\ moved' = t
  /\ left' = [left EXCEPT ![t] = 0]
  /\ astray' = astray \ {t}
  /\ UNCHANGED <<vars, result>>

\* Mutants of StoreBegin: the callers decode into one buffer; they use one key.
StoreSharedBuffer(t) ==
  /\ At(t, "read")
  /\ \E u \in Thread : data[u] # NoValue /\ PutBegin(call[t].key, data[u])
  /\ GoTo(t, "storing")
  /\ UNCHANGED <<reading, data, result>>

StoreSharedKey(t) ==
  /\ At(t, "read")
  /\ \E u \in Thread : PutBegin(call[u].key, data[t])
  /\ GoTo(t, "storing")
  /\ UNCHANGED <<reading, data, result>>

\* Line 162: Put waits for the cache's mutex ...
StoreBegin(t) ==
  /\ At(t, "read")
  /\ PutBegin(call[t].key, data[t])
  /\ GoTo(t, "storing")
  /\ UNCHANGED <<reading, data, result>>

StoreEvict(t) ==
  /\ At(t, "storing")
  /\ Evict
  /\ UNCHANGED <<call, reading, data, result>>

\* Mutant of StoreEnd: the stream is looked up again, and read again if it is not there.
StoreEndRetries(t) ==
  /\ At(t, "storing")
  /\ \/ /\ PutStore
        /\ GoTo(t, "returned")
        /\ result' = [result EXCEPT ![t] = data[t]]
        /\ UNCHANGED left
     \/ /\ PutSkip
        /\ GoTo(t, "missed")
        /\ left' = [left EXCEPT ![t] = Reads[call[t].key]]
        /\ UNCHANGED result
  /\ data' = [data EXCEPT ![t] = NoValue]
  /\ UNCHANGED <<moved, astray, misread>>

\* ... and line 163 returns what was read, whether Put kept it or not.
StoreEnd(t) ==
  /\ At(t, "storing")
  /\ PutSkip \/ PutStore
  /\ GoTo(t, "returned")
  /\ result' = [result EXCEPT ![t] = data[t]]
  /\ data' = [data EXCEPT ![t] = NoValue]
  /\ UNCHANGED reading

Continue(t) == Seek(t) \/ Read(t) \/ ReadEnds(t) \/ StoreEvict(t) \/ StoreEnd(t)

DocNext ==
  \E t \in Thread :
    \/ \E k \in Key : Lookup(t, k)
    \/ StoreBegin(t)
    \/ Continue(t)

(***************************************************************************)
(* A goroutine inside a call keeps running.  sync.Mutex hands the lock to  *)
(* a goroutine that has waited for a millisecond ahead of newcomers, so a  *)
(* waiting Put is not starved.                                             *)
(***************************************************************************)
Fairness ==
  \A t \in Thread : WF_docVars(Continue(t)) /\ SF_docVars(StoreBegin(t))

DocSpec == DocInit /\ [][DocNext]_docVars /\ Fairness

-----------------------------------------------------------------------------
DocTypeOK ==
  /\ TypeOK
  /\ call \in [Thread -> [stage : Stage, key : Key]]
  /\ moved \in Thread \union {Nobody}
  /\ left \in [Thread -> Nat]
  /\ astray \subseteq Thread
  /\ misread \subseteq Key
  /\ data \in [Thread -> Value \union {NoValue}]
  /\ result \in [Thread -> Value \union {NoValue}]

(***************************************************************************)
(* What overlapping reads spoil stays with the reference they were made    *)
(* for: whatever was stored, overwritten, refused or evicted meanwhile, a  *)
(* call that succeeds returns the stream its own reference denotes, unless *)
(* some call, this one or the one that filled the cache, read the wrong    *)
(* bytes for that very reference (service.go:153-164).                     *)
(***************************************************************************)
ReturnsOwnContent ==
  \A t \in Thread :
    At(t, "returned") /\ result[t] # NoValue /\ call[t].key \notin misread
      => result[t] = Content[call[t].key]

(***************************************************************************)
(* Without the exception it does not hold: the Reads of two calls that     *)
(* missed are not kept apart (service.go:158), and what a call decodes     *)
(* astray is cached like any other stream, to be returned to others later. *)
(***************************************************************************)
AlwaysOwnContent ==
  \A t \in Thread :
    At(t, "returned") /\ result[t] # NoValue => result[t] = Content[call[t].key]

(***************************************************************************)
(* Two callers that miss on the same stream both put it, so Put overwrites *)
(* a live entry here; streams larger than the limit are read as well.  All *)
(* the same, no element is in the list without its key, and no entry in    *)
(* the map without its element: as long as the calls for a reference all   *)
(* decode the same bytes, none puts an oversized value on a cached key     *)
(* (cache.go:73-92).  A reference that was misread is excepted: bytes over *)
(* the limit can then meet an entry within it.                             *)
(***************************************************************************)
CacheSound ==
  /\ ListReachable
  /\ put = Idle => \A k \in Key \ misread : items[k] # NoValue => Linked(k)

\* At most one caller is inside Put, and it is the one `put' names.
PutOwner ==
  \A t \in Thread :
    At(t, "storing") =>
      /\ put = [key |-> call[t].key, value |-> data[t]]
      /\ \A u \in Thread \ {t} : ~At(u, "storing")

(***************************************************************************)
(* A call returns, though other callers keep taking the mutex, unless they *)
(* set the position back under one of its Reads: a call that is astray may *)
(* read for ever, one that has read its stream no longer is                *)
(* (service.go:153-164).                                                   *)
(***************************************************************************)
CallReturns ==
  \A t \in Thread : ~At(t, "returned") ~> (At(t, "returned") \/ t \in astray)
=============================================================================
