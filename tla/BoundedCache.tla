---------------------------- MODULE BoundedCache ----------------------------
(***************************************************************************)
(* What doc.ContentCache (internal/doc/cache.go) promises its callers: a   *)
(* map that may forget any entry at any time, never holds more than        *)
(* MaxBytes, and answers a Get with the value of the latest Put or with a  *)
(* miss.                                                                   *)
(***************************************************************************)
EXTENDS Integers, FiniteSets

CONSTANTS Key, Value, Size, MaxBytes, NoValue

VARIABLES
  store,   \* store[k]: the value the cache holds for k, or NoValue
  reply    \* the last Get: its key and what it returned

vars == <<store, reply>>

\* The bytes of the values that a store holds.
Held(s) == UNION {{k} \X (1..Size[s[k]]) : k \in {j \in Key : s[j] # NoValue}}

Bytes(s) == Cardinality(Held(s))

Init ==
  /\ store = [k \in Key |-> NoValue]
  /\ reply \in [key : Key, value : {NoValue}]

\* A Get may miss (its context can be cancelled); a hit is what is stored.
Get(k) ==
  /\ \E v \in {store[k], NoValue} : reply' = [key |-> k, value |-> v]
  /\ UNCHANGED store

\* A Put is only visible when the entry fits beside those that are kept.
Put(k, v) ==
  /\ store' = [store EXCEPT ![k] = v]
  /\ Bytes(store') <= MaxBytes
  /\ UNCHANGED reply

Forget(k) ==
  /\ store' = [store EXCEPT ![k] = NoValue]
  /\ UNCHANGED reply

Next ==
  \/ \E k \in Key : Get(k) \/ Forget(k)
  \/ \E k \in Key, v \in Value : Put(k, v)

Spec == Init /\ [][Next]_vars
=============================================================================
