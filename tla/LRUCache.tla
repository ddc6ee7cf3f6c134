------------------------------ MODULE LRUCache ------------------------------
(***************************************************************************)
(* doc.LRUCache (internal/doc/cache.go): a byte-bounded cache guarded by   *)
(* one mutex.  Go keeps a map `items' from keys to elements of a           *)
(* doubly-linked list `order' whose front is the most recently used entry. *)
(*                                                                         *)
(* A key is linked by at most one list element: Put removes the element    *)
(* of its key before it pushes a new one.  An element is therefore named   *)
(* by its key: `items[k]' is the value the map leads to, `order' lists the *)
(* keys whose element is linked, and a key of the map that is not in       *)
(* `order' is one whose element was unlinked without being deleted.        *)
(*                                                                         *)
(* Get is one critical section with one effect, hence one action.  Put     *)
(* holds the mutex across its eviction loop: PutBegin, Evict (one          *)
(* iteration) and PutEnd, with `put' recording the call that holds the     *)
(* mutex.                                                                  *)
(***************************************************************************)
EXTENDS Integers, Lists

CONSTANTS
  Key,        \* cache keys (object references, for a PDF document)
  Value,      \* byte slices
  Size,       \* Size[v] = len(v)
  MaxBytes,   \* the limit NewLRUCache was given
  NoValue,    \* a miss: the nil slice with FALSE
  Idle,       \* the mutex is free
  MaxDebt,    \* bound: no Put starts once currentBytes is below -MaxDebt
  OversizeUpdates  \* whether a value over the limit may be put on a key that is cached

ASSUME SizeAssumption == Size \in [Value -> Nat]
ASSUME MaxBytesAssumption == MaxBytes \in Nat
ASSUME NoValueAssumption == NoValue \notin Value
ASSUME MaxDebtAssumption == MaxDebt \in Nat
ASSUME OversizeAssumption == OversizeUpdates \in BOOLEAN

VARIABLES
  items,         \* items[k]: the value of k's element, NoValue outside the map
  order,         \* keys of the linked elements, most recently used first
  currentBytes,  \* running byte count
  put,           \* the Put call holding the mutex, Idle when it is free
  reply,         \* the last Get: its key and what it returned
  recency        \* history: the keys ever hit or stored, latest use first

vars == <<items, order, currentBytes, put, reply, recency>>

PutCall == [key : Key, value : Value]

ASSUME IdleAssumption == Idle \notin PutCall

Linked(k) == Occurs(order, k)

Init ==
  /\ items = [k \in Key |-> NoValue]
  /\ order = <<>>
  /\ currentBytes = 0
  /\ put = Idle
  /\ reply \in [key : Key, value : {NoValue}]
  /\ recency = <<>>

Used(k) == Cons(k, Without(recency, k))

\* Mutants of Get: the element stays where it is; the mutex is not taken.
GetInPlace(k) ==
  /\ put = Idle
  /\ reply' = [key |-> k, value |-> items[k]]
  /\ recency' = IF items[k] # NoValue THEN Used(k) ELSE recency
  /\ UNCHANGED <<items, order, currentBytes, put>>

GetUnlocked(k) ==
  /\ reply' = [key |-> k, value |-> items[k]]
  /\ order' = IF Linked(k) THEN Cons(k, Without(order, k)) ELSE order
  /\ recency' = IF items[k] # NoValue THEN Used(k) ELSE recency
  /\ UNCHANGED <<items, currentBytes, put>>

(***************************************************************************)
(* Get returns the value and moves its element to the front.               *)
(***************************************************************************)
Get(k) ==
  /\ put = Idle
  /\ reply' = [key |-> k, value |-> items[k]]
  /\ order' = IF Linked(k) THEN Cons(k, Without(order, k)) ELSE order
  /\ recency' = IF items[k] # NoValue THEN Used(k) ELSE recency
  /\ UNCHANGED <<items, currentBytes, put>>

\* A cancelled context: Get misses before it takes the mutex.
GetCancelled(k) ==
  /\ reply' = [key |-> k, value |-> NoValue]
  /\ UNCHANGED <<items, order, currentBytes, put, recency>>

\* Mutant of PutBegin: the old element stays linked.
PutBeginLinked(k, v) ==
  /\ put = Idle
  /\ put' = [key |-> k, value |-> v]
  /\ currentBytes' = IF items[k] # NoValue THEN currentBytes - Size[items[k]] ELSE currentBytes
  /\ UNCHANGED <<items, order, reply, recency>>

\* Put takes the mutex and unlinks the key's present element.
PutBegin(k, v) ==
  /\ put = Idle
  /\ currentBytes >= -MaxDebt
  /\ OversizeUpdates \/ items[k] = NoValue \/ Size[v] <= MaxBytes
  /\ put' = [key |-> k, value |-> v]
  /\ IF items[k] # NoValue
     THEN /\ currentBytes' = currentBytes - Size[items[k]]
          /\ order' = Without(order, k)
     ELSE UNCHANGED <<currentBytes, order>>
  /\ UNCHANGED <<items, reply, recency>>

NeedsRoom == currentBytes + Size[put.value] > MaxBytes

\* One iteration of the eviction loop: the least recently used entry goes.
Evict ==
  /\ put # Idle
  /\ NeedsRoom
  /\ order # <<>>
  /\ currentBytes' = currentBytes - Size[items[Last(order)]]
  /\ items' = [items EXCEPT ![Last(order)] = NoValue]
  /\ order' = Front(order)
  /\ UNCHANGED <<put, reply, recency>>

LoopDone == ~(NeedsRoom /\ order # <<>>)

\* The value alone is over the limit: it is not cached.
PutSkip ==
  /\ put # Idle
  /\ LoopDone
  /\ Size[put.value] > MaxBytes
  /\ put' = Idle
  /\ UNCHANGED <<items, order, currentBytes, reply, recency>>

\* The value is pushed to the front.
PutStore ==
  /\ put # Idle
  /\ LoopDone
  /\ Size[put.value] <= MaxBytes
  /\ items' = [items EXCEPT ![put.key] = put.value]
  /\ order' = Cons(put.key, order)
  /\ currentBytes' = currentBytes + Size[put.value]
  /\ put' = Idle
  /\ recency' = Used(put.key)
  /\ UNCHANGED reply

PutStep == Evict \/ PutSkip \/ PutStore

Next ==
  \/ \E k \in Key : Get(k) \/ GetCancelled(k)
  \/ \E k \in Key, v \in Value : PutBegin(k, v)
  \/ PutStep

\* A call that holds the mutex runs to its end; nobody has to call.
Spec == Init /\ [][Next]_vars /\ WF_vars(PutStep)

-----------------------------------------------------------------------------
(***************************************************************************)
(* What the cache promises: BoundedCache.  While a Put of k runs, its old  *)
(* value is already gone.                                                  *)
(***************************************************************************)
Visible == [k \in Key |-> IF put # Idle /\ put.key = k THEN NoValue ELSE items[k]]

Abstract == INSTANCE BoundedCache WITH store <- Visible

TypeOK ==
  /\ items \in [Key -> Value \union {NoValue}]
  /\ order \in Seq(Key)
  /\ currentBytes \in Int
  /\ put \in PutCall \union {Idle}
  /\ reply \in [key : Key, value : Value \union {NoValue}]
  /\ recency \in Seq(Key)

ListInMap == \A k \in Key : Linked(k) => items[k] # NoValue

(***************************************************************************)
(* Every linked element is reachable through the map, and no key is linked *)
(* twice: an element the map lost could never be found again, yet would    *)
(* keep its bytes until it reached the back (cache.go:73-87).              *)
(***************************************************************************)
ListReachable == Distinct(order) /\ ListInMap

(***************************************************************************)
(* Outside a Put, every key of the map has a linked element: a value that  *)
(* can be returned is also one that can be evicted (cache.go:73-98).       *)
(***************************************************************************)
MapLinked == put = Idle => \A k \in Key : items[k] # NoValue => Linked(k)

(***************************************************************************)
(* currentBytes is the number of bytes held by the linked elements; the    *)
(* eviction loop compares it with the limit (cache.go:76, 81-87, 98).      *)
(***************************************************************************)
BytesAccounted ==
  currentBytes = Abstract!Bytes([k \in Key |-> IF Linked(k) THEN items[k] ELSE NoValue])

(***************************************************************************)
(* "evicted until the cache fits within the limit" (cache.go:9-11): the    *)
(* entries that can be returned never hold more than MaxBytes (unless      *)
(* OversizeUpdates).                                                       *)
(***************************************************************************)
WithinLimit == put = Idle => Abstract!Bytes(items) <= MaxBytes

\* The last use of j came after that of k.
UsedAfter(j, k) ==
  \E m, n \in 1..Len(recency) : recency[m] = j /\ recency[n] = k /\ m < n

(***************************************************************************)
(* "evicted (from least recently used) until there is room"                *)
(* (cache.go:57-60): an entry only leaves the cache while a Put needs the  *)
(* room, and only when every other entry was stored or hit after it.       *)
(***************************************************************************)
OldestLeaves ==
  \A k \in Key :
    (items[k] # NoValue /\ items'[k] = NoValue) =>
      /\ NeedsRoom
      /\ \A j \in Key \ {k, put.key} : items[j] # NoValue => UsedAfter(j, k)

EvictsOldest == [][OldestLeaves]_vars

(***************************************************************************)
(* "If the key already exists, its value is updated" (cache.go:57): when   *)
(* Put returns, its key leads to the new value or to none.  Not so when    *)
(* OversizeUpdates: the early return of cache.go:89-92 leaves the key with *)
(* the element that was just unlinked, and its value is served for good.   *)
(***************************************************************************)
PutUpdates ==
  [][(put # Idle /\ put' = Idle) => items'[put.key] \in {put.value, NoValue}]_vars

(***************************************************************************)
(* The eviction loop ends: a Put that took the mutex gives it back         *)
(* (cache.go:80-87), whatever the sizes.                                   *)
(***************************************************************************)
PutReturns == put # Idle ~> put = Idle

-----------------------------------------------------------------------------
(***************************************************************************)
(* Every behaviour of the list, the map and the byte counter is one of a   *)
(* map that forgets entries: a hit is the value of the latest Put, never   *)
(* one that was replaced, evicted or refused (cache.go:36-99).             *)
(***************************************************************************)
ImplementsBoundedCache == Abstract!Spec
=============================================================================
