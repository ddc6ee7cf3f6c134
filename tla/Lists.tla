-------------------------------- MODULE Lists --------------------------------
(***************************************************************************)
(* The operations of Go's container/list that LRUCache uses, on a sequence *)
(* whose first element is the front of the list.                           *)
(***************************************************************************)
EXTENDS Integers, SequencesExt

Occurs(s, e) == \E i \in 1..Len(s) : s[i] = e

Distinct(s) == \A i, j \in 1..Len(s) : s[i] = s[j] => i = j

\* list.Remove: a no-op on an element that is not in the list.
Without(s, e) ==
  IF Occurs(s, e) THEN RemoveAt(s, CHOOSE i \in 1..Len(s) : s[i] = e) ELSE s
=============================================================================
