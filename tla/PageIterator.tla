---------------------------- MODULE PageIterator -----------------------------
(***************************************************************************)
(* The page iterator (internal/pdf/iterator.go): a depth-first walk of the *)
(* page tree with a stack of its own, suspended at every page.  One turn   *)
(* of the loop of Next is one action.                                      *)
(***************************************************************************)
EXTENDS PageTree

VARIABLES
  calling,    \* a call of Next is running
  pageNum,    \* pages passed so far
  kidsStack,  \* the Kids arrays still to be gone through, innermost last
  visited,    \* references already taken from a Kids array
  exhausted,  \* Next has returned io.EOF
  halfReset,  \* history: the last Reset could not read the file
  fresh,      \* history: no page was returned since the iterator was made or reset
  out         \* history: the pages returned since the walk was begun

vars == <<tree, calling, pageNum, kidsStack, visited, exhausted, fresh, halfReset, out>>

\* newPageIterator
Init ==
  /\ tree \in Trees
  /\ calling = FALSE
  /\ pageNum = 0
  /\ kidsStack = <<Kids(Root)>>
  /\ visited = {}
  /\ exhausted = FALSE
  /\ fresh = TRUE
  /\ halfReset = FALSE
  /\ out = <<>>

CallNext ==
  /\ ~calling
  /\ ~exhausted
  /\ calling' = TRUE
  /\ UNCHANGED <<tree, pageNum, kidsStack, visited, exhausted, fresh, halfReset, out>>

Top == kidsStack[Len(kidsStack)]
Below == SubSeq(kidsStack, 1, Len(kidsStack) - 1)
AtKid == calling /\ kidsStack # <<>> /\ Top # <<>>
\* The stack once the first kid of the innermost array is taken.
Advanced == Append(Below, Tail(Top))

PopEmpty ==
  /\ calling /\ kidsStack # <<>> /\ Top = <<>>
  /\ kidsStack' = Below
  /\ UNCHANGED <<tree, calling, pageNum, visited, exhausted, fresh, halfReset, out>>

\* Mutant of SkipSeen: the loop goes on without taking the kid off the stack.
SkipInPlace ==
  /\ AtKid
  /\ Head(Top) \in visited
  /\ UNCHANGED vars

SkipSeen ==
  /\ AtKid
  /\ Head(Top) \in visited
  /\ kidsStack' = Advanced
  /\ UNCHANGED <<tree, calling, pageNum, visited, exhausted, fresh, halfReset, out>>

\* Mutant of Visit: a reference is not looked up among those already taken.
VisitAgain(n) ==
  /\ AtKid
  /\ n = Head(Top)
  /\ visited' = visited \union {n}

Visit(n) ==
  /\ AtKid
  /\ n = Head(Top)
  /\ n \notin visited
  /\ visited' = visited \union {n}

SkipUnusable ==
  /\ Visit(Head(Top))
  /\ ~Pages(Head(Top)) /\ ~Page(Head(Top))
  /\ kidsStack' = Advanced
  /\ UNCHANGED <<tree, calling, pageNum, exhausted, fresh, halfReset, out>>

Descend ==
  /\ Visit(Head(Top))
  /\ Pages(Head(Top))
  /\ kidsStack' = Append(Advanced, Kids(Head(Top)))
  /\ UNCHANGED <<tree, calling, pageNum, exhausted, fresh, halfReset, out>>

\* A page without contents is counted and not returned.
PassBlank ==
  /\ Visit(Head(Top))
  /\ Page(Head(Top)) /\ ~tree[Head(Top)].contents
  /\ pageNum' = pageNum + 1
  /\ kidsStack' = Advanced
  /\ UNCHANGED <<tree, calling, exhausted, fresh, halfReset, out>>

ReturnPage ==
  /\ Visit(Head(Top))
  /\ Page(Head(Top)) /\ tree[Head(Top)].contents
  /\ pageNum' = pageNum + 1
  /\ kidsStack' = Advanced
  /\ calling' = FALSE
  /\ fresh' = FALSE
  /\ out' = Append(out, [num |-> pageNum', ref |-> Head(Top), fresh |-> fresh])
  /\ UNCHANGED <<tree, exhausted, halfReset>>

Exhaust ==
  /\ calling /\ kidsStack = <<>>
  /\ exhausted' = TRUE
  /\ calling' = FALSE
  /\ UNCHANGED <<tree, pageNum, kidsStack, visited, fresh, halfReset, out>>

Turn ==
  \/ PopEmpty \/ SkipSeen \/ SkipUnusable \/ Descend \/ PassBlank \/ ReturnPage \/ Exhaust

\* Mutant of Reset: the references stay marked.
ResetKeepingVisited ==
  /\ ~calling
  /\ pageNum' = 0
  /\ exhausted' = FALSE
  /\ kidsStack' = <<Kids(Root)>>
  /\ out' = <<>>
  /\ UNCHANGED <<tree, calling, visited, fresh, halfReset>>

Reset ==
  /\ ~calling
  /\ pageNum' = 0
  /\ exhausted' = FALSE
  /\ kidsStack' = <<Kids(Root)>>
  /\ visited' = {}
  /\ fresh' = TRUE
  /\ out' = <<>>
  /\ halfReset' = FALSE
  /\ UNCHANGED <<tree, calling>>

\* Reset clears the counter first and returns silently when a read fails.
ResetFails ==
  /\ ~calling
  /\ pageNum' = 0
  /\ exhausted' = FALSE
  /\ fresh' = TRUE
  /\ halfReset' = TRUE
  /\ UNCHANGED <<tree, calling, kidsStack, visited, out>>

Next == CallNext \/ Turn \/ Reset \/ ResetFails

\* A call of Next runs on by itself; its caller owes nothing.
Spec == Init /\ [][Next]_vars /\ WF_vars(Turn)

-----------------------------------------------------------------------------
Returned == [num : Nat, ref : Node, fresh : BOOLEAN]

TypeOK ==
  /\ tree \in [Node -> NodeObject]
  /\ calling \in BOOLEAN
  /\ pageNum \in Nat
  /\ kidsStack \in Seq(Seq(Node))
  /\ visited \subseteq Node
  /\ exhausted \in BOOLEAN
  /\ fresh \in BOOLEAN
  /\ halfReset \in BOOLEAN
  /\ out \in Seq(Returned)

(***************************************************************************)
(* A page that the tree has in several places, or in a cycle, is returned  *)
(* once, also when a Reset failed half way (iterator.go:102-106).          *)
(***************************************************************************)
NoPageTwice ==
  \A i, j \in 1..Len(out) : out[i].ref = out[j].ref => i = j

\* What a stack of Kids arrays still leads to.
KidsIn(stack) == UNION {{stack[i][j] : j \in 1..Len(stack[i])} : i \in 1..Len(stack)}
Pending == KidsIn(kidsStack)

(***************************************************************************)
(* The walk loses no branch: a kid of the root, or of a node entered, was  *)
(* looked at or is still on the stack (iterator.go:89-134).                *)
(***************************************************************************)
NoBranchLost ==
  \A n \in {Root} \union {m \in visited : Pages(m)} :
    \A i \in 1..Len(Kids(n)) : Kids(n)[i] \in visited \union Pending

(***************************************************************************)
(* Every call of Next returns, with a page or with io.EOF, on cyclic trees *)
(* too.                                                                    *)
(***************************************************************************)
NextReturns == calling ~> ~calling
=============================================================================
