-------------------------- MODULE PageChecksProofs ---------------------------
(***************************************************************************)
(* Whatever calls Validate and FirstPageInfo make on whatever file: a      *)
(* lookup of an inherited attribute ends at the nearest ancestor that has  *)
(* it, Validate examines every page of the document and reports exactly    *)
(* those that have no /MediaBox, FirstPageInfo describes the first page in *)
(* the order of the document, and the two do not contradict each other.    *)
(***************************************************************************)
EXTENDS PageReports, PageOrderProofs, NaturalsInduction

IInv == TypeOK /\ NearestAncestor

\* Looking up an attribute of a page starts a well-formed lookup.
LEMMA LookupStarts ==
  ASSUME own \in [Node -> Attributes], UNCHANGED own,
         NEW attribute \in Attribute, NEW n \in Node,
         Lookup(attribute, n)
  PROVE  LookupTypeOK' /\ NearestAncestor'
  BY LookupAssumption DEF Lookup, LookupTypeOK, NearestAncestor, Passed

\* A lookup that ends keeps the path that it went.
LEMMA LookupEnds ==
  ASSUME IInv, UNCHANGED own,
         NEW result \in {"found", "failed", "absent"}, End(result),
         result = "found" => Has(climb.attribute, climb.at) /\ climb.at \notin Passed
  PROVE  LookupTypeOK' /\ NearestAncestor'
<1>1. climb' = [climb EXCEPT !.result = result]
  BY DEF End
<1>2. /\ climb'.attribute = climb.attribute
      /\ climb'.page = climb.page
      /\ climb'.at = climb.at
      /\ climb'.passed = climb.passed
      /\ climb'.result = result
  BY <1>1 DEF IInv, TypeOK, LookupTypeOK
<1>3. LookupTypeOK'
  BY <1>1 DEF IInv, TypeOK, LookupTypeOK
<1>4. \A n : Has(climb.attribute, n)' <=> Has(climb.attribute, n)
  BY <1>2 DEF Has
<1>5. NearestAncestor'
  BY <1>2, <1>4 DEF IInv, NearestAncestor, Passed
<1> QED
  BY <1>3, <1>5

\* A step to the /Parent extends the path by a node that it did not have.
LEMMA LookupGoesUp ==
  ASSUME IInv, UNCHANGED own, Up
  PROVE  LookupTypeOK' /\ NearestAncestor'
<1> DEFINE p == climb.passed
           q == Append(p, climb.at)
           chain == Append(p, climb.at)
           longer == Append(q, climb'.at)
<1>1. /\ climb'.attribute = climb.attribute
      /\ climb'.page = climb.page
      /\ climb'.at = own[climb.at].parent
      /\ climb'.passed = q
      /\ climb'.result = "climbing"
  BY DEF Up, IInv, TypeOK, LookupTypeOK, Climbing
<1>2. p \in Seq(Node) /\ climb.at \in Node /\ own[climb.at].parent \in Node
  BY DEF Up, IInv, TypeOK, LookupTypeOK, Attributes
<1>3. LookupTypeOK'
  <2>1. q \in Seq(Node)
    BY <1>2
  <2>2. climb' = [climb EXCEPT !.at = own[climb.at].parent, !.passed = q]
    BY DEF Up
  <2> QED
    BY <1>2, <2>1, <2>2 DEF IInv, TypeOK, LookupTypeOK
<1>4. Len(q) = Len(p) + 1 /\ Len(p) \in Nat
  BY <1>2
<1>5. /\ \A i \in 1..Len(p) + 1 : longer[i] = chain[i]
      /\ longer[Len(p) + 2] = own[climb.at].parent
      /\ \A i \in 1..Len(p) : chain[i] = p[i]
      /\ chain[Len(p) + 1] = climb.at
  BY <1>1, <1>2, <1>4
<1>6. longer[1] = climb'.page
  BY <1>1, <1>4, <1>5 DEF IInv, NearestAncestor
<1>7. ASSUME NEW i \in 1..Len(q)
      PROVE  /\ longer[i + 1] = own[longer[i]].parent
             /\ ~Has(climb.attribute, longer[i])
             /\ \A j \in 1..Len(q) : longer[i] = longer[j] => i = j
  <2>1. CASE i = Len(p) + 1
    <3>1. longer[i] = climb.at /\ longer[i + 1] = own[climb.at].parent
      BY <2>1, <1>4, <1>5
    <3>2. ~Has(climb.attribute, climb.at)
      BY DEF Up
    <3>3. \A j \in 1..Len(p) : longer[j] # climb.at
      BY <1>5, <1>4 DEF Up, Cyclic, Passed
    <3> QED
      BY <2>1, <3>1, <3>2, <3>3, <1>4
  <2>2. CASE i \in 1..Len(p)
    <3>1. longer[i] = chain[i] /\ longer[i + 1] = chain[i + 1]
      BY <2>2, <1>4, <1>5
    <3>2. /\ chain[i + 1] = own[chain[i]].parent
          /\ ~Has(climb.attribute, chain[i])
          /\ \A j \in 1..Len(p) : chain[i] = chain[j] => i = j
      BY <2>2 DEF IInv, NearestAncestor
    <3>3. chain[i] # climb.at
      BY <2>2, <1>5, <1>4 DEF Up, Cyclic, Passed
    <3> QED
      BY <2>2, <3>1, <3>2, <3>3, <1>4, <1>5
  <2> QED
    BY <2>1, <2>2, <1>4
<1>8. Len(q) <= MaxLookup + 1
  BY <1>4, LookupAssumption DEF Up, TooDeep
<1>9. \A n : Has(climb.attribute, n)' <=> Has(climb.attribute, n)
  BY <1>1 DEF Has
<1>10. NearestAncestor'
  BY <1>1, <1>6, <1>7, <1>8, <1>9 DEF NearestAncestor
<1> QED
  BY <1>3, <1>10

\* Each step of a lookup is one of these two.
LEMMA ClimbKeeps ==
  ASSUME IInv, Climb, UNCHANGED own
  PROVE  LookupTypeOK' /\ NearestAncestor'
<1>1. CASE Fail
  BY <1>1, LookupEnds DEF Fail
<1>2. CASE Find
  <2>1. PICK result \in {"found", "failed"} : End(result)
    BY <1>2 DEF Find
  <2>2. Has(climb.attribute, climb.at) /\ climb.at \notin Passed
    BY <1>2 DEF Find, Cyclic
  <2> QED
    BY <2>1, <2>2, LookupEnds
<1>3. CASE Top
  <2>1. PICK result \in {"absent", "failed"} : End(result)
    BY <1>3 DEF Top
  <2> QED
    BY <2>1, LookupEnds
<1>4. CASE Up
  BY <1>4, LookupGoesUp
<1> QED
  BY <1>1, <1>2, <1>3, <1>4 DEF Climb

\* What the steps of a walk make of its stack.
LEMMA StackSteps ==
  ASSUME IInv
  PROVE  LET Stack == Seq([node : Node, kids : Seq(Node)])
         IN  /\ Left \in Stack
             /\ \A n \in Node : Enter(n) \in Stack /\ Kids(n) \in Seq(Node)
             /\ stack # <<>> /\ Top1.kids # <<>> =>
                  /\ Kid \in Node
                  /\ Advanced \in Stack
                  /\ Append(Advanced, [node |-> Kid, kids |-> Kids(Kid)]) \in Stack
<1> DEFINE Frame == [node : Node, kids : Seq(Node)]
<1>1. stack \in Seq(Frame)
  BY DEF IInv, TypeOK
<1>2. Left \in Seq(Frame)
  <2> HIDE DEF Frame
  <2>1. Len(stack) - 1 \in Int /\ \A i \in 1 .. Len(stack) - 1 : stack[i] \in Frame
    BY <1>1
  <2> QED
    BY <2>1, SubSeqProperties DEF Left
<1>3. \A n \in Node : Kids(n) \in Seq(Node)
  BY DEF IInv, TypeOK, NodeObject, Kids
<1>4. \A n \in Node : Enter(n) \in Seq(Frame)
  BY <1>1, <1>3 DEF Enter
<1>5. ASSUME stack # <<>>, Top1.kids # <<>>
      PROVE  /\ Kid \in Node
             /\ Advanced \in Seq(Frame)
             /\ Append(Advanced, [node |-> Kid, kids |-> Kids(Kid)]) \in Seq(Frame)
  <2>1. Len(stack) \in 1..Len(stack) /\ Top1 \in Frame
    <3> HIDE DEF Frame
    <3>1. Len(stack) \in 1..Len(stack)
      BY <1>1, <1>5
    <3> QED
      BY <1>1, <3>1 DEF Top1
  <2>2. Kid \in Node /\ Tail(Top1.kids) \in Seq(Node)
    BY <2>1, <1>5 DEF Kid
  <2> DEFINE next == [Top1 EXCEPT !.kids = Tail(Top1.kids)]
  <2>4. next \in Frame
    BY <2>1, <2>2
  <2>5. Advanced \in Seq(Frame)
    <3>1. Advanced = [stack EXCEPT ![Len(stack)] = next]
      BY <1>1, <2>1 DEF Advanced, Top1
    <3> HIDE DEF next
    <3> QED
      BY <1>1, <2>1, <2>4, <3>1
  <2>6. [node |-> Kid, kids |-> Kids(Kid)] \in Frame
    BY <2>2, <1>3
  <2> QED
    BY <2>2, <2>5, <2>6
<1> QED
  BY <1>2, <1>3, <1>4, <1>5

\* A step that leaves the lookup alone.
LEMMA LookupStays ==
  ASSUME IInv, UNCHANGED <<own, climb>>
  PROVE  LookupTypeOK' /\ NearestAncestor'
<1>1. LookupTypeOK'
  BY DEF IInv, TypeOK, LookupTypeOK
<1>2. /\ \A a, n : Has(a, n)' <=> Has(a, n)
      /\ Passed' = Passed
      /\ climb' = climb /\ own' = own
  BY DEF Has, Passed
<1>3. NearestAncestor'
  BY <1>2 DEF IInv, NearestAncestor
<1> QED
  BY <1>1, <1>3

\* A step that may start a lookup.
LEMMA LookupMayStart ==
  ASSUME IInv, UNCHANGED own,
         \/ UNCHANGED climb
         \/ \E attribute \in Attribute, n \in Node : Lookup(attribute, n)
  PROVE  LookupTypeOK' /\ NearestAncestor'
<1>1. CASE UNCHANGED climb
  BY <1>1, LookupStays
<1>2. CASE \E attribute \in Attribute, n \in Node : Lookup(attribute, n)
  <2>1. own \in [Node -> Attributes]
    BY DEF IInv, TypeOK, LookupTypeOK
  <2> QED
    BY <1>2, <2>1, LookupStarts
<1> QED
  BY <1>1, <1>2

LEMMA TypeInit == Init => IInv
<1> SUFFICES ASSUME Init
             PROVE  IInv
  OBVIOUS
<1>1. PICK f \in Files : tree = f.tree /\ own = f.own /\ prologue = f.prologue
  BY DEF Init
<1>2. /\ tree \in [Node -> NodeObject]
      /\ own \in [Node -> Attributes]
      /\ prologue \in Prologue
  BY <1>1, FilesAssumption, TreesAssumption
<1>3. LookupTypeOK /\ NearestAncestor
  BY <1>2, RootAssumption, LookupAssumption
     DEF Init, NoLookup, LookupTypeOK, NearestAncestor, Attribute
<1>4. TypeOK
  BY <1>2, <1>3, RootAssumption DEF Init, TypeOK, NoReport, NoFirst
<1> QED
  BY <1>3, <1>4 DEF IInv

\* A step that moves nothing but the stack of the walk, and the climb within its type,
\* keeps the types: PassKid, Descend and the steps of Validate over the kids of a node.
LEMMA OnlyTheStackMoves ==
  ASSUME IInv, LookupTypeOK',
         stack' \in Seq([node : Node, kids : Seq(Node)]),
         UNCHANGED <<file, op, pc, seen, page, results>>
  PROVE  TypeOK'
<1>1. UNCHANGED <<tree, own, prologue, op, pc, seen, page, report, first, checked>>
  BY DEF file, results
<1> QED
  BY <1>1, ZenonT(40) DEF IInv, TypeOK

LEMMA Inductive == IInv /\ [Next]_vars => IInv'
<1> SUFFICES ASSUME IInv, [Next]_vars
             PROVE  IInv'
  OBVIOUS
<1> USE DEF file, walk, results
<1>1. CASE FirstPageInfo
  <2>1. LookupTypeOK' /\ NearestAncestor'
    BY <1>1, LookupStays DEF FirstPageInfo
  <2>2. TypeOK'
    BY <1>1, <2>1, StackSteps, RootAssumption DEF FirstPageInfo, NoFirst, ToPages, ToRoot, IInv, TypeOK
  <2> QED
    BY <2>1, <2>2 DEF IInv
<1>2. CASE PassKid
  <2>1. LookupTypeOK' /\ NearestAncestor'
    BY <1>2, LookupStays DEF PassKid
  <2>2. TypeOK'
    <3>1. stack' \in Seq([node : Node, kids : Seq(Node)])
      BY <1>2, StackSteps DEF PassKid, Walking
    <3>2. UNCHANGED <<file, op, pc, seen, page, results>>
      BY <1>2 DEF PassKid
    <3> QED
      BY <2>1, <3>1, <3>2, OnlyTheStackMoves
  <2> QED
    BY <2>1, <2>2 DEF IInv
<1>3. CASE Descend
  <2>1. LookupTypeOK' /\ NearestAncestor'
    BY <1>3, LookupStays DEF Descend
  <2>2. TypeOK'
    <3>1. stack' \in Seq([node : Node, kids : Seq(Node)])
      BY <1>3, StackSteps DEF Descend, Walking
    <3>2. UNCHANGED <<file, op, pc, seen, page, results>>
      BY <1>3 DEF Descend
    <3> QED
      BY <2>1, <3>1, <3>2, OnlyTheStackMoves
  <2> QED
    BY <2>1, <2>2 DEF IInv
<1>4. CASE NoPageHere
  <2>1. LookupTypeOK' /\ NearestAncestor'
    BY <1>4, LookupStays DEF NoPageHere
  <2>2. TypeOK'
    BY <1>4, <2>1, StackSteps, RootAssumption DEF NoPageHere, Walking, GiveUp, NoFirst, IInv, TypeOK
  <2> QED
    BY <2>1, <2>2 DEF IInv
<1>5. CASE FirstKidPage
  <2>1. LookupTypeOK' /\ NearestAncestor'
    BY <1>5, LookupMayStart, StackSteps DEF FirstKidPage, Walking, IInv, TypeOK, Attribute
  <2>2. TypeOK'
    BY <1>5, <2>1, StackSteps, RootAssumption DEF FirstKidPage, Walking, GiveUp, NoFirst, IInv, TypeOK
  <2> QED
    BY <2>1, <2>2 DEF IInv
<1>6. CASE FirstBox
  <2>1. LookupTypeOK' /\ NearestAncestor'
    BY <1>6, LookupMayStart, StackSteps DEF FirstBox, IInv, TypeOK, Attribute
  <2>2. TypeOK'
    BY <1>6, <2>1, StackSteps, RootAssumption DEF FirstBox, GiveUp, NoFirst, IInv, TypeOK
  <2> QED
    BY <2>1, <2>2 DEF IInv
<1>7. CASE FirstResources
  <2>1. LookupTypeOK' /\ NearestAncestor'
    BY <1>7, LookupMayStart, StackSteps DEF FirstResources, IInv, TypeOK, Attribute
  <2>2. TypeOK'
    BY <1>7, <2>1, StackSteps, RootAssumption DEF FirstResources, GiveUp, NoFirst, IInv, TypeOK
  <2> QED
    BY <2>1, <2>2 DEF IInv
<1>8. CASE FirstRotate
  <2>1. LookupTypeOK' /\ NearestAncestor'
    BY <1>8, LookupStays DEF FirstRotate
  <2>2. TypeOK'
    <3>1. CASE climb.result = "failed"
      BY <1>8, <2>1, <3>1, StackSteps DEF FirstRotate, GiveUp, NoFirst, IInv, TypeOK
    <3>2. CASE climb.result # "failed"
      <4>1. stack' \in Seq([node : Node, kids : Seq(Node)])
        BY <1>8, <3>2 DEF FirstRotate
      <4>2. /\ op' \in {"idle", "firstpage", "pages", "fonts"}
            /\ pc' \in {"kids", "box", "resources", "rotate", "fonts"}
        BY <1>8, <3>2 DEF FirstRotate
      <4>3. first' \in [done : BOOLEAN, ok : BOOLEAN, page : Node \union {NoNode},
                        why : {"none", "structure", "no page", "Parent", "MediaBox", "Resources",
                               "Contents", "Rotate"}]
        <5>1. page \in Node
          BY DEF IInv, TypeOK
        <5>2. first' = [done |-> TRUE, ok |-> TRUE, page |-> page, why |-> "none"]
          BY <1>8, <3>2 DEF FirstRotate
        <5> QED
          BY <5>1, <5>2
      <4>4. UNCHANGED <<tree, own, prologue, climb, seen, page, report, checked>>
        BY <1>8 DEF FirstRotate
      <4> QED
        BY <2>1, <4>1, <4>2, <4>3, <4>4, ZenonT(40) DEF IInv, TypeOK
    <3> QED
      BY <3>1, <3>2
  <2> QED
    BY <2>1, <2>2 DEF IInv
<1>9. CASE Validate
  <2>1. LookupTypeOK' /\ NearestAncestor'
    BY <1>9, LookupStays DEF Validate
  <2>2. TypeOK'
    <3> DEFINE errors == HeaderErrors \union XRefErrors \union TrailerErrors
                           \union CatalogErrors \union PagesErrors
    <3>1. errors \subseteq {"header", "xref", "trailer", "catalog", "pages", "fonts"}
      BY DEF HeaderErrors, XRefErrors, TrailerErrors, CatalogErrors, PagesErrors
    <3>2. report' = Flag(errors)
      BY <1>9 DEF Validate
    <3>3. stack' \in Seq([node : Node, kids : Seq(Node)])
      <4>1. stack' \in {Enter(Root), <<>>}
        BY <1>9 DEF Validate
      <4>2. QED
        <5>1. <<>> \in Seq([node : Node, kids : Seq(Node)])
          OBVIOUS
        <5>2. Enter(Root) \in Seq([node : Node, kids : Seq(Node)])
          BY StackSteps, RootAssumption
        <5> QED
          BY <4>1, <5>1, <5>2
    <3>4. UNCHANGED <<tree, own, prologue, climb, pc, page, first, checked>>
      BY <1>9 DEF Validate
    <3>5. op' \in {"idle", "firstpage", "pages", "fonts"} /\ seen' \subseteq Node
      BY <1>9, RootAssumption DEF Validate
    <3> HIDE DEF errors
    <3> QED
      BY <2>1, <3>1, <3>2, <3>3, <3>4, <3>5 DEF Flag, IInv, TypeOK
  <2> QED
    BY <2>1, <2>2 DEF IInv
<1>10. CASE ValidatePass
  <2>1. LookupTypeOK' /\ NearestAncestor'
    BY <1>10, LookupStays DEF ValidatePass
  <2>2. TypeOK'
    <3>1. stack' \in Seq([node : Node, kids : Seq(Node)])
      BY <1>10, StackSteps DEF ValidatePass, Walking
    <3>2. UNCHANGED <<file, op, pc, seen, page, results>>
      BY <1>10 DEF ValidatePass
    <3> QED
      BY <2>1, <3>1, <3>2, OnlyTheStackMoves
  <2> QED
    BY <2>1, <2>2 DEF IInv
<1>11. CASE ValidateCut
  <2>1. LookupTypeOK' /\ NearestAncestor'
    BY <1>11, LookupStays DEF ValidateCut
  <2>2. TypeOK'
    <3>1. stack' \in Seq([node : Node, kids : Seq(Node)])
      BY <1>11, StackSteps DEF ValidateCut, Walking
    <3>2. UNCHANGED <<file, op, pc, seen, page, results>>
      BY <1>11 DEF ValidateCut
    <3> QED
      BY <2>1, <3>1, <3>2, OnlyTheStackMoves
  <2> QED
    BY <2>1, <2>2 DEF IInv
<1>12. CASE ValidateDescend
  <2>1. LookupTypeOK' /\ NearestAncestor'
    BY <1>12, LookupStays DEF ValidateDescend
  <2>2. TypeOK'
    <3>1. /\ stack' \in Seq([node : Node, kids : Seq(Node)])
          /\ seen' \subseteq Node
      BY <1>12, StackSteps DEF ValidateDescend, Walking, IInv, TypeOK
    <3>2. UNCHANGED <<tree, own, prologue, climb, op, pc, page, report, first, checked>>
      BY <1>12 DEF ValidateDescend
    <3> QED
      BY <2>1, <3>1, <3>2, ZenonT(40) DEF IInv, TypeOK
  <2> QED
    BY <2>1, <2>2 DEF IInv
<1>13. CASE ValidateLeave
  <2>1. LookupTypeOK' /\ NearestAncestor'
    BY <1>13, LookupStays DEF ValidateLeave
  <2>2. TypeOK'
    <3>1. stack' \in Seq([node : Node, kids : Seq(Node)])
      BY <1>13, StackSteps DEF ValidateLeave, Walking
    <3>2. UNCHANGED <<file, op, pc, seen, page, results>>
      BY <1>13 DEF ValidateLeave
    <3> QED
      BY <2>1, <3>1, <3>2, OnlyTheStackMoves
  <2> QED
    BY <2>1, <2>2 DEF IInv
<1>14. CASE ValidatePage
  <2>1. LookupTypeOK' /\ NearestAncestor'
    BY <1>14, LookupMayStart, StackSteps DEF ValidatePage, Walking, IInv, TypeOK, Attribute
  <2>2. TypeOK'
    BY <1>14, <2>1, StackSteps, RootAssumption DEF ValidatePage, Walking, IInv, TypeOK
  <2> QED
    BY <2>1, <2>2 DEF IInv
<1>15. CASE ValidateBox
  <2>1. LookupTypeOK' /\ NearestAncestor'
    BY <1>15, LookupMayStart, StackSteps DEF ValidateBox, IInv, TypeOK, Attribute
  <2>2. TypeOK'
    BY <1>15, <2>1, StackSteps, RootAssumption DEF ValidateBox, IInv, TypeOK
  <2> QED
    BY <2>1, <2>2 DEF IInv
<1>16. CASE ValidateResources
  <2>1. LookupTypeOK' /\ NearestAncestor'
    BY <1>16, LookupStays DEF ValidateResources
  <2>2. TypeOK'
    BY <1>16, <2>1, StackSteps, RootAssumption DEF ValidateResources, IInv, TypeOK
  <2> QED
    BY <2>1, <2>2 DEF IInv
<1>17. CASE PagesDone
  <2>1. LookupTypeOK' /\ NearestAncestor'
    BY <1>17, LookupStays DEF PagesDone
  <2>2. TypeOK'
    BY <1>17, <2>1, StackSteps, RootAssumption DEF PagesDone, Flag, FontsErrors, IInv, TypeOK
  <2> QED
    BY <2>1, <2>2 DEF IInv
<1>18. CASE ValidateFontsOf
  <2>1. LookupTypeOK' /\ NearestAncestor'
    BY <1>18, LookupMayStart, StackSteps DEF ValidateFontsOf, Walking, IInv, TypeOK, Attribute
  <2>2. TypeOK'
    BY <1>18, <2>1, StackSteps, RootAssumption DEF ValidateFontsOf, Walking, IInv, TypeOK
  <2> QED
    BY <2>1, <2>2 DEF IInv
<1>19. CASE ValidateFonts
  <2>1. LookupTypeOK' /\ NearestAncestor'
    BY <1>19, LookupStays DEF ValidateFonts
  <2>2. TypeOK'
    <3>1. FontsAt \subseteq Node
      BY DEF FontsAt, IInv, TypeOK, LookupTypeOK
    <3> QED
      BY <1>19, <2>1, <3>1 DEF ValidateFonts, IInv, TypeOK
  <2> QED
    BY <2>1, <2>2 DEF IInv
<1>20. CASE FontsDone
  <2>1. LookupTypeOK' /\ NearestAncestor'
    BY <1>20, LookupStays DEF FontsDone
  <2>2. TypeOK'
    BY <1>20, <2>1, StackSteps, RootAssumption DEF FontsDone, IInv, TypeOK
  <2> QED
    BY <2>1, <2>2 DEF IInv
<1>21. CASE LookupStep
  <2>1. LookupTypeOK' /\ NearestAncestor'
    BY <1>21, ClimbKeeps DEF LookupStep
  <2>2. TypeOK'
    <3>1. UNCHANGED <<tree, prologue, op, pc, stack, seen, page, report, first, checked>>
      BY <1>21 DEF LookupStep
    <3> QED
      BY <2>1, <3>1, ZenonT(40) DEF IInv, TypeOK
  <2> QED
    BY <2>1, <2>2 DEF IInv
<1>22. CASE UNCHANGED vars
  <2>1. LookupTypeOK' /\ NearestAncestor'
    BY <1>22, LookupStays DEF vars
  <2>2. TypeOK'
    <3>1. UNCHANGED <<tree, prologue, op, pc, stack, seen, page, report, first, checked>>
      BY <1>22 DEF vars
    <3> QED
      BY <2>1, <3>1, ZenonT(40) DEF IInv, TypeOK
  <2> QED
    BY <2>1, <2>2 DEF IInv
<1>23. CASE SearchRootForever
  <2>1. LookupTypeOK' /\ NearestAncestor'
    BY <1>23, LookupStays DEF SearchRootForever
  <2>2. TypeOK'
    <3>1. UNCHANGED <<tree, own, prologue, pc, stack, seen, page, report, first, checked>>
      BY <1>23 DEF SearchRootForever
    <3>2. op' = "searching"
      BY <1>23 DEF SearchRootForever
    <3> QED
      BY <2>1, <3>1, <3>2, ZenonT(40) DEF IInv, TypeOK
  <2> QED
    BY <2>1, <2>2 DEF IInv
<1> QED
  BY <1>1, <1>2, <1>3, <1>4, <1>5, <1>6, <1>7, <1>8, <1>9, <1>10, <1>11,
     <1>12, <1>13, <1>14, <1>15, <1>16, <1>17, <1>18, <1>19, <1>20, <1>21, <1>22, <1>23
     DEF Next, FirstPageStep, ValidateStep

(***************************************************************************)
(* The state of the walks and of the lookups has the types declared for    *)
(* it, whatever the files, the sizes of the trees and the limits.          *)
(***************************************************************************)
THEOREM TypeCorrect == Spec => []TypeOK
<1>1. IInv => TypeOK
  BY DEF IInv
<1> QED
  BY <1>1, TypeInit, Inductive, PTL DEF Spec

(***************************************************************************)
(* What a lookup of an inherited attribute finds is the value of the       *)
(* nearest ancestor that has it, and no node is asked twice                *)
(* (service.go:2767-2960).                                                 *)
(***************************************************************************)
THEOREM NearestAncestorFound == Spec => []NearestAncestor
<1>1. IInv => NearestAncestor
  BY DEF IInv
<1> QED
  BY <1>1, TypeInit, Inductive, PTL DEF Spec

-----------------------------------------------------------------------------
(* What a lookup finds is what a page inherits.                            *)

LEMMA LineFacts ==
  ASSUME NEW a, NEW n, NEW line \in Lines(a, n)
  PROVE  /\ line \in Seq(Node)
         /\ Len(line) \in 1..MaxLookup+1
         /\ line[1] = n
         /\ \A i \in 1..Len(line) : line[i] \in Node /\ Dictionary(line[i])
         /\ \A i \in 1..Len(line)-1 :
              ~Has(a, line[i]) /\ line[i+1] = own[line[i]].parent
<1>1. PICK d \in 1..MaxLookup+1 : line \in [1..d -> Node]
  BY DEF Lines
<1>2. line \in Seq(Node) /\ Len(line) = d
  BY <1>1, LookupAssumption
<1> QED BY <1>1, <1>2 DEF Lines

\* Where a lookup need not go on.
EndsAt(a, n) == Has(a, n) \/ own[n].parent = NoNode

\* A line that came to the same node twice would never leave the cycle.
LEMMA LineHasNoCycle ==
  ASSUME NEW a, NEW n, NEW line \in Lines(a, n), EndsAt(a, line[Len(line)]),
         NEW i \in 1..Len(line), NEW j \in 1..Len(line), line[i] = line[j], i < j
  PROVE  FALSE
<1> DEFINE L == Len(line)
           m == L - j + 1
           T == {k \in 1..m : line[i + k - 1] = line[j + k - 1]}
<1>1. L \in Nat /\ i \in 1..L /\ j \in 1..L /\ \A k \in 1..L : line[k] \in Node
  BY LineFacts, LookupAssumption
<1>2. \A k \in 1..L-1 : ~Has(a, line[k]) /\ line[k+1] = own[line[k]].parent
  BY LineFacts
<1> HIDE DEF L
<1>3. m \in Nat /\ m >= 1
  BY <1>1
<1>4. 1 \in T
  <2>1. i + 1 - 1 = i /\ j + 1 - 1 = j
    BY <1>1
  <2> QED BY <1>3, <2>1
<1>5. \A k \in 1..m-1 : k \in T => k+1 \in T
  <2> SUFFICES ASSUME NEW k \in 1..m-1, line[i + k - 1] = line[j + k - 1]
               PROVE  k+1 \in 1..m /\ line[i + (k+1) - 1] = line[j + (k+1) - 1]
    OBVIOUS
  <2>1. /\ i + k - 1 \in 1..L-1 /\ j + k - 1 \in 1..L-1
        /\ i + (k+1) - 1 = (i + k - 1) + 1 /\ j + (k+1) - 1 = (j + k - 1) + 1
        /\ k+1 \in 1..m
    BY <1>1
  <2> QED BY <1>2, <2>1
<1>6. m \in T
  <2>1. T = 1..m
    <3> HIDE DEF m
    <3> QED BY <1>3, <1>4, <1>5, FromEachToTheNext
  <2> HIDE DEF T
  <2> QED BY <1>3, <2>1
<1>7. line[i + m - 1] = line[L]
  <2>1. j + m - 1 = L
    BY <1>1
  <2>2. line[i + m - 1] = line[j + m - 1]
    BY <1>6
  <2> QED BY <2>1, <2>2
<1>8. i + m - 1 \in 1..L-1 /\ i + m - 1 + 1 \in 1..L
  BY <1>1
<1>9. ~EndsAt(a, line[i + m - 1])
  <2>1. line[i + m - 1 + 1] = own[line[i + m - 1]].parent /\ ~Has(a, line[i + m - 1])
    BY <1>2, <1>8
  <2>2. line[i + m - 1 + 1] # NoNode
    BY <1>1, <1>8, LookupAssumption
  <2> QED BY <2>1, <2>2 DEF EndsAt
<1> QED BY <1>7, <1>9 DEF L

LEMMA LookupPath ==
  ASSUME IInv
  PROVE  LET path == Append(climb.passed, climb.at)
         IN  /\ climb.passed \in Seq(Node)
             /\ Len(climb.passed) \in Nat
             /\ climb.at \in Node
             /\ path \in Seq(Node)
             /\ Len(path) = Len(climb.passed) + 1
             /\ path[1] = climb.page
             /\ path[Len(climb.passed) + 1] = climb.at
             /\ \A i \in 1..Len(climb.passed) :
                  /\ path[i] = climb.passed[i]
                  /\ path[i+1] = own[path[i]].parent
                  /\ ~Has(climb.attribute, path[i])
<1> DEFINE path == Append(climb.passed, climb.at)
<1>1. climb.passed \in Seq(Node) /\ climb.at \in Node
  BY DEF IInv, TypeOK, LookupTypeOK
<1>2. /\ path[1] = climb.page
      /\ \A i \in 1..Len(climb.passed) :
           path[i+1] = own[path[i]].parent /\ ~Has(climb.attribute, path[i])
  BY DEF IInv, NearestAncestor
<1>3. /\ path \in Seq(Node) /\ Len(path) = Len(climb.passed) + 1
      /\ Len(climb.passed) \in Nat
      /\ path[Len(climb.passed) + 1] = climb.at
      /\ \A i \in 1..Len(climb.passed) : path[i] = climb.passed[i]
  BY <1>1
<1> HIDE DEF path
<1> QED BY <1>1, <1>2, <1>3 DEF path

\* The lookup goes the way that the line goes.
LEMMA LineIsPath ==
  ASSUME IInv, NEW line \in Lines(climb.attribute, climb.page)
  PROVE  LET path == Append(climb.passed, climb.at)
         IN  \A i \in 1..Len(line) : i <= Len(path) => line[i] = path[i]
<1> DEFINE path == Append(climb.passed, climb.at)
           P == Len(climb.passed)
           n == IF Len(line) <= P + 1 THEN Len(line) ELSE P + 1
           T == {i \in 1..n : line[i] = path[i]}
<1>1. /\ climb.passed \in Seq(Node) /\ P \in Nat /\ Len(path) = P + 1
      /\ path[1] = climb.page
      /\ \A i \in 1..P : path[i+1] = own[path[i]].parent
  BY LookupPath
<1>2. /\ Len(line) \in Nat /\ Len(line) >= 1
      /\ line[1] = climb.page
      /\ \A i \in 1..Len(line)-1 : line[i+1] = own[line[i]].parent
  BY LineFacts, LookupAssumption
<1> HIDE DEF path, P
<1>3. n \in Nat /\ n >= 1
  BY <1>1, <1>2
<1>4. 1 \in T
  BY <1>1, <1>2, <1>3
<1>5. \A i \in 1..n-1 : i \in T => i+1 \in T
  <2> SUFFICES ASSUME NEW i \in 1..n-1, line[i] = path[i]
               PROVE  i+1 \in 1..n /\ line[i+1] = path[i+1]
    OBVIOUS
  <2>1. i \in 1..P /\ i \in 1..Len(line)-1 /\ i+1 \in 1..n
    BY <1>1, <1>2
  <2> QED BY <1>1, <1>2, <2>1
<1>6. T = 1..n
  <2> HIDE DEF n
  <2> QED BY <1>3, <1>4, <1>5, FromEachToTheNext
<1>7. \A i \in 1..Len(line) : i <= Len(path) => i \in 1..n
  BY <1>1, <1>2
<1> QED BY <1>6, <1>7 DEF path

(***************************************************************************)
(* A lookup that found something found what the page inherits; one for a   *)
(* /MediaBox or for /Resources that failed shows that it inherits none,    *)
(* one for a /Rotate that what it inherits cannot be read.                 *)
(***************************************************************************)
LookupTrue ==
  /\ \A i \in 1..Len(climb.passed) : Dictionary(climb.passed[i])
  /\ climb.result = "found" => Inherits(climb.attribute, climb.page)
  /\ climb.result = "failed" =>
       IF climb.attribute = "Rotate" THEN ~RotateReadable(climb.page)
       ELSE ~Inherits(climb.attribute, climb.page)

LEMMA InheritsByLine ==
  \A a, n : Inherits(a, n) <=>
    \E line \in Lines(a, n) : Has(a, line[Len(line)])
BY DEF Inherits, Source

\* Where the lookup finds the attribute, its path is such a line.
LEMMA FindInherits ==
  ASSUME IInv, LookupTrue, Find
  PROVE  Inherits(climb.attribute, climb.page)
<1> DEFINE path == Append(climb.passed, climb.at)
<1>1. /\ climb.passed \in Seq(Node) /\ Len(climb.passed) \in Nat /\ climb.at \in Node
      /\ path[1] = climb.page
      /\ \A i \in 1..Len(climb.passed) :
           path[i+1] = own[path[i]].parent /\ ~Has(climb.attribute, path[i])
  BY LookupPath
<1>2. /\ path \in Seq(Node) /\ Len(path) = Len(climb.passed) + 1
      /\ \A i \in 1..Len(climb.passed) : path[i] = climb.passed[i]
      /\ path[Len(path)] = climb.at
  BY <1>1
<1>3. /\ Len(climb.passed) <= MaxLookup /\ Dictionary(climb.at)
      /\ Has(climb.attribute, climb.at)
  BY <1>1, LookupAssumption DEF Find, TooDeep
<1> HIDE DEF path
<1>4. \A i \in 1..Len(path) : Dictionary(path[i])
  BY <1>1, <1>2, <1>3 DEF LookupTrue
<1>5. Len(path) \in 1..MaxLookup+1 /\ path \in [1..Len(path) -> Node]
  BY <1>1, <1>2, <1>3, LookupAssumption
<1>6. path \in Lines(climb.attribute, climb.page)
  <2>1. Len(path) - 1 = Len(climb.passed)
    BY <1>1, <1>2
  <2> QED BY <1>1, <1>4, <1>5, <2>1 DEF Lines
<1> QED BY <1>2, <1>3, <1>6, InheritsByLine

\* A line to where the lookup need not go on would have led it there.
LEMMA NoOtherLine ==
  ASSUME IInv, LookupTrue, NEW line \in Lines(climb.attribute, climb.page),
         EndsAt(climb.attribute, line[Len(line)])
  PROVE  /\ Len(line) >= Len(climb.passed) + 1
         /\ line[Len(climb.passed) + 1] = climb.at
         /\ climb.at \notin Passed
<1> DEFINE path == Append(climb.passed, climb.at)
           P == Len(climb.passed)
<1>1. /\ climb.passed \in Seq(Node) /\ P \in Nat /\ climb.at \in Node
      /\ \A i \in 1..P : ~EndsAt(climb.attribute, path[i])
  <2>1. /\ climb.passed \in Seq(Node) /\ P \in Nat /\ climb.at \in Node
        /\ path \in Seq(Node) /\ Len(path) = P + 1
        /\ \A i \in 1..P : path[i+1] = own[path[i]].parent /\ ~Has(climb.attribute, path[i])
    BY LookupPath
  <2> HIDE DEF path, P
  <2>2. ASSUME NEW i \in 1..P PROVE own[path[i]].parent # NoNode
    <3>1. i+1 \in 1..Len(path)
      BY <2>1
    <3>2. path[i+1] \in Node /\ path[i+1] = own[path[i]].parent
      BY <2>1, <3>1
    <3> QED BY <3>2, LookupAssumption
  <2> QED BY <2>1, <2>2 DEF EndsAt, P, path
<1>2. /\ Len(path) = P + 1 /\ path[P+1] = climb.at
      /\ \A i \in 1..P : path[i] = climb.passed[i]
  BY <1>1
<1>3. \A i \in 1..Len(line) : i <= P + 1 => line[i] = path[i]
  BY <1>2, LineIsPath
<1>4. Len(line) \in Nat /\ Len(line) >= 1
  BY LineFacts, LookupAssumption
<1> HIDE DEF path, P
<1>5. Len(line) >= P + 1
  <2> SUFFICES ASSUME ~(Len(line) >= P + 1) PROVE FALSE
    OBVIOUS
  <2>1. Len(line) \in 1..P
    BY <1>1, <1>4
  <2>2. line[Len(line)] = path[Len(line)]
    BY <1>1, <1>3, <1>4, <2>1
  <2> QED BY <1>1, <2>1, <2>2
<1>6. line[P+1] = climb.at
  BY <1>1, <1>2, <1>3, <1>4, <1>5
<1>7. climb.at \notin Passed
  <2> SUFFICES ASSUME climb.at \in Passed PROVE FALSE
    OBVIOUS
  <2>1. PICK i \in 1..P : climb.passed[i] = climb.at
    BY DEF Passed, P
  <2>2. i \in 1..Len(line) /\ P + 1 \in 1..Len(line) /\ i < P + 1
    BY <1>1, <1>4, <1>5
  <2>3. line[i] = line[P+1]
    BY <1>1, <1>2, <1>3, <1>6, <2>1, <2>2
  <2> QED BY <2>2, <2>3, LineHasNoCycle
<1> QED BY <1>5, <1>6, <1>7 DEF P

\* Hence the lookup goes on as long as there is such a line.
LEMMA LineGoesOn ==
  ASSUME IInv, LookupTrue, NEW line \in Lines(climb.attribute, climb.page),
         EndsAt(climb.attribute, line[Len(line)])
  PROVE  /\ ~TooDeep /\ ~Cyclic /\ Dictionary(climb.at)
         /\ EndsAt(climb.attribute, climb.at) => line[Len(line)] = climb.at
<1> DEFINE P == Len(climb.passed)
<1>0. P \in Nat
  BY LookupPath
<1>1. Len(line) >= P + 1 /\ line[P+1] = climb.at /\ climb.at \notin Passed
  BY NoOtherLine
<1>2. /\ Len(line) \in Nat /\ Len(line) <= MaxLookup + 1
      /\ \A i \in 1..Len(line) : line[i] \in Node /\ Dictionary(line[i])
      /\ \A i \in 1..Len(line)-1 :
           ~Has(climb.attribute, line[i]) /\ line[i+1] = own[line[i]].parent
  BY LineFacts, LookupAssumption
<1>3. P + 1 \in 1..Len(line)
  BY <1>0, <1>1, <1>2
<1> HIDE DEF P
<1>4. Dictionary(climb.at) /\ ~Cyclic
  BY <1>1, <1>2, <1>3 DEF Cyclic
<1>5. ~TooDeep
  BY <1>0, <1>1, <1>2, LookupAssumption DEF TooDeep, P
<1>6. ASSUME EndsAt(climb.attribute, climb.at) PROVE line[Len(line)] = climb.at
  <2> SUFFICES ASSUME P + 1 # Len(line) PROVE FALSE
    BY <1>1
  <2>1. P + 1 \in 1..Len(line)-1 /\ P + 1 + 1 \in 1..Len(line)
    BY <1>0, <1>1, <1>2
  <2>2. line[P+1+1] = own[climb.at].parent /\ ~Has(climb.attribute, climb.at)
    BY <1>1, <1>2, <2>1
  <2> QED BY <1>2, <1>6, <2>1, <2>2, LookupAssumption DEF EndsAt
<1> QED BY <1>4, <1>5, <1>6

\* A lookup that fails for another reason than its value fails rightly.
LEMMA FailMeansNone ==
  ASSUME IInv, LookupTrue,
         \/ TooDeep \/ Cyclic \/ ~Dictionary(climb.at)
         \/ ~Has(climb.attribute, climb.at) /\ own[climb.at].parent = NoNode
  PROVE  ~Inherits(climb.attribute, climb.page)
<1> SUFFICES ASSUME NEW line \in Lines(climb.attribute, climb.page),
                    Has(climb.attribute, line[Len(line)])
             PROVE  FALSE
  BY InheritsByLine
<1> QED BY LineGoesOn DEF EndsAt

\* So does one for a /Rotate, for its value too.
LEMMA FailMeansUnreadable ==
  ASSUME IInv, LookupTrue, climb.attribute = "Rotate",
         \/ TooDeep \/ Cyclic \/ ~Dictionary(climb.at)
         \/ Has("Rotate", climb.at) /\ own[climb.at].rotate = "other"
  PROVE  ~RotateReadable(climb.page)
<1> SUFFICES ASSUME RotateReadable(climb.page) PROVE FALSE
  OBVIOUS
<1>1. PICK line \in Lines("Rotate", climb.page) :
        LET m == line[Len(line)]
        IN  IF Has("Rotate", m) THEN own[m].rotate = "integer" ELSE own[m].parent = NoNode
  BY DEF RotateReadable
<1>2. EndsAt("Rotate", line[Len(line)])
  BY <1>1 DEF EndsAt
<1>3. /\ ~TooDeep /\ ~Cyclic /\ Dictionary(climb.at)
      /\ EndsAt("Rotate", climb.at) => line[Len(line)] = climb.at
  BY <1>2, LineGoesOn
<1> QED BY <1>1, <1>3 DEF EndsAt

-----------------------------------------------------------------------------
(* The walks.                                                              *)

\* No operation changes the file, hence neither what it holds.
LEMMA FileFixed ==
  ASSUME UNCHANGED <<tree, own>>
  PROVE  /\ \A n : /\ Dictionary(n)' <=> Dictionary(n)
                   /\ Pages(n)' <=> Pages(n)
                   /\ Page(n)' <=> Page(n)
                   /\ Kids(n)' = Kids(n)
         /\ \A a, n : Inherits(a, n)' <=> Inherits(a, n)
         /\ \A n : RotateReadable(n)' <=> RotateReadable(n)
         /\ Document' = Document
         /\ DocumentPages' = DocumentPages
         /\ Shallow' <=> Shallow
<1>1. \A n : /\ Dictionary(n)' <=> Dictionary(n)
             /\ Pages(n)' <=> Pages(n)
             /\ Page(n)' <=> Page(n)
             /\ Kids(n)' = Kids(n)
  BY DEF Dictionary, Pages, Page, Kids
<1>2. \A a, n : Has(a, n)' <=> Has(a, n)
  BY DEF Has
<1>3. \A a, n : Lines(a, n)' = Lines(a, n)
  BY <1>1, <1>2 DEF Lines
<1>4. \A a, n : Inherits(a, n)' <=> Inherits(a, n)
  BY <1>2, <1>3 DEF Inherits, Source
<1>5. Document' = Document
  BY <1>1 DEF Document, Closed
<1>6. DocumentPages' = DocumentPages
  BY <1>1, <1>5 DEF DocumentPages
<1>7. Shallow' <=> Shallow
  BY <1>1, <1>5 DEF Shallow
<1>8. \A n : RotateReadable(n)' <=> RotateReadable(n)
  BY <1>2, <1>3 DEF RotateReadable
<1> QED BY <1>1, <1>4, <1>5, <1>6, <1>7, <1>8

LEMMA LookupTrueStays ==
  ASSUME LookupTrue, UNCHANGED <<tree, own, climb>>
  PROVE  LookupTrue'
BY FileFixed DEF LookupTrue

LEMMA LookupTrueStarts ==
  ASSUME NEW attribute, NEW n, Lookup(attribute, n)
  PROVE  LookupTrue'
BY DEF Lookup, LookupTrue

LEMMA LookupTrueClimbs ==
  ASSUME IInv, LookupTrue, UNCHANGED <<tree, own>>, Climb
  PROVE  LookupTrue'
<1>1. climb \in [attribute : Attribute, page : Node, at : Node, passed : Seq(Node),
                 result : {"climbing", "found", "failed", "absent"}]
  BY DEF IInv, TypeOK, LookupTypeOK
<1>2. ASSUME NEW result, End(result),
             result = "found" => Inherits(climb.attribute, climb.page),
             result = "failed" =>
               IF climb.attribute = "Rotate" THEN ~RotateReadable(climb.page)
               ELSE ~Inherits(climb.attribute, climb.page)
      PROVE  LookupTrue'
  <2>1. /\ climb'.attribute = climb.attribute
        /\ climb'.page = climb.page
        /\ climb'.passed = climb.passed
        /\ climb'.result = result
    BY <1>1, <1>2 DEF End
  <2> QED BY <1>2, <2>1, FileFixed DEF LookupTrue
<1>3. CASE Fail
  BY <1>2, <1>3, FailMeansNone, FailMeansUnreadable DEF Fail
<1>4. CASE Find
  <2>1. Inherits(climb.attribute, climb.page)
    BY <1>4, FindInherits
  <2>2. climb.attribute = "Rotate" /\ own[climb.at].rotate = "other" =>
          ~RotateReadable(climb.page)
    BY <1>4, FailMeansUnreadable DEF Find
  <2> QED BY <1>2, <1>4, <2>1, <2>2 DEF Find
<1>5. CASE Top
  <2>1. ~Inherits(climb.attribute, climb.page)
    BY <1>5, FailMeansNone DEF Top
  <2> QED BY <1>2, <1>5, <2>1 DEF Top
<1>6. CASE Up
  <2>1. /\ climb'.passed = Append(climb.passed, climb.at)
        /\ climb'.result = "climbing"
        /\ Dictionary(climb.at)
    BY <1>1, <1>6 DEF Up, Climbing
  <2>2. \A i \in 1..Len(climb'.passed) :
          \/ i \in 1..Len(climb.passed) /\ climb'.passed[i] = climb.passed[i]
          \/ climb'.passed[i] = climb.at
    BY <2>1, LookupPath
  <2> QED BY <2>1, <2>2, FileFixed DEF LookupTrue
<1> QED BY <1>3, <1>4, <1>5, <1>6 DEF Climb

\* The kids that are left on a stack.
Frame == [node : Node, kids : Seq(Node)]

KidsOn(s) ==
  {n \in Node : \E i \in 1..Len(s) : \E j \in 1..Len(s[i].kids) : s[i].kids[j] = n}

KidSet(n) == {m \in Node : \E i \in 1..Len(Kids(n)) : Kids(n)[i] = m}

LEMMA EmptyStack == Len(<<>>) = 0 /\ KidsOn(<<>>) = {}
<1>1. Len(<<>>) = 0
  OBVIOUS
<1> QED BY <1>1 DEF KidsOn

LEMMA PushedKids ==
  ASSUME NEW s \in Seq(Frame), NEW n \in Node, Kids(n) \in Seq(Node)
  PROVE  LET t == Append(s, [node |-> n, kids |-> Kids(n)])
         IN  Len(t) = Len(s) + 1 /\ KidsOn(t) = KidsOn(s) \union KidSet(n)
<1> DEFINE f == [node |-> n, kids |-> Kids(n)]
           t == Append(s, f)
<1>1. f \in Frame /\ f.kids = Kids(n)
  BY DEF Frame
<1> HIDE DEF f, Frame
<1>2. /\ Len(s) \in Nat /\ Len(t) = Len(s) + 1 /\ t[Len(s) + 1] = f
      /\ \A i \in 1..Len(s) : t[i] = s[i]
  BY <1>1
<1> HIDE DEF t
<1>3. ASSUME NEW m \in Node
      PROVE  m \in KidsOn(t) <=> m \in KidsOn(s) \/ m \in KidSet(n)
  <2>1. ASSUME m \in KidsOn(t) PROVE m \in KidsOn(s) \/ m \in KidSet(n)
    <3>1. PICK i \in 1..Len(t) : \E j \in 1..Len(t[i].kids) : t[i].kids[j] = m
      BY <2>1 DEF KidsOn
    <3>2. CASE i \in 1..Len(s)
      BY <1>2, <3>1, <3>2 DEF KidsOn
    <3>3. CASE i = Len(s) + 1
      BY <1>1, <1>2, <3>1, <3>3 DEF KidSet
    <3> QED BY <1>2, <3>2, <3>3
  <2>2. ASSUME m \in KidsOn(s) PROVE m \in KidsOn(t)
    <3>1. PICK i \in 1..Len(s) : \E j \in 1..Len(s[i].kids) : s[i].kids[j] = m
      BY <2>2 DEF KidsOn
    <3> QED BY <1>2, <3>1 DEF KidsOn
  <2>3. ASSUME m \in KidSet(n) PROVE m \in KidsOn(t)
    <3>1. Len(s) + 1 \in 1..Len(t)
      BY <1>2
    <3> QED BY <1>1, <1>2, <2>3, <3>1 DEF KidsOn, KidSet
  <2> QED BY <2>1, <2>2, <2>3
<1>4. KidsOn(t) = KidsOn(s) \union KidSet(n)
  BY <1>3 DEF KidsOn, KidSet
<1> QED BY <1>2, <1>4 DEF t, f

\* Leaving a node leaves the kids that it still had.
LEMMA LeftKids ==
  ASSUME IInv
  PROVE  /\ KidsOn(Left) \subseteq KidsOn(stack)
         /\ Len(stack) <= 1 => Left = <<>>
         /\ stack # <<>> => Len(Left) = Len(stack) - 1
         /\ stack # <<>> /\ Top1.kids = <<>> => KidsOn(Left) = KidsOn(stack)
<1>0. stack \in Seq(Frame)
  BY DEF IInv, TypeOK, Frame
<1>1. stack \in Seq(Frame) /\ Len(stack) \in Nat
  <2> HIDE DEF Frame
  <2> QED BY <1>0
<1> DEFINE m == Len(stack) - 1
<1>2. m \in Int /\ \A i \in 1..m : stack[i] \in Frame
  <2> HIDE DEF Frame
  <2> QED BY <1>1
<1> HIDE DEF m
<1>3. /\ Left \in Seq(Frame)
      /\ Len(Left) = IF 1 <= m THEN m-1+1 ELSE 0
      /\ \A i \in 1..m-1+1 : Left[i] = stack[1+i-1]
  BY <1>2, SubSeqProperties DEF Left, m
<1>4. /\ Len(Left) = IF 1 <= m THEN m ELSE 0
      /\ \A i \in 1..m : Left[i] = stack[i]
  BY <1>2, <1>3
<1>5. KidsOn(Left) \subseteq KidsOn(stack)
  <2>1. \A i \in 1..Len(Left) : i \in 1..Len(stack) /\ Left[i] = stack[i]
    BY <1>1, <1>2, <1>4 DEF m
  <2> QED BY <2>1 DEF KidsOn
<1>6. Len(stack) <= 1 => Left = <<>>
  <2> HIDE DEF Frame
  <2>1. Len(stack) <= 1 => Len(Left) = 0
    BY <1>1, <1>4 DEF m
  <2> QED BY <1>3, <2>1, EmptySeq
<1>7. ASSUME stack # <<>>
      PROVE  /\ Len(Left) = Len(stack) - 1
             /\ Top1.kids = <<>> => KidsOn(stack) \subseteq KidsOn(Left)
  <2>1. Len(stack) # 0
    <3> HIDE DEF Frame
    <3> QED BY <1>1, <1>7, EmptySeq
  <2>2. Len(Left) = Len(stack) - 1
    <3>1. m \in Nat /\ (1 <= m \/ m = 0)
      <4>1. \A n \in Nat : n # 0 => n - 1 \in Nat /\ (1 <= n - 1 \/ n - 1 = 0)
        OBVIOUS
      <4> QED BY <1>1, <2>1, <4>1, Zenon DEF m
    <3>2. Len(Left) = m
      BY <1>4, <3>1
    <3> QED BY <3>2 DEF m
  <2>3. ASSUME Top1.kids = <<>>, NEW n \in KidsOn(stack) PROVE n \in KidsOn(Left)
    <3>1. PICK i \in 1..Len(stack) : \E j \in 1..Len(stack[i].kids) : stack[i].kids[j] = n
      BY DEF KidsOn
    <3>2. i # Len(stack)
      <4>1. Len(<<>>) = 0
        OBVIOUS
      <4> QED BY <2>3, <3>1, <4>1 DEF Top1
    <3>3. i \in 1..Len(Left) /\ Left[i] = stack[i]
      BY <1>1, <1>4, <2>2, <3>1, <3>2 DEF m
    <3> QED BY <3>1, <3>3 DEF KidsOn
  <2> QED BY <2>2, <2>3
<1> QED BY <1>5, <1>6, <1>7

\* Going on takes one kid from the stack.
LEMMA AdvancedKids ==
  ASSUME IInv, stack # <<>>, Top1.kids # <<>>
  PROVE  /\ Kid \in KidsOn(stack)
         /\ Advanced \in Seq(Frame)
         /\ Len(Advanced) = Len(stack)
         /\ KidsOn(Advanced) \subseteq KidsOn(stack)
         /\ KidsOn(stack) \subseteq KidsOn(Advanced) \union {Kid}
<1>1. stack \in Seq(Frame) /\ Advanced \in Seq(Frame) /\ Kid \in Node
  BY StackSteps DEF IInv, TypeOK, Frame
<1> DEFINE L == Len(stack)
<1>2. L \in 1..Len(stack) /\ L \in Nat /\ stack[L] = Top1 /\ Top1 \in Frame
  <2> HIDE DEF Frame
  <2>1. Len(stack) \in Nat /\ Len(stack) # 0
    BY <1>1, EmptySeq
  <2>2. Len(stack) \in 1..Len(stack)
    BY <2>1
  <2> QED BY <1>1, <2>1, <2>2 DEF Top1
<1>3. Top1.kids \in Seq(Node) /\ Len(Top1.kids) \in Nat \ {0} /\ Kid = Top1.kids[1]
  <2>1. Top1.kids \in Seq(Node)
    BY <1>2 DEF Frame
  <2> QED BY <2>1, EmptySeq DEF Kid
<1>4. /\ Tail(Top1.kids) \in Seq(Node)
      /\ Len(Tail(Top1.kids)) = Len(Top1.kids) - 1
      /\ \A j \in 1..Len(Top1.kids)-1 : Tail(Top1.kids)[j] = Top1.kids[j+1]
  BY <1>3
<1>5. /\ Len(Advanced) = Len(stack)
      /\ \A i \in 1..Len(stack) : i # L => Advanced[i] = stack[i]
      /\ Advanced[L].kids = Tail(Top1.kids)
  <2>1. Advanced = [stack EXCEPT ![L] = [Top1 EXCEPT !.kids = Tail(Top1.kids)]]
    BY <1>1, <1>2 DEF Advanced
  <2>2. [Top1 EXCEPT !.kids = Tail(Top1.kids)].kids = Tail(Top1.kids)
    BY <1>2 DEF Frame
  <2> HIDE DEF Frame
  <2> QED BY <1>1, <1>2, <2>1, <2>2
<1> HIDE DEF L, Frame
<1>6. Kid \in KidsOn(stack)
  <2>1. 1 \in 1..Len(stack[L].kids) /\ stack[L].kids[1] = Kid
    BY <1>2, <1>3
  <2> QED BY <1>1, <1>2, <2>1 DEF KidsOn
<1>7. ASSUME NEW n \in KidsOn(Advanced) PROVE n \in KidsOn(stack)
  <2>1. PICK i \in 1..Len(stack) : \E j \in 1..Len(Advanced[i].kids) : Advanced[i].kids[j] = n
    BY <1>5 DEF KidsOn
  <2>2. CASE i # L
    BY <1>5, <2>1, <2>2 DEF KidsOn
  <2>3. CASE i = L
    <3>1. PICK j \in 1..Len(Top1.kids)-1 : Top1.kids[j+1] = n
      BY <1>4, <1>5, <2>1, <2>3
    <3>2. j+1 \in 1..Len(stack[L].kids) /\ stack[L].kids[j+1] = n
      BY <1>2, <1>3, <3>1
    <3> QED BY <1>2, <3>2 DEF KidsOn
  <2> QED BY <2>2, <2>3
<1>8. ASSUME NEW n \in KidsOn(stack), n # Kid PROVE n \in KidsOn(Advanced)
  <2>1. PICK i \in 1..Len(stack) : \E j \in 1..Len(stack[i].kids) : stack[i].kids[j] = n
    BY DEF KidsOn
  <2>2. CASE i # L
    BY <1>5, <2>1, <2>2 DEF KidsOn
  <2>3. CASE i = L
    <3>1. PICK j \in 1..Len(Top1.kids) : Top1.kids[j] = n
      BY <1>2, <2>1, <2>3
    <3>2. j-1 \in 1..Len(Top1.kids)-1 /\ j-1+1 = j
      BY <1>3, <1>8, <3>1
    <3>3. j-1 \in 1..Len(Advanced[L].kids) /\ Advanced[L].kids[j-1] = n
      BY <1>4, <1>5, <3>1, <3>2
    <3> QED BY <1>2, <1>5, <3>3 DEF KidsOn
  <2> QED BY <2>2, <2>3
<1> QED BY <1>1, <1>5, <1>6, <1>7, <1>8

LEMMA DocumentFacts ==
  ASSUME IInv
  PROVE  /\ Document \subseteq Node /\ Root \in Document
         /\ \A n \in Document : Pages(n) => KidSet(n) \subseteq Document
         /\ \A S \in SUBSET Node : Root \in S /\ Closed(S) => Document \subseteq S
<1>1. \A n \in Node : n \in Document <=>
        \A S \in SUBSET Node : Root \in S /\ Closed(S) => n \in S
  <2> DEFINE closed == {S \in {{Root} \union T : T \in SUBSET (Node \ {Root})} : Closed(S)}
  <2>1. \A S \in closed : S \in SUBSET Node /\ Root \in S /\ Closed(S)
    BY RootAssumption
  <2>2. ASSUME NEW S \in SUBSET Node, Root \in S, Closed(S) PROVE S \in closed
    <3>1. S = {Root} \union (S \ {Root}) /\ S \ {Root} \in SUBSET (Node \ {Root})
      BY <2>2
    <3> QED BY <2>2, <3>1
  <2> QED BY <2>1, <2>2 DEF Document
<1>2. Document \subseteq Node /\ Root \in Document
  BY <1>1, RootAssumption DEF Document
<1>3. ASSUME NEW n \in Document, Pages(n), NEW m \in KidSet(n) PROVE m \in Document
  <2> SUFFICES ASSUME NEW S \in SUBSET Node, Root \in S, Closed(S) PROVE m \in S
    BY <1>1 DEF KidSet
  <2>1. n \in S
    BY <1>1, <1>2
  <2> QED BY <1>3, <2>1 DEF Closed, KidSet
<1> QED BY <1>1, <1>2, <1>3

-----------------------------------------------------------------------------
(* What Validate and FirstPageInfo report.                                 *)

AtRest == op = "idle" => pc = "kids" /\ stack = <<>>

\* The steps of the two operations, one disjunct for each.
LEMMA NextActions ==
  Next <=>
    \/ FirstPageInfo \/ PassKid \/ Descend \/ NoPageHere \/ FirstKidPage
    \/ FirstBox \/ FirstResources \/ FirstRotate
    \/ SearchRootForever
    \/ Validate \/ ValidatePass \/ ValidateCut \/ ValidateDescend \/ ValidateLeave
    \/ ValidatePage \/ ValidateBox \/ ValidateResources \/ PagesDone
    \/ ValidateFontsOf \/ ValidateFonts \/ FontsDone \/ LookupStep
BY Zenon DEF Next, FirstPageStep, ValidateStep

LEMMA FileStays ==
  ASSUME [Next]_vars
  PROVE  UNCHANGED <<tree, own, prologue>>
<1>1. CASE UNCHANGED vars
  BY <1>1 DEF vars, file
<1>2. CASE Next
  BY <1>2, NextActions
     DEF FirstPageInfo, SearchRootForever, PassKid, Descend, NoPageHere, FirstKidPage, FirstBox,
         FirstResources, FirstRotate, Validate, ValidatePass, ValidateCut, ValidateDescend, ValidateLeave,
         ValidatePage, ValidateBox, ValidateResources, PagesDone, ValidateFontsOf,
         ValidateFonts, FontsDone, LookupStep, file
<1> QED BY <1>1, <1>2

\* How a step moves the stack.
LEMMA StackMoves ==
  ASSUME AtRest, [Next]_vars
  PROVE  \/ stack' \in {stack, <<>>, Left}
         \/ stack = <<>> /\ stack' = Enter(Root)
         \/ /\ stack # <<>> /\ Top1.kids # <<>>
            /\ \/ stack' = Advanced
               \/ Pages(Kid) /\ stack' = Append(Advanced, [node |-> Kid, kids |-> Kids(Kid)])
<1>1. CASE UNCHANGED vars
  BY <1>1 DEF vars, walk
<1>2. CASE Next
  BY <1>2, NextActions
     DEF FirstPageInfo, SearchRootForever, PassKid, Descend, NoPageHere, FirstKidPage, FirstBox,
         FirstResources, FirstRotate, Validate, ValidatePass, ValidateCut, ValidateDescend, ValidateLeave,
         ValidatePage, ValidateBox, ValidateResources, PagesDone, ValidateFontsOf,
         ValidateFonts, FontsDone, LookupStep, walk, GiveUp, Walking, AtRest
<1> QED BY <1>1, <1>2

\* How a step moves the page under examination, and what has been seen.
LEMMA PageMoves ==
  ASSUME [Next]_vars
  PROVE  /\ pc' # "kids" =>
              \/ pc # "kids" /\ page' = page
              \/ Walking /\ Top1.kids # <<>> /\ Page(Kid) /\ page' = Kid
         /\ \/ seen' \in {seen, {Root}}
            \/ Walking /\ Top1.kids # <<>> /\ Pages(Kid) /\ seen' = seen \union {Kid}
         /\ \/ checked' = checked
            \/ pc = "box" /\ checked' = checked \union {page}
<1>1. CASE UNCHANGED vars
  BY <1>1 DEF vars, walk, results
<1>2. CASE Next
  BY <1>2, NextActions
     DEF FirstPageInfo, SearchRootForever, PassKid, Descend, NoPageHere, FirstKidPage, FirstBox,
         FirstResources, FirstRotate, Validate, ValidatePass, ValidateCut, ValidateDescend, ValidateLeave,
         ValidatePage, ValidateBox, ValidateResources, PagesDone, ValidateFontsOf,
         ValidateFonts, FontsDone, LookupStep, walk, GiveUp, Walking, results
<1> QED BY <1>1, <1>2

\* A page that is asked for its /MediaBox has it, or looks for it.
BoxAsked ==
  pc = "box" /\ ~own[page].box =>
    climb.attribute = "MediaBox" /\ climb.page = page /\ climb.result # "absent"

\* The walks do not leave the document.
InDocument ==
  /\ Pages(Root)
  /\ KidsOn(stack) \subseteq Document
  /\ seen \subseteq {n \in Document : Pages(n)}
  /\ checked \subseteq DocumentPages
  /\ pc # "kids" => page \in DocumentPages

LEMMA StackLength ==
  ASSUME IInv
  PROVE  stack \in Seq(Frame) /\ Len(stack) \in Nat
<1>1. stack \in Seq(Frame)
  BY DEF IInv, TypeOK, Frame
<1> HIDE DEF Frame
<1> QED BY <1>1

LEMMA AtRestStep ==
  ASSUME IInv, AtRest, [Next]_vars
  PROVE  AtRest'
<1>1. CASE UNCHANGED vars
  BY <1>1 DEF vars, walk, AtRest
<1>2. \A why : GiveUp(why) => AtRest'
  <2>1. Len(stack) > 1 => \A why : GiveUp(why) => op' = op
    BY DEF GiveUp
  <2>2. ~(Len(stack) > 1) => Left = <<>>
    BY StackLength, LeftKids
  <2>3. \A why : GiveUp(why) => stack' = Left /\ pc' = "kids"
    BY DEF GiveUp
  <2>4. op = "idle" => Left = <<>>
    <3>1. stack = <<>> => Len(stack) <= 1
      OBVIOUS
    <3> QED BY <3>1, LeftKids DEF AtRest
  <2> QED BY <2>1, <2>2, <2>3, <2>4 DEF AtRest
<1>3. CASE FirstPageInfo \/ LookupStep
  BY <1>3 DEF FirstPageInfo, LookupStep, walk, AtRest
<1>4. CASE SearchRootForever \/ PassKid \/ Descend \/ Validate \/ ValidatePass \/ ValidateCut
             \/ ValidateDescend \/ ValidateLeave \/ ValidatePage \/ ValidateBox
             \/ ValidateResources \/ PagesDone \/ ValidateFontsOf \/ ValidateFonts
  <2>1. op' # "idle"
    BY <1>4
       DEF SearchRootForever, PassKid, Descend, Validate, ValidatePass, ValidateCut, ValidateDescend, ValidateLeave,
           ValidatePage, ValidateBox, ValidateResources, PagesDone, ValidateFontsOf,
           ValidateFonts, Validating
  <2> QED BY <2>1 DEF AtRest
<1>5. CASE NoPageHere
  BY <1>2, <1>5 DEF NoPageHere
<1>6. CASE FirstKidPage
  BY <1>2, <1>6 DEF FirstKidPage, AtRest
<1>7. CASE FirstBox
  BY <1>2, <1>7 DEF FirstBox, AtRest
<1>8. CASE FirstResources
  BY <1>2, <1>8 DEF FirstResources, AtRest
<1>9. CASE FirstRotate
  BY <1>2, <1>9 DEF FirstRotate, AtRest
<1>10. CASE FontsDone
  BY <1>10 DEF FontsDone, walk, AtRest
<1> QED
  BY <1>1, <1>3, <1>4, <1>5, <1>6, <1>7, <1>8, <1>9, <1>10, NextActions

LEMMA BoxAskedStep ==
  ASSUME IInv, BoxAsked, [Next]_vars
  PROVE  BoxAsked'
<1>0. UNCHANGED <<tree, own, prologue>>
  BY FileStays
<1>1. CASE UNCHANGED vars
  BY <1>1 DEF vars, walk, file, BoxAsked
<1>2. CASE FirstKidPage
  BY <1>0, <1>2 DEF FirstKidPage, BoxAsked, Lookup, GiveUp
<1>3. CASE ValidatePage
  BY <1>0, <1>3 DEF ValidatePage, BoxAsked, Lookup
<1>4. CASE LookupStep
  <2>1. /\ climb \in [attribute : Attribute, page : Node, at : Node, passed : Seq(Node),
                      result : {"climbing", "found", "failed", "absent"}]
    BY DEF IInv, TypeOK, LookupTypeOK
  <2>2. /\ climb'.attribute = climb.attribute /\ climb'.page = climb.page
        /\ climb.attribute = "MediaBox" => climb'.result # "absent"
    BY <1>4, <2>1 DEF LookupStep, Climb, Fail, Find, Top, Up, End, Climbing
  <2> QED BY <1>0, <1>4, <2>2 DEF LookupStep, BoxAsked, walk
<1>5. CASE FirstPageInfo \/ SearchRootForever \/ PassKid \/ Descend \/ ValidatePass
             \/ ValidateCut \/ ValidateDescend \/ ValidateLeave
  BY <1>0, <1>5
     DEF FirstPageInfo, SearchRootForever, walk, PassKid, Descend, ValidatePass, ValidateCut, ValidateDescend,
         ValidateLeave, BoxAsked, Walking
<1>6. CASE NoPageHere \/ FirstBox \/ FirstResources \/ FirstRotate
  BY <1>6 DEF NoPageHere, FirstBox, FirstResources, FirstRotate, BoxAsked, GiveUp
<1>7. CASE Validate
  BY <1>0, <1>7 DEF Validate, BoxAsked
<1>8. CASE ValidateBox \/ ValidateResources \/ PagesDone \/ ValidateFontsOf \/ ValidateFonts
             \/ FontsDone
  BY <1>8
     DEF ValidateBox, ValidateResources, PagesDone, ValidateFontsOf, ValidateFonts, FontsDone,
         BoxAsked
<1> QED BY <1>1, <1>2, <1>3, <1>4, <1>5, <1>6, <1>7, <1>8, NextActions

LEMMA InDocumentStep ==
  ASSUME IInv, IInv', AtRest, InDocument, [Next]_vars
  PROVE  InDocument'
<1>1. UNCHANGED <<tree, own, prologue>>
  BY FileStays
<1>2. /\ Document' = Document /\ DocumentPages' = DocumentPages
      /\ \A n : (Pages(n)' <=> Pages(n)) /\ (Page(n)' <=> Page(n))
  BY <1>1, FileFixed
<1>3. /\ Document \subseteq Node /\ Root \in Document
      /\ \A n \in Document : Pages(n) => KidSet(n) \subseteq Document
  BY DocumentFacts
<1>4. stack # <<>> /\ Top1.kids # <<>> =>
        Kid \in Document /\ KidsOn(Advanced) \subseteq Document
  BY AdvancedKids DEF InDocument
<1>5. Pages(Root)'
  BY <1>2 DEF InDocument
<1>6. KidsOn(stack') \subseteq Document
  <2>1. CASE stack' \in {stack, <<>>, Left}
    BY <2>1, EmptyStack, LeftKids DEF InDocument
  <2>2. CASE stack = <<>> /\ stack' = Enter(Root)
    <3>1. Kids(Root) \in Seq(Node) /\ <<>> \in Seq(Frame)
      BY StackSteps, RootAssumption
    <3>2. KidsOn(stack') = KidsOn(<<>>) \union KidSet(Root)
      BY <2>2, <3>1, RootAssumption, PushedKids DEF Enter
    <3> QED BY <1>3, <3>2, EmptyStack DEF InDocument
  <2>3. CASE stack # <<>> /\ Top1.kids # <<>> /\ stack' = Advanced
    BY <1>4, <2>3
  <2>4. CASE /\ stack # <<>> /\ Top1.kids # <<>> /\ Pages(Kid)
             /\ stack' = Append(Advanced, [node |-> Kid, kids |-> Kids(Kid)])
    <3>1. Kid \in Node /\ Kids(Kid) \in Seq(Node) /\ Advanced \in Seq(Frame)
      BY <2>4, StackSteps, AdvancedKids
    <3>2. KidsOn(stack') = KidsOn(Advanced) \union KidSet(Kid)
      BY <2>4, <3>1, PushedKids
    <3> QED BY <1>3, <1>4, <2>4, <3>2
  <2> QED BY <2>1, <2>2, <2>3, <2>4, StackMoves
<1>7. KidsOn(stack)' \subseteq Document
  BY <1>6 DEF KidsOn
<1>8. seen' \subseteq {n \in Document : Pages(n)}
  BY <1>3, <1>4, PageMoves DEF InDocument, Walking
<1>9. checked' \subseteq DocumentPages
  BY PageMoves DEF InDocument
<1>10. pc' # "kids" => page' \in DocumentPages
  BY <1>4, PageMoves DEF InDocument, Walking, DocumentPages
<1> QED BY <1>2, <1>5, <1>7, <1>8, <1>9, <1>10 DEF InDocument

(***************************************************************************)
(* Each node on the stack of a walk of Validate was new when it was        *)
(* entered.  A walk is therefore never deeper than the tree has /Pages.    *)
(***************************************************************************)
NothingCut == Validating => Len(stack) <= Cardinality(seen)

LEMMA NothingCutStep ==
  ASSUME IInv, AtRest, NothingCut, [Next]_vars
  PROVE  NothingCut'
<1>1. Len(stack) \in Nat /\ stack \in Seq(Frame)
  BY StackLength
<1>2. /\ IsFiniteSet(seen) /\ Cardinality(seen) \in Nat
      /\ Cardinality({Root}) = 1
      /\ \A n : n \notin seen => Cardinality(seen \union {n}) = Cardinality(seen) + 1
  <2>1. IsFiniteSet(seen)
    BY NodeAssumption, FS_Subset DEF IInv, TypeOK
  <2> QED BY <2>1, FS_CardinalityType, FS_AddElement, FS_Singleton
<1>3. Len(Enter(Root)) = Len(stack) + 1 /\ Len(<<>>) = 0
  <2>1. Kids(Root) \in Seq(Node)
    BY StackSteps, RootAssumption
  <2> QED BY <1>1, <2>1, RootAssumption, PushedKids, EmptyStack DEF Enter
<1>4. CASE Validate \/ PagesDone
  <2>1. stack = <<>> /\ seen' = {Root} /\ stack' \in {Enter(Root), <<>>}
    BY <1>4 DEF Validate, PagesDone, AtRest
  <2>2. Len(stack) = 0
    BY <2>1
  <2>3. CASE stack' = Enter(Root)
    <3>1. Len(stack') = 1
      BY <1>3, <2>2, <2>3
    <3> QED BY <1>2, <2>1, <3>1 DEF NothingCut
  <2>4. CASE stack' = <<>>
    <3>1. Len(stack') = 0
      BY <2>4
    <3> QED BY <1>2, <2>1, <3>1 DEF NothingCut
  <2> QED BY <2>1, <2>3, <2>4
<1>5. CASE ValidateDescend
  <2>1. /\ stack # <<>> /\ Top1.kids # <<>> /\ Kid \notin seen /\ Validating
        /\ seen' = seen \union {Kid}
        /\ stack' = Append(Advanced, [node |-> Kid, kids |-> Kids(Kid)])
    BY <1>5 DEF ValidateDescend, Walking
  <2>2. Kid \in Node /\ Kids(Kid) \in Seq(Node)
    BY <2>1, StackSteps
  <2>3. Len(stack') = Len(stack) + 1
    BY <2>1, <2>2, AdvancedKids, PushedKids
  <2> QED BY <1>1, <1>2, <2>1, <2>3 DEF NothingCut
<1>6. CASE ValidatePass \/ ValidateCut \/ ValidatePage \/ ValidateFontsOf
  <2>1. stack # <<>> /\ Top1.kids # <<>> /\ Validating /\ seen' = seen /\ stack' = Advanced
    BY <1>6 DEF ValidatePass, ValidateCut, ValidatePage, ValidateFontsOf, Walking, Validating
  <2> QED BY <2>1, AdvancedKids DEF NothingCut
<1>7. CASE ValidateLeave
  <2>1. stack # <<>> /\ Validating /\ seen' = seen /\ stack' = Left
    BY <1>7 DEF ValidateLeave, Walking
  <2>2. Len(stack') = Len(stack) - 1
    BY <2>1, LeftKids
  <2> QED BY <1>1, <1>2, <2>1, <2>2 DEF NothingCut
<1>8. CASE ValidateBox \/ ValidateResources \/ ValidateFonts \/ FontsDone \/ LookupStep
             \/ UNCHANGED vars
  <2>1. UNCHANGED <<stack, seen>> /\ (Validating' => Validating)
    BY <1>8
       DEF ValidateBox, ValidateResources, ValidateFonts, FontsDone, LookupStep, vars, walk,
           Validating
  <2> QED BY <2>1 DEF NothingCut
<1>9. CASE FirstPageInfo \/ SearchRootForever \/ PassKid \/ Descend \/ NoPageHere
             \/ FirstKidPage \/ FirstBox \/ FirstResources \/ FirstRotate
  <2>1. op' \in {"idle", "searching", "firstpage"}
    BY <1>9
       DEF FirstPageInfo, SearchRootForever, PassKid, Descend, NoPageHere, FirstKidPage, FirstBox, FirstResources,
           FirstRotate, GiveUp
  <2> QED BY <2>1 DEF NothingCut, Validating
<1> QED BY <1>4, <1>5, <1>6, <1>7, <1>8, <1>9, NextActions

\* In a tree that is shallow enough no branch is left out.
LEMMA NoBranchIsCut ==
  ASSUME IInv, InDocument, NothingCut, Shallow
  PROVE  ~ValidateCut
<1> SUFFICES ASSUME ValidateCut PROVE FALSE
  OBVIOUS
<1> DEFINE nodes == {n \in Document : Pages(n)}
<1>1. /\ stack # <<>> /\ Top1.kids # <<>> /\ Kid \notin seen /\ Pages(Kid)
      /\ Len(stack) > MaxTreeDepth /\ Validating
  BY DEF ValidateCut, Walking
<1>2. seen \union {Kid} \subseteq nodes
  BY <1>1, AdvancedKids DEF InDocument
<1>3. IsFiniteSet(nodes)
  BY NodeAssumption, DocumentFacts, FS_Subset
<1> HIDE DEF nodes
<1>4. IsFiniteSet(seen) /\ Cardinality(seen \union {Kid}) = Cardinality(seen) + 1
  <2>1. IsFiniteSet(seen)
    BY <1>2, <1>3, FS_Subset
  <2> QED BY <1>1, <2>1, FS_AddElement
<1>5. Cardinality(seen) + 1 <= Cardinality(nodes)
  BY <1>2, <1>3, <1>4, FS_Subset
<1>6. Cardinality(nodes) <= MaxTreeDepth + 1
  BY DEF Shallow, nodes
<1>7. /\ Len(stack) \in Nat /\ Cardinality(seen) \in Nat /\ Cardinality(nodes) \in Nat
      /\ MaxTreeDepth \in Nat
  BY <1>3, <1>4, StackLength, FS_CardinalityType, FilesAssumption
<1>8. Len(stack) <= Cardinality(seen)
  BY <1>1 DEF NothingCut
<1> QED BY <1>1, <1>5, <1>6, <1>7, <1>8

(***************************************************************************)
(* While the level of the pages runs, every kid of a node that was entered *)
(* is dealt with, or still on the stack, or the page under examination.    *)
(***************************************************************************)
Settled(n) == n \in seen \/ n \in checked \/ ~Dictionary(n)

Covered ==
  op = "pages" /\ WalksPages /\ Shallow =>
    /\ Root \in seen
    /\ \A n \in seen : \A m \in KidSet(n) :
         Settled(m) \/ m \in KidsOn(stack) \/ (pc = "box" /\ m = page)

LEMMA CoveredStep ==
  ASSUME IInv, AtRest, InDocument, NothingCut, Covered, [Next]_vars
  PROVE  Covered'
<1> SUFFICES ASSUME op' = "pages", WalksPages', Shallow'
             PROVE  /\ Root \in seen'
                    /\ \A n \in seen' : \A m \in KidSet(n)' :
                         Settled(m)' \/ m \in KidsOn(stack') \/ (pc' = "box" /\ m = page')
  BY DEF Covered, KidsOn
<1>1. UNCHANGED <<tree, own, prologue>>
  BY FileStays
<1>2. /\ Shallow /\ WalksPages
      /\ \A n : Dictionary(n)' <=> Dictionary(n)
      /\ \A n : Kids(n)' = Kids(n)
  BY <1>1, FileFixed DEF WalksPages, ToRoot
<1>3. /\ \A n : KidSet(n)' = KidSet(n)
      /\ \A n : Settled(n)' <=> n \in seen' \/ n \in checked' \/ ~Dictionary(n)
  BY <1>2 DEF KidSet, Settled
<1>4. CASE Validate
  <2>1. stack = <<>> /\ stack' = Enter(Root) /\ seen' = {Root}
    BY <1>2, <1>4 DEF Validate, AtRest
  <2>2. KidsOn(stack') = KidsOn(<<>>) \union KidSet(Root)
    <3>1. Kids(Root) \in Seq(Node) /\ <<>> \in Seq(Frame)
      BY StackSteps, RootAssumption
    <3> QED BY <2>1, <3>1, RootAssumption, PushedKids DEF Enter
  <2> QED BY <1>3, <2>1, <2>2
<1>5. ASSUME op = "pages"
      PROVE  /\ Root \in seen
             /\ \A n \in seen : \A m \in KidSet(n) :
                  Settled(m) \/ m \in KidsOn(stack) \/ (pc = "box" /\ m = page)
  BY <1>2, <1>5 DEF Covered
<1>6. CASE ValidatePass \/ ValidatePage
  <2>1. /\ op = "pages" /\ pc = "kids" /\ stack # <<>> /\ Top1.kids # <<>>
        /\ stack' = Advanced /\ seen' = seen /\ checked' = checked
    BY <1>6 DEF ValidatePass, ValidatePage, Walking, results
  <2>2. KidsOn(stack) \subseteq KidsOn(stack') \union {Kid}
    BY <2>1, AdvancedKids
  <2>3. Kid \in seen \/ ~Dictionary(Kid) \/ (pc' = "box" /\ page' = Kid)
    BY <1>6 DEF ValidatePass, ValidatePage
  <2> QED BY <1>3, <1>5, <2>1, <2>2, <2>3 DEF Settled
<1>7. CASE ValidateCut
  BY <1>2, <1>7, NoBranchIsCut
<1>8. CASE ValidateDescend
  <2>1. /\ op = "pages" /\ pc = "kids" /\ stack # <<>> /\ Top1.kids # <<>>
        /\ seen' = seen \union {Kid} /\ checked' = checked
        /\ stack' = Append(Advanced, [node |-> Kid, kids |-> Kids(Kid)])
    BY <1>8 DEF ValidateDescend, Walking, results
  <2>2. Kid \in Node /\ Kids(Kid) \in Seq(Node) /\ Advanced \in Seq(Frame)
    BY <2>1, StackSteps, AdvancedKids
  <2>3. KidsOn(stack') = KidsOn(Advanced) \union KidSet(Kid)
    BY <2>1, <2>2, PushedKids
  <2>4. KidsOn(stack) \subseteq KidsOn(Advanced) \union {Kid}
    BY <2>1, AdvancedKids
  <2> QED BY <1>3, <1>5, <2>1, <2>3, <2>4 DEF Settled
<1>9. CASE ValidateLeave
  <2>1. /\ op = "pages" /\ pc' = pc /\ page' = page /\ stack # <<>> /\ Top1.kids = <<>>
        /\ stack' = Left /\ seen' = seen /\ checked' = checked
    BY <1>9 DEF ValidateLeave, Walking, results
  <2>2. KidsOn(stack') = KidsOn(stack)
    BY <2>1, LeftKids
  <2> QED BY <1>3, <1>5, <2>1, <2>2 DEF Settled
<1>10. CASE ValidateBox
  <2>1. /\ op = "pages" /\ stack' = stack /\ seen' = seen /\ page' = page
        /\ checked' = checked \union {page}
    BY <1>10 DEF ValidateBox, walk
  <2> QED BY <1>3, <1>5, <2>1 DEF Settled
<1>11. CASE ValidateResources
  <2>1. /\ op = "pages" /\ pc = "resources" /\ stack' = stack /\ seen' = seen
        /\ checked' = checked
    BY <1>11 DEF ValidateResources, walk, results
  <2> QED BY <1>3, <1>5, <2>1 DEF Settled
<1>12. CASE LookupStep \/ UNCHANGED vars
  <2>1. /\ op = "pages" /\ pc' = pc /\ stack' = stack /\ seen' = seen /\ page' = page
        /\ checked' = checked
    BY <1>12 DEF LookupStep, vars, walk, results
  <2> QED BY <1>3, <1>5, <2>1 DEF Settled
<1>13. CASE PagesDone \/ ValidateFontsOf \/ ValidateFonts \/ FontsDone
  BY <1>13 DEF PagesDone, ValidateFontsOf, ValidateFonts, FontsDone
<1>14. CASE FirstPageInfo \/ SearchRootForever \/ PassKid \/ Descend \/ NoPageHere
             \/ FirstKidPage \/ FirstBox \/ FirstResources \/ FirstRotate
  <2>1. op' \in {"idle", "searching", "firstpage"}
    BY <1>14
       DEF FirstPageInfo, SearchRootForever, PassKid, Descend, NoPageHere, FirstKidPage, FirstBox, FirstResources,
           FirstRotate, GiveUp
  <2> QED BY <2>1
<1> QED
  BY <1>4, <1>6, <1>7, <1>8, <1>9, <1>10, <1>11, <1>12, <1>13, <1>14, NextActions

\* A walk that has come to its end has been everywhere.
LEMMA WalkComplete ==
  ASSUME IInv, InDocument, Covered, op = "pages", WalksPages, Shallow,
         pc = "kids", stack = <<>>
  PROVE  checked = DocumentPages
<1> DEFINE S == {n \in Node : Settled(n)}
<1>1. Root \in seen /\ \A n \in seen : \A m \in KidSet(n) : Settled(m)
  <2>1. KidsOn(stack) = {}
    BY EmptyStack
  <2> QED BY <2>1 DEF Covered
<1>2. \A n \in checked : Page(n)
  BY DEF InDocument, DocumentPages
<1>3. Closed(S)
  <2> SUFFICES ASSUME NEW n \in S, Pages(n), NEW i \in 1..Len(Kids(n))
               PROVE  Kids(n)[i] \in S
    BY DEF Closed
  <2>1. n \in seen
    BY <1>2 DEF Settled, Pages, Page, Dictionary
  <2>2. Kids(n)[i] \in Node
    <3>1. Kids(n) \in Seq(Node)
      BY StackSteps
    <3> QED BY <3>1
  <2>3. Kids(n)[i] \in KidSet(n)
    BY <2>2 DEF KidSet
  <2> QED BY <1>1, <2>1, <2>2, <2>3
<1>4. Document \subseteq S
  <2>1. Root \in S
    BY <1>1, RootAssumption DEF Settled
  <2>2. S \in SUBSET Node
    OBVIOUS
  <2> HIDE DEF S
  <2> QED BY <1>3, <2>1, <2>2, DocumentFacts
<1>5. ASSUME NEW n \in DocumentPages PROVE n \in checked
  <2>1. n \in Document /\ Page(n)
    BY DEF DocumentPages
  <2>2. n \notin seen /\ Dictionary(n)
    BY <2>1 DEF InDocument, Pages, Page, Dictionary
  <2> QED BY <1>4, <2>1, <2>2 DEF Settled
<1> QED BY <1>5 DEF InDocument

\* A page with a /MediaBox of its own inherits that one.
LEMMA OwnBoxInherits ==
  ASSUME NEW n \in Node, Dictionary(n), own[n].box
  PROVE  Inherits("MediaBox", n)
<1> DEFINE line == [i \in 1..1 |-> n]
<1>1. /\ line \in [1..1 -> Node] /\ Len(line) = 1 /\ line[1] = n
      /\ \A i \in 1..1 : line[i] = n
  OBVIOUS
<1>2. 1 \in 1..MaxLookup+1
  BY LookupAssumption
<1> HIDE DEF line
<1>3. line \in Lines("MediaBox", n)
  BY <1>1, <1>2 DEF Lines
<1> QED BY <1>1, <1>3, InheritsByLine DEF Has

\* When the /MediaBox of a page is judged, it is judged rightly.
LEMMA HasBoxInherits ==
  ASSUME IInv, InDocument, LookupTrue, BoxAsked, pc = "box", ~Climbing
  PROVE  /\ page \in DocumentPages
         /\ HasBox <=> Inherits("MediaBox", page)
<1>1. page \in DocumentPages /\ page \in Node /\ Dictionary(page)
  BY DocumentFacts DEF InDocument, DocumentPages, Page, Dictionary
<1>2. CASE own[page].box
  BY <1>1, <1>2, OwnBoxInherits DEF HasBox
<1>3. CASE ~own[page].box
  <2>1. climb.result \in {"climbing", "found", "failed", "absent"}
    BY DEF IInv, TypeOK, LookupTypeOK
  <2>2. /\ climb.attribute = "MediaBox" /\ climb.page = page
        /\ climb.result \in {"found", "failed"}
    BY <1>3, <2>1 DEF BoxAsked, Climbing
  <2>3. climb.result = "found" <=> Inherits("MediaBox", page)
    BY <2>2 DEF LookupTrue
  <2> QED BY <1>1, <1>3, <2>2, <2>3 DEF HasBox
<1> QED BY <1>2, <1>3

\* The pages that Validate complains of are those without a /MediaBox.
BoxesTold == report.boxless = {n \in checked : ~Inherits("MediaBox", n)}

ReportType ==
  [done : BOOLEAN, valid : BOOLEAN, boxless : SUBSET Node, badFonts : SUBSET Node,
   errors : SUBSET {"header", "xref", "trailer", "catalog", "pages", "fonts"}]

\* What a step does to the report.
LEMMA ReportMoves ==
  ASSUME IInv, [Next]_vars
  PROVE  \/ report' = report /\ checked' = checked /\ (op' = op \/ ~Validating')
         \/ Validate \/ ValidateBox \/ PagesDone \/ ValidateFonts \/ FontsDone
<1>1. CASE UNCHANGED vars
  BY <1>1 DEF vars, results
<1>2. CASE Next
  BY <1>2, NextActions
     DEF FirstPageInfo, SearchRootForever, PassKid, Descend, NoPageHere, FirstKidPage, FirstBox,
         FirstResources, FirstRotate, ValidatePass, ValidateCut, ValidateDescend, ValidateLeave,
         ValidatePage, ValidateResources, ValidateFontsOf, LookupStep, results, GiveUp, Validating
<1> QED BY <1>1, <1>2

LEMMA BoxesToldStep ==
  ASSUME IInv, InDocument, LookupTrue, BoxAsked, BoxesTold, [Next]_vars
  PROVE  BoxesTold'
<1>1. \A n : Inherits("MediaBox", n)' <=> Inherits("MediaBox", n)
  BY FileStays, FileFixed
<1>2. report \in ReportType
  BY DEF IInv, TypeOK, ReportType
<1>3. CASE report'.boxless = report.boxless /\ checked' = checked
  BY <1>1, <1>3 DEF BoxesTold
<1>4. CASE Validate \/ PagesDone
  <2>1. checked' = checked /\ \E errors : report' = Flag(errors)
    BY <1>4 DEF Validate, PagesDone
  <2>2. report'.boxless = report.boxless
    BY <1>2, <2>1 DEF Flag, ReportType
  <2> QED BY <1>3, <2>1, <2>2
<1>5. CASE ValidateFonts \/ FontsDone
  <2>1. report'.boxless = report.boxless /\ checked' = checked
    BY <1>2, <1>5 DEF ValidateFonts, FontsDone, ReportType
  <2> QED BY <1>3, <2>1
<1>6. CASE ValidateBox
  <2>1. HasBox <=> Inherits("MediaBox", page)
    BY <1>6, HasBoxInherits DEF ValidateBox
  <2>2. checked' = checked \union {page}
    BY <1>6 DEF ValidateBox
  <2>3. report'.boxless = IF HasBox THEN report.boxless ELSE report.boxless \union {page}
    BY <1>2, <1>6 DEF ValidateBox, ReportType
  <2> QED BY <1>1, <2>1, <2>2, <2>3 DEF BoxesTold
<1> QED BY <1>3, <1>4, <1>5, <1>6, ReportMoves

\* A report without errors has none of the levels' and none of a page.
ValidTrue ==
  /\ report.done => ~Validating
  /\ report.valid => report.boxless = {}
  /\ report.valid /\ (Validating \/ report.done) => CatalogErrors = {} /\ PagesErrors = {}

LEMMA ValidTrueStep ==
  ASSUME IInv, AtRest, ValidTrue, [Next]_vars
  PROVE  ValidTrue'
<1>1. CatalogErrors' = CatalogErrors /\ PagesErrors' = PagesErrors
  BY FileStays DEF CatalogErrors, PagesErrors, ToRoot
<1>2. report \in ReportType
  BY DEF IInv, TypeOK, ReportType
<1>3. CASE report' = report /\ (op' = op \/ ~Validating')
  BY <1>1, <1>3 DEF ValidTrue, Validating
<1>4. CASE Validate
  <2> DEFINE errors == HeaderErrors \union XRefErrors \union TrailerErrors
                         \union CatalogErrors \union PagesErrors
  <2>1. report' = Flag(errors) /\ ~report.done
    BY <1>4 DEF Validate
  <2>2. errors = {} => CatalogErrors = {} /\ PagesErrors = {}
    OBVIOUS
  <2> HIDE DEF errors
  <2>3. /\ report'.done = report.done /\ report'.boxless = report.boxless
        /\ report'.valid <=> report.valid /\ errors = {}
    BY <1>2, <2>1 DEF Flag, ReportType
  <2> QED BY <1>1, <2>1, <2>2, <2>3 DEF ValidTrue
<1>5. CASE PagesDone
  <2>1. report' = Flag(FontsErrors) /\ Validating
    BY <1>5 DEF PagesDone, Validating
  <2>2. /\ report'.done = report.done /\ report'.boxless = report.boxless
        /\ report'.valid => report.valid
    BY <1>2, <2>1 DEF Flag, ReportType
  <2> QED BY <1>1, <2>1, <2>2 DEF ValidTrue
<1>6. CASE ValidateBox
  <2>1. Validating /\ report'.done = report.done
    BY <1>2, <1>6 DEF ValidateBox, Validating, ReportType
  <2>2. report'.valid => report.valid /\ report'.boxless = report.boxless
    BY <1>2, <1>6 DEF ValidateBox, ReportType
  <2> QED BY <1>1, <2>1, <2>2 DEF ValidTrue
<1>7. CASE ValidateFonts
  <2>1. /\ Validating /\ report'.done = report.done /\ report'.boxless = report.boxless
        /\ report'.valid = report.valid
    BY <1>2, <1>7 DEF ValidateFonts, Validating, ReportType
  <2> QED BY <1>1, <2>1 DEF ValidTrue
<1>8. CASE FontsDone
  <2>1. /\ Validating /\ ~Validating' /\ report'.boxless = report.boxless
        /\ report'.valid = report.valid
    BY <1>2, <1>8 DEF FontsDone, Validating, ReportType
  <2> QED BY <1>1, <2>1 DEF ValidTrue
<1> QED BY <1>3, <1>4, <1>5, <1>6, <1>7, <1>8, ReportMoves

LEMMA EveryPageCheckedStep ==
  ASSUME IInv, AtRest, InDocument, NothingCut, Covered, ValidTrue, EveryPageChecked, [Next]_vars
  PROVE  EveryPageChecked'
<1>1. /\ DocumentPages' = DocumentPages /\ (Shallow' <=> Shallow) /\ (WalksPages' <=> WalksPages)
  BY FileStays, FileFixed DEF WalksPages, ToRoot
<1>2. report \in ReportType
  BY DEF IInv, TypeOK, ReportType
<1>3. CASE report' = report /\ checked' = checked /\ (op' = op \/ ~Validating')
  BY <1>1, <1>3 DEF EveryPageChecked, Validating
<1>4. CASE Validate
  <2>1. report'.done = report.done /\ ~report.done /\ op' = "pages"
    BY <1>2, <1>4 DEF Validate, Flag, ReportType
  <2> QED BY <2>1 DEF EveryPageChecked
<1>5. CASE ValidateBox
  <2>1. report'.done = report.done /\ ~report.done /\ op' = "pages"
    BY <1>2, <1>5 DEF ValidateBox, ValidTrue, Validating, ReportType
  <2> QED BY <2>1 DEF EveryPageChecked
<1>6. CASE PagesDone
  <2>1. op = "pages" /\ pc = "kids" /\ stack = <<>> /\ checked' = checked
    BY <1>6 DEF PagesDone
  <2> QED BY <1>1, <2>1, WalkComplete DEF EveryPageChecked
<1>7. CASE ValidateFonts \/ FontsDone
  <2>1. op = "fonts" /\ checked' = checked
    BY <1>7 DEF ValidateFonts, FontsDone
  <2> QED BY <1>1, <2>1 DEF EveryPageChecked
<1> QED BY <1>3, <1>4, <1>5, <1>6, <1>7, ReportMoves

\* What FirstPageInfo says that the file has not, the file has not.
FirstTrue ==
  /\ op = "firstpage" => ToPages /\ prologue.pages = "good"
  /\ first.why = "structure" => ~(ToPages /\ prologue.pages = "good" /\ Kids(Root) # <<>>)
  /\ first.why = "MediaBox" =>
       /\ ToPages /\ prologue.pages = "good"
       /\ \E n \in DocumentPages : ~Inherits("MediaBox", n)

LEMMA FirstTrueStep ==
  ASSUME IInv, InDocument, LookupTrue, BoxAsked, FirstTrue, [Next]_vars
  PROVE  FirstTrue'
<1>1. /\ UNCHANGED prologue /\ (ToPages' <=> ToPages) /\ Kids(Root)' = Kids(Root)
      /\ DocumentPages' = DocumentPages
      /\ \A n : Inherits("MediaBox", n)' <=> Inherits("MediaBox", n)
  BY FileStays, FileFixed DEF ToPages, ToRoot
<1>2. CASE first' = first /\ (op' = op \/ op' # "firstpage")
  BY <1>1, <1>2 DEF FirstTrue
<1>3. CASE FirstPageInfo
  <2>1. \/ op' = "firstpage" /\ first' = first /\ ToPages /\ prologue.pages = "good"
        \/ /\ op' = "idle" /\ first' = [NoFirst EXCEPT !.done = TRUE, !.why = "structure"]
           /\ ~(ToPages /\ prologue.pages = "good" /\ Kids(Root) # <<>>)
    BY <1>3 DEF FirstPageInfo
  <2>2. CASE first' = first /\ ToPages /\ prologue.pages = "good"
    BY <1>1, <2>2 DEF FirstTrue
  <2>3. CASE /\ op' = "idle" /\ first'.why = "structure"
             /\ ~(ToPages /\ prologue.pages = "good" /\ Kids(Root) # <<>>)
    BY <1>1, <2>3 DEF FirstTrue
  <2> QED BY <2>1, <2>2, <2>3 DEF NoFirst
<1>4. ASSUME op = "firstpage", NEW why, GiveUp(why), why # "structure",
             why = "MediaBox" => \E n \in DocumentPages : ~Inherits("MediaBox", n)
      PROVE  FirstTrue'
  <2>1. \/ op' = op /\ first' = first
        \/ op' = "idle" /\ first' = [NoFirst EXCEPT !.done = TRUE, !.why = why]
    BY <1>4 DEF GiveUp
  <2> QED BY <1>1, <1>4, <2>1 DEF FirstTrue, NoFirst
<1>5. CASE NoPageHere
  BY <1>4, <1>5 DEF NoPageHere
<1>6. CASE FirstKidPage
  BY <1>2, <1>4, <1>6 DEF FirstKidPage
<1>7. CASE FirstBox
  <2>1. ~HasBox => \E n \in DocumentPages : ~Inherits("MediaBox", n)
    BY <1>7, HasBoxInherits DEF FirstBox
  <2> QED BY <1>2, <1>4, <1>7, <2>1 DEF FirstBox
<1>8. CASE FirstResources
  BY <1>2, <1>4, <1>8 DEF FirstResources
<1>9. CASE FirstRotate
  <2>1. CASE climb.result = "failed"
    BY <1>4, <1>9, <2>1 DEF FirstRotate
  <2>2. CASE climb.result # "failed"
    <3>1. op' = "idle" /\ first' = [done |-> TRUE, ok |-> TRUE, page |-> page, why |-> "none"]
      BY <1>9, <2>2 DEF FirstRotate
    <3> QED BY <3>1 DEF FirstTrue
  <2> QED BY <2>1, <2>2
<1>10. CASE SearchRootForever \/ PassKid \/ Descend \/ Validate \/ ValidatePass \/ ValidateCut
              \/ ValidateDescend \/ ValidateLeave \/ ValidatePage \/ ValidateBox \/ ValidateResources \/ PagesDone
              \/ ValidateFontsOf \/ ValidateFonts \/ FontsDone \/ LookupStep \/ UNCHANGED vars
  <2>1. first' = first /\ (op' = op \/ op' # "firstpage")
    BY <1>10
       DEF SearchRootForever, PassKid, Descend, Validate, ValidatePass, ValidateCut, ValidateDescend, ValidateLeave,
           ValidatePage, ValidateBox, ValidateResources, PagesDone, ValidateFontsOf,
           ValidateFonts, FontsDone, LookupStep, vars, results
  <2> QED BY <1>2, <2>1
<1> QED
  BY <1>3, <1>5, <1>6, <1>7, <1>8, <1>9, <1>10, NextActions


LEMMA LookupTrueStep ==
  ASSUME IInv, LookupTrue, [Next]_vars
  PROVE  LookupTrue'
<1>1. UNCHANGED <<tree, own>>
  BY FileStays
<1>2. CASE climb' = climb
  BY <1>1, <1>2, LookupTrueStays
<1>3. CASE \E attribute, n : Lookup(attribute, n)
  BY <1>3, LookupTrueStarts
<1>4. CASE LookupStep
  BY <1>1, <1>4, LookupTrueClimbs DEF LookupStep
<1>5. CASE FirstKidPage \/ FirstBox \/ FirstResources
  BY <1>2, <1>3, <1>5 DEF FirstKidPage, FirstBox, FirstResources
<1>6. CASE ValidatePage \/ ValidateBox \/ ValidateFontsOf
  BY <1>2, <1>3, <1>6 DEF ValidatePage, ValidateBox, ValidateFontsOf
<1>7. CASE UNCHANGED vars \/ FirstPageInfo \/ SearchRootForever \/ PassKid \/ Descend \/ NoPageHere \/ FirstRotate
             \/ Validate \/ ValidatePass \/ ValidateCut \/ ValidateDescend \/ ValidateLeave
             \/ ValidateResources \/ PagesDone \/ ValidateFonts \/ FontsDone
  <2>1. climb' = climb
    BY <1>7
       DEF vars, FirstPageInfo, SearchRootForever, PassKid, Descend, NoPageHere, FirstRotate,
           Validate, ValidatePass, ValidateCut, ValidateDescend, ValidateLeave, ValidateResources, PagesDone,
           ValidateFonts, FontsDone
  <2> QED BY <1>2, <2>1
<1> QED
  BY <1>4, <1>5, <1>6, <1>7, NextActions

-----------------------------------------------------------------------------
(* Where FirstPageInfo looks for the first page.                           *)

(***************************************************************************)
(* The stack is a way down from the root: of each node the kids that are   *)
(* gone have no page under them, but the last one when the walk is in it.  *)
(***************************************************************************)
Gone(f) == Len(Kids(f.node)) - Len(f.kids)

FrameTrue(f) ==
  /\ Pages(f.node)
  /\ Gone(f) \in Nat
  /\ \A j \in 1..Len(f.kids) : f.kids[j] = Kids(f.node)[Gone(f) + j]

OnPath(s) ==
  /\ Len(s) # 0
  /\ s[1].node = Root
  /\ \A l \in 1..Len(s) : FrameTrue(s[l])
  /\ BarrenUpTo(s[Len(s)].node, Gone(s[Len(s)]))
  /\ \A l \in 1..Len(s)-1 : LeadsOn(s[l].node, Gone(s[l]), s[l+1].node)

LEMMA FrameFacts ==
  ASSUME TreeTyped, NEW s \in Seq(Frame), NEW l \in 1..Len(s)
  PROVE  /\ s[l].node \in Node /\ s[l].kids \in Seq(Node) /\ Len(s[l].kids) \in Nat
         /\ Kids(s[l].node) \in Seq(Node) /\ Len(Kids(s[l].node)) \in Nat
         /\ Len(s) \in Nat
<1>1. s[l] \in Frame /\ Len(s) \in Nat
  <2> HIDE DEF Frame
  <2> QED OBVIOUS
<1>2. s[l].node \in Node /\ s[l].kids \in Seq(Node)
  BY <1>1 DEF Frame
<1>3. Kids(s[l].node) \in Seq(Node)
  BY <1>2 DEF TreeTyped, Kids, NodeObject
<1> QED BY <1>1, <1>2, <1>3

LEMMA NewFrame ==
  ASSUME TreeTyped, NEW n \in Node, Pages(n)
  PROVE  LET f == [node |-> n, kids |-> Kids(n)]
         IN  f \in Frame /\ FrameTrue(f) /\ Gone(f) = 0 /\ f.node = n /\ BarrenUpTo(n, 0)
<1> DEFINE f == [node |-> n, kids |-> Kids(n)]
<1>1. Kids(n) \in Seq(Node) /\ Len(Kids(n)) \in Nat
  BY DEF TreeTyped, Kids, NodeObject
<1>2. f \in Frame /\ f.node = n /\ f.kids = Kids(n)
  BY <1>1 DEF Frame
<1> HIDE DEF f
<1>3. Gone(f) = 0
  BY <1>1, <1>2 DEF Gone
<1>4. \A j \in 1..Len(Kids(n)) : 0 + j = j
  OBVIOUS
<1>5. FrameTrue(f)
  BY <1>2, <1>3, <1>4 DEF FrameTrue
<1>6. BarrenUpTo(n, 0)
  BY DEF BarrenUpTo
<1> QED BY <1>2, <1>3, <1>5, <1>6 DEF f

LEMMA PathBegins ==
  ASSUME TreeTyped, Pages(Root)
  PROVE  OnPath(<<[node |-> Root, kids |-> Kids(Root)]>>)
<1> DEFINE f == [node |-> Root, kids |-> Kids(Root)]
           s == <<f>>
<1>1. FrameTrue(f) /\ Gone(f) = 0 /\ f.node = Root /\ BarrenUpTo(Root, 0)
  BY RootAssumption, NewFrame
<1> HIDE DEF f
<1>2. Len(s) = 1 /\ s[1] = f
  OBVIOUS
<1> HIDE DEF s
<1> QED BY <1>1, <1>2 DEF OnPath, s, f

LEMMA KidsGoOn ==
  ASSUME NEW kids \in Seq(Node), kids # <<>>
  PROVE  /\ Len(kids) \in Nat \ {0} /\ Head(kids) = kids[1] /\ kids[1] \in Node
         /\ Tail(kids) \in Seq(Node) /\ Len(Tail(kids)) = Len(kids) - 1
         /\ \A j \in 1..Len(Tail(kids)) : Tail(kids)[j] = kids[j+1]
<1>1. Len(kids) \in Nat \ {0}
  BY EmptySeq
<1>2. Head(kids) = kids[1] /\ kids[1] \in Node
  BY <1>1
<1> QED BY <1>1, <1>2, HeadTailProperties

\* The kid that is taken is where the way goes on.
LEMMA KidTaken ==
  ASSUME TreeTyped, NEW s \in Seq(Frame), OnPath(s), s[Len(s)].kids # <<>>,
         NEW kids, kids = Tail(s[Len(s)].kids)
  PROVE  LET top == s[Len(s)]
             next == [node |-> top.node, kids |-> kids]
         IN  FrameTrue(next) /\ next \in Frame /\ LeadsOn(top.node, Gone(next), Head(top.kids))
             /\ Head(top.kids) \in Node /\ Len(s) \in 1..Len(s) /\ Len(s) \in Nat
<1> DEFINE top == s[Len(s)]
           next == [node |-> top.node, kids |-> kids]
           g == Gone(top)
<1>1. Len(s) \in 1..Len(s)
  BY DEF OnPath
<1>2. /\ top.node \in Node /\ top.kids \in Seq(Node)
      /\ Len(Kids(top.node)) \in Nat /\ Len(s) \in Nat
  BY <1>1, FrameFacts
<1>3. FrameTrue(top) /\ BarrenUpTo(top.node, g)
  BY <1>1 DEF OnPath
<1> HIDE DEF top
<1>4. /\ Len(top.kids) \in Nat \ {0} /\ Head(top.kids) = top.kids[1] /\ top.kids[1] \in Node
      /\ kids \in Seq(Node) /\ Len(kids) = Len(top.kids) - 1
      /\ \A j \in 1..Len(kids) : kids[j] = top.kids[j+1]
  <2>1. top.kids # <<>> /\ kids = Tail(top.kids)
    BY DEF top
  <2> QED BY <1>2, <2>1, KidsGoOn
<1>5. next.node = top.node /\ next.kids = kids /\ next \in Frame
  BY <1>2, <1>4 DEF Frame
<1> HIDE DEF next
<1>6. g \in Nat /\ g = Len(Kids(top.node)) - Len(top.kids) /\ Gone(next) = g + 1
  <2>1. g \in Nat /\ g = Len(Kids(top.node)) - Len(top.kids)
    BY <1>3 DEF FrameTrue, Gone
  <2>2. Gone(next) = Len(Kids(top.node)) - Len(kids)
    BY <1>5 DEF Gone
  <2> HIDE DEF g
  <2> QED BY <1>2, <1>4, <2>1, <2>2
<1> HIDE DEF g
<1>7. \A j \in 1..Len(top.kids) : top.kids[j] = Kids(top.node)[g + j]
  BY <1>3 DEF FrameTrue, g
<1>8. FrameTrue(next)
  <2>1. ASSUME NEW j \in 1..Len(kids) PROVE kids[j] = Kids(top.node)[g + 1 + j]
    <3>1. j+1 \in 1..Len(top.kids) /\ g + (j+1) = g + 1 + j
      BY <1>4, <1>6
    <3> QED BY <1>4, <1>7, <3>1
  <2>2. Pages(next.node) /\ Gone(next) \in Nat
    BY <1>3, <1>5, <1>6 DEF FrameTrue
  <2> QED BY <1>5, <1>6, <2>1, <2>2 DEF FrameTrue
<1>9. LeadsOn(top.node, g + 1, Head(top.kids))
  <2> DEFINE c == g + 1
  <2>1. c \in 1..Len(Kids(top.node)) /\ 1 \in 1..Len(top.kids) /\ c - 1 = g
    BY <1>2, <1>4, <1>6
  <2>2. Kids(top.node)[c] = Head(top.kids)
    BY <1>4, <1>7, <2>1
  <2> HIDE DEF c
  <2>3. BarrenUpTo(top.node, c - 1)
    BY <1>3, <2>1 DEF g
  <2>4. LeadsOn(top.node, c, Head(top.kids))
    BY <2>1, <2>2, <2>3 DEF LeadsOn
  <2> QED BY <2>4 DEF c
<1> QED BY <1>1, <1>2, <1>4, <1>5, <1>6, <1>8, <1>9 DEF top, next

\* The way without its last node's first kid, or on into that kid.
LEMMA PathGoesOn ==
  ASSUME TreeTyped, NEW s \in Seq(Frame), OnPath(s), s[Len(s)].kids # <<>>,
         NEW next \in Seq(Frame), Len(next) = Len(s),
         \A l \in 1..Len(s)-1 : next[l] = s[l],
         next[Len(s)] = [node |-> s[Len(s)].node, kids |-> Tail(s[Len(s)].kids)]
  PROVE  LET kid == Head(s[Len(s)].kids)
         IN  /\ Barren(kid) => OnPath(next)
             /\ Pages(kid) => OnPath(Append(next, [node |-> kid, kids |-> Kids(kid)]))
<1> DEFINE L == Len(s)
           kid == Head(s[L].kids)
           f == [node |-> kid, kids |-> Kids(kid)]
           more == Append(next, f)
<1>1. /\ FrameTrue(next[L]) /\ LeadsOn(next[L].node, Gone(next[L]), kid)
      /\ kid \in Node /\ L \in 1..L /\ L \in Nat /\ next[L].node = s[L].node
  BY KidTaken
<1>2. \A l \in 1..L : next[l].node = s[l].node /\ FrameTrue(next[l])
  <2>1. \A l \in 1..L : l = L \/ l \in 1..L-1
    BY <1>1
  <2> QED BY <1>1, <2>1 DEF OnPath
<1>3. \A l \in 1..L-1 : LeadsOn(next[l].node, Gone(next[l]), next[l+1].node)
  <2>1. \A l \in 1..L-1 : l \in 1..L /\ l+1 \in 1..L
    BY <1>1
  <2> QED BY <1>2, <2>1 DEF OnPath
<1>4. next[1].node = Root
  BY <1>1, <1>2 DEF OnPath
<1> HIDE DEF L, kid
<1>5. ASSUME Barren(kid) PROVE OnPath(next)
  <2> DEFINE g == Gone(next[L])
  <2>1. g \in Nat \ {0} /\ Kids(next[L].node)[g] = kid /\ BarrenUpTo(next[L].node, g-1)
    BY <1>1 DEF LeadsOn
  <2> HIDE DEF g
  <2>2. \A h \in 1..g : h = g \/ h \in 1..g-1
    BY <2>1
  <2>3. BarrenUpTo(next[L].node, g)
    BY <1>5, <2>1, <2>2 DEF BarrenUpTo
  <2> QED BY <1>1, <1>2, <1>3, <1>4, <2>3 DEF OnPath, L, g
<1>6. ASSUME Pages(kid) PROVE OnPath(more)
  <2>1. f \in Frame /\ FrameTrue(f) /\ Gone(f) = 0 /\ f.node = kid /\ BarrenUpTo(kid, 0)
    BY <1>1, <1>6, NewFrame
  <2> HIDE DEF f
  <2>2. /\ Len(more) = L + 1 /\ more[L+1] = f
        /\ \A l \in 1..L : more[l] = next[l]
    <3> HIDE DEF Frame
    <3> QED BY <1>1, <2>1, AppendProperties DEF L
  <2> HIDE DEF more
  <2>3. \A l \in 1..L+1 : l \in 1..L \/ l = L+1
    BY <1>1
  <2>4. \A l \in 1..Len(more) : FrameTrue(more[l])
    BY <1>2, <2>1, <2>2, <2>3
  <2>5. ASSUME NEW l \in 1..Len(more)-1
        PROVE  LeadsOn(more[l].node, Gone(more[l]), more[l+1].node)
    <3>1. l \in 1..L /\ more[l] = next[l] /\ (l = L \/ (l \in 1..L-1 /\ l+1 \in 1..L))
      BY <1>1, <2>2
    <3> QED BY <1>1, <1>3, <2>1, <2>2, <3>1
  <2>6. Len(more) # 0 /\ more[1].node = Root /\ BarrenUpTo(more[Len(more)].node, Gone(more[Len(more)]))
    BY <1>1, <1>4, <2>1, <2>2
  <2> QED BY <2>4, <2>5, <2>6 DEF OnPath
<1> QED BY <1>5, <1>6 DEF L, kid

\* A node that has no kid left has no page under it.
LEMMA PathGoesBack ==
  ASSUME TreeTyped, NEW s \in Seq(Frame), OnPath(s), s[Len(s)].kids = <<>>,
         NEW below \in Seq(Frame), Len(below) = Len(s) - 1, \A l \in 1..Len(below) : below[l] = s[l]
  PROVE  IF Len(s) = 1 THEN Barren(Root) ELSE OnPath(below)
<1> DEFINE L == Len(s)
           top == s[L]
<1>1. L \in 1..L
  BY DEF OnPath
<1>2. /\ top.node \in Node /\ Len(Kids(top.node)) \in Nat /\ L \in Nat
  BY <1>1, FrameFacts
<1>3. Barren(top.node)
  <2>1. Pages(top.node) /\ BarrenUpTo(top.node, Gone(top))
    BY <1>1 DEF OnPath, FrameTrue
  <2>2. Gone(top) = Len(Kids(top.node))
    <3>1. Len(top.kids) = 0
      OBVIOUS
    <3> HIDE DEF top
    <3> QED BY <1>2, <3>1 DEF Gone
  <2> HIDE DEF top
  <2> QED BY <1>2, <2>1, <2>2, BarrenNode DEF BarrenUpTo, Pages, Page
<1>4. CASE L = 1
  BY <1>3, <1>4 DEF OnPath
<1>5. CASE L # 1
  <2> DEFINE M == L - 1
  <2>1. M \in 1..Len(below) /\ M \in 1..L /\ M + 1 = L /\ Len(below) = M /\ M \in Nat \ {0}
    BY <1>1, <1>2, <1>5
  <2>2. below[M] = s[M] /\ LeadsOn(s[M].node, Gone(s[M]), top.node)
    BY <2>1 DEF OnPath
  <2> HIDE DEF M, L, top
  <2> DEFINE g == Gone(below[M])
  <2>3. g \in Nat \ {0} /\ Kids(below[M].node)[g] = top.node /\ BarrenUpTo(below[M].node, g-1)
    BY <2>2 DEF LeadsOn
  <2> HIDE DEF g
  <2>4. \A h \in 1..g : h = g \/ h \in 1..g-1
    BY <2>3
  <2>5. BarrenUpTo(below[M].node, g)
    BY <1>3, <2>3, <2>4 DEF BarrenUpTo
  <2>6. \A l \in 1..M : l \in 1..L /\ below[l] = s[l]
    BY <1>2, <2>1
  <2>7. \A l \in 1..M : FrameTrue(below[l])
    BY <2>6 DEF OnPath, L
  <2>8. ASSUME NEW l \in 1..M-1 PROVE LeadsOn(below[l].node, Gone(below[l]), below[l+1].node)
    <3>1. l \in 1..L-1 /\ l \in 1..M /\ l+1 \in 1..M
      BY <1>2, <2>1
    <3> QED BY <2>6, <3>1 DEF OnPath, L
  <2>9. below[1].node = Root
    BY <2>1, <2>6 DEF OnPath
  <2> QED BY <1>5, <2>1, <2>5, <2>7, <2>8, <2>9 DEF OnPath, g, L
<1> QED BY <1>4, <1>5

\* When the next kid is a page it is the first of the document.
LEMMA PathToFirstPage ==
  ASSUME TreeTyped, NEW s \in Seq(Frame), OnPath(s), s[Len(s)].kids # <<>>,
         Page(Head(s[Len(s)].kids))
  PROVE  DocumentOrder # <<>> /\ DocumentOrder[1] = Head(s[Len(s)].kids)
<1> DEFINE L == Len(s)
           kid == Head(s[L].kids)
           way == [l \in 1..L+1 |-> IF l = L+1 THEN kid ELSE s[l].node]
<1>1. /\ \E c : LeadsOn(s[L].node, c, kid)
      /\ kid \in Node /\ L \in 1..L /\ L \in Nat
  BY KidTaken
<1>2. \A l \in 1..L : s[l].node \in Node /\ Pages(s[l].node)
  BY FrameFacts DEF OnPath, FrameTrue
<1> HIDE DEF L, kid
<1>3. L \in Nat \ {0} /\ L+1 \in 1..L+1 /\ \A l \in 1..L : l \in 1..L+1 /\ l # L+1
  BY <1>1
<1>4. /\ way[L+1] = kid /\ \A l \in 1..L : way[l] = s[l].node
      /\ way \in [1..L+1 -> Node]
  BY <1>1, <1>2, <1>3
<1> HIDE DEF way
<1>5. ASSUME NEW l \in 1..L PROVE \E c \in Nat : LeadsOn(way[l], c, way[l+1])
  <2>1. \A c : LeadsOn(way[l], c, way[l+1]) => c \in Nat
    BY DEF LeadsOn
  <2>2. CASE l = L
    BY <1>1, <1>4, <2>1, <2>2
  <2>3. CASE l # L
    <3>1. l \in 1..L-1 /\ l+1 \in 1..L
      BY <1>1, <2>3
    <3>2. LeadsOn(s[l].node, Gone(s[l]), s[l+1].node)
      BY <3>1 DEF OnPath, L
    <3> QED BY <1>4, <2>1, <3>1, <3>2
  <2> QED BY <2>2, <2>3
<1>6. way[1] = Root
  BY <1>1, <1>3, <1>4 DEF OnPath
<1>7. IsWay(way, L)
  <2>1. Page(way[L+1])
    BY <1>4 DEF kid, L
  <2> QED BY <1>2, <1>3, <1>4, <1>5, <1>6, <2>1 DEF IsWay
<1> QED BY <1>4, <1>7, WayToFirstPage DEF kid, L


UsableDocument == LET order == DocumentOrder IN \A n \in Range(order) : Usable(n)

\* The search is on the way to the first page, and describes no other.
SearchTrue ==
  op = "firstpage" /\ UsableDocument =>
    /\ OnPath(stack)
    /\ pc # "kids" => Top1.kids # <<>> /\ Page(page) /\ page = Kid

\* The lookups that it waits for are those of the page.
Asked ==
  /\ pc = "resources" /\ own[page].resources = "none" =>
       climb.attribute = "Resources" /\ climb.page = page /\ climb.result # "absent"
  /\ pc = "rotate" => climb.attribute = "Rotate" /\ climb.page = page

LEMMA AskedStep ==
  ASSUME IInv, Asked, [Next]_vars
  PROVE  Asked'
<1>0. UNCHANGED <<tree, own, prologue>>
  BY FileStays
<1>1. CASE UNCHANGED vars
  BY <1>1 DEF vars, walk, file, Asked
<1>2. CASE FirstBox
  BY <1>0, <1>2 DEF FirstBox, Asked, Lookup, GiveUp
<1>3. CASE FirstResources
  BY <1>0, <1>3 DEF FirstResources, Asked, Lookup, GiveUp
<1>4. CASE ValidateBox
  BY <1>0, <1>4 DEF ValidateBox, Asked, Lookup, walk
<1>5. CASE LookupStep
  <2>1. climb \in [attribute : Attribute, page : Node, at : Node, passed : Seq(Node),
                   result : {"climbing", "found", "failed", "absent"}]
    BY DEF IInv, TypeOK, LookupTypeOK
  <2>2. /\ climb'.attribute = climb.attribute /\ climb'.page = climb.page
        /\ climb.attribute = "Resources" => climb'.result # "absent"
    BY <1>5, <2>1 DEF LookupStep, Climb, Fail, Find, Top, Up, End, Climbing
  <2> QED BY <1>0, <1>5, <2>2 DEF LookupStep, Asked, walk
<1>6. CASE FirstPageInfo \/ SearchRootForever \/ PassKid \/ Descend \/ ValidatePass
             \/ ValidateCut \/ ValidateDescend \/ ValidateLeave \/ FirstKidPage \/ ValidatePage
  BY <1>0, <1>6
     DEF FirstPageInfo, SearchRootForever, walk, PassKid, Descend, ValidatePass, ValidateCut, ValidateDescend,
         ValidateLeave, FirstKidPage, ValidatePage, GiveUp, Asked, Walking
<1>7. CASE NoPageHere \/ FirstRotate
  BY <1>7 DEF NoPageHere, FirstRotate, Asked, GiveUp
<1>8. CASE Validate
  BY <1>0, <1>8 DEF Validate, Asked
<1>9. CASE ValidateResources \/ PagesDone \/ ValidateFontsOf \/ ValidateFonts \/ FontsDone
  BY <1>9 DEF ValidateResources, PagesDone, ValidateFontsOf, ValidateFonts, FontsDone, Asked
<1> QED
  BY <1>1, <1>2, <1>3, <1>4, <1>5, <1>6, <1>7, <1>8, <1>9, NextActions

\* A page that inherits /Resources is not refused for the want of them.
LEMMA HasResourcesInherits ==
  ASSUME IInv, LookupTrue, Asked, pc = "resources", ~Climbing, Inherits("Resources", page)
  PROVE  HasResources
<1> SUFFICES ASSUME own[page].resources = "none"
             PROVE  HasResources
  BY DEF HasResources
<1>1. climb.result \in {"climbing", "found", "failed", "absent"}
  BY DEF IInv, TypeOK, LookupTypeOK
<1>2. /\ climb.attribute = "Resources" /\ climb.page = page
      /\ climb.result \in {"found", "failed"}
  BY <1>1 DEF Asked, Climbing
<1> QED BY <1>2 DEF LookupTrue, HasResources

\* What the searches rest on is the file's, and no operation changes it.
LEMMA SearchKept ==
  ASSUME UNCHANGED <<tree, own>>
  PROVE  /\ UsableDocument' <=> UsableDocument
         /\ \A n : Page(n)' <=> Page(n)
         /\ OnPath(stack') => OnPath(stack)'
<1>1. /\ DocumentOrder' = DocumentOrder
      /\ \A n : (Pages(n)' <=> Pages(n)) /\ (Page(n)' <=> Page(n)) /\ Kids(n)' = Kids(n)
      /\ \A a, n : Inherits(a, n)' <=> Inherits(a, n)
      /\ \A n : RotateReadable(n)' <=> RotateReadable(n)
  BY OrderKept, FileFixed
<1>2. \A n : Usable(n)' <=> Usable(n)
  BY <1>1 DEF Usable
<1>3. UsableDocument' <=> UsableDocument
  BY <1>1, <1>2 DEF UsableDocument
<1>4. \A n : Barren(n)' <=> Barren(n)
  BY <1>1 DEF Barren, PageFree
<1>5. \A n, c : BarrenUpTo(n, c)' <=> BarrenUpTo(n, c)
  BY <1>1, <1>4 DEF BarrenUpTo
<1>6. \A n, c, m : LeadsOn(n, c, m)' <=> LeadsOn(n, c, m)
  BY <1>1, <1>5 DEF LeadsOn
<1>7. ASSUME OnPath(stack') PROVE OnPath(stack)'
  <2>1. \A f : Gone(f)' = Gone(f) /\ (FrameTrue(f)' <=> FrameTrue(f))
    BY <1>1 DEF Gone, FrameTrue
  <2> QED BY <1>1, <1>5, <1>6, <1>7, <2>1 DEF OnPath
<1> QED BY <1>1, <1>3, <1>7

\* What makes the two true after a step, said of the file before it.
LEMMA SearchTrueAfter ==
  ASSUME UNCHANGED <<tree, own>>,
         op' = "firstpage" /\ UsableDocument =>
           /\ OnPath(stack')
           /\ pc' # "kids" => Top1'.kids # <<>> /\ Page(page') /\ page' = Kid'
  PROVE  SearchTrue'
BY SearchKept DEF SearchTrue, Page

LEMMA FirstIsFirstAfter ==
  ASSUME UNCHANGED <<tree, own>>,
         first'.done /\ first'.why # "structure" /\ UsableDocument =>
           IF DocumentOrder = <<>> THEN first'.why = "no page" ELSE first'.page = DocumentOrder[1]
  PROVE  FirstPageIsFirst'
BY SearchKept, OrderKept DEF FirstPageIsFirst, UsableDocument

LEMMA WithKids ==
  ASSUME NEW f \in Frame, NEW kids
  PROVE  [f EXCEPT !.kids = kids] = [node |-> f.node, kids |-> kids]
BY DEF Frame

\* The parts of the stack that the search takes up.
LEMMA SearchStack ==
  ASSUME IInv
  PROVE  /\ Left \in Seq(Frame)
         /\ stack # <<>> => Len(Left) = Len(stack) - 1
         /\ \A l \in 1..Len(Left) : Left[l] = stack[l]
         /\ stack # <<>> /\ Top1.kids # <<>> =>
              /\ Kid = Head(stack[Len(stack)].kids) /\ Kid \in Node
              /\ Advanced \in Seq(Frame) /\ Len(Advanced) = Len(stack)
              /\ \A l \in 1..Len(stack)-1 : Advanced[l] = stack[l]
              /\ Advanced[Len(stack)] =
                   [node |-> stack[Len(stack)].node, kids |-> Tail(stack[Len(stack)].kids)]
<1>1. stack \in Seq(Frame) /\ Left \in Seq(Frame) /\ Len(stack) \in Nat /\ Len(Left) \in Nat
  <2>1. stack \in Seq(Frame) /\ Left \in Seq(Frame) /\ Len(stack) \in Nat
    BY StackLength, StackSteps DEF Frame
  <2> HIDE DEF Frame
  <2> QED BY <2>1
<1>2. stack # <<>> => Len(Left) = Len(stack) - 1
  BY LeftKids
<1>3. \A l \in 1..Len(Left) : Left[l] = stack[l]
  <2> DEFINE m == Len(stack) - 1
  <2>1. m \in Int /\ \A i \in 1..m : stack[i] \in Frame
    <3> HIDE DEF Frame
    <3> QED BY <1>1
  <2>2. /\ Len(Left) = IF 1 <= m THEN m-1+1 ELSE 0
        /\ \A i \in 1..m-1+1 : Left[i] = stack[1+i-1]
    <3> HIDE DEF m
    <3> QED BY <2>1, SubSeqProperties DEF Left, m
  <2> HIDE DEF m
  <2> QED BY <2>1, <2>2
<1>4. ASSUME stack # <<>>, Top1.kids # <<>>
      PROVE  /\ Kid = Head(stack[Len(stack)].kids) /\ Kid \in Node
             /\ Advanced \in Seq(Frame) /\ Len(Advanced) = Len(stack)
             /\ \A l \in 1..Len(stack)-1 : Advanced[l] = stack[l]
             /\ Advanced[Len(stack)] =
                  [node |-> stack[Len(stack)].node, kids |-> Tail(stack[Len(stack)].kids)]
  <2> DEFINE L == Len(stack)
  <2>1. L \in 1..L
    <3> HIDE DEF Frame
    <3>1. L # 0
      BY <1>1, <1>4, EmptySeq
    <3> QED BY <1>1, <3>1
  <2>2. Top1 = stack[L] /\ Top1 \in Frame
    <3> HIDE DEF Frame
    <3> QED BY <1>1, <2>1 DEF Top1
  <2>3. Top1.kids \in Seq(Node) /\ Top1 = [node |-> Top1.node, kids |-> Top1.kids]
    BY <2>2 DEF Frame
  <2>4. Kid = Head(Top1.kids) /\ Kid \in Node
    BY <1>4, <2>3, KidsGoOn DEF Kid
  <2>5. Advanced \in Seq(Frame) /\ Len(Advanced) = L
    BY <1>4, AdvancedKids
  <2>6. Advanced = [stack EXCEPT ![L] = [Top1 EXCEPT !.kids = Tail(Top1.kids)]]
    <3> HIDE DEF Frame
    <3> QED BY <1>1, <2>1, <2>2 DEF Advanced
  <2>7. [Top1 EXCEPT !.kids = Tail(Top1.kids)] = [node |-> Top1.node, kids |-> Tail(Top1.kids)]
    BY <2>2, WithKids
  <2> HIDE DEF Frame, L
  <2>8. \A l \in 1..L-1 : l \in 1..L /\ l # L
    BY <1>1 DEF L
  <2>9. \A l \in 1..L-1 : Advanced[l] = stack[l]
    BY <1>1, <2>6, <2>8 DEF L
  <2>10. Advanced[L] = [node |-> Top1.node, kids |-> Tail(Top1.kids)]
    BY <1>1, <2>1, <2>6, <2>7 DEF L
  <2> QED BY <2>2, <2>4, <2>5, <2>9, <2>10 DEF L
<1> QED BY <1>1, <1>2, <1>3, <1>4

\* The page that the search comes to can be described.
LEMMA PageFound ==
  ASSUME TreeTyped, UsableDocument, NEW n \in Node, DocumentOrder # <<>>, DocumentOrder[1] = n
  PROVE  Usable(n)
<1>1. DocumentOrder \in Seq(Node)
  <2>1. Cardinality(Node) \in Nat
    BY NodeAssumption, FS_CardinalityType
  <2> QED BY <2>1, MetTurns DEF DocumentOrder, Progress
<1>2. 1 \in DOMAIN DocumentOrder
  <2>1. Len(DocumentOrder) \in Nat \ {0} /\ DOMAIN DocumentOrder = 1..Len(DocumentOrder)
    BY <1>1, EmptySeq
  <2> QED BY <2>1
<1>3. n \in Range(DocumentOrder)
  BY <1>2 DEF Range
<1> QED BY <1>3 DEF UsableDocument

LEMMA SearchStep ==
  ASSUME IInv, AtRest, InDocument, LookupTrue, BoxAsked, Asked, SearchTrue, FirstPageIsFirst,
         [Next]_vars
  PROVE  SearchTrue' /\ FirstPageIsFirst'
<1>1. UNCHANGED <<tree, own>> /\ TreeTyped /\ Pages(Root)
  BY FileStays DEF IInv, TypeOK, TreeTyped, InDocument
<1>2. first' = first => FirstPageIsFirst'
  BY <1>1, FirstIsFirstAfter DEF FirstPageIsFirst, UsableDocument
<1>3. ASSUME ~UsableDocument PROVE SearchTrue' /\ FirstPageIsFirst'
  BY <1>1, <1>3, SearchTrueAfter, FirstIsFirstAfter
<1> SUFFICES ASSUME UsableDocument PROVE SearchTrue' /\ FirstPageIsFirst'
  BY <1>3
<1>4. stack \in Seq(Frame) /\ Len(stack) \in Nat
  BY StackLength
<1>5. op = "firstpage" => OnPath(stack) /\ stack # <<>> /\ Len(stack) # 0
  <2>1. OnPath(stack) => Len(stack) # 0 /\ stack # <<>>
    <3>1. Len(<<>>) = 0
      OBVIOUS
    <3> QED BY <3>1 DEF OnPath
  <2> QED BY <2>1 DEF SearchTrue
<1>6. op = "firstpage" /\ Top1.kids # <<>> /\ Page(Kid) =>
        DocumentOrder # <<>> /\ DocumentOrder[1] = Kid /\ Kid \in Node /\ Usable(Kid)
  <2> SUFFICES ASSUME op = "firstpage", Top1.kids # <<>>, Page(Kid)
               PROVE  DocumentOrder # <<>> /\ DocumentOrder[1] = Kid /\ Kid \in Node /\ Usable(Kid)
    OBVIOUS
  <2>1. Kid = Head(stack[Len(stack)].kids) /\ Kid \in Node
    BY <1>5, SearchStack
  <2>2. DocumentOrder # <<>> /\ DocumentOrder[1] = Kid
    BY <1>1, <1>4, <1>5, <2>1, PathToFirstPage DEF Top1
  <2> QED BY <1>1, <2>1, <2>2, PageFound
<1>7. op = "firstpage" /\ pc # "kids" =>
        /\ Top1.kids # <<>> /\ Page(page) /\ page = Kid /\ Usable(page)
        /\ DocumentOrder # <<>> /\ DocumentOrder[1] = page
  BY <1>6 DEF SearchTrue
<1>8. CASE stack' = stack /\ page' = page /\ pc' = pc /\ op' = op /\ first' = first
  <2>1. Top1' = Top1 /\ Kid' = Kid
    BY <1>8 DEF Top1, Kid
  <2> QED BY <1>1, <1>2, <1>8, <2>1, SearchTrueAfter DEF SearchTrue
<1>9. CASE op' # "firstpage" /\ first' = first
  BY <1>1, <1>2, <1>9, SearchTrueAfter
<1>10. CASE FirstPageInfo
  <2>1. CASE op' = "firstpage" /\ stack' = Enter(Root) /\ first' = first
    <3>1. stack' = <<[node |-> Root, kids |-> Kids(Root)]>> /\ pc' = "kids"
      <4>1. stack = <<>> /\ pc = "kids"
        BY <1>10 DEF FirstPageInfo, AtRest
      <4> QED BY <1>10, <2>1, <4>1 DEF FirstPageInfo, Enter
    <3>2. OnPath(stack')
      BY <1>1, <3>1, PathBegins
    <3> QED BY <1>1, <1>2, <2>1, <3>1, <3>2, SearchTrueAfter
  <2>2. CASE op' = op /\ first' = [NoFirst EXCEPT !.done = TRUE, !.why = "structure"]
    <3>1. op' # "firstpage" /\ first'.why = "structure"
      BY <1>10, <2>2 DEF FirstPageInfo, NoFirst
    <3> QED BY <1>1, <3>1, SearchTrueAfter, FirstIsFirstAfter
  <2> QED BY <1>10, <2>1, <2>2 DEF FirstPageInfo
<1>11. CASE PassKid
  <2>1. /\ op = "firstpage" /\ op' = op /\ first' = first /\ pc' = "kids" /\ stack' = Advanced
        /\ stack # <<>> /\ Top1.kids # <<>> /\ ~Page(Kid) /\ (Pages(Kid) => Kids(Kid) = <<>>)
    BY <1>11 DEF PassKid, Walking, results
  <2>2. /\ Kid = Head(stack[Len(stack)].kids) /\ Kid \in Node
        /\ Advanced \in Seq(Frame) /\ Len(Advanced) = Len(stack)
        /\ \A l \in 1..Len(stack)-1 : Advanced[l] = stack[l]
        /\ Advanced[Len(stack)] =
             [node |-> stack[Len(stack)].node, kids |-> Tail(stack[Len(stack)].kids)]
    BY <2>1, SearchStack
  <2>3. Barren(Kid)
    <3>1. Pages(Kid) => \A i \in 1..Len(Kids(Kid)) : Barren(Kids(Kid)[i])
      <4>1. Len(<<>>) = 0 /\ 1..0 = {}
        OBVIOUS
      <4> QED BY <2>1, <4>1
    <3> QED BY <2>1, <2>2, <3>1, BarrenNode
  <2>4. OnPath(Advanced)
    BY <1>1, <1>4, <1>5, <2>1, <2>2, <2>3, PathGoesOn DEF Top1
  <2> QED BY <1>1, <1>2, <2>1, <2>4, SearchTrueAfter
<1>12. CASE Descend
  <2>1. /\ op = "firstpage" /\ op' = op /\ first' = first /\ pc' = "kids"
        /\ stack' = Append(Advanced, [node |-> Kid, kids |-> Kids(Kid)])
        /\ stack # <<>> /\ Top1.kids # <<>> /\ Pages(Kid)
    BY <1>12 DEF Descend, Walking, results
  <2>2. /\ Kid = Head(stack[Len(stack)].kids) /\ Kid \in Node
        /\ Advanced \in Seq(Frame) /\ Len(Advanced) = Len(stack)
        /\ \A l \in 1..Len(stack)-1 : Advanced[l] = stack[l]
        /\ Advanced[Len(stack)] =
             [node |-> stack[Len(stack)].node, kids |-> Tail(stack[Len(stack)].kids)]
    BY <2>1, SearchStack
  <2>3. OnPath(Append(Advanced, [node |-> Kid, kids |-> Kids(Kid)]))
    BY <1>1, <1>4, <1>5, <2>1, <2>2, PathGoesOn DEF Top1
  <2> QED BY <1>1, <1>2, <2>1, <2>3, SearchTrueAfter
<1>13. CASE NoPageHere
  <2>1. op = "firstpage" /\ Top1.kids = <<>> /\ GiveUp("no page")
    BY <1>13 DEF NoPageHere
  <2>2. stack' = Left /\ pc' = "kids"
    BY <2>1 DEF GiveUp
  <2>3. /\ Left \in Seq(Frame) /\ Len(Left) = Len(stack) - 1
        /\ \A l \in 1..Len(Left) : Left[l] = stack[l]
    BY <1>5, <2>1, SearchStack
  <2>4. IF Len(stack) = 1 THEN Barren(Root) ELSE OnPath(Left)
    BY <1>1, <1>4, <1>5, <2>1, <2>3, PathGoesBack DEF Top1
  <2>5. CASE Len(stack) = 1
    <3>1. op' = "idle" /\ first' = [NoFirst EXCEPT !.done = TRUE, !.why = "no page"]
      BY <2>1, <2>5 DEF GiveUp
    <3>2. op' # "firstpage" /\ first'.why = "no page"
      BY <3>1 DEF NoFirst
    <3>3. DocumentOrder = <<>>
      BY <1>1, <2>4, <2>5, NoPageMet
    <3> QED BY <1>1, <3>2, <3>3, SearchTrueAfter, FirstIsFirstAfter
  <2>6. CASE Len(stack) # 1
    <3>1. first' = first
      <4>1. Len(stack) > 1
        <5>1. Len(stack) # 0
          BY <1>5, <2>1
        <5>2. \A n \in Nat : n # 0 /\ n # 1 => n > 1
          OBVIOUS
        <5> QED BY <1>4, <2>6, <5>1, <5>2, Zenon
      <4> QED BY <2>1, <4>1 DEF GiveUp
    <3> QED BY <1>1, <1>2, <2>2, <2>4, <2>6, <3>1, SearchTrueAfter
  <2> QED BY <2>5, <2>6
<1>14. CASE FirstKidPage
  <2>1. op = "firstpage" /\ Top1.kids # <<>> /\ Page(Kid) /\ page' = Kid
    BY <1>14 DEF FirstKidPage
  <2>2. own[Kid].parent # NoNode
    BY <1>6, <2>1 DEF Usable
  <2>3. stack' = stack /\ op' = op /\ first' = first
    BY <1>14, <2>2 DEF FirstKidPage
  <2>4. Top1' = Top1 /\ Kid' = Kid
    BY <2>3 DEF Top1, Kid
  <2> QED BY <1>1, <1>2, <1>5, <2>1, <2>3, <2>4, SearchTrueAfter
<1>15. ASSUME op = "firstpage", pc # "kids",
              UNCHANGED <<stack, page, op, first>>
       PROVE  SearchTrue' /\ FirstPageIsFirst'
  <2>1. Top1' = Top1 /\ Kid' = Kid
    BY <1>15 DEF Top1, Kid
  <2> QED BY <1>1, <1>2, <1>5, <1>7, <1>15, <2>1, SearchTrueAfter
<1>16. CASE FirstBox
  <2>1. op = "firstpage" /\ pc = "box" /\ ~Climbing
    BY <1>16 DEF FirstBox
  <2>2. HasBox
    BY <1>7, <2>1, HasBoxInherits DEF Usable
  <2>3. UNCHANGED <<stack, page, op, first>>
    BY <1>16, <2>2 DEF FirstBox
  <2> QED BY <1>15, <2>1, <2>3
<1>17. CASE FirstResources
  <2>1. op = "firstpage" /\ pc = "resources" /\ ~Climbing
    BY <1>17 DEF FirstResources
  <2>2. HasResources /\ tree[page].contents
    BY <1>7, <2>1, HasResourcesInherits DEF Usable
  <2>3. UNCHANGED <<stack, page, op, first>>
    BY <1>17, <2>2 DEF FirstResources
  <2> QED BY <1>15, <2>1, <2>3
<1>18. CASE FirstRotate
  <2>1. op = "firstpage" /\ pc = "rotate"
    BY <1>18 DEF FirstRotate
  <2>2. climb.result # "failed"
    BY <1>7, <2>1 DEF Usable, Asked, LookupTrue
  <2>3. op' # "firstpage" /\ first'.page = page
    BY <1>18, <2>2 DEF FirstRotate
  <2> QED BY <1>1, <1>7, <2>1, <2>3, SearchTrueAfter, FirstIsFirstAfter
<1>19. CASE LookupStep \/ UNCHANGED vars
  BY <1>8, <1>19 DEF LookupStep, vars, walk, results
<1>20. CASE SearchRootForever \/ Validate \/ ValidatePass \/ ValidateCut \/ ValidateDescend \/ ValidateLeave
              \/ ValidatePage \/ ValidateBox \/ ValidateResources \/ PagesDone
              \/ ValidateFontsOf \/ ValidateFonts \/ FontsDone
  <2>1. op' # "firstpage" /\ first' = first
    BY <1>20
       DEF SearchRootForever, Validate, ValidatePass, ValidateCut, ValidateDescend, ValidateLeave,
           ValidatePage, ValidateBox, ValidateResources, PagesDone, ValidateFontsOf, ValidateFonts, FontsDone,
           Validating, results
  <2> QED BY <1>9, <2>1
<1> QED
  BY <1>10, <1>11, <1>12, <1>13, <1>14, <1>16, <1>17, <1>18, <1>19, <1>20, NextActions

-----------------------------------------------------------------------------
ReportIInv ==
  /\ IInv /\ LookupTrue
  /\ AtRest /\ BoxAsked /\ InDocument /\ NothingCut /\ Covered
  /\ BoxesTold /\ ValidTrue /\ FirstTrue /\ EveryPageChecked
  /\ Asked /\ SearchTrue /\ FirstPageIsFirst

LEMMA ReportInit == Init => ReportIInv
<1> SUFFICES ASSUME Init
             PROVE  ReportIInv
  OBVIOUS
<1>1. IInv
  BY TypeInit
<1>2. Pages(Root)
  <2>1. PICK f \in Files : tree = f.tree
    BY DEF Init
  <2>2. f.tree \in Trees
    BY FilesAssumption
  <2> QED BY <2>1, <2>2, TreesAssumption DEF Pages
<1>3. LookupTrue
  BY DEF Init, NoLookup, LookupTrue
<1>4. AtRest /\ BoxAsked /\ NothingCut /\ Covered
  BY DEF Init, AtRest, BoxAsked, NothingCut, Validating, Covered
<1>5. InDocument
  BY <1>2, EmptyStack DEF Init, InDocument
<1>6. BoxesTold /\ ValidTrue /\ FirstTrue /\ EveryPageChecked
  BY DEF Init, NoReport, NoFirst, BoxesTold, ValidTrue, Validating, FirstTrue, EveryPageChecked
<1>7. Asked /\ SearchTrue /\ FirstPageIsFirst
  BY DEF Init, NoFirst, Asked, SearchTrue, FirstPageIsFirst
<1> QED BY <1>1, <1>3, <1>4, <1>5, <1>6, <1>7 DEF ReportIInv

LEMMA ReportStep == ReportIInv /\ [Next]_vars => ReportIInv'
<1> SUFFICES ASSUME ReportIInv, [Next]_vars
             PROVE  ReportIInv'
  OBVIOUS
<1>1. /\ IInv /\ LookupTrue
      /\ AtRest /\ BoxAsked /\ InDocument /\ NothingCut /\ Covered
      /\ BoxesTold /\ ValidTrue /\ FirstTrue /\ EveryPageChecked
      /\ Asked /\ SearchTrue /\ FirstPageIsFirst
  BY DEF ReportIInv
<1>2. IInv'
  BY <1>1, Inductive
<1>3. LookupTrue' /\ AtRest' /\ BoxAsked'
  BY <1>1, LookupTrueStep, AtRestStep, BoxAskedStep
<1>4. InDocument' /\ NothingCut' /\ Covered'
  BY <1>1, <1>2, InDocumentStep, NothingCutStep, CoveredStep
<1>5. BoxesTold' /\ ValidTrue'
  BY <1>1, BoxesToldStep, ValidTrueStep
<1>6. FirstTrue' /\ EveryPageChecked'
  BY <1>1, FirstTrueStep, EveryPageCheckedStep
<1>7. Asked' /\ SearchTrue' /\ FirstPageIsFirst'
  BY <1>1, AskedStep, SearchStep
<1> QED BY <1>2, <1>3, <1>4, <1>5, <1>6, <1>7 DEF ReportIInv

(***************************************************************************)
(* Validate looks at every page of the document and at nothing else,       *)
(* though the tree may have nodes in several places and cycles: its set of *)
(* visited nodes keeps no page from it (validation.go:409-490).            *)
(***************************************************************************)
THEOREM EveryPageIsChecked == Spec => []EveryPageChecked
<1>1. ReportIInv => EveryPageChecked
  BY DEF ReportIInv
<1> QED
  BY <1>1, ReportInit, ReportStep, PTL DEF Spec

(***************************************************************************)
(* The pages that Validate reports as lacking a /MediaBox are those of the *)
(* document that neither have nor inherit one (validation.go:464-478).     *)
(***************************************************************************)
THEOREM BoxesAreReported == Spec => []ValidMeansBoxes
<1>1. ReportIInv => ValidMeansBoxes
  BY DEF ReportIInv, EveryPageChecked, BoxesTold, ValidMeansBoxes
<1> QED
  BY <1>1, ReportInit, ReportStep, PTL DEF Spec

(***************************************************************************)
(* Of a document that Validate finds valid FirstPageInfo does not report a *)
(* missing /MediaBox, nor a missing page tree but for the damage that      *)
(* Validate only warns of (service.go:2721-2727, validation.go:42-97).     *)
(***************************************************************************)
THEOREM ReportsAreConsistent == Spec => []ReportsAgree
<1>1. ReportIInv => ReportsAgree
  <2> SUFFICES ASSUME ReportIInv, report.done, report.valid, Shallow, first.done
               PROVE  /\ first.why # "MediaBox"
                      /\ first.why = "structure" =>
                           \/ prologue.catalog = "no dictionary"
                           \/ prologue.pages \in {"no dictionary", "no kids"}
                           \/ Kids(Root) = <<>>
    BY DEF ReportsAgree
  <2>1. CatalogErrors = {} /\ PagesErrors = {} /\ report.boxless = {}
    BY DEF ReportIInv, ValidTrue
  <2>2. ToRoot /\ prologue.catalog \in {"no dictionary", "good"}
    BY <2>1 DEF CatalogErrors
  <2>3. ToPages => prologue.catalog = "good"
    BY <2>2 DEF ToPages
  <2>4. first.why # "MediaBox"
    <3> SUFFICES ASSUME first.why = "MediaBox"
                 PROVE  FALSE
      OBVIOUS
    <3>1. WalksPages
      BY <2>2, <2>3 DEF ReportIInv, FirstTrue, WalksPages
    <3>2. PICK n \in DocumentPages : ~Inherits("MediaBox", n)
      BY DEF ReportIInv, FirstTrue
    <3>3. n \in checked
      BY <3>1, <3>2 DEF ReportIInv, EveryPageChecked
    <3>4. n \in report.boxless
      BY <3>2, <3>3 DEF ReportIInv, BoxesTold
    <3> QED BY <2>1, <3>4
  <2>5. ASSUME first.why = "structure", prologue.catalog # "no dictionary", Kids(Root) # <<>>
        PROVE  prologue.pages \in {"no dictionary", "no kids"}
    <3>1. prologue.catalog = "good" /\ ToPages
      BY <2>2, <2>5 DEF ToPages
    <3>2. prologue.pages # "good"
      BY <2>5, <3>1 DEF ReportIInv, FirstTrue
    <3>3. prologue.pages \notin {"unreadable", "wrong type", "not an array"}
      BY <2>1, <3>1 DEF PagesErrors
    <3>4. prologue.pages \in {"unreadable", "no dictionary", "wrong type", "no kids",
                              "not an array", "good"}
      BY DEF ReportIInv, IInv, TypeOK, Prologue
    <3> QED BY <3>2, <3>3, <3>4
  <2> QED BY <2>4, <2>5
<1> QED
  BY <1>1, ReportInit, ReportStep, PTL DEF Spec

(***************************************************************************)
(* When all pages of a document are usable FirstPageInfo describes the     *)
(* first of them, however deep it is and whatever stands before it, and of *)
(* a document without pages it says so: the recursive search that takes    *)
(* the first kid with a page under it, leaving out the branches that have  *)
(* none, agrees with the order in which the iterator meets the pages       *)
(* (service.go:2670-2768).                                                 *)
(***************************************************************************)
THEOREM FirstPageIsTheFirst == Spec => []FirstPageIsFirst
<1>1. ReportIInv => FirstPageIsFirst
  BY DEF ReportIInv
<1> QED
  BY <1>1, ReportInit, ReportStep, PTL DEF Spec
=============================================================================
