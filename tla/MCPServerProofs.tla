--------------------------- MODULE MCPServerProofs ---------------------------
(* The answers of the server and the documents that its tools open, for    *)
(* sessions of any length and documents of any number of pages.            *)
EXTENDS MCPServer, SequenceTheorems, TLAPS

InHand == {"dispatch", "operate", "hung", "close", "answer"}
Asked == {i \in 1..decoded : sent[i] \in Requests}
Answered == {answers[i].id : i \in 1..Len(answers)}

(***************************************************************************)
(* A request in hand is the message that was taken last, so its number is  *)
(* above those of all answers, and the next answer goes behind them.       *)
(***************************************************************************)
InOrder == \A i, j \in 1..Len(answers) : i < j => answers[i].id < answers[j].id

IInv ==
  /\ TypeOK
  /\ AnswersMatchRequests
  /\ NothingLeftOpen

ServerTypeOK ==
  /\ pc \in {"select", "decode", "dispatch", "operate", "hung", "close", "answer", "returned"}
  /\ broken \in BOOLEAN
  /\ response \in {"result", "toolError", "rpcError"}
  /\ ready \in BOOLEAN
  /\ todo \in Seq(Operation)
  /\ left \in 0..MaxPages
  /\ open \in Nat

LEMMA AnswersMatchDef ==
  AnswersMatchRequests <=>
    /\ InOrder
    /\ IF pc \in InHand
       THEN decoded \in Asked /\ Answered = Asked \ {decoded}
       ELSE IF pc = "returned" THEN Answered \in {Asked, Asked \ {decoded}}
       ELSE Answered = Asked
  BY DEF AnswersMatchRequests, InOrder, InHand, Asked, Answered

\* The table of the tools holds names of operations.
LEMMA OperationsTyped == \A tool \in Tool : Operations[tool] \in Seq(Operation)
<1>1. Tool = {"pdf_first_page_info", "document_info", "document_validate", "document_extract",
              "document_read_page"}
  BY DEF Tool, Operations
<1>2. /\ Operations["pdf_first_page_info"] = <<"FirstPageInfo">>
      /\ Operations["document_info"] = <<"Info">>
      /\ Operations["document_validate"] = <<"Validate">>
      /\ Operations["document_extract"] = <<"ExtractText", "Info">>
      /\ Operations["document_read_page"] = <<"Info", "NewPageIterator", "Next">>
  BY DEF Operations
<1>3. /\ <<"FirstPageInfo">> \in Seq(Operation)
      /\ <<"Info">> \in Seq(Operation)
      /\ <<"Validate">> \in Seq(Operation)
      /\ <<"ExtractText", "Info">> \in Seq(Operation)
      /\ <<"Info", "NewPageIterator", "Next">> \in Seq(Operation)
  BY DEF Operation
<1> QED BY <1>1, <1>2, <1>3

LEMMA InitIInv == Init => IInv
<1> SUFFICES ASSUME Init PROVE IInv
  OBVIOUS
<1>1. TypeOK
  <2>1. /\ Len(<<>>) = 0
        /\ sent \in Seq(Message) /\ todo \in Seq(Operation)
        /\ answers \in Seq([id : Nat, response : {"result", "toolError", "rpcError"}])
    BY DEF Init
  <2>2. decoded \in 0..Len(sent) /\ left \in 0..MaxPages /\ open \in Nat
    BY <2>1, BoundsAssumption DEF Init
  <2> QED BY <2>1, <2>2 DEF Init, TypeOK
<1>2. Asked = {} /\ Answered = {} /\ InOrder
  BY DEF Init, Asked, Answered, InOrder
<1> QED
  BY <1>1, <1>2, AnswersMatchDef DEF Init, IInv, InHand, NothingLeftOpen

(***************************************************************************)
(* What the client does touches nothing that the server has taken.         *)
(***************************************************************************)
LEMMA ClientIInv ==
  ASSUME IInv, Send \/ CloseInput \/ Receive \/ Cancel
  PROVE  IInv'
<1>1. /\ UNCHANGED <<pc, reader, response, ready, answers, call>>
      /\ closed' \in BOOLEAN /\ received' \in Nat /\ cancelled' \in BOOLEAN
      /\ sent' = sent \/ \E m \in Message : sent' = Append(sent, m)
  <2>1. closed \in BOOLEAN /\ received \in Nat /\ cancelled \in BOOLEAN
    BY DEF IInv, TypeOK
  <2>2. CASE Send
    BY <2>1, <2>2 DEF Send
  <2>3. CASE CloseInput
    BY <2>1, <2>3 DEF CloseInput
  <2>4. CASE Receive
    BY <2>1, <2>4 DEF Receive
  <2>5. CASE Cancel
    BY <2>1, <2>5 DEF Cancel
  <2> QED BY <2>2, <2>3, <2>4, <2>5
<1>2. /\ sent' \in Seq(Message)
      /\ decoded \in 0..Len(sent')
      /\ \A i \in 1..decoded : sent'[i] = sent[i]
  <2>1. sent \in Seq(Message) /\ decoded \in 0..Len(sent)
    BY DEF IInv, TypeOK
  <2>2. CASE sent' = sent
    BY <2>1, <2>2
  <2>3. CASE \E m \in Message : sent' = Append(sent, m)
    <3>1. PICK m \in Message : sent' = Append(sent, m)
      BY <2>3
    <3>2. /\ sent' \in Seq(Message)
          /\ Len(sent') = Len(sent) + 1
          /\ \A i \in 1..Len(sent) : sent'[i] = sent[i]
      BY <2>1, <3>1, AppendProperties
    <3> QED
      BY <2>1, <3>2, LenProperties
  <2> QED
    BY <1>1, <2>2, <2>3
<1>3. TypeOK'
  BY <1>1, <1>2 DEF IInv, TypeOK, reader, call
<1>4. Asked' = Asked
  BY <1>1, <1>2 DEF Asked, reader
<1>5. Answered' = Answered /\ (InOrder' <=> InOrder)
  BY <1>1 DEF Answered, InOrder
<1>6. AnswersMatchRequests'
  <2>1. AnswersMatchRequests' <=>
          /\ InOrder'
          /\ IF pc \in InHand
             THEN decoded \in Asked' /\ Answered' = Asked' \ {decoded}
             ELSE IF pc = "returned" THEN Answered' \in {Asked', Asked' \ {decoded}}
             ELSE Answered' = Asked'
    BY <1>1, AnswersMatchDef DEF reader, AnswersMatchRequests, InOrder, InHand, Asked, Answered
  <2> QED
    BY <1>4, <1>5, <2>1, AnswersMatchDef DEF IInv
<1>7. NothingLeftOpen'
  BY <1>1 DEF IInv, NothingLeftOpen, call
<1> QED BY <1>3, <1>6, <1>7 DEF IInv

-----------------------------------------------------------------------------
(***************************************************************************)
(* Four ways to go on, of which every step of the server is one: a request *)
(* stays in hand or the server stays without one; a message that needs no  *)
(* answer is taken; a request is taken; the answer is written or lost.     *)
(***************************************************************************)
LEMMA Kept ==
  ASSUME IInv, UNCHANGED <<client, decoded, answers>>,
         pc # "returned", pc' \in InHand <=> pc \in InHand
  PROVE  AnswersMatchRequests'
<1>1. Asked' = Asked /\ Answered' = Answered /\ (InOrder' <=> InOrder)
  BY DEF Asked, Answered, InOrder, client
<1>2. CASE pc \in InHand
  <2>1. InOrder /\ decoded \in Asked /\ Answered = Asked \ {decoded}
    BY <1>2, AnswersMatchDef DEF IInv
  <2> QED
    BY <1>1, <1>2, <2>1 DEF AnswersMatchRequests, InOrder, Asked, Answered, InHand
<1>3. CASE pc \notin InHand
  <2>1. InOrder /\ Answered = Asked
    BY <1>3, AnswersMatchDef DEF IInv
  <2> QED
    BY <1>1, <1>3, <2>1 DEF AnswersMatchRequests, InOrder, Asked, Answered, InHand
<1> QED BY <1>2, <1>3

LEMMA Taken ==
  ASSUME IInv, UNCHANGED <<client, answers>>, pc = "decode",
         decoded < Len(sent), decoded' = decoded + 1,
         pc' \in {"select", "dispatch"},
         pc' = "dispatch" <=> sent[decoded + 1] \in Requests
  PROVE  AnswersMatchRequests' /\ decoded' \in 0..Len(sent')
<1>1. InOrder /\ Answered = Asked
  BY AnswersMatchDef DEF IInv, InHand
<1>2. decoded \in Nat /\ Len(sent) \in Nat /\ decoded + 1 \in 0..Len(sent)
  BY LenProperties DEF IInv, TypeOK
<1>3. Asked' = IF pc' = "dispatch" THEN Asked \union {decoded + 1} ELSE Asked
  BY <1>2 DEF Asked, client
<1>4. decoded + 1 \notin Asked
  BY <1>2 DEF Asked
<1>5. Answered' = Answered /\ (InOrder' <=> InOrder)
  BY DEF Answered, InOrder
<1>6. /\ InOrder'
      /\ pc' = "dispatch" => decoded' \in Asked' /\ Answered' = Asked' \ {decoded'}
      /\ pc' = "select" => Answered' = Asked'
  BY <1>1, <1>3, <1>4, <1>5
<1> QED
  BY <1>2, <1>6 DEF AnswersMatchRequests, InOrder, Asked, Answered, client

LEMMA Written ==
  ASSUME IInv, Answer
  PROVE  AnswersMatchRequests' /\ TypeOK'
<1> DEFINE new == [id |-> decoded, response |-> response]
           Reply1 == [id : Nat, response : {"result", "toolError", "rpcError"}]
<1>1. /\ pc = "answer" /\ pc' = "select" /\ answers' = Append(answers, new)
      /\ UNCHANGED <<client, reader, response, ready, call>>
  BY DEF Answer
<1>2. InOrder /\ decoded \in Asked /\ Answered = Asked \ {decoded}
  BY <1>1, AnswersMatchDef DEF IInv, InHand
<1>3. decoded \in Nat /\ new \in Reply1 /\ answers \in Seq(Reply1)
  BY LenProperties DEF IInv, TypeOK
<1>4. /\ answers' \in Seq(Reply1)
      /\ Len(answers) \in Nat
      /\ Len(answers') = Len(answers) + 1
      /\ \A i \in 1..Len(answers) : answers'[i] = answers[i]
      /\ answers'[Len(answers) + 1] = new
  <2> HIDE DEF new, Reply1
  <2> QED BY <1>1, <1>3, AppendProperties, LenProperties
<1>5. TypeOK'
  BY <1>1, <1>4 DEF IInv, TypeOK, client, reader, call
<1>6. Asked' = Asked
  BY <1>1 DEF Asked, client, reader
<1>7. Answered' = Answered \union {decoded}
  <2>1. 1..Len(answers') = 1..Len(answers) \union {Len(answers) + 1}
    <3>1. Len(answers) \in Nat /\ Len(answers') = Len(answers) + 1
      BY <1>4
    <3> QED BY <3>1
  <2>2. /\ \A i \in 1..Len(answers) : answers'[i].id = answers[i].id
        /\ answers'[Len(answers) + 1].id = decoded
    BY <1>4
  <2>3. ASSUME NEW m \in Answered' PROVE m \in Answered \union {decoded}
    <3>1. PICK i \in 1..Len(answers') : m = answers'[i].id
      BY <2>3 DEF Answered
    <3> QED BY <2>1, <2>2, <3>1 DEF Answered
  <2>4. ASSUME NEW m \in Answered PROVE m \in Answered'
    <3>1. PICK i \in 1..Len(answers) : m = answers[i].id
      BY <2>4 DEF Answered
    <3>2. i \in 1..Len(answers') /\ m = answers'[i].id
      BY <2>1, <2>2, <3>1
    <3> QED BY <3>2 DEF Answered
  <2>5. decoded \in Answered'
    <3>1. Len(answers) + 1 \in 1..Len(answers')
      BY <2>1
    <3> QED BY <2>2, <3>1 DEF Answered
  <2> QED BY <2>3, <2>4, <2>5
<1>8. InOrder'
  <2> SUFFICES ASSUME NEW i \in 1..Len(answers'), NEW j \in 1..Len(answers'), i < j
               PROVE  answers'[i].id < answers'[j].id
    BY DEF InOrder
  <2>1. CASE j <= Len(answers)
    BY <1>2, <1>4, <2>1 DEF InOrder
  <2>2. CASE j = Len(answers) + 1
    <3>1. i \in 1..Len(answers)
      BY <1>4, <2>2
    <3>2. answers[i].id \in Asked \ {decoded}
      BY <1>2, <3>1 DEF Answered
    <3>3. answers[i].id < decoded
      BY <1>3, <3>2 DEF Asked
    <3> QED BY <1>4, <2>2, <3>1, <3>3
  <2>3. j <= Len(answers) \/ j = Len(answers) + 1
    <3>1. Len(answers) \in Nat /\ Len(answers') = Len(answers) + 1
      BY <1>4
    <3> QED BY <3>1
  <2> QED BY <2>1, <2>2, <2>3
<1>9. Answered' = Asked'
  BY <1>2, <1>6, <1>7
<1> QED
  BY <1>1, <1>5, <1>8, <1>9 DEF AnswersMatchRequests, InOrder, Asked, Answered

LEMMA Returned ==
  ASSUME IInv, UNCHANGED <<client, decoded, answers>>,
         pc \in {"select", "decode", "answer"}, pc' = "returned"
  PROVE  AnswersMatchRequests'
<1>1. Asked' = Asked /\ Answered' = Answered /\ (InOrder' <=> InOrder)
  BY DEF Asked, Answered, InOrder, client
<1>2. InOrder /\ Answered \in {Asked, Asked \ {decoded}}
  BY AnswersMatchDef DEF IInv, InHand
<1> QED
  BY <1>1, <1>2 DEF AnswersMatchRequests, InOrder, Asked, Answered


-----------------------------------------------------------------------------
\* What a step of the server leaves of the types when its own variables are good.
LEMMA TypesKept ==
  ASSUME IInv, UNCHANGED client, ServerTypeOK', decoded' \in 0..Len(sent'), UNCHANGED answers
  PROVE  TypeOK'
<1>1. sent' = sent /\ closed' = closed /\ received' = received /\ cancelled' = cancelled
  BY DEF client
<1> QED
  BY <1>1 DEF IInv, TypeOK, ServerTypeOK

LEMMA StepIInv == IInv /\ [Next]_vars => IInv'
<1> SUFFICES ASSUME IInv, [Next]_vars PROVE IInv'
  OBVIOUS
<1> USE DEF client, reader, call
<1>0. /\ ServerTypeOK /\ NothingLeftOpen
      /\ decoded \in 0..Len(sent) /\ Len(sent) \in Nat
      /\ pc \in InHand => sent[decoded] \in Requests
  <2>1. ServerTypeOK /\ NothingLeftOpen /\ decoded \in 0..Len(sent) /\ Len(sent) \in Nat
    BY LenProperties DEF IInv, TypeOK, ServerTypeOK
  <2>2. pc \in InHand => decoded \in Asked
    BY AnswersMatchDef DEF IInv
  <2> QED BY <2>1, <2>2 DEF Asked
<1>1. CASE Select
  <2>1. AnswersMatchRequests'
    BY <1>1, <1>0, Kept, Returned DEF Select, InHand
  <2>2. ServerTypeOK' /\ NothingLeftOpen'
    BY <1>1, <1>0 DEF Select, ServerTypeOK, NothingLeftOpen
  <2>3. TypeOK'
    BY <1>1, <1>0, <2>1, <2>2, TypesKept DEF Select
  <2> QED BY <2>1, <2>2, <2>3 DEF IInv
<1>2. CASE DecodeFails
  <2>1. AnswersMatchRequests' /\ decoded' \in 0..Len(sent')
    <3>1. CASE broken
      BY <1>2, <1>0, <3>1, Kept DEF DecodeFails, InHand
    <3>2. CASE ~broken
      BY <1>2, <1>0, <3>2, Taken DEF DecodeFails, Requests, Malformed
    <3> QED BY <3>1, <3>2
  <2>2. ServerTypeOK' /\ NothingLeftOpen'
    BY <1>2, <1>0 DEF DecodeFails, ServerTypeOK, NothingLeftOpen
  <2>3. TypeOK'
    BY <1>2, <2>1, <2>2, TypesKept DEF DecodeFails
  <2> QED BY <2>1, <2>2, <2>3 DEF IInv
<1>3. CASE EndOfInput
  <2>1. AnswersMatchRequests'
    BY <1>3, <1>0, Returned DEF EndOfInput
  <2>2. ServerTypeOK' /\ NothingLeftOpen'
    BY <1>3, <1>0 DEF EndOfInput, ServerTypeOK, NothingLeftOpen
  <2>3. TypeOK'
    BY <1>3, <1>0, <2>1, <2>2, TypesKept DEF EndOfInput
  <2> QED BY <2>1, <2>2, <2>3 DEF IInv
<1>4. CASE DecodeNotification
  <2>1. AnswersMatchRequests' /\ decoded' \in 0..Len(sent')
    BY <1>4, <1>0, Taken DEF DecodeNotification, Requests, Notifications, Malformed
  <2>2. ServerTypeOK' /\ NothingLeftOpen'
    BY <1>4, <1>0 DEF DecodeNotification, ServerTypeOK, NothingLeftOpen
  <2>3. TypeOK'
    BY <1>4, <1>0, <2>1, <2>2, TypesKept DEF DecodeNotification
  <2> QED BY <2>1, <2>2, <2>3 DEF IInv
<1>5. CASE DecodeRequest
  <2>1. AnswersMatchRequests' /\ decoded' \in 0..Len(sent')
    BY <1>5, <1>0, Taken DEF DecodeRequest, Requests, Notifications, Malformed
  <2>2. ServerTypeOK' /\ NothingLeftOpen'
    BY <1>5, <1>0 DEF DecodeRequest, ServerTypeOK, NothingLeftOpen
  <2>3. TypeOK'
    BY <1>5, <1>0, <2>1, <2>2, TypesKept DEF DecodeRequest
  <2> QED BY <2>1, <2>2, <2>3 DEF IInv
<1>6. CASE Dispatch
  <2>1. AnswersMatchRequests'
    BY <1>6, <1>0, Kept DEF Dispatch, Reply, InHand, ServerTypeOK
  <2>2. ServerTypeOK' /\ NothingLeftOpen'
    BY <1>6, <1>0 DEF Dispatch, Reply, ServerTypeOK, NothingLeftOpen
  <2>3. TypeOK'
    BY <1>6, <1>0, <2>1, <2>2, TypesKept DEF Dispatch, Reply
  <2> QED BY <2>1, <2>2, <2>3 DEF IInv
<1>7. CASE HandleToolsCall
  <2>1. AnswersMatchRequests'
    BY <1>7, <1>0, Kept DEF HandleToolsCall, Reply, InHand, ServerTypeOK
  <2>2. ServerTypeOK' /\ NothingLeftOpen'
    BY <1>7, <1>0 DEF HandleToolsCall, Reply, ServerTypeOK, NothingLeftOpen
  <2>3. TypeOK'
    BY <1>7, <1>0, <2>1, <2>2, TypesKept DEF HandleToolsCall, Reply
  <2> QED BY <2>1, <2>2, <2>3 DEF IInv
<1>8. CASE Open
  <2>1. AnswersMatchRequests'
    BY <1>8, <1>0, Kept DEF Open, InHand, ServerTypeOK
  <2>2. ServerTypeOK' /\ NothingLeftOpen'
    BY <1>8, <1>0, OperationsTyped DEF Open, ServerTypeOK, NothingLeftOpen
  <2>3. TypeOK'
    BY <1>8, <1>0, <2>1, <2>2, TypesKept DEF Open
  <2> QED BY <2>1, <2>2, <2>3 DEF IInv
<1>9. CASE OperationFails
  <2>1. AnswersMatchRequests'
    BY <1>9, <1>0, Kept DEF OperationFails, Operating, Reply, InHand, ServerTypeOK
  <2>2. ServerTypeOK' /\ NothingLeftOpen'
    BY <1>9, <1>0 DEF OperationFails, Operating, Reply, ServerTypeOK, NothingLeftOpen
  <2>3. TypeOK'
    BY <1>9, <1>0, <2>1, <2>2, TypesKept DEF OperationFails, Operating, Reply
  <2> QED BY <2>1, <2>2, <2>3 DEF IInv
<1>10. CASE OperationSucceeds
  <2>1. AnswersMatchRequests'
    BY <1>10, <1>0, Kept DEF OperationSucceeds, Operating, InHand, ServerTypeOK
  <2>2. ServerTypeOK' /\ NothingLeftOpen'
    BY <1>10, <1>0, HeadTailProperties, BoundsAssumption DEF OperationSucceeds, Operating, ServerTypeOK, NothingLeftOpen
  <2>3. TypeOK'
    BY <1>10, <1>0, <2>1, <2>2, TypesKept DEF OperationSucceeds, Operating
  <2> QED BY <2>1, <2>2, <2>3 DEF IInv
<1>11. CASE NextPage
  <2>1. AnswersMatchRequests'
    BY <1>11, <1>0, Kept DEF NextPage, Operating, InHand, ServerTypeOK
  <2>2. ServerTypeOK' /\ NothingLeftOpen'
    <3>1. todo' \in Seq(Operation)
      <4>1. todo' \in {todo, <<>>}
        BY <1>11 DEF NextPage
      <4>2. todo \in Seq(Operation)
        BY <1>0 DEF ServerTypeOK
      <4>3. <<>> \in Seq(Operation)
        BY EmptySeq
      <4> QED BY <4>1, <4>2, <4>3
    <3>2. left' \in 0..MaxPages
      BY <1>11, <1>0, BoundsAssumption DEF NextPage, ServerTypeOK
    <3> QED BY <1>11, <1>0, <3>1, <3>2 DEF NextPage, Operating, ServerTypeOK, NothingLeftOpen
  <2>3. TypeOK'
    BY <1>11, <1>0, <2>1, <2>2, TypesKept DEF NextPage, Operating
  <2> QED BY <2>1, <2>2, <2>3 DEF IInv
<1>12. CASE OperationsDone
  <2>1. AnswersMatchRequests'
    BY <1>12, <1>0, Kept DEF OperationsDone, InHand, ServerTypeOK
  <2>2. ServerTypeOK' /\ NothingLeftOpen'
    BY <1>12, <1>0 DEF OperationsDone, ServerTypeOK, NothingLeftOpen
  <2>3. TypeOK'
    BY <1>12, <1>0, <2>1, <2>2, TypesKept DEF OperationsDone
  <2> QED BY <2>1, <2>2, <2>3 DEF IInv
<1>13. CASE Close
  <2>1. AnswersMatchRequests'
    BY <1>13, <1>0, Kept DEF Close, InHand, ServerTypeOK
  <2>2. ServerTypeOK' /\ NothingLeftOpen'
    BY <1>13, <1>0 DEF Close, ServerTypeOK, NothingLeftOpen
  <2>3. TypeOK'
    BY <1>13, <1>0, <2>1, <2>2, TypesKept DEF Close
  <2> QED BY <2>1, <2>2, <2>3 DEF IInv
<1>14. CASE Answer
  <2>1. NothingLeftOpen'
    BY <1>14, <1>0 DEF Answer, NothingLeftOpen
  <2> QED BY <1>14, <2>1, Written DEF IInv
<1>15. CASE AnswerFails
  <2>1. AnswersMatchRequests'
    BY <1>15, <1>0, Returned DEF AnswerFails
  <2>2. ServerTypeOK' /\ NothingLeftOpen'
    BY <1>15, <1>0 DEF AnswerFails, ServerTypeOK, NothingLeftOpen
  <2>3. TypeOK'
    BY <1>15, <1>0, <2>1, <2>2, TypesKept DEF AnswerFails
  <2> QED BY <2>1, <2>2, <2>3 DEF IInv
<1>16. CASE Send \/ CloseInput \/ Receive \/ Cancel
  BY <1>16, ClientIInv
<1>17. CASE OperationHangs
  <2>1. AnswersMatchRequests'
    BY <1>17, <1>0, Kept DEF OperationHangs, Operating, InHand, ServerTypeOK
  <2>2. ServerTypeOK' /\ NothingLeftOpen'
    BY <1>17, <1>0 DEF OperationHangs, Operating, ServerTypeOK, NothingLeftOpen
  <2>3. TypeOK'
    BY <1>17, <1>0, <2>1, <2>2, TypesKept DEF OperationHangs, Operating
  <2> QED BY <2>1, <2>2, <2>3 DEF IInv
<1>18. CASE UNCHANGED vars
  <2>1. TypeOK' /\ NothingLeftOpen'
    BY <1>18 DEF vars, IInv, TypeOK, NothingLeftOpen
  <2>2. AnswersMatchRequests'
    BY <1>18 DEF vars, IInv, AnswersMatchRequests
  <2> QED BY <2>1, <2>2 DEF IInv
<1> QED
  BY <1>1, <1>2, <1>3, <1>4, <1>5, <1>6, <1>7, <1>8, <1>9, <1>10, <1>11, <1>12, <1>13, <1>14, <1>15, <1>16, <1>17, <1>18
  DEF Next, Serve, Client

(***************************************************************************)
(* The types of the server's state (server.go:112-143).                    *)
(***************************************************************************)
THEOREM TypeCorrect == Spec => []TypeOK
<1>1. IInv => TypeOK
  BY DEF IInv
<1> QED BY <1>1, InitIInv, StepIInv, PTL DEF Spec

(***************************************************************************)
(* Every request that was taken is answered once, in order, and nothing    *)
(* else is, in sessions of any length, whatever the client sends, however  *)
(* a tool call ends or hangs, whether or not the client reads, and         *)
(* whenever the context is cancelled or the pipe breaks                    *)
(* (server.go:115-143).                                                    *)
(***************************************************************************)
THEOREM RequestsAnswered == Spec => []AnswersMatchRequests
<1>1. IInv => AnswersMatchRequests
  BY DEF IInv
<1> QED BY <1>1, InitIInv, StepIInv, PTL DEF Spec

(***************************************************************************)
(* A document is open exactly while a tool works on it or closes it, on    *)
(* every way out of every tool, for documents of any number of pages       *)
(* (handler.go:87-93).                                                     *)
(***************************************************************************)
THEOREM DocumentsClosed == Spec => []NothingLeftOpen
<1>1. IInv => NothingLeftOpen
  BY DEF IInv
<1> QED BY <1>1, InitIInv, StepIInv, PTL DEF Spec
=============================================================================
