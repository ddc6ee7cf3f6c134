------------------------------ MODULE MCPServer ------------------------------
(***************************************************************************)
(* The JSON-RPC loop of the MCP server (internal/mcp/server.go:112-304)    *)
(* between a client that sends messages and a client's pipe that takes the *)
(* answers.  Serve is one thread: it looks whether its context is          *)
(* cancelled, decodes a message, which waits for one, handles it, and      *)
(* writes the answer.  A tool call opens a document, has a service work on *)
(* it and closes it (internal/mcp/handler.go); the services are here no    *)
(* more than whether they succeed, fail, or do not return.                 *)
(*                                                                         *)
(* json.Decoder, outside of the repository, is modelled from how Serve     *)
(* uses it: text that is not JSON is an error that every later call of     *)
(* Decode returns again; JSON of another shape is an error of one message. *)
(***************************************************************************)
EXTENDS Integers, Sequences, SequencesExt

CONSTANTS
  MaxMessages,    \* bound on the messages of a session
  MaxPages,       \* bound on the pages of a document
  PipeAnswers     \* the answers that the pipe holds until the client reads them

ASSUME BoundsAssumption == MaxMessages \in Nat /\ MaxPages \in Nat
ASSUME PipeAssumption == PipeAnswers \in Nat

Requests == {"initialize", "ping", "tools/list", "tools/call", "unknown"}
Notifications == {"notifications/initialized", "otherNotification"}
Malformed == {"wrongShape", "notJSON"}
Message == Requests \union Notifications \union Malformed

VARIABLES
  sent,       \* what the client has written so far
  closed,     \* the client has closed its end
  received,   \* how many answers the client has read, or waits to read
  cancelled,  \* ctx is cancelled
  pc,         \* where Serve is: "operate", "hung" and "close" are in the handler of a tool
  decoded,    \* how many messages Decode has taken
  broken,     \* the error that Decode keeps has been set
  response,   \* the answer being written: "result", "toolError" or "rpcError"
  ready,      \* ready of the Server
  answers,    \* the answers written
  todo,       \* the operations that the handler has still to call
  left,       \* the pages that the iterator of document_read_page has left
  open        \* how many documents are open

client == <<sent, closed, received, cancelled>>
reader == <<decoded, broken>>
call == <<todo, left, open>>
vars == <<client, pc, reader, response, ready, answers, call>>

Init ==
  /\ sent = <<>>
  /\ closed = FALSE
  /\ received = 0
  /\ cancelled = FALSE
  /\ pc = "select"
  /\ decoded = 0
  /\ broken = FALSE
  /\ response = "result"
  /\ ready = FALSE
  /\ answers = <<>>
  /\ todo = <<>>
  /\ left = 0
  /\ open = 0

-----------------------------------------------------------------------------
\* The client and the process around the server.
Send ==
  /\ ~closed
  /\ Len(sent) < MaxMessages
  /\ \E m \in Message : sent' = Append(sent, m)
  /\ UNCHANGED <<closed, received, cancelled, pc, reader, response, ready, answers, call>>

CloseInput ==
  /\ ~closed
  /\ closed' = TRUE
  /\ UNCHANGED <<sent, received, cancelled, pc, reader, response, ready, answers, call>>

\* The client reads an answer, or waits for one: it may also never do so.
Receive ==
  /\ received <= Len(answers)
  /\ received' = received + 1
  /\ UNCHANGED <<sent, closed, cancelled, pc, reader, response, ready, answers, call>>

Cancel ==
  /\ ~cancelled
  /\ cancelled' = TRUE
  /\ UNCHANGED <<sent, closed, received, pc, reader, response, ready, answers, call>>

-----------------------------------------------------------------------------
Select ==
  /\ pc = "select"
  /\ pc' = IF cancelled THEN "returned" ELSE "decode"
  /\ UNCHANGED <<client, reader, response, ready, answers, call>>

Current == sent[decoded]

\* Mutant of DecodeFails: every error of Decode stays with the decoder.
DecodeBreaks ==
  /\ pc = "decode"
  /\ \/ broken /\ UNCHANGED <<decoded, broken>>
     \/ /\ ~broken /\ decoded < Len(sent) /\ sent[decoded + 1] \in Malformed
        /\ decoded' = decoded + 1
        /\ broken' = TRUE
  /\ pc' = "select"
  /\ UNCHANGED <<client, response, ready, answers, call>>

DecodeFails ==
  /\ pc = "decode"
  /\ \/ broken /\ UNCHANGED <<decoded, broken>>
     \/ /\ ~broken /\ decoded < Len(sent) /\ sent[decoded + 1] \in Malformed
        /\ decoded' = decoded + 1
        /\ broken' = (sent[decoded + 1] = "notJSON")
  /\ pc' = "select"
  /\ UNCHANGED <<client, response, ready, answers, call>>

\* Mutant of EndOfInput: io.EOF is logged like the other errors.
EndOfInputLogged ==
  /\ pc = "decode"
  /\ ~broken /\ decoded = Len(sent) /\ closed
  /\ pc' = "select"
  /\ UNCHANGED <<client, reader, response, ready, answers, call>>

EndOfInput ==
  /\ pc = "decode"
  /\ ~broken /\ decoded = Len(sent) /\ closed
  /\ pc' = "returned"
  /\ UNCHANGED <<client, reader, response, ready, answers, call>>

\* Mutant of DecodeNotification: it goes the way of the requests.
DispatchNotification ==
  /\ pc = "decode"
  /\ ~broken /\ decoded < Len(sent) /\ sent[decoded + 1] \in Notifications
  /\ decoded' = decoded + 1
  /\ pc' = "dispatch"
  /\ UNCHANGED <<client, broken, response, ready, answers, call>>

\* A message without an id is handled and not answered.
DecodeNotification ==
  /\ pc = "decode"
  /\ ~broken /\ decoded < Len(sent) /\ sent[decoded + 1] \in Notifications
  /\ decoded' = decoded + 1
  /\ ready' = (ready \/ sent[decoded + 1] = "notifications/initialized")
  /\ pc' = "select"
  /\ UNCHANGED <<client, broken, response, answers, call>>

DecodeRequest ==
  /\ pc = "decode"
  /\ ~broken /\ decoded < Len(sent) /\ sent[decoded + 1] \in Requests
  /\ decoded' = decoded + 1
  /\ pc' = "dispatch"
  /\ UNCHANGED <<client, broken, response, ready, answers, call>>

Reply(kind) ==
  /\ response' = kind
  /\ pc' = "answer"

Dispatch ==
  /\ pc = "dispatch"
  /\ Current # "tools/call"
  /\ Reply(IF Current = "unknown" THEN "rpcError" ELSE "result")
  /\ UNCHANGED <<client, reader, ready, answers, call>>

-----------------------------------------------------------------------------
\* What the handler of each tool calls on the service, in its order.
Operations ==
  [pdf_first_page_info |-> <<"FirstPageInfo">>,
   document_info |-> <<"Info">>,
   document_validate |-> <<"Validate">>,
   document_extract |-> <<"ExtractText", "Info">>,
   document_read_page |-> <<"Info", "NewPageIterator", "Next">>]

Tool == DOMAIN Operations
Operation == {"FirstPageInfo", "Info", "Validate", "ExtractText", "NewPageIterator", "Next"}

(***************************************************************************)
(* Bad parameters and an unknown tool are errors of the protocol; a tool   *)
(* that fails is a result with isError.  Before it opens the document a    *)
(* handler refuses bad arguments, paths that go upwards, pages below one   *)
(* and formats that it has no service for.                                 *)
(***************************************************************************)
HandleToolsCall ==
  /\ pc = "dispatch"
  /\ Current = "tools/call"
  /\ Reply("rpcError") \/ Reply("toolError")
  /\ UNCHANGED <<client, reader, ready, answers, call>>

\* An Open that fails is the error of a handler that refuses: HandleToolsCall.
Open ==
  /\ pc = "dispatch"
  /\ Current = "tools/call"
  /\ \E tool \in Tool : todo' = Operations[tool]
  /\ open' = open + 1
  /\ pc' = "operate"
  /\ UNCHANGED <<client, reader, response, ready, answers, left>>

Operating == pc = "operate" /\ todo # <<>>

\* Mutant of OperationFails: the error is returned without the deferred Close.
OperationFailsOpen ==
  /\ Operating
  /\ todo' = <<>>
  /\ Reply("toolError")
  /\ UNCHANGED <<client, reader, ready, answers, left, open>>

\* Also a page number above the /Count and a service without iterators.
OperationFails ==
  /\ Operating
  /\ todo' = <<>>
  /\ response' = "toolError"
  /\ pc' = "close"
  /\ UNCHANGED <<client, reader, ready, answers, left, open>>

OperationSucceeds ==
  /\ Operating
  /\ Head(todo) # "Next"
  /\ todo' = Tail(todo)
  /\ left' \in IF Head(todo) = "NewPageIterator" THEN 0..MaxPages ELSE {left}
  /\ UNCHANGED <<client, pc, reader, response, ready, answers, open>>

(***************************************************************************)
(* The operation never gets back to the handler: the search for /Root and  *)
(* the descent to the first page follow a cycle of the file without end    *)
(* (service.go:1277-1329, 2712), until the process is out of stack.        *)
(***************************************************************************)
OperationHangs ==
  /\ Operating
  /\ Head(todo) # "Next"
  /\ pc' = "hung"
  /\ UNCHANGED <<client, reader, response, ready, answers, call>>

\* document_read_page takes pages until one has the number, or there are no more.
NextPage ==
  /\ Operating
  /\ Head(todo) = "Next"
  /\ IF left = 0
     THEN todo' = <<>> /\ left' = left
     ELSE todo' \in {todo, <<>>} /\ left' = left - 1
  /\ UNCHANGED <<client, pc, reader, response, ready, answers, open>>

OperationsDone ==
  /\ pc = "operate"
  /\ todo = <<>>
  /\ response' = "result"
  /\ pc' = "close"
  /\ UNCHANGED <<client, reader, ready, answers, call>>

\* The deferred Close.
Close ==
  /\ pc = "close"
  /\ open' = open - 1
  /\ pc' = "answer"
  /\ UNCHANGED <<client, reader, response, ready, answers, todo, left>>

-----------------------------------------------------------------------------
\* The pipe is full: Encode waits until the client reads.
Blocked == pc = "answer" /\ Len(answers) >= received + PipeAnswers

Answer ==
  /\ pc = "answer"
  /\ ~Blocked
  /\ answers' = Append(answers, [id |-> decoded, response |-> response])
  /\ pc' = "select"
  /\ UNCHANGED <<client, reader, response, ready, call>>

\* The client's end of the pipe is gone.
AnswerFails ==
  /\ pc = "answer"
  /\ pc' = "returned"
  /\ UNCHANGED <<client, reader, response, ready, answers, call>>

Serve ==
  \/ Select \/ DecodeFails \/ EndOfInput \/ DecodeNotification \/ DecodeRequest
  \/ Dispatch \/ HandleToolsCall \/ Open
  \/ OperationFails \/ OperationSucceeds \/ OperationHangs \/ NextPage
  \/ OperationsDone \/ Close \/ Answer

Client == Send \/ CloseInput \/ Receive \/ Cancel \/ AnswerFails

Next == Serve \/ Client

(***************************************************************************)
(* The server runs while it can.  The client may stop at any time: nobody  *)
(* has to send, to read the answers or to break the pipe, and an operation *)
(* may end in any way it can, to hang included.                            *)
(***************************************************************************)
Spec == Init /\ [][Next]_vars /\ WF_vars(Serve)

-----------------------------------------------------------------------------
TypeOK ==
  /\ sent \in Seq(Message)
  /\ closed \in BOOLEAN
  /\ received \in Nat
  /\ cancelled \in BOOLEAN
  /\ pc \in {"select", "decode", "dispatch", "operate", "hung", "close", "answer", "returned"}
  /\ decoded \in 0..Len(sent)
  /\ broken \in BOOLEAN
  /\ response \in {"result", "toolError", "rpcError"}
  /\ ready \in BOOLEAN
  /\ answers \in Seq([id : Nat, response : {"result", "toolError", "rpcError"}])
  /\ todo \in Seq(Operation)
  /\ left \in 0..MaxPages
  /\ open \in Nat

(***************************************************************************)
(* The requests are answered one by one in the order in which they came,   *)
(* none twice, none skipped, nothing else answered; the last one taken may *)
(* still be in the works, or its answer lost with the client               *)
(* (server.go:115-143).                                                    *)
(***************************************************************************)
AnswersMatchRequests ==
  LET answered == {answers[i].id : i \in 1..Len(answers)}
      asked    == {i \in 1..decoded : sent[i] \in Requests}
  IN  /\ \A i, j \in 1..Len(answers) : i < j => answers[i].id < answers[j].id
      /\ IF pc \in {"dispatch", "operate", "hung", "close", "answer"}
         THEN decoded \in asked /\ answered = asked \ {decoded}
         ELSE IF pc = "returned" THEN answered \in {asked, asked \ {decoded}}
         ELSE answered = asked

(***************************************************************************)
(* Whatever a tool call stumbles over, no document is left open by it: at  *)
(* most one is open, and none while the server waits, answers or has       *)
(* returned (handler.go:87-93).                                            *)
(***************************************************************************)
NothingLeftOpen == open = IF pc \in {"operate", "hung", "close"} THEN 1 ELSE 0

\* What may keep Serve for good: an operation, or a client that stops reading.
Stalled == pc = "hung" \/ <>[]Blocked

(***************************************************************************)
(* A message that cannot be understood does not lose the ones after it, as *)
(* long as it is JSON: everything the client sent is taken unless the      *)
(* context is cancelled, the pipe breaks, the client stops reading the     *)
(* answers, or an operation never returns (server.go:124-141).             *)
(***************************************************************************)
AllTaken ==
  (\A i \in 1..Len(sent) : sent[i] # "notJSON") ~>
    \/ decoded = Len(sent)
    \/ pc = "returned"
    \/ \E i \in 1..Len(sent) : sent[i] = "notJSON"
    \/ Stalled

(***************************************************************************)
(* "The method blocks until r returns EOF" (server.go:114), whatever came  *)
(* before the end of the input; a stalled server is not what is meant.     *)
(***************************************************************************)
ReturnsAtEOF == closed ~> (pc = "returned" \/ Stalled)

(***************************************************************************)
(* "... or ctx is cancelled" (server.go:114), also while the client is     *)
(* silent.                                                                 *)
(***************************************************************************)
ReturnsWhenCancelled == cancelled ~> (pc = "returned" \/ Stalled)

(***************************************************************************)
(* What does hold of the two: Serve returns once the input, all of it      *)
(* JSON, is at its end, and once the context is cancelled if the client    *)
(* does not leave Decode waiting; not so when the client no longer reads   *)
(* the answers, for which neither the end of the input nor the context     *)
(* stops Encode, or when an operation never returns (server.go:117-141).   *)
(***************************************************************************)
ReturnsAfterInput ==
  closed ~> \/ pc = "returned"
            \/ broken /\ ~cancelled
            \/ Stalled
=============================================================================
