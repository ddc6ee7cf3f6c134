---------------------------- MODULE TextExtraction ---------------------------
(***************************************************************************)
(* The text of pages: ExtractText and ExtractTextPage of the PDF service   *)
(* (internal/pdf/service.go:550-698) over the decoders (StreamFilters) and *)
(* the content parser (ContentText).  The content streams of the pages are *)
(* read one by one, decoded, parsed, and their text is added to the text.  *)
(* A stream that cannot be read or decoded is left out.                    *)
(***************************************************************************)
EXTENDS StreamFilters, ContentText

CONSTANT Documents    \* the documents considered, each the sequence of the streams of its pages

VARIABLES
  streams,      \* of the pages
  next,         \* the stream to be read
  whole,        \* the text of the pages so far
  lastErr,      \* whether a stream was left out
  answer,       \* "none", "text" or "error"
  parsed        \* history: the streams parsed, with their operators

pageVars == <<streams, next, whole, lastErr, answer, parsed>>
vars == <<pageVars, filterVars, textVars>>

Init ==
  /\ streams \in Documents
  /\ next = 1
  /\ whole = <<>>
  /\ lastErr = FALSE
  /\ answer = "none"
  /\ parsed = <<>>
  /\ FilterInit
  /\ TextInit

Idle == result = "none" /\ phase = "idle" /\ answer = "none"
Stream == streams[next]

LeaveOut ==
  /\ lastErr' = TRUE
  /\ next' = next + 1
  /\ UNCHANGED <<streams, whole, answer, parsed>>

\* readContentStream: no object, no stream in it, or a length beyond the limit.
CannotRead ==
  /\ Idle /\ next <= Len(streams)
  /\ ~Stream.readable
  /\ LeaveOut
  /\ UNCHANGED <<filterVars, textVars>>

ReadStream ==
  /\ Idle /\ next <= Len(streams)
  /\ Stream.readable
  /\ Decode(Stream.job)
  /\ UNCHANGED <<pageVars, textVars>>

\* Mutant of CannotDecode: the bytes so far are taken.
CannotDecodeTakes ==
  /\ result = "error" /\ phase = "idle"
  /\ Parse(Stream.content)
  /\ FilterRests
  /\ UNCHANGED pageVars

CannotDecode ==
  /\ result = "error" /\ phase = "idle"
  /\ LeaveOut
  /\ FilterRests
  /\ UNCHANGED textVars

\* What the decoded bytes say is the content.
ParseStream ==
  /\ Decoded /\ phase = "idle"
  /\ Parse(Stream.content)
  /\ FilterRests
  /\ UNCHANGED pageVars

AddText ==
  /\ phase = "extracted"
  /\ whole' = IF text # <<>> THEN whole \o text \o Space ELSE whole
  /\ parsed' = Append(parsed, [stream |-> next, operators |-> operators])
  /\ next' = next + 1
  /\ TextRests
  /\ UNCHANGED <<streams, lastErr, answer, filterVars>>

\* No text is an error, an error that left text is none.
Answer ==
  /\ Idle /\ next > Len(streams)
  /\ answer' = IF whole = <<>> THEN "error" ELSE "text"
  /\ whole' = TrimSpace(whole)
  /\ UNCHANGED <<streams, next, lastErr, parsed, filterVars, textVars>>

Next ==
  \/ CannotRead \/ ReadStream \/ CannotDecode \/ ParseStream \/ AddText \/ Answer
  \/ FilterNext /\ UNCHANGED <<pageVars, textVars>>
  \/ TextNext /\ UNCHANGED <<pageVars, filterVars>>

Spec == Init /\ [][Next]_vars /\ WF_vars(Next)

-----------------------------------------------------------------------------
\* The items of the sequences of f, one after the other.
Joined(seqs) == FoldLeft(LAMBDA s, t : s \o t, <<>>, seqs)

(***************************************************************************)
(* The text of pages is what the operators of their streams show inside of *)
(* text blocks, in their order, every string once and with the font that   *)
(* was set last in its block; all else is white space.  It is all there    *)
(* even if other streams could not be read or decoded, and of those that   *)
(* could not there is nothing (service.go:577-619, content_parser.go:      *)
(* 740-855).                                                               *)
(***************************************************************************)
TextIsShown ==
  answer # "none" =>
    /\ \A k \in 1..Len(streams) :
         LET readings == {i \in 1..Len(parsed) : parsed[i].stream = k}
         IN  /\ streams[k].readable /\ streams[k].job.good => Cardinality(readings) = 1
             /\ ~streams[k].readable \/ streams[k].fails => readings = {}
    /\ Printed(whole) = Joined([i \in 1..Len(parsed) |->
                                 TextOf(parsed[i].operators, streams[parsed[i].stream].content.fonts)])
    /\ (answer = "error") = (Printed(whole) = <<>>)

(***************************************************************************)
(* "ExtractText" of a document whose pages have all their streams (service *)
(* .go:550): a text block goes on in the next stream of a page.            *)
(***************************************************************************)
BlocksGoOn ==
  answer # "none" /\ ~lastErr =>
    Printed(whole) = TextOf(Joined([k \in 1..Len(streams) |-> streams[k].content.good]),
                            UNION {streams[k].content.fonts : k \in 1..Len(streams)})
=============================================================================
