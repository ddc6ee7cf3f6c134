----------------------------- MODULE ContentText -----------------------------
(***************************************************************************)
(* From the content stream of a page to its text: parseContentStream and   *)
(* extractTextWithFonts (internal/pdf/content_parser.go).  The stream is a *)
(* sequence of tokens; a step of the parser takes an operand, an operator  *)
(* or what it skips, a step of the extraction an operator.  The parser     *)
(* goes on after an error, one character further, so that of a word in the *)
(* wrong place the tail may be left, and the tail may be an operator.      *)
(*                                                                         *)
(* Of a number there is how far below zero it is: "wide" is below -250,    *)
(* "back" below -50, "minus" below 0.  Decoding the bytes of a string is   *)
(* to mark it with its font.                                               *)
(***************************************************************************)
EXTENDS Integers, Sequences, FiniteSets, SequencesExt

VARIABLES
  content,      \* its tokens, the operators that are good after the damage, the fonts of the page
  at,           \* the token that the lexer is at
  operands,     \* those collected, none outside of an operation
  operators,    \* the result of the parser
  phase,        \* "idle", "parse", "extract" or "extracted"
  taken,        \* how many operators the extraction has taken
  inTextBlock, needsSpace, currentFont,
  text          \* the result: strings with their fonts, and white space

parser == <<content, at, operands, operators>>
state == <<inTextBlock, needsSpace, currentFont>>
textVars == <<parser, phase, taken, state, text>>

NoContent == [tokens |-> <<>>, good |-> <<>>, damaged |-> FALSE, fonts |-> {}]

TextInit ==
  /\ content = NoContent /\ at = 1 /\ operands = <<>> /\ operators = <<>>
  /\ phase = "idle" /\ taken = 0
  /\ inTextBlock = FALSE /\ needsSpace = FALSE /\ currentFont = ""
  /\ text = <<>>

\* Every stream is parsed, and its text extracted, with variables of their own.
Begin(c, how) ==
  /\ content' = c /\ at' = 1 /\ operands' = <<>> /\ operators' = <<>>
  /\ phase' = how /\ taken' = 0
  /\ inTextBlock' = FALSE /\ needsSpace' = FALSE /\ currentFont' = ""
  /\ text' = <<>>

Parse(c) == Begin(c, "parse")
TextRests == Begin(NoContent, "idle")

-----------------------------------------------------------------------------
(***************************************************************************)
(* Tokens: "str", "name" and "num" with their value, the "open" and        *)
(* "close" of an array, an "op", a "word" that is no operator with the     *)
(* operator that is left at its end, "cut" for a string or a dictionary    *)
(* that does not end, and "junk" for any other character.                  *)
(***************************************************************************)
Token(i) == content.tokens[i]
Is(i, t) == i <= Len(content.tokens) /\ Token(i).t = t
End == Len(content.tokens) + 1
Scalar(i) == Is(i, "str") \/ Is(i, "name") \/ Is(i, "num")

Read(next, operand) == [ok |-> TRUE, next |-> next, operand |-> operand]
Failed(next) == [ok |-> FALSE, next |-> next, operand |-> <<>>]

\* The arrays that are open after k, of those that open at i and behind it.
Depth(i, k) ==
  LET Count(t) == Cardinality({j \in i..k : Is(j, t)}) IN Count("open") - Count("close")

Breaks(k) == ~(Scalar(k) \/ Is(k, "open") \/ Is(k, "close"))

(***************************************************************************)
(* An operand is the sequence of its tokens: a scalar, or an array to the  *)
(* end that matches its beginning.  It fails where an element fails.       *)
(***************************************************************************)
ReadOperand(i) ==
  LET last == CHOOSE k \in i..End :
                /\ Breaks(k) \/ Depth(i, k) <= 0
                /\ \A j \in i..k-1 : ~Breaks(j) /\ Depth(i, j) > 0
  IN  IF Breaks(last) \/ Depth(i, last) < 0 THEN Failed(IF Is(last, "cut") THEN End ELSE last)
      ELSE Read(last + 1, SubSeq(content.tokens, i, last))

Parsing == phase = "parse" /\ at < End
Starting == Parsing /\ operands = <<>>
Collecting == Parsing /\ operands # <<>>

GoOn(next) == at' = next /\ UNCHANGED <<content, phase, taken, state, text>>

\* Mutant of Operation: the operands stay for the next operator.
OperationKeeps(name) ==
  operators' = Append(operators, [op |-> name, operands |-> operands]) /\ operands' = operands

Operation(name) ==
  operators' = Append(operators, [op |-> name, operands |-> operands]) /\ operands' = <<>>

Operator ==
  /\ Parsing
  /\ Is(at, "op")
  /\ Operation(Token(at).v)
  /\ GoOn(at + 1)

\* Where an operator may begin any word is taken for one; other characters are skipped.
StrayWord ==
  /\ Starting
  /\ Is(at, "word")
  /\ Operation("unknown")
  /\ GoOn(at + 1)

StrayCharacter ==
  /\ Starting
  /\ Is(at, "junk") \/ Is(at, "close")
  /\ UNCHANGED <<operands, operators>>
  /\ GoOn(at + 1)

\* An operand at the end has no operator.
FirstOperand ==
  /\ Starting
  /\ ReadOperand(at).ok
  /\ operands' = IF ReadOperand(at).next = End THEN <<>> ELSE <<ReadOperand(at).operand>>
  /\ UNCHANGED operators
  /\ GoOn(ReadOperand(at).next)

\* An operator that stands where the operand fails is taken whole, a word is not.
FirstOperandFails ==
  /\ Starting
  /\ Is(at, "open") \/ Is(at, "cut")
  /\ ~ReadOperand(at).ok
  /\ LET next == ReadOperand(at).next
     IN  /\ IF Is(next, "op") THEN Operation(Token(next).v) ELSE UNCHANGED <<operands, operators>>
         /\ GoOn(IF next = End THEN End ELSE next + 1)

NextOperand ==
  /\ Collecting
  /\ ReadOperand(at).ok
  /\ operands' = Append(operands, ReadOperand(at).operand)
  /\ UNCHANGED operators
  /\ GoOn(ReadOperand(at).next)

\* What is left of an operator without its first character, where that is one: of "cm" the
\* "m", of "q" nothing.
Tails(op) == CASE op \in {"Tj", "TJ", "Tf", "Td"} -> {"other"}
               [] op = "other" -> {"other", ""}
               [] OTHER -> {""}

\* The lexer goes on one character after the failure, and so on through a word.
NextOperandFails ==
  /\ Collecting
  /\ ~Is(at, "op")
  /\ ~ReadOperand(at).ok
  /\ LET next == ReadOperand(at).next
     IN  /\ \E left \in IF Is(next, "op") THEN Tails(Token(next).v)
                        ELSE {IF Is(next, "word") THEN Token(next).v ELSE ""} :
              IF left # "" THEN Operation(left) ELSE UNCHANGED <<operands, operators>>
         /\ GoOn(IF next = End THEN End ELSE next + 1)

\* Operands without an operator are lost.
Parsed ==
  /\ phase = "parse" /\ at = End
  /\ phase' = "extract"
  /\ UNCHANGED <<parser, taken, state, text>>

-----------------------------------------------------------------------------
Next1 == operators[taken + 1]
Given(n) == Len(Next1.operands) >= n

Takes(ops) ==
  /\ phase = "extract" /\ taken < Len(operators)
  /\ Next1.op \in ops
  /\ taken' = taken + 1
  /\ UNCHANGED <<parser, phase>>

\* extractOperandString, of what is no string the empty one.
OperandString(operand) == IF operand[1].t = "str" THEN operand[1].v ELSE ""

\* No text is as if nothing was written.
Written(string, font) ==
  IF string = "" THEN <<>> ELSE <<<<string, IF font \in content.fonts THEN font ELSE "">>>>
Space == <<<<" ", "">>>>
NewLine == <<<<"\n", "">>>>
\* White space never comes first.
Behind(white) == IF text # <<>> THEN white ELSE <<>>

BeginText ==
  /\ Takes({"BT"})
  /\ inTextBlock' = TRUE
  /\ needsSpace' = FALSE
  /\ currentFont' = ""
  /\ UNCHANGED text

\* Mutant of EndText: what comes after is taken for text, too.
EndTextKeeps ==
  /\ Takes({"ET"})
  /\ needsSpace' = FALSE
  /\ currentFont' = ""
  /\ UNCHANGED <<inTextBlock, text>>

EndText ==
  /\ Takes({"ET"})
  /\ inTextBlock' = FALSE
  /\ needsSpace' = FALSE
  /\ currentFont' = ""
  /\ UNCHANGED text

SetFont ==
  /\ Takes({"Tf"})
  /\ currentFont' = IF ~Given(1) THEN currentFont
                    ELSE IF Next1.operands[1][1].t = "name" THEN Next1.operands[1][1].v
                    ELSE OperandString(Next1.operands[1])
  /\ UNCHANGED <<inTextBlock, needsSpace, text>>

ShowText ==
  /\ Takes({"Tj"})
  /\ IF inTextBlock /\ Given(1)
     THEN /\ text' = text \o (IF needsSpace THEN Behind(Space) ELSE <<>>)
                          \o Written(OperandString(Next1.operands[1]), currentFont)
          /\ needsSpace' = TRUE
     ELSE UNCHANGED <<text, needsSpace>>
  /\ UNCHANGED <<inTextBlock, currentFont>>

\* Whether a token is not within an array in the array.
Direct(array, i) ==
  LET Count(t) == Cardinality({j \in 2..i-1 : array[j].t = t}) IN Count("open") = Count("close")

\* A space where a wide gap is between two strings; other elements have no effect.
AddElement(shown, array, i) ==
  IF array[i].t # "str" \/ ~Direct(array, i) THEN shown
  ELSE LET gap == shown.needsSpace /\ shown.text # <<>> /\ array[i-1] = [t |-> "num", v |-> "wide"]
       IN  [text |-> shown.text \o (IF gap THEN Space ELSE <<>>) \o Written(array[i].v, currentFont),
            needsSpace |-> TRUE]

ShowArray ==
  /\ Takes({"TJ"})
  /\ IF inTextBlock /\ Given(1) /\ Next1.operands[1][1].t = "open"
     THEN LET array == Next1.operands[1]
              shown == FoldLeft(LAMBDA s, i : AddElement(s, array, i),
                                [text |-> text, needsSpace |-> needsSpace],
                                [i \in 1..Len(array) - 2 |-> i + 1])
          IN  text' = shown.text /\ needsSpace' = shown.needsSpace
     ELSE UNCHANGED <<text, needsSpace>>
  /\ UNCHANGED <<inTextBlock, currentFont>>

\* The string is the first operand of ', the third of ".
ShowOnNextLine ==
  /\ Takes({"'", "\""})
  /\ LET n == IF Next1.op = "'" THEN 1 ELSE 3
     IN  IF inTextBlock /\ Given(n)
         THEN /\ text' = text \o Behind(NewLine) \o Written(OperandString(Next1.operands[n]), currentFont)
              /\ needsSpace' = TRUE
         ELSE UNCHANGED <<text, needsSpace>>
  /\ UNCHANGED <<inTextBlock, currentFont>>

NextLine ==
  /\ Takes({"T*"})
  /\ text' = text \o (IF inTextBlock THEN Behind(NewLine) ELSE <<>>)
  /\ needsSpace' = FALSE
  /\ UNCHANGED <<inTextBlock, currentFont>>

\* Operands that are no numbers are 0.
Below(operand, classes) == operand[1].t = "num" /\ operand[1].v \in classes

MovePosition ==
  /\ Takes({"Td", "TD"})
  /\ IF inTextBlock /\ Given(2)
     THEN /\ text' = text
               \o (IF Below(Next1.operands[2], {"wide", "back", "minus"}) THEN Behind(NewLine) ELSE <<>>)
               \o (IF Below(Next1.operands[1], {"wide", "back"}) /\ needsSpace THEN Behind(Space) ELSE <<>>)
          /\ needsSpace' = FALSE
     ELSE UNCHANGED <<text, needsSpace>>
  /\ UNCHANGED <<inTextBlock, currentFont>>

PassOperator == Takes({"other", "unknown"}) /\ UNCHANGED <<state, text>>

White(item) == item \in {Space[1], NewLine[1]}

\* White space never comes first.
TrimSpace(items) ==
  LET ends == CHOOSE n \in 0..Len(items) :
                /\ n = 0 \/ ~White(items[n])
                /\ \A i \in n+1..Len(items) : White(items[i])
  IN  SubSeq(items, 1, ends)

Extracted ==
  /\ phase = "extract" /\ taken = Len(operators)
  /\ phase' = "extracted"
  /\ text' = TrimSpace(text)
  /\ UNCHANGED <<parser, taken, state>>

TextNext ==
  \/ Operator \/ StrayWord \/ StrayCharacter \/ FirstOperand \/ FirstOperandFails
  \/ NextOperand \/ NextOperandFails \/ Parsed
  \/ BeginText \/ EndText \/ SetFont \/ ShowText \/ ShowArray \/ ShowOnNextLine
  \/ NextLine \/ MovePosition \/ PassOperator \/ Extracted

-----------------------------------------------------------------------------
LastOf(s, n) == SubSeq(s, Len(s) - n + 1, Len(s))

(***************************************************************************)
(* The parser finds its way back: after any damage that is not a string or *)
(* dictionary without an end, all operators but the next two are those     *)
(* that the stream has, with their own operands; without damage all are    *)
(* (content_parser.go:530-624).                                            *)
(***************************************************************************)
Resynchronises ==
  LET n == Len(content.good) - (IF content.damaged THEN 2 ELSE 0)
  IN  phase \in {"extract", "extracted"} /\ n > 0 =>
        /\ Len(operators) >= n
        /\ LastOf(operators, n) = LastOf(content.good, n)

\* The place of the last operator of names before k, 0 if there is none.
LastBefore(ops, k, names) ==
  CHOOSE i \in 0..k-1 :
    /\ i = 0 \/ ops[i].op \in names
    /\ \A j \in i+1..k-1 : ops[j].op \notin names

Inside(ops, k) ==
  LET b == LastBefore(ops, k, {"BT", "ET"}) IN b # 0 /\ ops[b].op = "BT"

\* The font that was set last in the text block.
FontAt(ops, k) ==
  LET sets == {j \in LastBefore(ops, k, {"BT", "ET"})+1..k-1 :
                 ops[j].op = "Tf" /\ ops[j].operands # <<>>}
      last == CHOOSE j \in sets : \A i \in sets : i <= j
      token == ops[last].operands[1][1]
  IN  IF sets = {} THEN "" ELSE IF token.t \in {"name", "str"} THEN token.v ELSE ""

\* The strings that an operator shows.
Shown(op) ==
  LET given == op.operands
      n == IF op.op = "\"" THEN 3 ELSE 1
      array == given[1]
      strings == IF op.op = "TJ"
                 THEN LET own == SelectSeq([i \in 1..Len(array) |-> i], LAMBDA i : i > 1 /\ Direct(array, i))
                      IN  [i \in 1..Len(own) |-> array[own[i]]]
                 ELSE <<given[n][1]>>
  IN  IF op.op \notin {"Tj", "TJ", "'", "\""} \/ Len(given) < n \/ (op.op = "TJ" /\ array[1].t # "open")
      THEN <<>>
      ELSE SelectSeq(strings, LAMBDA token : token.t = "str" /\ token.v # "")

\* What a list of operators shows inside of text blocks, each string with its font.
TextOf(ops, fonts) ==
  FoldLeft(LAMBDA s, k :
             IF Inside(ops, k)
             THEN s \o [i \in 1..Len(Shown(ops[k])) |->
                          <<Shown(ops[k])[i].v, IF FontAt(ops, k) \in fonts THEN FontAt(ops, k) ELSE "">>]
             ELSE s,
           <<>>, [k \in 1..Len(ops) |-> k])

Printed(items) == SelectSeq(items, LAMBDA item : ~White(item))
=============================================================================
