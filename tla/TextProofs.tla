------------------------------ MODULE TextProofs ------------------------------
(***************************************************************************)
(* The table of decodeLZW (internal/pdf/stream_filter.go:382-537) for      *)
(* every sequence of codes that a stream may have, and any number of byte  *)
(* values, widths and codes, with the extraction of the text around it.    *)
(***************************************************************************)
EXTENDS TextExtraction, TLAPS

(***************************************************************************)
(* As long as codes are read, the code before is that of a string: a byte  *)
(* or an entry that is in the table.  The code 0 is taken for none.        *)
(***************************************************************************)
PrevIsString ==
  result = "reading" /\ prevCode # 0 => prevCode \in 1..nextCode-1 \ {clearCode, endCode}

TableInv ==
  /\ nextCode \in Nat /\ nextCode >= firstCode
  /\ PrevIsString
  /\ StringsEnd

\* A table without entries.
Empty == nextCode = firstCode /\ prevCode = 0

LEMMA FirstCodeTyped == firstCode \in Nat /\ clearCode \in Nat /\ endCode \in Nat
BY ParametersAssumption DEF firstCode, clearCode, endCode

LEMMA EmptyIsTrue == Empty => TableInv
BY FirstCodeTyped DEF Empty, TableInv, PrevIsString, StringsEnd

\* The calls of the decoders and the end of one begin anew.
LEMMA CallEmpties ==
  ASSUME NEW stream, NEW how, NEW bytes, Call(stream, how, bytes)
  PROVE  TableInv'
<1>1. Empty'
  BY DEF Call, Empty, firstCode
<1> QED BY <1>1, FirstCodeTyped DEF Empty, TableInv, PrevIsString, StringsEnd, firstCode, clearCode, endCode

LEMMA DecodeEmpties ==
  ASSUME NEW stream, Decode(stream)
  PROVE  TableInv'
BY CallEmpties DEF Decode

\* What leaves the table and the code before as they are.
LEMMA SameTable ==
  ASSUME TableInv, UNCHANGED <<table, nextCode, prevCode>>, result = "reading" \/ result' # "reading"
  PROVE  TableInv'
BY DEF TableInv, PrevIsString, StringsEnd, firstCode, clearCode, endCode

LEMMA ClearKeeps ==
  ASSUME TableInv, LZWClear
  PROVE  TableInv'
<1>1. Empty'
  BY DEF LZWClear, Empty, firstCode
<1> QED BY <1>1, FirstCodeTyped DEF Empty, TableInv, PrevIsString, StringsEnd, firstCode, clearCode, endCode

\* The new entry leads to the code before, which is below it.
LEMMA EntryKeeps ==
  ASSUME TableInv, result = "reading", prevCode # 0, NEW suffix, AddEntry(suffix)
  PROVE  /\ nextCode' \in Nat /\ nextCode' >= nextCode
         /\ StringsEnd'
         /\ result' = "reading" => nextCode' = nextCode + 1
<1>1. /\ nextCode \in Nat /\ nextCode >= firstCode /\ firstCode \in Nat
      /\ prevCode \in 1..nextCode-1 \ {clearCode, endCode}
      /\ \A c \in firstCode..nextCode-1 :
           c \in DOMAIN table /\ table[c].prefix \in 1..c-1 \ {clearCode, endCode}
  BY FirstCodeTyped DEF TableInv, PrevIsString, StringsEnd
<1>2. CASE nextCode >= 2^MaxBits
  <2>1. result' = "panic" /\ nextCode' = nextCode /\ table' = table
    BY <1>2 DEF AddEntry
  <2> QED BY <1>1, <2>1 DEF StringsEnd, firstCode, clearCode, endCode
<1>3. CASE ~(nextCode >= 2^MaxBits)
  <2> DEFINE entry == [prefix |-> prevCode, suffix |-> suffix]
  <2>1. /\ table' = [c \in DOMAIN table \union {nextCode} |->
                       IF c = nextCode THEN entry ELSE table[c]]
        /\ nextCode' = nextCode + 1
    BY <1>3 DEF AddEntry
  <2>2. entry.prefix = prevCode
    OBVIOUS
  <2> HIDE DEF entry
  <2>3. ASSUME NEW c \in firstCode..nextCode
        PROVE  c \in DOMAIN table' /\ table'[c].prefix \in 1..c-1 \ {clearCode, endCode}
    <3>1. CASE c = nextCode
      BY <1>1, <2>1, <2>2, <3>1
    <3>2. CASE c # nextCode
      <4>1. c \in firstCode..nextCode-1
        BY <1>1, <3>2
      <4> QED BY <1>1, <2>1, <3>2, <4>1
    <3> QED BY <3>1, <3>2
  <2>4. firstCode..nextCode'-1 = firstCode..nextCode
    BY <1>1, <2>1
  <2>5. StringsEnd'
    BY <2>3, <2>4 DEF StringsEnd, firstCode, clearCode, endCode
  <2> QED BY <1>1, <2>1, <2>5
<1> QED BY <1>2, <1>3

\* A code that is valid is that of a string, then if not before.
LEMMA CodeKeeps ==
  ASSUME TableInv, LZWCode
  PROVE  TableInv'
<1>1. result = "reading"
  BY DEF LZWCode, LZW, Reading
<1>2. PICK code \in 0..(2^codeSize - 1) \ {clearCode, endCode} :
        /\ Valid(code)
        /\ IF prevCode # 0 THEN AddEntry(StringOf(code)[1])
                           ELSE UNCHANGED <<table, codeSize, nextCode, result>>
        /\ prevCode' = code
  BY DEF LZWCode
<1>3. code \in Nat /\ code # clearCode /\ code # endCode
  OBVIOUS
<1>4. nextCode \in Nat
  BY DEF TableInv
<1>5. CASE prevCode # 0
  <2> DEFINE suffix == StringOf(code)[1]
  <2>1. AddEntry(suffix)
    BY <1>2, <1>5
  <2> HIDE DEF suffix
  <2>2. /\ nextCode' \in Nat /\ nextCode' >= nextCode
        /\ StringsEnd'
        /\ result' = "reading" => nextCode' = nextCode + 1
    BY <1>1, <1>5, <2>1, EntryKeeps
  <2>3. code <= nextCode
    BY <1>2, <1>3, <1>4 DEF Valid
  <2>4. PrevIsString'
    BY <1>2, <1>3, <1>4, <2>2, <2>3 DEF PrevIsString, clearCode, endCode
  <2> QED BY <1>4, <2>2, <2>4, FirstCodeTyped DEF TableInv, firstCode
<1>6. CASE prevCode = 0
  <2>1. UNCHANGED <<table, nextCode, result>> /\ code < nextCode
    BY <1>2, <1>6 DEF Valid
  <2>2. PrevIsString'
    BY <1>2, <1>3, <1>4, <2>1 DEF PrevIsString, clearCode, endCode
  <2> QED BY <2>1, <2>2 DEF TableInv, StringsEnd, firstCode, clearCode, endCode
<1> QED BY <1>5, <1>6

LEMMA FilterKeeps == TableInv /\ FilterNext => TableInv'
<1> SUFFICES ASSUME TableInv, FilterNext PROVE TableInv'
  OBVIOUS
<1>1. CASE NextFilter
  BY <1>1, DecodeEmpties DEF NextFilter
<1>2. CASE Stub
  BY <1>2, DecodeEmpties DEF Stub
<1>3. CASE Unsupported
  BY <1>3, SameTable DEF Unsupported, Stop, lzw
<1>4. CASE HexPair
  <2>1. UNCHANGED <<table, nextCode, prevCode>> /\ result = "reading"
    BY <1>4 DEF HexPair, Reading, Emit, Stop, lzw
  <2> QED BY <2>1, SameTable
<1>5. CASE Group85
  <2>1. UNCHANGED <<table, nextCode, prevCode>> /\ result = "reading"
    BY <1>5 DEF Group85, Reading, Emit, Stop, lzw
  <2> QED BY <2>1, SameTable
<1>6. CASE LiteralRun
  <2>1. UNCHANGED <<table, nextCode, prevCode>> /\ result = "reading"
    BY <1>6 DEF LiteralRun, Reading, Emit, Stop, lzw
  <2> QED BY <2>1, SameTable
<1>7. CASE RepeatRun
  <2>1. UNCHANGED <<table, nextCode, prevCode>> /\ result = "reading"
    BY <1>7 DEF RepeatRun, Reading, Emit, Stop, lzw
  <2> QED BY <2>1, SameTable
<1>8. CASE EndMarker \/ EndOfData \/ LZWDataEnd
  <2>1. UNCHANGED <<table, nextCode, prevCode>> /\ result = "reading"
    BY <1>8 DEF EndMarker, EndOfData, LZWDataEnd, Reading, Stop, lzw
  <2> QED BY <2>1, SameTable
<1>9. CASE LZWEnd \/ LZWReject
  <2>1. UNCHANGED <<table, nextCode, prevCode>> /\ result = "reading"
    BY <1>9 DEF LZWEnd, LZWReject, LZW, Reading
  <2> QED BY <2>1, SameTable
<1> QED BY <1>1, <1>2, <1>3, <1>4, <1>5, <1>6, <1>7, <1>8, <1>9, ClearKeeps, CodeKeeps DEF FilterNext

LEMMA TableStep == TableInv /\ [Next]_vars => TableInv'
<1> SUFFICES ASSUME TableInv, [Next]_vars PROVE TableInv'
  OBVIOUS
<1>1. CASE UNCHANGED filterVars
  <2>1. UNCHANGED <<table, nextCode, prevCode, result>>
    BY <1>1 DEF filterVars, lzw
  <2> QED BY <2>1, SameTable
<1>2. CASE ReadStream
  BY <1>2, DecodeEmpties DEF ReadStream
<1>3. CASE FilterRests
  BY <1>3, CallEmpties DEF FilterRests
<1>4. CASE FilterNext
  BY <1>4, FilterKeeps
<1> QED BY <1>1, <1>2, <1>3, <1>4
        DEF Next, CannotRead, CannotDecode, ParseStream, AddText, Answer, vars

(***************************************************************************)
(* Whatever codes a stream has, the strings in the table end: an entry in  *)
(* use leads to a byte, or to an entry that was there before it, so that   *)
(* getString stops and reads nothing that is not there (stream_filter.go:  *)
(* 517-537).                                                               *)
(***************************************************************************)
THEOREM TableStringsEnd == Spec => []StringsEnd
<1>1. Init => TableInv
  BY EmptyIsTrue DEF Init, FilterInit, Empty
<1>2. TableInv => StringsEnd
  BY DEF TableInv
<1> QED BY <1>1, <1>2, TableStep, PTL DEF Spec
=============================================================================
