---------------------------- MODULE StreamFilters ----------------------------
(***************************************************************************)
(* The decoders of internal/pdf/stream_filter.go that are written out      *)
(* there, as loops over their input: ASCIIHexDecode and ASCII85Decode take *)
(* a group of digits per step, RunLengthDecode a run, LZWDecode a code.    *)
(* decodeStream gives what one filter puts out to the next.  White space   *)
(* and delimiters are gone from the digits.  The number of byte values,    *)
(* the base of the digits and the widths of the codes are parameters (256, *)
(* 85, 16 and 9 to 12 in the code), so that TLC reaches a full table.  The *)
(* decoder behind FlateDecode, of another package, is left out.            *)
(***************************************************************************)
EXTENDS Integers, Sequences, SequencesExt

CONSTANTS
  Bytes,              \* how many values a byte has
  Base,               \* of the digits of ASCII85
  HexBase,            \* of the digits of ASCIIHex
  MinBits, MaxBits,   \* widths of the codes of LZW; MaxBits is maxCodeSize
  MaxCodes            \* bound on the codes in an LZW stream

\* The filters of images, which change nothing.
Stubs == {"CCITTFaxDecode", "CCF", "JBIG2Decode", "DCTDecode", "JPXDecode"}
Filter == {"ASCIIHexDecode", "ASCII85Decode", "RunLengthDecode", "LZWDecode"} \union Stubs
z == Base             \* stands for the character, which is no digit

ASSUME ParametersAssumption ==
  /\ Bytes \in Nat \ {0} /\ Base \in Nat \ {0} /\ HexBase * HexBase = Bytes
  /\ MinBits \in Nat /\ MaxBits \in Nat /\ Bytes + 1 < 2^MinBits /\ MinBits <= MaxBits
  /\ MaxCodes \in Nat

VARIABLES
  job,         \* the filters to come, the data, and the text that good data encode
  pos,         \* how much of the data is taken
  result,      \* "none", "reading", "done", "error" or "panic"
  output,
  table,       \* of LZW: from the codes that are strings to their last byte and the code before
  codeSize, nextCode,
  prevCode,    \* 0 for none
  firstChar,
  codes        \* history: the codes read

lzw == <<table, codeSize, nextCode, prevCode, firstChar, codes>>
filterVars == <<job, pos, result, output, lzw>>

clearCode == Bytes
endCode == Bytes + 1
firstCode == Bytes + 2

NoJob == [filters |-> <<>>, data |-> <<>>, text |-> <<>>, good |-> FALSE]

FilterInit ==
  /\ job = NoJob /\ pos = 0 /\ result = "none" /\ output = <<>>
  /\ table = <<>> /\ codeSize = MinBits /\ nextCode = firstCode
  /\ prevCode = 0 /\ firstChar = 0 /\ codes = <<>>

\* The variables of a call are its own.
Call(stream, how, bytes) ==
  /\ job' = stream /\ pos' = 0 /\ result' = how /\ output' = bytes
  /\ table' = <<>> /\ codeSize' = MinBits /\ nextCode' = firstCode
  /\ prevCode' = 0 /\ firstChar' = 0 /\ codes' = <<>>

\* Without a filter the data are the result.
Decode(stream) ==
  IF stream.filters = <<>> THEN Call(stream, "done", stream.data) ELSE Call(stream, "reading", <<>>)

FilterRests == Call(NoJob, "none", <<>>)

Reading(filter) == result = "reading" /\ job.filters[1] = filter
Remaining == Len(job.data) - pos
At(i) == job.data[pos + i]

Emit(bytes, taken) ==
  /\ output' = output \o bytes
  /\ pos' = pos + taken
  /\ UNCHANGED <<job, result, lzw>>

Stop(why) ==
  /\ result' = why
  /\ UNCHANGED <<job, pos, output, lzw>>

\* Mutant of NextFilter: the filters from the last to the first.
NextFilterLast ==
  /\ result = "done" /\ Len(job.filters) > 1
  /\ Decode([job EXCEPT !.filters = Front(job.filters), !.data = output])

NextFilter ==
  /\ result = "done" /\ Len(job.filters) > 1
  /\ Decode([job EXCEPT !.filters = Tail(job.filters), !.data = output])

Stub ==
  /\ result = "reading" /\ job.filters[1] \in Stubs
  /\ Decode([job EXCEPT !.filters = Tail(job.filters)])

Unsupported ==
  /\ result = "reading" /\ job.filters[1] \notin Filter
  /\ Stop("error")

-----------------------------------------------------------------------------
\* A single digit at the end counts as the high one; what is no digit is an error.
HexPair ==
  /\ Reading("ASCIIHexDecode")
  /\ Remaining > 0
  /\ LET low == IF Remaining > 1 THEN At(2) ELSE 0
     IN  IF At(1) \in 0..HexBase-1 /\ low \in 0..HexBase-1
         THEN Emit(<<HexBase * At(1) + low>>, IF Remaining > 1 THEN 2 ELSE 1)
         ELSE Stop("error")

-----------------------------------------------------------------------------
Min2(m, n) == IF m < n THEN m ELSE n

\* The value of up to five digits, in a word of four bytes.
Value(digits) == FoldLeft(LAMBDA v, d : (v * Base + d) % Bytes^4, 0, digits)

ByteOf(value, i) == (value \div Bytes^(4 - i)) % Bytes

BytesOut(count) == IF count > 1 THEN count - 1 ELSE 1

\* A z counts as such only between groups.
Group85 ==
  /\ Reading("ASCII85Decode")
  /\ Remaining > 0
  /\ IF At(1) = z THEN Emit(<<0, 0, 0, 0>>, 1)
     ELSE LET count == Min2(5, Remaining)
              group == SubSeq(job.data, pos + 1, pos + count)
          IN  IF \E i \in 1..count : group[i] \notin 0..Base-1
              THEN Stop("error")
              ELSE Emit([i \in 1..BytesOut(count) |-> ByteOf(Value(group), i)], count)

-----------------------------------------------------------------------------
Half == Bytes \div 2

LiteralRun ==
  /\ Reading("RunLengthDecode")
  /\ Remaining > 0 /\ At(1) < Half
  /\ IF At(1) + 1 > Remaining - 1 THEN Stop("error")
     ELSE Emit([i \in 1..At(1)+1 |-> At(i + 1)], At(1) + 2)

\* Mutant of Repeats: one too few.
RepeatsFewer(length) == Bytes - length

\* byte(257 - length)
Repeats(length) == (Bytes + 1 - length) % Bytes

RepeatRun ==
  /\ Reading("RunLengthDecode")
  /\ Remaining > 0 /\ At(1) > Half
  /\ IF Remaining = 1 THEN Stop("error")
     ELSE Emit([i \in 1..Repeats(At(1)) |-> At(2)], 2)

EndMarker ==
  /\ Reading("RunLengthDecode")
  /\ Remaining > 0 /\ At(1) = Half
  /\ Stop("done")

EndOfData ==
  /\ result = "reading" /\ job.filters[1] \in Filter \ (Stubs \union {"LZWDecode"})
  /\ Remaining = 0
  /\ Stop("done")

-----------------------------------------------------------------------------
\* The bytes of a code from the last to the first, along the prefixes.
Backwards(code) ==
  LET back[c \in 0..2^MaxBits - 1] ==
        IF c < Bytes THEN <<c>> ELSE <<table[c].suffix>> \o back[table[c].prefix]
  IN  back[code]

\* The loop that reverses exchanges its indices, and so ends after one swap.
getString(code) ==
  LET s == Backwards(code)
  IN  [i \in 1..Len(s) |-> IF i = 1 THEN s[Len(s)] ELSE IF i = Len(s) THEN s[1] ELSE s[i]]

LZW == Reading("LZWDecode") /\ Len(codes) < MaxCodes

Took(code) ==
  /\ code \in 0..(2^codeSize - 1)
  /\ codes' = Append(codes, code)

\* The data end, perhaps within a code.
LZWDataEnd == Reading("LZWDecode") /\ Stop("done")

\* Mutant of LZWClear: the string before is not forgotten.
LZWClearKeepsPrev ==
  /\ LZW
  /\ Took(clearCode)
  /\ codeSize' = MinBits
  /\ nextCode' = firstCode
  /\ UNCHANGED <<job, pos, result, output, table, prevCode, firstChar>>

\* The entries stay in the table.
LZWClear ==
  /\ LZW
  /\ Took(clearCode)
  /\ codeSize' = MinBits
  /\ nextCode' = firstCode
  /\ prevCode' = 0
  /\ UNCHANGED <<job, pos, result, output, table, firstChar>>

LZWEnd ==
  /\ LZW
  /\ Took(endCode)
  /\ result' = "done"
  /\ UNCHANGED <<job, pos, output, table, codeSize, nextCode, prevCode, firstChar>>

\* Mutant of Valid: a string that is being defined needs no string before it.
ValidUpTo(code) == code <= nextCode

\* A code above the next one, or the next one with no string before it, is an error.
Valid(code) == code < nextCode \/ (code = nextCode /\ prevCode # 0)

LZWReject ==
  /\ LZW
  /\ \E code \in 0..(2^codeSize - 1) \ {clearCode, endCode} : Took(code) /\ ~Valid(code)
  /\ result' = "error"
  /\ UNCHANGED <<job, pos, output, table, codeSize, nextCode, prevCode, firstChar>>

StringOf(code) == IF code < nextCode THEN getString(code) ELSE Append(getString(prevCode), firstChar)

\* The new entry is beyond the array when the table is full.
AddEntry(suffix) ==
  IF nextCode >= 2^MaxBits
  THEN result' = "panic" /\ UNCHANGED <<table, codeSize, nextCode>>
  ELSE /\ table' = [c \in DOMAIN table \union {nextCode} |->
                      IF c = nextCode THEN [prefix |-> prevCode, suffix |-> suffix] ELSE table[c]]
       /\ nextCode' = nextCode + 1
       /\ codeSize' = IF nextCode + 1 >= 2^codeSize /\ codeSize < MaxBits THEN codeSize + 1 ELSE codeSize
       /\ UNCHANGED result

LZWCode ==
  /\ LZW
  /\ \E code \in 0..(2^codeSize - 1) \ {clearCode, endCode} :
       /\ Took(code)
       /\ Valid(code)
       /\ output' = output \o StringOf(code)
       /\ firstChar' = StringOf(code)[1]
       /\ IF prevCode # 0 THEN AddEntry(StringOf(code)[1])
                          ELSE UNCHANGED <<table, codeSize, nextCode, result>>
       /\ prevCode' = code
  /\ UNCHANGED <<job, pos>>

Decoded == result = "done" /\ Len(job.filters) <= 1

FilterNext ==
  \/ NextFilter \/ Stub \/ Unsupported
  \/ HexPair \/ Group85 \/ LiteralRun \/ RepeatRun \/ EndMarker \/ EndOfData
  \/ LZWDataEnd \/ LZWClear \/ LZWEnd \/ LZWReject \/ LZWCode

-----------------------------------------------------------------------------
(***************************************************************************)
(* Digits and runs, in each other, too, decode to the bytes that they      *)
(* encode (stream_filter.go:137-365).                                      *)
(***************************************************************************)
BytesComeBack ==
  job.good =>
    /\ Decoded => output = job.text
    /\ result # "error"

(***************************************************************************)
(* The reference for LZW: the strings themselves instead of a table of     *)
(* prefixes.  A full table takes no more.                                  *)
(***************************************************************************)
Fresh == [strings |-> <<>>, prev |-> <<>>, out |-> <<>>, longest |-> 1, ok |-> TRUE]

RefString(s, c) ==
  IF c < Bytes THEN <<c>>
  ELSE IF c - firstCode < Len(s.strings) THEN s.strings[c - firstCode + 1]
  ELSE Append(s.prev, s.prev[1])

RefValid(s, c) ==
  \/ c < firstCode + Len(s.strings)
  \/ c = firstCode + Len(s.strings) /\ s.prev # <<>>

RefStep(s, c) ==
  IF ~s.ok \/ c = endCode THEN s
  ELSE IF c = clearCode THEN [s EXCEPT !.strings = <<>>, !.prev = <<>>]
  ELSE IF ~RefValid(s, c) THEN [s EXCEPT !.ok = FALSE]
  ELSE LET string == RefString(s, c)
           full == s.prev = <<>> \/ firstCode + Len(s.strings) = 2^MaxBits
       IN  [s EXCEPT !.strings = IF full THEN @ ELSE Append(@, Append(s.prev, string[1])),
                     !.prev = string,
                     !.out = @ \o string,
                     !.longest = IF Len(string) > @ THEN Len(string) ELSE @]

UsesLZW == job.filters # <<>> /\ job.filters[1] = "LZWDecode"

Reference == FoldLeft(RefStep, Fresh, codes)

(***************************************************************************)
(* What decodeLZW puts out is what the codes stand for, and it finds an    *)
(* error just where the codes have one (stream_filter.go:382-484) - as     *)
(* long as no byte is 0, no string has more than three bytes, and the      *)
(* table is not full.                                                      *)
(***************************************************************************)
DecodesCodes ==
  UsesLZW /\ result # "panic" /\ (\A i \in 1..Len(codes) : codes[i] # 0)
    /\ Reference.longest <= 3 =>
      /\ output = Reference.out
      /\ (result = "error") = ~Reference.ok

(***************************************************************************)
(* Whatever codes a file has, the strings in the table end: an entry in    *)
(* use leads to a byte, or to one that was there before it, and never to   *)
(* one of before the last clear code, so that getString stops and does not *)
(* read an entry that is not there (stream_filter.go:517-537).             *)
(***************************************************************************)
StringsEnd ==
  \A c \in firstCode..nextCode-1 :
    /\ c \in DOMAIN table
    /\ table[c].prefix \in 1..c-1 \ {clearCode, endCode}

(***************************************************************************)
(* "getString reconstructs the byte sequence for a code from the LZW       *)
(* table" (stream_filter.go:516).                                          *)
(***************************************************************************)
StringsAreSequences ==
  \A c \in firstCode..nextCode-1 : getString(c) = Reverse(Backwards(c))

(***************************************************************************)
(* "Uses standard LZW algorithm" (stream_filter.go:373): the bytes are     *)
(* those of the strings whatever they are, and a full table is no end.     *)
(***************************************************************************)
ZeroBytes ==
  UsesLZW /\ result # "panic" /\ Reference.longest <= 3 /\ Reference.ok =>
    output = Reference.out

NoPanic == result # "panic"

(***************************************************************************)
(* "This implementation uses EarlyChange=1 behavior" (stream_filter.go:    *)
(* 379): a width grows one code before the table is full to it.            *)
(***************************************************************************)
EarlyChange ==
  nextCode > firstCode =>
    codeSize = CHOOSE k \in MinBits..MaxBits :
                 /\ nextCode + 1 < 2^k \/ k = MaxBits
                 /\ k = MinBits \/ nextCode + 1 >= 2^(k-1)

(***************************************************************************)
(* "5 chars -> 4 bytes, 4 chars -> 3 bytes, etc." (stream_filter.go:297):  *)
(* a last group of fewer digits has its bytes, too.                        *)
(***************************************************************************)
PartialGroups == Decoded => output = job.text
=============================================================================
