--------------------------- MODULE MCTextExtraction --------------------------
(***************************************************************************)
(* Bytes of four values and what encodes them, for LZW every sequence of   *)
(* codes up to the bound; contents with every short sequence of text       *)
(* operators, and with every short damage before three good ones; pages    *)
(* of up to three streams of which some cannot be read or decoded.         *)
(***************************************************************************)
EXTENDS TextExtraction

MCByte == 0..Bytes-1
SeqsUpTo(S, lo, hi) == UNION {[1..k -> S] : k \in lo..hi}
Job(filters, data, txt) == [filters |-> filters, data |-> data, text |-> txt, good |-> TRUE]

\* Two digits for a byte; a last digit of 0 may be left out.
HexData(txt) == [i \in 1..2*Len(txt) |-> IF i % 2 = 1 THEN txt[(i + 1) \div 2] \div HexBase
                                                    ELSE txt[i \div 2] % HexBase]
HexJobs ==
  {Job(<<"ASCIIHexDecode">>, HexData(t), t) : t \in SeqsUpTo(MCByte, 0, 3)}
    \union {Job(<<"ASCIIHexDecode">>, Front(HexData(t)), t) :
              t \in {u \in SeqsUpTo(MCByte, 1, 3) : u[Len(u)] % HexBase = 0}}

\* Five digits for four bytes; one less for one byte less.
Number(bytes) == FoldLeft(LAMBDA v, b : v * Bytes + b, 0, bytes \o [i \in 1..4-Len(bytes) |-> 0])
Digits85(bytes) ==
  LET rounded == IF Len(bytes) < 4 THEN Number(bytes) + Base^(4-Len(bytes)) - 1 ELSE Number(bytes)
  IN  [i \in 1..Len(bytes)+1 |-> (rounded \div Base^(5-i)) % Base]
Group(bytes) == IF bytes = <<0, 0, 0, 0>> THEN <<z>> ELSE Digits85(bytes)

GroupJobs ==
  {Job(<<"ASCII85Decode">>, Group(t), t) : t \in [1..4 -> MCByte]}
    \union {Job(<<"ASCII85Decode">>, Group(t) \o Group(u), t \o u) :
              t, u \in {<<0, 0, 0, 0>>, <<0, 0, 0, 1>>, <<3, 3, 3, 3>>, <<1, 0, 2, 0>>}}

LastGroups ==
  {Job(<<"ASCII85Decode">>, Group(t) \o Digits85(u), t \o u) :
     t \in {<<0, 0, 0, 0>>, <<1, 0, 2, 0>>}, u \in SeqsUpTo(MCByte, 1, 3)}

\* Up to three runs, with or without the end marker and something after it.
Literals == {[data |-> <<Len(t) - 1>> \o t, text |-> t] : t \in SeqsUpTo(MCByte, 1, Half)}
Repeated == {[data |-> <<n, b>>, text |-> [i \in 1..Bytes+1-n |-> b]] : n \in Half+1..Bytes-1, b \in MCByte}
RunJobs ==
  LET runs == SeqsUpTo({r \in Literals \union Repeated : \A i \in 1..Len(r.text) : r.text[i] \in {0, 2}}, 0, 3)
      all(rs, part(_)) == FoldLeft(LAMBDA s, r : s \o part(r), <<>>, rs)
  IN  {Job(<<"RunLengthDecode">>, all(rs, LAMBDA r : r.data) \o end, all(rs, LAMBDA r : r.text)) :
         rs \in runs, end \in {<<>>, <<Half>>, <<Half, 0>>}}

\* Runs written as digits; digits of digits; an image filter between.
ChainedJobs ==
  {Job(<<"ASCIIHexDecode", "RunLengthDecode">>, HexData(j.data), j.text) :
     j \in {i \in RunJobs : Len(i.data) \in 3..5}}
    \union {Job(<<"ASCIIHexDecode", "DCTDecode", "ASCIIHexDecode">>, HexData(HexData(t)), t) :
              t \in SeqsUpTo(MCByte, 1, 2)}
    \union {Job(<<>>, t, t) : t \in SeqsUpTo(MCByte, 0, 2)}

LZWJob == [filters |-> <<"LZWDecode">>, data |-> <<>>, text |-> <<>>, good |-> FALSE]

-----------------------------------------------------------------------------
Tok(t, v) == [t |-> t, v |-> v]
Str(v) == <<Tok("str", v)>>
Num(v) == <<Tok("num", v)>>
Name(v) == <<Tok("name", v)>>
Arr(elements) == <<Tok("open", "")>> \o Joined(elements) \o <<Tok("close", "")>>
Op(name, given) == [op |-> name, operands |-> given]

Ops == {
  Op("BT", <<>>), Op("ET", <<>>), Op("T*", <<>>), Op("other", <<Num("plus")>>),
  Op("Tf", <<Name("F"), Num("plus")>>), Op("Tf", <<Name("G"), Num("plus")>>),
  Op("Tj", <<Str("a")>>), Op("Tj", <<Str("")>>), Op("Tj", <<>>),
  Op("'", <<Str("a")>>), Op("\"", <<Num("plus"), Num("minus"), Str("b")>>),
  Op("TJ", <<Arr(<<Str("a"), Num("wide"), Str("b")>>)>>),
  Op("TJ", <<Arr(<<Num("wide"), Str("b"), Arr(<<Str("a")>>), Num("back"), Str("a")>>)>>),
  Op("Td", <<Num("back"), Num("minus")>>), Op("Td", <<Num("plus"), Num("plus")>>)}

TokensOf(ops) == Joined([i \in 1..Len(ops) |-> Joined(ops[i].operands) \o <<Tok("op", ops[i].op)>>])

Content(damage, ops) ==
  [tokens |-> damage \o TokensOf(ops), good |-> ops, damaged |-> damage # <<>>, fonts |-> {"F"}]

\* A text block begins where no damage is.
Undamaged == {Content(<<>>, <<Op("BT", <<>>)>> \o ops) : ops \in SeqsUpTo(Ops, 0, 3)}
               \union {Content(<<>>, ops) : ops \in SeqsUpTo(Ops, 0, 2)}

Damage == {Tok("str", "x"), Tok("num", "wide"), Tok("open", ""), Tok("close", ""), Tok("junk", ""),
           Tok("word", ""), Tok("word", "other"), Tok("op", "Tj"), Tok("op", "other")}
After == {Op("BT", <<>>), Op("Tj", <<Str("a")>>), Op("TJ", <<Arr(<<Str("a"), Str("b")>>)>>)}
Damaged == {Content(d, ops) : d \in SeqsUpTo(Damage, 1, 3), ops \in [1..3 -> After]}
             \union {Content(d \o <<Tok("cut", "")>>, <<>>) : d \in SeqsUpTo(Damage, 0, 2)}

-----------------------------------------------------------------------------
Nothing == Content(<<>>, <<>>)
Readable(j, c) == [readable |-> TRUE, job |-> j, content |-> c, fails |-> FALSE]

Plain == Job(<<>>, <<>>, <<>>)
Shows(v) == Content(<<>>, <<Op("BT", <<>>), Op("Tf", <<Name("F"), Num("plus")>>), Op("Tj", <<Str(v)>>)>>)
GoesOn(v) == Content(<<>>, <<Op("Tj", <<Str(v)>>), Op("ET", <<>>)>>)

\* No object; no filter of that name; no digit; a run that is cut; a filter that has nothing left.
Bad(j) == [readable |-> TRUE, job |-> [j EXCEPT !.good = FALSE], content |-> Shows("never"), fails |-> TRUE]
Broken ==
  {[Bad(Plain) EXCEPT !.readable = FALSE],
   Bad(Job(<<"Crypt">>, <<1>>, <<1>>)),
   Bad(Job(<<"ASCIIHexDecode">>, <<1, 0, HexBase>>, <<>>)),
   Bad(Job(<<"ASCII85Decode">>, <<1, z, 1>>, <<>>)),
   Bad(Job(<<"RunLengthDecode">>, <<0, 1, 1, 1>>, <<>>)),
   Bad(Job(<<"ASCIIHexDecode", "RunLengthDecode">>, HexData(<<3>>), <<>>))}

Whole ==
  {Readable(Plain, Shows("a")), Readable(Plain, GoesOn("b")), Readable(Plain, Nothing),
   Readable(Job(<<"ASCIIHexDecode">>, <<1, 1>>, <<3>>), Shows("b"))}

MCDocuments ==
  {<<Readable(j, Nothing)>> : j \in HexJobs \union GroupJobs \union RunJobs \union ChainedJobs}
    \union {<<Readable(LZWJob, Nothing)>>}
    \union {<<Readable(Plain, c)>> : c \in Undamaged \union Damaged}
    \union SeqsUpTo(Whole \union Broken, 0, 3)

\* Only codes.
CodesOnly == {<<Readable(LZWJob, Nothing)>>}
\* Only last groups.
PartialGroupsOnly == {<<Readable(j, Nothing)>> : j \in LastGroups}
\* Only plain streams.
PlainOnly == SeqsUpTo(Whole, 0, 2)
=============================================================================
