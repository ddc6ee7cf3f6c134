------------------------------ MODULE XRefChain ------------------------------
(***************************************************************************)
(* What buildXRefIndex (internal/pdf/xref.go:36-86) makes of a file, as    *)
(* functions of the file: the chain of its sections and the index.  The    *)
(* module XRefIndex has its loop turn by turn, the lookup of an open       *)
(* document (LazyXRef) takes it as one step.                               *)
(***************************************************************************)
EXTENDS PDFFile, SequencesExt

ASSUME FileAssumption == IsFiniteSet(Offset)   \* a file has an end

\* No section of f is both a link of a /Prev chain and the XRefStm of another.
LinksApart(f) == \A o, p \in Offset : f[o].xrefStm = 0 \/ f[o].xrefStm # f[p].prev

\* One more link of a chain, unless it ends or leads back or to what cannot be read.
Followed(c) ==
  LET prev == file[c[Len(c)]].prev
  IN  IF prev = 0 \/ prev \in Range(c) \/ ~Readable(prev) THEN c ELSE Append(c, prev)

\* The sections that n /Prev links lead to from startxref.
Chain[n \in Nat] == IF n = 0 THEN <<startxref>> ELSE Followed(Chain[n-1])

\* A chain has each section once, so as many links as there are sections are enough.
FullChain == Chain[Cardinality(Offset)]

ChainReadable ==
  /\ Readable(startxref)
  /\ \A o \in Range(FullChain) : file[o].prev = 0 \/ Readable(file[o].prev)

\* The i-th section of the chain after those before it; an XRefStm is read once.
MergeSection(idx, c, i) ==
  LET filled == FillFrom(idx, c[i])
      stm    == file[c[i]].xrefStm
      before == UNION {{c[j], file[c[j]].xrefStm} : j \in 1..i-1}
  IN  IF stm \notin {0, c[i]} \union before /\ Readable(stm) THEN OverrideFrom(filled, stm)
      ELSE filled

\* The index after the first n sections of the chain.
IndexOf[n \in 0..Len(FullChain)] ==
  IF n = 0 THEN EmptyIndex ELSE MergeSection(IndexOf[n-1], FullChain, n)

FullIndex == IndexOf[Len(FullChain)]
=============================================================================
