--------------------------- MODULE MCOFDService ------------------------------
(***************************************************************************)
(* Packages with at most two <Page> elements and two signatures, and at    *)
(* most two entries of a name.  The parts of a package that no operation   *)
(* relates are varied one at a time.                                       *)
(***************************************************************************)
EXTENDS OFDService

CONSTANTS ofd, document, other, signatures, public, private, annotations, p1, p2, a4, a5, none

MCDocumentNames == {document}
MCResourceNames == {public, private}
MCName == {ofd, document, other, signatures, public, private, annotations, p1, p2}
MCBox == {a4, a5}

Plain ==
  [bomb |-> FALSE, file |-> [n \in MCName |-> <<"good">>], docRoot |-> document, dots |-> 1,
   area |-> a4, list |-> <<[loc |-> p1, box |-> none], [loc |-> p2, box |-> none]>>,
   whole |-> TRUE, earlier |-> 1, sigs |-> <<>>, fonts |-> [r \in MCResourceNames |-> <<>>],
   notes |-> [n \in MCName |-> 1], annots |-> <<>>]

State == {<<>>, <<"damaged">>, <<"good">>}
Twice == {<<"good", "damaged">>, <<"damaged", "good">>}
Seals == State \union {<<"seal">>, <<"seal", "good">>, <<"good", "seal">>}

\* Which entries are there and good, and where DocRoot points.
Entries ==
  {[Plain EXCEPT !.file[ofd] = f1, !.file[document] = f2, !.file[other] = f3,
                 !.docRoot = r, !.dots = d] :
     f1 \in State \union Twice, f2 \in State \union Twice, f3 \in {<<>>, <<"good">>},
     r \in {document, other, none}, d \in 1..2}

\* Which pages are listed, there, and have a box.
Lists ==
  {[Plain EXCEPT !.file[p1] = f1, !.file[p2] = f2, !.list = l, !.whole = (a # none), !.area = a] :
     f1 \in State, f2 \in {<<>>, <<"good">>}, a \in {a4, none},
     l \in UNION {[1..k -> [loc : {p1, p2, none}, box : {a5, none}]] : k \in 0..2}}

\* Signatures and the seals they name, resources and annotations.
Sides ==
  {[Plain EXCEPT !.file[p1] = f, !.file[p2] = <<"seal">>, !.sigs = s] :
     f \in Seals,
     s \in UNION {[1..k -> [base : {p2, none}, info : BOOLEAN, seal : {p1, none}]] : k \in 0..2}}
  \union
  {[Plain EXCEPT !.file[signatures] = f, !.sigs = <<[base |-> p1, info |-> TRUE, seal |-> p1]>>] :
     f \in State}
  \union
  {[Plain EXCEPT !.file[public] = f1, !.file[private] = f2, !.file[annotations] = f3, !.file[p1] = f4,
                 !.fonts[public] = <<p1, none>>, !.fonts[private] = <<p2>>,
                 !.annots = <<p1, none>>] :
     f1 \in State, f2 \in State, f3 \in State, f4 \in State}

MCPackages == Entries \union Lists \union Sides \union {[Plain EXCEPT !.bomb = TRUE]}
=============================================================================
