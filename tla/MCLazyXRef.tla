----------------------------- MODULE MCLazyXRef ------------------------------
(***************************************************************************)
(* Files of two sections and two objects: enough for an object to be found *)
(* in the newest section, only in the oldest, in both and in neither, and  *)
(* for an index that is loaded in part.  The hybrid files have a third     *)
(* section, the XRefStm of the newest.                                     *)
(***************************************************************************)
EXTENDS LazyXRef

CONSTANTS n1, n2, t1, t2

MCObj == {n1, n2}
MCOffset == {10, 20}

Sections(form, prevs, kinds) ==
  [form : {form}, prev : prevs, xrefStm : {0}, entry : [MCObj -> kinds]]

Damaged == Sections("unreadable", {0}, {"absent"})

\* n1 may be stored, deleted or missing in any way, n2 is in the older section if at all.
Kinds(o, n) ==
  IF n = n1 THEN {"absent", "free", "direct", "inObjStm"}
  ELSE IF o = 10 THEN {"absent", "direct"} ELSE {"absent"}

MCFiles ==
  {f \in {[o \in MCOffset |-> IF o = 20 THEN a ELSE b] :
            a \in Sections("stream", {0, 10, 20}, Kinds(20, n1)),
            b \in Sections("table", {0, 20}, {"absent", "free", "direct"}) \union Damaged} :
     \A o \in MCOffset, n \in MCObj : f[o].entry[n] \in Kinds(o, n)}

\* Files for the runs that find a violation: no deletions, no object streams.
MCSmallFiles ==
  {f \in MCFiles : \A o \in MCOffset, n \in MCObj : f[o].entry[n] \in {"absent", "direct"}}

MCHybridOffset == {5, 10, 20}
MCHybridFiles ==
  {[o \in MCHybridOffset |->
      [form |-> "table", prev |-> IF o = 20 THEN 10 ELSE 0,
       xrefStm |-> IF o = 20 THEN 5 ELSE 0, entry |-> e[o]]] :
     e \in [MCHybridOffset -> [MCObj -> {"absent", "direct"}]]}

OneThread == {t1}
TwoThreads == {t1, t2}
=============================================================================
