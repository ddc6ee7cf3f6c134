--------------------------- MODULE MCContentCache ---------------------------
(* Two goroutines reading two streams: one that fills the cache, read with *)
(* two Reads, and one over the limit.  A third that cannot be read adds    *)
(* nothing but time: a call that goes astray ends in an error as well.     *)
EXTENDS ContentCache

CONSTANTS small, oversized, v1, v2

MCMaxBytes == 1
MCSize == [v \in {v1, v2} |-> IF v = v1 THEN 1 ELSE 2]
MCContent == [k \in {small, oversized} |-> IF k = small THEN v1 ELSE v2]
MCReads == [k \in {small, oversized} |-> IF k = small THEN 2 ELSE 1]
=============================================================================
