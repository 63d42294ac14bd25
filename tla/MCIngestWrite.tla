--------------------------- MODULE MCIngestWrite ---------------------------
(***************************************************************************)
(* Three batches for TLC: one under a pinned key, two without a key of     *)
(* their own, one of which has the same rows as the pinned one.            *)
(***************************************************************************)
EXTENDS IngestWrite

CONSTANTS w1, w2, pin, twin, other

MCIntents == {pin, twin, other}
MCContent == [i \in MCIntents |-> IF i = other THEN "rows2" ELSE "rows1"]
=============================================================================
