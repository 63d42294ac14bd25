---------------------------- MODULE MCQueryRead ----------------------------
(***************************************************************************)
(* Every token map over three pages, honest ones and circular ones, read   *)
(* by two iterators with a page limit that some walks reach.               *)
(***************************************************************************)
EXTENDS QueryRead

CONSTANTS r1, r2

MCTokens == [1..Pages -> 0..Pages]
=============================================================================
