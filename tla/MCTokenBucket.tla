--------------------------- MODULE MCTokenBucket ---------------------------
(***************************************************************************)
(* TokenBucket with a token of 5 units and a refill of 2 units per tick, so*)
(* that refills and tokens do not divide each other.                       *)
(***************************************************************************)
EXTENDS TokenBucket
=============================================================================
