---------------------------- MODULE MCFatFiles ------------------------------
(* FatFiles with two interchangeable files. *)
EXTENDS FatFiles, TLC

CONSTANTS a, b

Interchangeable == Permutations({a, b})
=============================================================================
