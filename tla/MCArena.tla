------------------------------ MODULE MCArena -------------------------------
(* Arena over six paragraphs with two interchangeable owners. *)
EXTENDS Arena, TLC

CONSTANTS a, b

Interchangeable == Permutations({a, b})
=============================================================================
