----------------------------- MODULE MCFatTree ------------------------------
(* FatTree with two interchangeable names.                                   *)
EXTENDS FatTree, TLC

CONSTANTS a, b

Interchangeable == Permutations({a, b})

\* No call reads what a cluster held that is free in the cache and on the disk.
WithoutGarbage ==
  <<fat, table, job, faults, harm, entries,
    [c \in Heads |-> IF c # Root /\ fat[c] = FREE /\ table[c] = FREE THEN <<>> ELSE disk[c]]>>
=============================================================================
