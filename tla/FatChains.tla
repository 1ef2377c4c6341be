----------------------------- MODULE FatChains -----------------------------
(* The file allocation table of a FAT12 volume as os/milton's fat12.c keeps  *)
(* it in memory, and the chains in it.  Cluster 1 stands for cluster 2 of    *)
(* the disk, the first that holds data.                                      *)
EXTENDS Integers

CONSTANT NumClusters   \* vol->total_clusters

ASSUME ClustersAssumption == NumClusters \in Nat \ {0}

Clusters == 1 .. NumClusters
FREE     == 0                  \* FAT12_FREE
EOC      == NumClusters + 1    \* FAT12_EOC_VALUE

Fats     == [Clusters -> 0 .. EOC]
EmptyFat == [c \in Clusters |-> FREE]

(***************************************************************************)
(* Chains.  Node(f, s, k) is the cluster k links after s; once the chain   *)
(* has left the data area it stays where it left.                          *)
(***************************************************************************)
Node(f, s, k) ==
  LET at[i \in 0 .. k] ==
        IF i = 0 THEN s
        ELSE LET c == at[i - 1] IN IF c \in Clusters THEN f[c] ELSE c
  IN at[k]

\* The clusters a walk from s visits.
Visited(f, s) == {Node(f, s, k) : k \in 0 .. NumClusters} \cap Clusters

\* fat12_free_chain.
Freed(f, s) == [c \in Clusters |-> IF c \in Visited(f, s) THEN FREE ELSE f[c]]

FreeClusters(f) == {c \in Clusters : f[c] = FREE}

=============================================================================
