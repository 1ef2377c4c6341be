--------------------------- MODULE FatTreeProofs ----------------------------
(* Proofs about FatTree, for every size of the volume and its directories.  *)
EXTENDS FatTree, FiniteSetTheorems, SequenceTheorems, WellFoundedInduction, TLAPS

-----------------------------------------------------------------------------
(* Induction over a set of numbers.                                         *)

LEMMA UpTo ==
  ASSUME NEW n \in Nat, NEW T, 0 \in T, \A k \in 0 .. n - 1 : k \in T => k + 1 \in T
  PROVE  \A k \in 0 .. n : k \in T
  <1> DEFINE S == {k \in 0 .. n : k \notin T}
  <1>1. SUFFICES ASSUME S # {} PROVE FALSE
    OBVIOUS
  <1>2. S \subseteq Nat
    OBVIOUS
  <1>3. PICK m \in S : \A k \in S : <<k, m>> \notin OpToRel(<, Nat)
    BY <1>1, <1>2, NatLessThanWellFounded, WFMin
  <1>4. m \in 0 .. n /\ m # 0
    OBVIOUS
  <1>5. m - 1 \in 0 .. n - 1 /\ m - 1 \in Nat /\ m \in Nat /\ m - 1 < m /\ (m - 1) + 1 = m
    BY <1>4
  <1>6. m - 1 \notin S
    BY <1>3, <1>5 DEF OpToRel
  <1>7. m - 1 \in T
    BY <1>5, <1>6
  <1>8. m \in T
    BY <1>5, <1>7
  <1>9. QED
    BY <1>8

-----------------------------------------------------------------------------
(* Chains. *)

(* One link. *)
Hop(f, c) == IF c \in Clusters THEN f[c] ELSE c

(* g lists the first links of a walk.                                       *)
Walk(f, s, k, g) == g = [i \in 0 .. k |-> IF i = 0 THEN s ELSE Hop(f, g[i - 1])]

Hops(f, s, k, g) == g[0] = s /\ \A i \in 1 .. k : g[i] = Hop(f, g[i - 1])

LEMMA WalkIs ==
  ASSUME NEW f, NEW s, NEW k \in Nat, NEW g, Walk(f, s, k, g)
  PROVE  Hops(f, s, k, g)
  <1>1. \A i \in 0 .. k : g[i] = IF i = 0 THEN s ELSE Hop(f, g[i - 1])
    BY DEF Walk
  <1>2. 0 \in 0 .. k /\ \A i \in 1 .. k : i \in 0 .. k /\ i # 0
    OBVIOUS
  <1>3. QED
    BY <1>1, <1>2 DEF Hops

LEMMA WalkExists ==
  ASSUME NEW f, NEW s, NEW n \in Nat
  PROVE  \E g : Walk(f, s, n, g)
  <1> DEFINE T == {k \in 0 .. n : \E g : Walk(f, s, k, g)}
  <1>1. 0 \in T
    <2> DEFINE g == [i \in 0 .. 0 |-> s]
    <2>1. g = [i \in 0 .. 0 |-> IF i = 0 THEN s ELSE Hop(f, g[i - 1])]
      OBVIOUS
    <2> HIDE DEF g
    <2>2. Walk(f, s, 0, g) /\ 0 \in 0 .. n
      BY <2>1 DEF Walk
    <2>3. QED
      BY <2>2
  <1>2. ASSUME NEW k \in 0 .. n - 1, k \in T PROVE k + 1 \in T
    <2>1. PICK g : Walk(f, s, k, g)
      BY <1>2
    <2>2. g[0] = s /\ \A i \in 1 .. k : g[i] = Hop(f, g[i - 1])
      <3>1. k \in Nat
        OBVIOUS
      <3>2. Hops(f, s, k, g)
        BY <2>1, <3>1, WalkIs
      <3>3. QED
        BY <3>2 DEF Hops
    <2> DEFINE h == [i \in 0 .. k + 1 |-> IF i = k + 1 THEN Hop(f, g[k]) ELSE g[i]]
    <2>3. ASSUME NEW i \in 0 .. k + 1
          PROVE  h[i] = IF i = 0 THEN s ELSE Hop(f, h[i - 1])
      <3>1. CASE i = 0
        <4>1. h[0] = g[0]
          BY <3>1
        <4>2. QED
          BY <2>2, <3>1, <4>1
      <3>2. CASE i = k + 1
        <4>1. h[k + 1] = Hop(f, g[k]) /\ h[k] = g[k] /\ (k + 1) - 1 = k /\ k + 1 # 0
          OBVIOUS
        <4> HIDE DEF h
        <4>2. QED
          BY <3>2, <4>1
      <3>3. CASE i \in 1 .. k
        <4>1. h[i] = g[i] /\ h[i - 1] = g[i - 1]
          BY <3>3
        <4> HIDE DEF h
        <4>2. QED
          BY <2>2, <3>3, <4>1
      <3>4. QED
        BY <3>1, <3>2, <3>3
    <2>4. h = [i \in 0 .. k + 1 |-> h[i]]
      OBVIOUS
    <2> HIDE DEF h
    <2>5. h = [i \in 0 .. k + 1 |-> IF i = 0 THEN s ELSE Hop(f, h[i - 1])]
      BY <2>3, <2>4
    <2>6. Walk(f, s, k + 1, h) /\ k + 1 \in 0 .. n
      BY <2>5 DEF Walk
    <2>7. QED
      BY <2>6
  <1> HIDE DEF T
  <1>3. \A k \in 0 .. n : k \in T
    BY <1>1, <1>2, UpTo
  <1>4. n \in T
    BY <1>3
  <1>5. QED
    BY <1>4 DEF T

LEMMA WalkUnique ==
  ASSUME NEW f, NEW s, NEW k \in Nat, NEW m \in Nat, k <= m,
         NEW g, Walk(f, s, k, g), NEW h, Walk(f, s, m, h)
  PROVE  \A i \in 0 .. k : g[i] = h[i]
  <1>1. /\ g[0] = s /\ \A i \in 1 .. k : g[i] = Hop(f, g[i - 1])
        /\ h[0] = s /\ \A i \in 1 .. m : h[i] = Hop(f, h[i - 1])
    BY WalkIs DEF Hops
  <1> DEFINE T == {i \in 0 .. k : g[i] = h[i]}
  <1>2. 0 \in T
    BY <1>1
  <1>3. ASSUME NEW i \in 0 .. k - 1, i \in T PROVE i + 1 \in T
    <2>1. i + 1 \in 1 .. k /\ i + 1 \in 1 .. m /\ i + 1 \in 0 .. k /\ (i + 1) - 1 = i
      OBVIOUS
    <2>2. g[i + 1] = Hop(f, g[i]) /\ h[i + 1] = Hop(f, h[i])
      BY <1>1, <2>1
    <2>3. QED
      BY <1>3, <2>1, <2>2
  <1> HIDE DEF T
  <1>4. \A i \in 0 .. k : i \in T
    BY <1>2, <1>3, UpTo
  <1>5. QED
    BY <1>4 DEF T

(* A walk goes on by the link of the node it has reached.                   *)
LEMMA NodeStep ==
  ASSUME NEW f, NEW s
  PROVE  /\ Node(f, s, 0) = s
         /\ \A k \in Nat : Node(f, s, k + 1) = Hop(f, Node(f, s, k))
  <1> DEFINE W(k) == CHOOSE g : Walk(f, s, k, g)
  <1>1. \A k \in Nat : Walk(f, s, k, W(k))
    BY WalkExists
  <1>2. \A k \in Nat : Node(f, s, k) = W(k)[k]
    BY Zenon DEF Node, Walk, Hop
  <1> HIDE DEF W
  <1>3. Node(f, s, 0) = s
    <2>1. 0 \in Nat
      OBVIOUS
    <2>2. W(0)[0] = s
      BY <1>1, <2>1, WalkIs DEF Hops
    <2>3. QED
      BY <1>2, <2>1, <2>2
  <1>4. ASSUME NEW k \in Nat PROVE Node(f, s, k + 1) = Hop(f, Node(f, s, k))
    <2>1. k + 1 \in Nat /\ k <= k + 1 /\ k \in 0 .. k /\ k + 1 \in 1 .. k + 1 /\ (k + 1) - 1 = k
      OBVIOUS
    <2>2. W(k + 1)[k + 1] = Hop(f, W(k + 1)[(k + 1) - 1])
      <3>1. Walk(f, s, k + 1, W(k + 1))
        BY <1>1, <2>1
      <3>2. Hops(f, s, k + 1, W(k + 1))
        BY <2>1, <3>1, WalkIs
      <3>3. QED
        BY <2>1, <3>2 DEF Hops
    <2>3. W(k)[k] = W(k + 1)[k]
      BY <1>1, <2>1, WalkUnique
    <2>4. QED
      BY <1>2, <2>1, <2>2, <2>3
  <1>5. QED
    BY <1>3, <1>4

(* From s, the table f has a chain of n clusters, ended as fat12.c ends it. *)
Ends(f, s, n) == /\ \A k \in 0 .. n - 1 : Node(f, s, k) \in Clusters
                 /\ Node(f, s, n) = EOC

(* The clusters of such a chain. *)
Run(f, s, n) == {Node(f, s, k) : k \in 0 .. n - 1}

LEMMA Numbers == /\ NumClusters \in Nat /\ EOC \in Nat /\ EOC \notin Clusters /\ FREE \notin Clusters
                 /\ EOC # FREE /\ FREE = 0
                 /\ \A c \in Clusters : c \in Nat /\ c # 0 /\ c <= NumClusters
  BY ClustersAssumption DEF EOC, Clusters, FREE

LEMMA HopIs ==
  ASSUME NEW f, NEW s, NEW k \in Nat
  PROVE  /\ Node(f, s, k) \in Clusters => Node(f, s, k + 1) = f[Node(f, s, k)]
         /\ Node(f, s, k) \notin Clusters => Node(f, s, k + 1) = Node(f, s, k)
  BY NodeStep DEF Hop

(* Behind its end a walk stays where it is.                                 *)
LEMMA Stuck ==
  ASSUME NEW f, NEW s, NEW n \in Nat, Node(f, s, n) \notin Clusters, NEW j \in Nat, j >= n
  PROVE  Node(f, s, j) = Node(f, s, n)
  <1> DEFINE T == {i \in 0 .. j - n : Node(f, s, n + i) = Node(f, s, n)}
             m == j - n
  <1>1. m \in Nat /\ j = n + m /\ m \in 0 .. m
    OBVIOUS
  <1>2. 0 \in T
    <2>1. n + 0 = n /\ 0 \in 0 .. j - n
      OBVIOUS
    <2>2. QED
      BY <2>1
  <1>3. ASSUME NEW i \in 0 .. m - 1, i \in T PROVE i + 1 \in T
    <2>1. n + i \in Nat /\ n + (i + 1) = (n + i) + 1 /\ i + 1 \in 0 .. j - n
      OBVIOUS
    <2>2. Node(f, s, n + i) = Node(f, s, n)
      BY <1>3
    <2>3. Node(f, s, (n + i) + 1) = Node(f, s, n + i)
      BY <2>1, <2>2, HopIs
    <2>4. QED
      BY <2>1, <2>2, <2>3
  <1>4. m \in T
    <2> HIDE DEF T, m
    <2>1. \A i \in 0 .. m : i \in T
      BY <1>1, <1>2, <1>3, UpTo
    <2>2. QED
      BY <1>1, <2>1
  <1>5. QED
    BY <1>1, <1>4

(* A chain that ends meets no cluster twice.                                *)
LEMMA Distinct ==
  ASSUME NEW f, NEW s, NEW n \in Nat, Ends(f, s, n),
         NEW j \in 0 .. n - 1, NEW k \in 0 .. n - 1, Node(f, s, j) = Node(f, s, k)
  PROVE  j = k
  <1>1. \A a, b \in 0 .. n - 1 : a < b => Node(f, s, a) # Node(f, s, b)
    <2> SUFFICES ASSUME NEW a \in 0 .. n - 1, NEW b \in 0 .. n - 1, a < b,
                        Node(f, s, a) = Node(f, s, b)
                 PROVE  FALSE
      OBVIOUS
    <2> DEFINE m == n - b
               T == {i \in 0 .. m : Node(f, s, a + i) = Node(f, s, b + i)}
    <2>1. m \in Nat /\ b + m = n /\ a + m \in 0 .. n - 1 /\ m \in 0 .. m
      OBVIOUS
    <2>2. 0 \in T
      <3>1. a + 0 = a /\ b + 0 = b /\ 0 \in 0 .. m
        BY <2>1
      <3>2. QED
        BY <3>1
    <2>3. ASSUME NEW i \in 0 .. m - 1, i \in T PROVE i + 1 \in T
      <3>1. /\ a + i \in Nat /\ b + i \in Nat /\ i + 1 \in 0 .. m
            /\ a + (i + 1) = (a + i) + 1 /\ b + (i + 1) = (b + i) + 1
        OBVIOUS
      <3>2. Node(f, s, a + i) = Node(f, s, b + i)
        BY <2>3
      <3>3. Node(f, s, (a + i) + 1) = Hop(f, Node(f, s, a + i))
            /\ Node(f, s, (b + i) + 1) = Hop(f, Node(f, s, b + i))
        <4>1. \A x \in Nat : Node(f, s, x + 1) = Hop(f, Node(f, s, x))
          BY NodeStep
        <4>2. QED
          BY <3>1, <4>1
      <3>4. QED
        BY <3>1, <3>2, <3>3
    <2>4. m \in T
      <3> HIDE DEF T, m
      <3>1. \A i \in 0 .. m : i \in T
        BY <2>1, <2>2, <2>3, UpTo
      <3>2. QED
        BY <2>1, <3>1
    <2>5. Node(f, s, a + m) = Node(f, s, n)
      BY <2>1, <2>4
    <2>6. Node(f, s, a + m) \in Clusters /\ Node(f, s, n) \notin Clusters
      BY <2>1, Numbers DEF Ends
    <2>7. QED
      BY <2>5, <2>6
  <1>2. j \in Int /\ k \in Int /\ (j < k \/ k < j \/ j = k)
    OBVIOUS
  <1>3. QED
    BY <1>1, <1>2

LEMMA Unfree ==
  ASSUME NEW f, NEW s, NEW n \in Nat, Ends(f, s, n), NEW c \in Run(f, s, n)
  PROVE  c \in Clusters /\ f[c] # FREE
  <1>1. PICK k \in 0 .. n - 1 : c = Node(f, s, k)
    BY DEF Run
  <1>2. k \in Nat /\ (k + 1 \in 0 .. n - 1 \/ k + 1 = n)
    OBVIOUS
  <1>3. c \in Clusters /\ Node(f, s, k + 1) = f[c]
    BY <1>1, <1>2, HopIs DEF Ends
  <1>4. Node(f, s, k + 1) \in Clusters \/ Node(f, s, k + 1) = EOC
    BY <1>2 DEF Ends
  <1>5. QED
    BY <1>3, <1>4, Numbers

(* Its length is bounded by the volume's.                                   *)
LEMMA Short ==
  ASSUME NEW f, NEW s, NEW n \in Nat, Ends(f, s, n)
  PROVE  n <= NumClusters
  <1> DEFINE g == [k \in 1 .. n |-> Node(f, s, k - 1)]
  <1>1. \A k \in 1 .. n : k - 1 \in 0 .. n - 1
    OBVIOUS
  <1>2. g \in [1 .. n -> Clusters]
    BY <1>1 DEF Ends
  <1>3. \A i, j \in 1 .. n : g[i] = g[j] => i = j
    <2> TAKE i, j \in 1 .. n
    <2> HAVE g[i] = g[j]
    <2>1. Node(f, s, i - 1) = Node(f, s, j - 1)
      OBVIOUS
    <2>2. i - 1 = j - 1
      BY <1>1, <2>1, Distinct
    <2>3. QED
      BY <2>2
  <1> HIDE DEF g
  <1>4. g \in Injection(1 .. n, Clusters)
    BY <1>2, <1>3 DEF Injection, IsInjective
  <1>5. NumClusters \in Nat /\ 1 \in Int /\ NumClusters \in Int /\ n \in Int /\ Clusters = 1 .. NumClusters
    BY Numbers DEF Clusters
  <1>6. IsFiniteSet(Clusters) /\ Cardinality(Clusters) = NumClusters /\ Cardinality(1 .. n) = n
    <2>1. IsFiniteSet(1 .. NumClusters)
          /\ Cardinality(1 .. NumClusters) = IF 1 > NumClusters THEN 0 ELSE NumClusters - 1 + 1
      BY <1>5, FS_Interval
    <2>2. Cardinality(1 .. n) = IF 1 > n THEN 0 ELSE n - 1 + 1
      BY <1>5, FS_Interval
    <2>3. QED
      BY <1>5, <2>1, <2>2
  <1>7. Cardinality(1 .. n) <= Cardinality(Clusters)
    BY <1>4, <1>6, FS_Injection
  <1>8. QED
    BY <1>6, <1>7

(* Two tables that agree along a walk. *)
Same(g, f, s, m) == \A k \in 0 .. m : Node(g, s, k) = Node(f, s, k)

LEMMA SameNodes ==
  ASSUME NEW f, NEW g, NEW s, NEW m \in Nat,
         \A k \in 0 .. m - 1 : Node(f, s, k) \in Clusters /\ g[Node(f, s, k)] = f[Node(f, s, k)]
  PROVE  Same(g, f, s, m)
  <1> DEFINE T == {k \in 0 .. m : Node(g, s, k) = Node(f, s, k)}
  <1>1. 0 \in T
    <2>1. Node(g, s, 0) = s /\ Node(f, s, 0) = s
      BY NodeStep
    <2>2. QED
      BY <2>1
  <1>2. ASSUME NEW k \in 0 .. m - 1, k \in T PROVE k + 1 \in T
    <2>1. k \in Nat /\ k + 1 \in 0 .. m /\ Node(g, s, k) = Node(f, s, k) /\ Node(f, s, k) \in Clusters
      BY <1>2
    <2>2. Node(f, s, k + 1) = f[Node(f, s, k)]
      BY <2>1, HopIs
    <2>3. Node(g, s, k + 1) = g[Node(g, s, k)]
      BY <2>1, HopIs
    <2>4. QED
      BY <2>1, <2>2, <2>3
  <1> HIDE DEF T
  <1>3. \A k \in 0 .. m : k \in T
    BY <1>1, <1>2, UpTo
  <1>4. QED
    BY <1>3 DEF T, Same

(* A table that agrees on the clusters of a chain has the same chain.       *)
LEMMA SameChain ==
  ASSUME NEW f, NEW g, NEW s, NEW n \in Nat, Ends(f, s, n),
         \A c \in Run(f, s, n) : g[c] = f[c]
  PROVE  Same(g, f, s, n) /\ Ends(g, s, n) /\ Run(g, s, n) = Run(f, s, n)
  <1>1. \A k \in 0 .. n - 1 : Node(f, s, k) \in Clusters /\ g[Node(f, s, k)] = f[Node(f, s, k)]
    BY DEF Ends, Run
  <1>2. Same(g, f, s, n)
    BY <1>1, SameNodes
  <1>3. \A k \in 0 .. n - 1 : k \in 0 .. n
    OBVIOUS
  <1>4. n \in 0 .. n
    OBVIOUS
  <1>5. \A k \in 0 .. n - 1 : Node(g, s, k) = Node(f, s, k)
    BY <1>2, <1>3 DEF Same
  <1>6. Node(g, s, n) = Node(f, s, n)
    BY <1>2, <1>4 DEF Same
  <1>7. Ends(g, s, n)
    BY <1>5, <1>6 DEF Ends
  <1>8. Run(g, s, n) = Run(f, s, n)
    BY <1>5 DEF Run
  <1>9. QED
    BY <1>2, <1>7, <1>8

LEMMA VisitedIs ==
  ASSUME NEW f, NEW s, NEW n \in Nat, Ends(f, s, n)
  PROVE  Visited(f, s) = Run(f, s, n)
  <1>1. n <= NumClusters /\ NumClusters \in Nat
    BY Short, Numbers
  <1>2. ASSUME NEW c \in Visited(f, s) PROVE c \in Run(f, s, n)
    <2>1. PICK k \in 0 .. NumClusters : c = Node(f, s, k)
      BY DEF Visited
    <2>2. c \in Clusters
      BY DEF Visited
    <2>3. ASSUME k >= n PROVE FALSE
      <3>1. Node(f, s, n) = EOC /\ EOC \notin Clusters /\ k \in Nat
        BY Numbers DEF Ends
      <3>2. Node(f, s, k) = EOC
        BY <2>3, <3>1, Stuck
      <3>3. QED
        BY <2>1, <2>2, <3>1, <3>2
    <2>4. k \in 0 .. n - 1
      BY <1>1, <2>3
    <2>5. QED
      BY <2>1, <2>4 DEF Run
  <1>3. ASSUME NEW c \in Run(f, s, n) PROVE c \in Visited(f, s)
    <2>1. PICK k \in 0 .. n - 1 : c = Node(f, s, k)
      BY DEF Run
    <2>2. k \in 0 .. NumClusters
      BY <1>1
    <2>3. c \in Clusters
      BY <2>1 DEF Ends
    <2>4. QED
      BY <2>1, <2>2, <2>3 DEF Visited
  <1>4. QED
    BY <1>2, <1>3

-----------------------------------------------------------------------------
(* The chain of a directory.                                                *)

(* From d a chain leads to its end.                                         *)
Proper(f, d) == d \in Clusters /\ \E c \in Visited(f, d) : f[c] = EOC

LEMMA ProperIs ==
  ASSUME NEW f, NEW d, Proper(f, d)
  PROVE  \E n \in Nat : n # 0 /\ Ends(f, d, n) /\ Visited(f, d) = Run(f, d, n)
  <1>1. PICK c \in Visited(f, d) : f[c] = EOC
    BY DEF Proper
  <1>2. PICK k \in 0 .. NumClusters : c = Node(f, d, k) /\ c \in Clusters
    BY DEF Visited
  <1>3. k \in Nat /\ k + 1 \in Nat /\ k + 1 # 0 /\ k = (k + 1) - 1
    BY <1>2, Numbers
  <1>4. Node(f, d, k + 1) = EOC
    BY <1>1, <1>2, <1>3, HopIs
  <1>5. ASSUME NEW i \in 0 .. k PROVE Node(f, d, i) \in Clusters
    <2>1. i \in Nat /\ k >= i
      BY <1>3
    <2>2. SUFFICES ASSUME Node(f, d, i) \notin Clusters PROVE FALSE
      OBVIOUS
    <2>3. Node(f, d, k) = Node(f, d, i)
      BY <1>3, <2>1, <2>2, Stuck
    <2>4. QED
      BY <1>2, <2>2, <2>3
  <1>6. Ends(f, d, k + 1)
    BY <1>3, <1>4, <1>5 DEF Ends
  <1>7. QED
    BY <1>3, <1>6, VisitedIs

LEMMA EndsProper ==
  ASSUME NEW f, NEW d \in Clusters, NEW n \in Nat, Ends(f, d, n)
  PROVE  Proper(f, d)
  <1>1. n # 0
    <2>1. Node(f, d, 0) = d
      BY NodeStep
    <2>2. QED
      BY <2>1, Numbers DEF Ends
  <1>2. n - 1 \in 0 .. n - 1 /\ n - 1 \in Nat /\ (n - 1) + 1 = n
    BY <1>1
  <1>3. Node(f, d, n - 1) \in Run(f, d, n) /\ Node(f, d, n - 1) \in Clusters
    BY <1>2 DEF Run, Ends
  <1>4. f[Node(f, d, n - 1)] = Node(f, d, n)
    BY <1>2, <1>3, HopIs
  <1>5. Visited(f, d) = Run(f, d, n)
    BY VisitedIs
  <1>6. QED
    BY <1>3, <1>4, <1>5 DEF Ends, Proper

(* Whatever holds the first cluster and the links holds the chain.          *)
LEMMA ChainLeast ==
  ASSUME NEW f, NEW d, NEW S, d \in S, \A c \in S : c \in Clusters /\ f[c] \in Clusters => f[c] \in S
  PROVE  Visited(f, d) \subseteq S
  <1> DEFINE T == {k \in 0 .. NumClusters : Node(f, d, k) \in Clusters => Node(f, d, k) \in S}
  <1>1. 0 \in T
    <2>1. Node(f, d, 0) = d /\ 0 \in 0 .. NumClusters
      BY NodeStep, Numbers
    <2>2. QED
      BY <2>1
  <1>2. ASSUME NEW k \in 0 .. NumClusters - 1, k \in T PROVE k + 1 \in T
    <2>1. k \in Nat /\ k + 1 \in 0 .. NumClusters
      BY Numbers
    <2>2. ASSUME Node(f, d, k + 1) \in Clusters PROVE Node(f, d, k + 1) \in S
      <3>1. Node(f, d, k) \in Clusters
        BY <2>1, <2>2, HopIs
      <3>2. Node(f, d, k) \in S
        BY <1>2, <3>1
      <3>3. Node(f, d, k + 1) = f[Node(f, d, k)]
        BY <2>1, <3>1, HopIs
      <3>4. QED
        BY <2>2, <3>1, <3>2, <3>3
    <2>3. QED
      BY <2>1, <2>2
  <1> HIDE DEF T
  <1>3. \A k \in 0 .. NumClusters : k \in T
    BY <1>1, <1>2, UpTo, Numbers
  <1>4. QED
    BY <1>3 DEF T, Visited

LEMMA FirstVisited ==
  ASSUME NEW f, NEW d \in Clusters
  PROVE  d \in Visited(f, d)
  <1>1. Node(f, d, 0) = d /\ 0 \in 0 .. NumClusters
    BY NodeStep, Numbers
  <1>2. QED
    BY <1>1 DEF Visited

LEMMA VisitedClusters ==
  ASSUME NEW f, NEW d
  PROVE  Visited(f, d) \subseteq Clusters
  BY DEF Visited

(* What a chain passes is in use and leads on along it.                     *)
LEMMA ChainLinks ==
  ASSUME NEW f, NEW d, Proper(f, d), NEW c \in Visited(f, d)
  PROVE  /\ c \in Clusters /\ f[c] # FREE
         /\ f[c] \in Clusters \/ f[c] = EOC
         /\ f[c] \in Clusters => f[c] \in Visited(f, d)
         /\ Proper(f, c) /\ Visited(f, c) \subseteq Visited(f, d)
  <1>1. PICK n \in Nat : n # 0 /\ Ends(f, d, n) /\ Visited(f, d) = Run(f, d, n)
    BY ProperIs
  <1>2. c \in Clusters /\ f[c] # FREE
    BY <1>1, Unfree
  <1>3. \A x \in Visited(f, d) : /\ f[x] \in Clusters \/ f[x] = EOC
                                 /\ f[x] \in Clusters => f[x] \in Visited(f, d)
    <2> SUFFICES ASSUME NEW x \in Visited(f, d)
                 PROVE  /\ f[x] \in Clusters \/ f[x] = EOC
                        /\ f[x] \in Clusters => f[x] \in Visited(f, d)
      OBVIOUS
    <2>1. PICK k \in 0 .. n - 1 : x = Node(f, d, k)
      BY <1>1 DEF Run
    <2>2. k \in Nat /\ x \in Clusters /\ (k + 1 \in 0 .. n - 1 \/ k + 1 = n)
      BY <1>1, <2>1 DEF Ends
    <2>3. Node(f, d, k + 1) = f[x]
      BY <2>1, <2>2, HopIs
    <2>4. CASE k + 1 = n
      BY <1>1, <2>3, <2>4, Numbers DEF Ends
    <2>5. CASE k + 1 \in 0 .. n - 1
      BY <1>1, <2>3, <2>5 DEF Ends, Run
    <2>6. QED
      BY <2>2, <2>4, <2>5
  <1>4. Visited(f, c) \subseteq Visited(f, d)
    BY <1>3, ChainLeast
  <1>5. Proper(f, c)
    <2>1. PICK k \in 0 .. n - 1 : c = Node(f, d, k)
      BY <1>1 DEF Run
    <2> DEFINE m == n - k
               T == {i \in 0 .. m : Node(f, c, i) = Node(f, d, k + i)}
    <2>2. m \in Nat /\ k + m = n /\ m \in 0 .. m /\ \A i \in 0 .. m - 1 : k + i \in 0 .. n - 1
      BY <1>1, <2>1
    <2>3. 0 \in T
      <3>1. Node(f, c, 0) = c /\ k + 0 = k /\ 0 \in 0 .. m
        BY <2>1, <2>2, NodeStep
      <3>2. QED
        BY <2>1, <3>1
    <2>4. ASSUME NEW i \in 0 .. m - 1, i \in T PROVE i + 1 \in T
      <3>1. i \in Nat /\ k + i \in Nat /\ k + (i + 1) = (k + i) + 1 /\ i + 1 \in 0 .. m
        BY <2>1, <2>2
      <3>2. Node(f, c, i) = Node(f, d, k + i)
        BY <2>4
      <3>3. \A j \in Nat : Node(f, c, j + 1) = Hop(f, Node(f, c, j))
        <4> HIDE DEF m, T
        <4>1. QED
          BY NodeStep, Zenon
      <3>4. \A j \in Nat : Node(f, d, j + 1) = Hop(f, Node(f, d, j))
        <4> HIDE DEF m, T
        <4>1. QED
          BY NodeStep, Zenon
      <3>5. QED
        <4> HIDE DEF m
        <4>1. i + 1 \in T <=> i + 1 \in 0 .. m /\ Node(f, c, i + 1) = Node(f, d, k + (i + 1))
          OBVIOUS
        <4> HIDE DEF T
        <4>2. QED
          BY <3>1, <3>2, <3>3, <3>4, <4>1
    <2>5. \A i \in 0 .. m : Node(f, c, i) = Node(f, d, k + i)
      <3>1. \A i \in 0 .. m : i \in T
        <4> HIDE DEF T, m
        <4>1. QED
          BY <2>2, <2>3, <2>4, UpTo
      <3>2. QED
        BY <3>1
    <2> HIDE DEF m, T
    <2>6. \A i \in 0 .. m - 1 : i \in 0 .. m
      BY <2>2
    <2>7. Ends(f, c, m)
      BY <1>1, <2>2, <2>5, <2>6 DEF Ends
    <2>8. QED
      BY <1>2, <2>2, <2>7, EndsProper
  <1>6. QED
    BY <1>2, <1>3, <1>4, <1>5

(* A table that agrees on a chain has it.                                   *)
LEMMA ChainSame ==
  ASSUME NEW f, NEW g, NEW d, Proper(f, d), \A c \in Visited(f, d) : g[c] = f[c]
  PROVE  Proper(g, d) /\ Visited(g, d) = Visited(f, d)
  <1>1. PICK n \in Nat : n # 0 /\ Ends(f, d, n) /\ Visited(f, d) = Run(f, d, n)
    BY ProperIs
  <1>2. Ends(g, d, n) /\ Run(g, d, n) = Run(f, d, n)
    BY <1>1, SameChain
  <1>3. QED
    BY <1>1, <1>2, VisitedIs, EndsProper DEF Proper

(* The last cluster of a chain.                                             *)
LEMMA LastIs ==
  ASSUME NEW f, NEW d, Proper(f, d)
  PROVE  /\ LastOf(f, d) \in Visited(f, d) /\ f[LastOf(f, d)] = EOC
         /\ \A c \in Visited(f, d) : f[c] = EOC => c = LastOf(f, d)
  <1>1. PICK n \in Nat : n # 0 /\ Ends(f, d, n) /\ Visited(f, d) = Run(f, d, n)
    BY ProperIs
  <1>2. ASSUME NEW c \in Visited(f, d), f[c] \notin Clusters PROVE c = Node(f, d, n - 1)
    <2>1. PICK k \in 0 .. n - 1 : c = Node(f, d, k)
      BY <1>1 DEF Run
    <2>2. k \in Nat /\ c \in Clusters /\ (k + 1 \in 0 .. n - 1 \/ k = n - 1)
      BY <1>1, <2>1 DEF Ends
    <2>3. Node(f, d, k + 1) = f[c]
      BY <2>1, <2>2, HopIs
    <2>4. k + 1 \notin 0 .. n - 1
      BY <1>1, <1>2, <2>3 DEF Ends
    <2>5. QED
      BY <2>1, <2>2, <2>4
  <1>3. \E c \in Visited(f, d) : f[c] \notin Clusters
    BY Numbers DEF Proper
  <1>4. LastOf(f, d) \in Visited(f, d) /\ f[LastOf(f, d)] \notin Clusters
    BY <1>3, Zenon DEF LastOf
  <1>5. f[LastOf(f, d)] = EOC
    BY <1>4, ChainLinks
  <1>6. \A c \in Visited(f, d) : f[c] = EOC => c = LastOf(f, d)
    BY <1>2, <1>4, Numbers
  <1>7. QED
    BY <1>4, <1>5, <1>6

(* A cluster that links to none is a chain of its own.                      *)
LEMMA ChainOfOne ==
  ASSUME NEW f, NEW c \in Clusters, f[c] \notin Clusters
  PROVE  Visited(f, c) = {c} /\ (f[c] = EOC => Proper(f, c))
  <1>1. Visited(f, c) \subseteq {c}
    BY ChainLeast
  <1>2. c \in Visited(f, c)
    BY FirstVisited
  <1>3. QED
    BY <1>1, <1>2 DEF Proper

(* fat12_grow_dir links one more cluster behind a chain.                    *)
Grown(f, t, new) == [f EXCEPT ![new] = EOC, ![t] = new]

LEMMA ChainGrows ==
  ASSUME NEW f \in Fats, NEW d, Proper(f, d), NEW new \in Clusters, f[new] = FREE
  PROVE  LET g == Grown(f, LastOf(f, d), new)
         IN  Proper(g, d) /\ Visited(g, d) = Visited(f, d) \cup {new}
  <1> DEFINE t == LastOf(f, d)
             g == Grown(f, t, new)
  <1>1. PICK n \in Nat : n # 0 /\ Ends(f, d, n) /\ Visited(f, d) = Run(f, d, n)
    BY ProperIs
  <1>2. t \in Visited(f, d) /\ f[t] = EOC /\ t \in Clusters /\ new \notin Visited(f, d)
    BY LastIs, ChainLinks
  <1>3. n - 1 \in Nat /\ n - 1 \in 0 .. n - 1 /\ (n - 1) + 1 = n /\ n + 1 \in Nat /\ 0 .. (n - 1) - 1 \subseteq 0 .. n - 1
    BY <1>1
  <1>4. g \in [Clusters -> 0 .. EOC] /\ g[new] = EOC /\ g[t] = new
        /\ \A c \in Clusters : c # new /\ c # t => g[c] = f[c]
    <2>1. DOMAIN f = Clusters
      BY DEF Fats
    <2>2. t # new
      BY <1>2
    <2>3. EOC \in 0 .. EOC /\ new \in 0 .. EOC
      BY Numbers DEF EOC
    <2>4. QED
      BY <1>2, <2>1, <2>2, <2>3 DEF Grown, Fats
  <1>5. Node(f, d, n - 1) = t
    <2>1. Node(f, d, n - 1) \in Clusters
      BY <1>1, <1>3 DEF Ends
    <2>2. Node(f, d, (n - 1) + 1) = f[Node(f, d, n - 1)]
      BY <1>3, <2>1, HopIs
    <2>3. Node(f, d, n - 1) \in Visited(f, d)
      BY <1>1, <1>3 DEF Run
    <2>4. f[Node(f, d, n - 1)] = EOC
      BY <1>1, <1>3, <2>2 DEF Ends
    <2>5. QED
      BY <2>3, <2>4, LastIs
  <1> HIDE DEF t, g
  <1>6. ASSUME NEW k \in 0 .. (n - 1) - 1
        PROVE  Node(f, d, k) \in Clusters /\ g[Node(f, d, k)] = f[Node(f, d, k)]
    <2>1. k \in 0 .. n - 1 /\ k # n - 1 /\ Node(f, d, k) \in Visited(f, d)
      BY <1>1, <1>3 DEF Run
    <2>2. Node(f, d, k) # t
      BY <1>1, <1>3, <1>5, <2>1, Distinct
    <2>3. Node(f, d, k) # new /\ Node(f, d, k) \in Clusters
      BY <1>1, <1>2, <2>1 DEF Ends
    <2>4. QED
      BY <1>4, <2>2, <2>3
  <1>7. Same(g, f, d, n - 1)
    BY <1>3, <1>6, SameNodes
  <1>8. \A k \in 0 .. n - 1 : Node(g, d, k) = Node(f, d, k)
    BY <1>7 DEF Same
  <1>9. Node(g, d, n) = new
    <2>1. Node(g, d, n - 1) = t
      BY <1>3, <1>5, <1>8
    <2>2. Node(g, d, (n - 1) + 1) = g[t]
      BY <1>2, <1>3, <2>1, HopIs
    <2>3. QED
      BY <1>3, <1>4, <2>2
  <1>10. Node(g, d, n + 1) = EOC
    BY <1>4, <1>9, HopIs
  <1>11. \A k \in 0 .. (n + 1) - 1 : k \in 0 .. n - 1 \/ k = n
    BY <1>1
  <1>12. Ends(g, d, n + 1)
    BY <1>1, <1>8, <1>9, <1>10, <1>11 DEF Ends
  <1>13. Run(g, d, n + 1) = Run(f, d, n) \cup {new}
    <2>1. \A k \in 0 .. n - 1 : k \in 0 .. (n + 1) - 1
      BY <1>1
    <2>2. n \in 0 .. (n + 1) - 1
      BY <1>1
    <2>3. QED
      BY <1>8, <1>9, <1>11, <2>1, <2>2 DEF Run
  <1>14. QED
    BY <1>1, <1>3, <1>12, <1>13, VisitedIs, EndsProper DEF Proper, g, t
-----------------------------------------------------------------------------
(* Places.                                                                   *)

(* What a slot of a directory may hold.                                      *)
Records ==
  {End, Deleted} \cup {File(n) : n \in Names} \cup {Dir(n, c) : n \in Names, c \in Clusters}
  \cup {Dot(c) : c \in Heads} \cup {DotDot(c) : c \in Heads}

IsDisk(D) ==
  /\ D \in [Heads -> UNION {[1 .. Slots(c) -> Records] : c \in Heads}]
  /\ \A c \in Heads : D[c] \in [1 .. Slots(c) -> Records]

AllPlaces == UNION {{c} \X (1 .. Slots(c)) : c \in Heads}

LEMMA HeadsAre ==
  /\ Root \in Heads /\ Clusters \subseteq Heads /\ Root \notin Clusters /\ Root = 0
  /\ \A c \in Heads : c # Root => c \in Clusters
  /\ \A c \in Heads : Slots(c) \in Nat /\ Slots(c) # 0 /\ (c # Root => Slots(c) = ClusterSlots)
  /\ ClusterSlots \in Nat /\ ClusterSlots > 2 /\ Slots(Root) = RootSlots
  BY TreeAssumption, Numbers DEF Heads, Root, Slots

LEMMA PlaceIs ==
  ASSUME NEW p
  PROVE  /\ p \in AllPlaces => /\ p = <<p[1], p[2]>> /\ p[1] \in Heads /\ p[2] \in 1 .. Slots(p[1])
                               /\ p[2] \in Nat
         /\ \A f, d : p \in Places(f, d) => p[1] \in Area(f, d) /\ p = <<p[1], p[2]>> /\ p[2] \in 1 .. Slots(p[1])
         /\ \A f : \A d \in Heads : p \in Places(f, d) => p \in AllPlaces
  <1>1. ASSUME NEW f, NEW d \in Heads PROVE Area(f, d) \subseteq Heads
    BY VisitedClusters, HeadsAre DEF Area
  <1>2. QED
    BY <1>1 DEF AllPlaces, Places

LEMMA IsPlace ==
  ASSUME NEW f, NEW d, NEW c \in Area(f, d), NEW k \in 1 .. Slots(c)
  PROVE  <<c, k>> \in Places(f, d)
  BY DEF Places

LEMMA AreaIs ==
  ASSUME NEW f, NEW d \in Heads
  PROVE  /\ d \in Area(f, d) /\ Area(f, d) \subseteq Heads
         /\ d # Root => Area(f, d) = Visited(f, d) /\ Area(f, d) \subseteq Clusters
         /\ Area(f, Root) = {Root}
  BY FirstVisited, VisitedClusters, HeadsAre DEF Area

LEMMA RecordIs ==
  ASSUME NEW e \in Records
  PROVE  /\ e.kind \in {"end", "deleted", "file", "dir", "dot", "dotdot"}
         /\ e.kind = "file" => e.name \in Names /\ e.start = 0 /\ e = File(e.name)
         /\ e.kind = "dir" => e.name \in Names /\ e.start \in Clusters /\ e = Dir(e.name, e.start)
         /\ e.kind = "end" => e = End
  BY DEF Records, End, Deleted, File, Dir, Dot, DotDot

LEMMA KindsOf ==
  /\ End.kind = "end" /\ Deleted.kind = "deleted" /\ End \in Records /\ Deleted \in Records
  /\ \A n \in Names : File(n).kind = "file" /\ File(n) \in Records /\ File(n).name = n /\ File(n).start = 0
  /\ \A n \in Names, c \in Clusters : /\ Dir(n, c).kind = "dir" /\ Dir(n, c) \in Records
                                      /\ Dir(n, c).name = n /\ Dir(n, c).start = c
  /\ \A c \in Heads : /\ Dot(c).kind = "dot" /\ Dot(c) \in Records
                      /\ DotDot(c).kind = "dotdot" /\ DotDot(c) \in Records /\ DotDot(c).start = c
  <1>1. End \in Records /\ Deleted \in Records
    BY DEF Records
  <1>2. /\ \A n \in Names : File(n) \in Records
        /\ \A n \in Names, c \in Clusters : Dir(n, c) \in Records
        /\ \A c \in Heads : Dot(c) \in Records /\ DotDot(c) \in Records
    BY DEF Records
  <1>3. End.kind = "end" /\ Deleted.kind = "deleted"
    BY DEF End, Deleted
  <1>4. \A n \in Names : File(n).kind = "file" /\ File(n).name = n /\ File(n).start = 0
    BY DEF File
  <1>5. \A n \in Names, c \in Clusters : Dir(n, c).kind = "dir" /\ Dir(n, c).name = n /\ Dir(n, c).start = c
    BY DEF Dir
  <1>6. \A c \in Heads : Dot(c).kind = "dot" /\ DotDot(c).kind = "dotdot" /\ DotDot(c).start = c
    BY DEF Dot, DotDot
  <1>7. QED
    BY <1>1, <1>2, <1>3, <1>4, <1>5, <1>6

LEMMA AtIs ==
  ASSUME NEW D, IsDisk(D), NEW p \in AllPlaces
  PROVE  At(D, p) \in Records
  BY PlaceIs DEF IsDisk, At

(* A slot and a sector written.                                              *)
Put(D, p, e) == [D EXCEPT ![p[1]][p[2]] = e]
Fill(D, c, s) == [D EXCEPT ![c] = s]

LEMMA PutIs ==
  ASSUME NEW D, IsDisk(D), NEW p \in AllPlaces, NEW e \in Records
  PROVE  /\ IsDisk(Put(D, p, e))
         /\ \A q \in AllPlaces : At(Put(D, p, e), q) = IF q = p THEN e ELSE At(D, q)
         /\ \A c \in Heads : c # p[1] => Put(D, p, e)[c] = D[c]
  <1> DEFINE P == Put(D, p, e)
  <1>1. p = <<p[1], p[2]>> /\ p[1] \in Heads /\ p[2] \in 1 .. Slots(p[1])
    BY PlaceIs
  <1>2. DOMAIN D = Heads /\ \A c \in Heads : D[c] \in [1 .. Slots(c) -> Records]
    BY DEF IsDisk
  <1>3. P = [c \in Heads |-> IF c = p[1] THEN [D[c] EXCEPT ![p[2]] = e] ELSE D[c]]
    BY <1>1, <1>2 DEF Put
  <1>4. \A c \in Heads : P[c] = IF c = p[1] THEN [D[c] EXCEPT ![p[2]] = e] ELSE D[c]
    BY <1>3
  <1> HIDE DEF P
  <1>5. ASSUME NEW c \in Heads PROVE P[c] \in [1 .. Slots(c) -> Records]
    <2>1. D[c] \in [1 .. Slots(c) -> Records] /\ P[c] = IF c = p[1] THEN [D[c] EXCEPT ![p[2]] = e] ELSE D[c]
      BY <1>2, <1>4
    <2>2. CASE c = p[1]
      <3>1. P[c] = [D[c] EXCEPT ![p[2]] = e]
        BY <2>1, <2>2
      <3>2. QED
        BY <2>1, <3>1
    <2>3. CASE c # p[1]
      BY <2>1, <2>3
    <2>4. QED
      BY <2>2, <2>3
  <1>6. IsDisk(P)
    BY <1>3, <1>5 DEF IsDisk
  <1>7. ASSUME NEW q \in AllPlaces PROVE At(P, q) = IF q = p THEN e ELSE At(D, q)
    <2>1. q = <<q[1], q[2]>> /\ q[1] \in Heads /\ q[2] \in 1 .. Slots(q[1])
      BY PlaceIs
    <2>2. CASE q[1] # p[1]
      BY <1>4, <2>1, <2>2 DEF At
    <2>3. CASE q[1] = p[1]
      <3>1. P[q[1]] = [D[q[1]] EXCEPT ![p[2]] = e] /\ D[q[1]] \in [1 .. Slots(q[1]) -> Records]
        BY <1>2, <1>4, <2>1, <2>3
      <3>2. P[q[1]][q[2]] = IF q[2] = p[2] THEN e ELSE D[q[1]][q[2]]
        BY <2>1, <3>1
      <3>3. q = p <=> q[2] = p[2]
        BY <1>1, <2>1, <2>3
      <3>4. QED
        BY <3>2, <3>3 DEF At
    <2>4. QED
      BY <2>2, <2>3
  <1>8. QED
    BY <1>4, <1>6, <1>7 DEF P

LEMMA FillIs ==
  ASSUME NEW D, IsDisk(D), NEW c \in Clusters, NEW s \in [1 .. ClusterSlots -> Records]
  PROVE  /\ IsDisk(Fill(D, c, s)) /\ Fill(D, c, s)[c] = s
         /\ \A x \in Heads : x # c => Fill(D, c, s)[x] = D[x]
  <1>1. c \in Heads /\ Slots(c) = ClusterSlots
    BY HeadsAre, Numbers DEF Slots, Root
  <1>2. DOMAIN D = Heads /\ \A x \in Heads : D[x] \in [1 .. Slots(x) -> Records]
    BY DEF IsDisk
  <1>3. Fill(D, c, s) = [x \in Heads |-> IF x = c THEN s ELSE D[x]]
    BY <1>2 DEF Fill
  <1>4. \A x \in Heads : Fill(D, c, s)[x] = IF x = c THEN s ELSE D[x]
    BY <1>3
  <1>5. \A x \in Heads : Fill(D, c, s)[x] \in [1 .. Slots(x) -> Records]
    BY <1>1, <1>2, <1>4
  <1>6. QED
    BY <1>1, <1>3, <1>4, <1>5 DEF IsDisk

-----------------------------------------------------------------------------
(* The order of the places of a directory.                                   *)

LEMMA NatMin ==
  ASSUME NEW S \in SUBSET Nat, S # {}
  PROVE  \E m \in S : \A k \in S : m <= k
  <1>1. PICK m \in S : \A k \in S : <<k, m>> \notin OpToRel(<, Nat)
    BY NatLessThanWellFounded, WFMin
  <1>2. ASSUME NEW k \in S PROVE m <= k
    <2>1. k \in Nat /\ m \in Nat
      OBVIOUS
    <2>2. ASSUME k < m PROVE FALSE
      BY <1>1, <2>1, <2>2 DEF OpToRel
    <2>3. QED
      BY <2>1, <2>2
  <1>3. QED
    BY <1>2

(* From the j-th cluster a chain visits the later ones only.                 *)
LEMMA VisitedFrom ==
  ASSUME NEW f, NEW d, NEW n \in Nat, Ends(f, d, n), NEW j \in 0 .. n - 1
  PROVE  Visited(f, Node(f, d, j)) \subseteq {Node(f, d, i) : i \in j .. n - 1}
  <1> DEFINE S == {Node(f, d, i) : i \in j .. n - 1}
  <1>1. Node(f, d, j) \in S
    BY DEF S
  <1>2. ASSUME NEW c \in S PROVE c \in Clusters /\ (f[c] \in Clusters => f[c] \in S)
    <2>1. PICK i \in j .. n - 1 : c = Node(f, d, i)
      BY <1>2
    <2>2. i \in 0 .. n - 1 /\ i \in Nat /\ (i + 1 \in j .. n - 1 \/ i + 1 = n)
      BY <2>1
    <2>3. c \in Clusters
      BY <2>1, <2>2 DEF Ends
    <2>4. Node(f, d, i + 1) = f[c]
      BY <2>1, <2>2, <2>3, HopIs
    <2>5. f[c] \in Clusters => i + 1 # n
      BY <2>4, Numbers DEF Ends
    <2>6. QED
      BY <2>2, <2>3, <2>4, <2>5
  <1> HIDE DEF S
  <1>3. Visited(f, Node(f, d, j)) \subseteq S
    BY <1>1, <1>2, ChainLeast
  <1>4. QED
    BY <1>3 DEF S

(* Among places of a directory one is first.                                 *)
LEMMA FirstPlace ==
  ASSUME NEW f, NEW d \in Heads, d # Root => Proper(f, d), NEW S \in SUBSET Places(f, d), S # {}
  PROVE  \E p \in S : \A q \in S : ~Precedes(f, q, p)
  <1>1. \A p \in S : p \in AllPlaces /\ p[1] \in Area(f, d) /\ p[2] \in Nat
    BY PlaceIs
  <1>2. ASSUME NEW c, \E p \in S : p[1] = c
        PROVE  \E p \in S : p[1] = c /\ \A q \in S : q[1] = c => p[2] <= q[2]
    <2> DEFINE I == {p[2] : p \in {q \in S : q[1] = c}}
    <2>1. I \in SUBSET Nat /\ I # {}
      BY <1>1, <1>2
    <2>2. PICK m \in I : \A k \in I : m <= k
      BY <2>1, NatMin
    <2>3. QED
      BY <2>2
  <1>3. CASE d = Root
    <2>1. \A p \in S : p[1] = Root
      BY <1>1, <1>3, AreaIs
    <2>2. PICK p \in S : p[1] = Root /\ \A q \in S : q[1] = Root => p[2] <= q[2]
      BY <1>2, <2>1
    <2>3. \A q \in S : ~Precedes(f, q, p)
      BY <1>1, <2>1, <2>2 DEF Precedes
    <2>4. QED
      BY <2>3
  <1>4. CASE d # Root
    <2>1. PICK n \in Nat : n # 0 /\ Ends(f, d, n) /\ Visited(f, d) = Run(f, d, n)
      BY <1>4, ProperIs
    <2>2. \A p \in S : p[1] \in Run(f, d, n)
      BY <1>1, <1>4, <2>1, AreaIs
    <2> DEFINE K == {k \in 0 .. n - 1 : \E p \in S : p[1] = Node(f, d, k)}
    <2>3. K \in SUBSET Nat /\ K # {}
      BY <2>2 DEF Run
    <2>4. PICK m \in K : \A k \in K : m <= k
      BY <2>3, NatMin
    <2>5. PICK p \in S : p[1] = Node(f, d, m) /\ \A q \in S : q[1] = Node(f, d, m) => p[2] <= q[2]
      BY <1>2, <2>4
    <2>6. ASSUME NEW q \in S, Precedes(f, q, p) PROVE FALSE
      <3>1. q[1] # p[1]
        BY <1>1, <2>5, <2>6 DEF Precedes
      <3>2. p[1] \in Visited(f, q[1])
        BY <2>6, <3>1 DEF Precedes
      <3>3. PICK j \in 0 .. n - 1 : q[1] = Node(f, d, j)
        BY <2>2 DEF Run
      <3>4. PICK i \in j .. n - 1 : p[1] = Node(f, d, i)
        BY <2>1, <3>2, <3>3, VisitedFrom
      <3>5. i \in 0 .. n - 1 /\ m \in 0 .. n - 1 /\ j \in K
        BY <3>3, <3>4
      <3>6. i = m
        BY <2>1, <2>5, <3>4, <3>5, Distinct
      <3>7. m <= j /\ j <= i
        BY <2>4, <3>4, <3>5
      <3>8. j = m
        BY <2>1, <3>5, <3>6, <3>7
      <3>9. QED
        BY <2>5, <3>1, <3>3, <3>8
    <2>7. QED
      BY <2>6
  <1>5. QED
    BY <1>3, <1>4

-----------------------------------------------------------------------------
(* What is repeated: a step h, n times, from a.                              *)

Iterated(n, S, a, h, g) ==
  g \in [0 .. n -> S] /\ g[0] = a /\ \A i \in 1 .. n : g[i] = h[g[i - 1]]

LEMMA Iterate ==
  ASSUME NEW n \in Nat, NEW S, NEW a \in S, NEW h \in [S -> S]
  PROVE  \E g : Iterated(n, S, a, h, g)
  <1> DEFINE Is(k, g) == g \in [0 .. k -> S] /\ g[0] = a /\ \A i \in 1 .. k : g[i] = h[g[i - 1]]
             T == {k \in 0 .. n : \E g : Is(k, g)}
  <1>1. 0 \in T
    <2> DEFINE g == [i \in 0 .. 0 |-> a]
    <2>1. Is(0, g) /\ 0 \in 0 .. n
      OBVIOUS
    <2> HIDE DEF g, Is
    <2>2. QED
      BY <2>1
  <1>2. ASSUME NEW k \in 0 .. n - 1, k \in T PROVE k + 1 \in T
    <2>1. PICK g : Is(k, g)
      BY <1>2
    <2> DEFINE b == [i \in 0 .. k + 1 |-> IF i = k + 1 THEN h[g[k]] ELSE g[i]]
    <2>2. k \in Nat /\ k \in 0 .. k /\ k + 1 \in 0 .. n /\ \A i \in 0 .. k : i # k + 1 /\ i \in 0 .. k + 1
      OBVIOUS
    <2>3. \A i \in 0 .. k : b[i] = g[i]
      BY <2>2
    <2>4. b[k + 1] = h[g[k]]
      BY <2>2
    <2>5. h[g[k]] \in S
      BY <2>1, <2>2
    <2>6. \A i \in 0 .. k + 1 : i \in 0 .. k \/ i = k + 1
      BY <2>2
    <2>7. b \in [0 .. k + 1 -> S]
      <3>1. \A i \in 0 .. k + 1 : b[i] \in S
        BY <2>1, <2>3, <2>4, <2>5, <2>6
      <3>2. b = [i \in 0 .. k + 1 |-> b[i]]
        OBVIOUS
      <3> HIDE DEF b
      <3>3. QED
        BY <3>1, <3>2
    <2> HIDE DEF b
    <2>8. b[0] = a
      BY <2>1, <2>2, <2>3
    <2>9. ASSUME NEW i \in 1 .. k + 1 PROVE b[i] = h[b[i - 1]]
      <3>1. CASE i = k + 1
        <4>1. i - 1 = k
          BY <2>2, <3>1
        <4>2. QED
          BY <2>2, <2>3, <2>4, <3>1, <4>1
      <3>2. CASE i \in 1 .. k
        <4>1. i \in 0 .. k /\ i - 1 \in 0 .. k
          BY <3>2
        <4>2. QED
          BY <2>1, <2>3, <3>2, <4>1
      <3>3. QED
        BY <2>2, <3>1, <3>2
    <2>10. Is(k + 1, b)
      BY <2>7, <2>8, <2>9
    <2> HIDE DEF Is
    <2>11. QED
      BY <2>2, <2>10
  <1>3. n \in T
    <2> HIDE DEF T
    <2>1. \A k \in 0 .. n : k \in T
      BY <1>1, <1>2, UpTo
    <2>2. QED
      BY <2>1
  <1>4. PICK g : Is(n, g)
    BY <1>3
  <1>5. QED
    BY <1>4 DEF Iterated

-----------------------------------------------------------------------------
(* The directories a walk from the root finds.                               *)

(* One round of the walk. *)
Round(D, f, X) == X \cup UNION {Kids(D, f, d) : d \in X}

Walked(D, f, u) == u = [i \in 0 .. NumClusters |->
                          IF i = 0 THEN {Root}
                          ELSE u[i - 1] \cup UNION {Kids(D, f, d) : d \in u[i - 1]}]

LEMMA HeadsFinite ==
  IsFiniteSet(Heads) /\ Cardinality(Heads) = NumClusters + 1
  <1>1. NumClusters \in Nat /\ Heads = 0 .. NumClusters
    BY Numbers DEF Heads, Root, Clusters
  <1>2. 0 \in Int /\ NumClusters \in Int
    BY <1>1
  <1>3. IsFiniteSet(0 .. NumClusters)
        /\ Cardinality(0 .. NumClusters) = IF 0 > NumClusters THEN 0 ELSE NumClusters - 0 + 1
    BY <1>2, FS_Interval
  <1>4. QED
    BY <1>1, <1>3

(* The rounds that Reached makes. *)
Stages(D, f, u) ==
  /\ u \in [0 .. NumClusters -> SUBSET Heads]
  /\ Reached(D, f) = u[NumClusters] /\ u[0] = {Root}
  /\ \A i \in 1 .. NumClusters : u[i] = Round(D, f, u[i - 1])

LEMMA ReachedStages ==
  ASSUME NEW D, NEW f
  PROVE  \E u : Stages(D, f, u)
  <1> DEFINE Z == SUBSET Heads
             h == [X \in Z |-> Round(D, f, X)]
  <1>1. \A d : Kids(D, f, d) \subseteq Heads
    BY HeadsAre DEF Kids
  <1>2. h \in [Z -> Z]
    <2>1. \A X \in Z : Round(D, f, X) \in Z
      BY <1>1 DEF Round
    <2>2. QED
      BY <2>1
  <1>3. {Root} \in Z
    BY HeadsAre
  <1>4. \A X \in Z : h[X] = Round(D, f, X)
    OBVIOUS
  <1> HIDE DEF h, Z
  <1>5. PICK g \in [0 .. NumClusters -> Z] :
          g[0] = {Root} /\ \A i \in 1 .. NumClusters : g[i] = h[g[i - 1]]
    <2>1. NumClusters \in Nat
      BY Numbers
    <2>2. \E g : Iterated(NumClusters, Z, {Root}, h, g)
      BY <1>2, <1>3, <2>1, Iterate
    <2>3. QED
      BY <2>2 DEF Iterated
  <1>6. ASSUME NEW i \in 0 .. NumClusters
        PROVE  g[i] = IF i = 0 THEN {Root}
                      ELSE g[i - 1] \cup UNION {Kids(D, f, d) : d \in g[i - 1]}
    <2>1. g[i] = IF i = 0 THEN {Root} ELSE h[g[i - 1]]
      <3>1. i = 0 \/ i \in 1 .. NumClusters
        BY Numbers
      <3>2. QED
        BY <1>5, <3>1
    <2>2. CASE i = 0
      BY <2>1, <2>2
    <2>3. CASE i # 0
      <3>1. i - 1 \in 0 .. NumClusters
        BY <2>3, Numbers
      <3>2. h[g[i - 1]] = Round(D, f, g[i - 1])
        BY <1>4, <1>5, <3>1
      <3>3. QED
        BY <2>1, <2>3, <3>2 DEF Round
    <2>4. QED
      BY <2>2, <2>3
  <1>7. g = [i \in 0 .. NumClusters |-> g[i]]
    BY <1>5
  <1>8. Walked(D, f, g)
    BY <1>6, <1>7 DEF Walked
  <1> DEFINE u == CHOOSE x : Walked(D, f, x)
  <1>9. Walked(D, f, u)
    BY <1>8
  <1>10. Reached(D, f) = u[NumClusters]
    BY Zenon DEF Reached, Walked
  <1> HIDE DEF u
  <1>11. \A i \in 0 .. NumClusters : u[i] = IF i = 0 THEN {Root}
                                            ELSE u[i - 1] \cup UNION {Kids(D, f, d) : d \in u[i - 1]}
    BY <1>9 DEF Walked
  <1>12. 0 \in 0 .. NumClusters /\ \A i \in 1 .. NumClusters : i \in 0 .. NumClusters /\ i # 0 /\ i - 1 \in 0 .. NumClusters
    BY Numbers
  <1>13. u[0] = {Root} /\ \A i \in 1 .. NumClusters : u[i] = Round(D, f, u[i - 1])
    BY <1>11, <1>12 DEF Round
  <1>14. \A i \in 0 .. NumClusters : u[i] \in SUBSET Heads
    <2> DEFINE T == {i \in 0 .. NumClusters : u[i] \in SUBSET Heads}
    <2>1. 0 \in T
      BY <1>12, <1>13, HeadsAre
    <2>2. ASSUME NEW i \in 0 .. NumClusters - 1, i \in T PROVE i + 1 \in T
      <3>1. i + 1 \in 1 .. NumClusters /\ i + 1 \in 0 .. NumClusters /\ (i + 1) - 1 = i
        BY Numbers
      <3>2. u[i + 1] = Round(D, f, u[i])
        BY <1>13, <3>1
      <3>3. QED
        BY <1>1, <2>2, <3>1, <3>2 DEF Round
    <2> HIDE DEF T
    <2>3. \A i \in 0 .. NumClusters : i \in T
      BY <2>1, <2>2, UpTo, Numbers
    <2>4. QED
      BY <2>3 DEF T
  <1>15. u \in [0 .. NumClusters -> SUBSET Heads]
    <2>1. u = [i \in 0 .. NumClusters |-> u[i]]
      BY <1>9 DEF Walked
    <2>2. QED
      BY <1>14, <2>1
  <1>16. QED
    BY <1>10, <1>13, <1>15 DEF Stages

(* It finds them all: more rounds find no more.                              *)
LEMMA ReachedClosed ==
  ASSUME NEW D, NEW f
  PROVE  /\ Root \in Reached(D, f) /\ Reached(D, f) \subseteq Heads
         /\ \A d \in Reached(D, f) : Kids(D, f, d) \subseteq Reached(D, f)
  <1>0. PICK u : Stages(D, f, u)
    BY ReachedStages
  <1>1. /\ u \in [0 .. NumClusters -> SUBSET Heads]
        /\ Reached(D, f) = u[NumClusters] /\ u[0] = {Root}
        /\ \A i \in 1 .. NumClusters : u[i] = Round(D, f, u[i - 1])
    BY <1>0 DEF Stages
  <1>2. \A d : Kids(D, f, d) \subseteq Heads
    BY HeadsAre DEF Kids
  <1> DEFINE T == {i \in 0 .. NumClusters :
                     /\ Root \in u[i]
                     /\ \/ Cardinality(u[i]) >= i + 1
                        \/ \A d \in u[i] : Kids(D, f, d) \subseteq u[i]}
  <1>3. 0 \in T
    <2>1. Cardinality({Root}) = 1
      BY FS_Singleton
    <2>2. 0 \in 0 .. NumClusters /\ 1 >= 0 + 1
      BY Numbers
    <2>3. Cardinality(u[0]) = 1
      BY <1>1, <2>1
    <2>4. Cardinality(u[0]) >= 0 + 1
      BY <2>2, <2>3
    <2>5. QED
      BY <1>1, <2>2, <2>4
  <1>4. ASSUME NEW i \in 0 .. NumClusters - 1, i \in T PROVE i + 1 \in T
    <2>1. i \in Nat /\ i + 1 \in 1 .. NumClusters /\ i + 1 \in 0 .. NumClusters /\ (i + 1) - 1 = i /\ i \in 0 .. NumClusters
      BY Numbers
    <2>2. u[i + 1] = Round(D, f, u[i])
      BY <1>1, <2>1
    <2>3. Root \in u[i] /\ (Cardinality(u[i]) >= i + 1 \/ \A d \in u[i] : Kids(D, f, d) \subseteq u[i])
      BY <1>4
    <2>4. Root \in u[i + 1] /\ u[i] \subseteq u[i + 1]
      BY <2>2, <2>3 DEF Round
    <2>5. CASE u[i + 1] = u[i]
      <3>1. \A d \in u[i + 1] : Kids(D, f, d) \subseteq u[i + 1]
        BY <2>2, <2>5 DEF Round
      <3>2. QED
        BY <2>1, <2>4, <3>1
    <2>6. CASE u[i + 1] # u[i]
      <3>1. Cardinality(u[i]) >= i + 1
        <4>1. ~(\A d \in u[i] : Kids(D, f, d) \subseteq u[i])
          BY <2>2, <2>6 DEF Round
        <4>2. QED
          BY <2>3, <4>1
      <3>2. IsFiniteSet(u[i + 1])
        <4>1. u[i + 1] \in SUBSET Heads
          BY <1>1, <2>1
        <4>2. QED
          BY <4>1, HeadsFinite, FS_Subset
      <3>3. /\ Cardinality(u[i]) <= Cardinality(u[i + 1])
            /\ Cardinality(u[i + 1]) = Cardinality(u[i]) => u[i + 1] = u[i]
        <4>1. u[i] \in SUBSET u[i + 1]
          BY <2>4
        <4>2. QED
          BY <3>2, <4>1, FS_Subset
      <3>4. Cardinality(u[i]) \in Nat /\ Cardinality(u[i + 1]) \in Nat
        <4>1. IsFiniteSet(u[i])
          BY <2>4, <3>2, FS_Subset
        <4>2. QED
          BY <3>2, <4>1, FS_CardinalityType
      <3>5. Cardinality(u[i + 1]) >= (i + 1) + 1
        BY <2>1, <2>6, <3>1, <3>3, <3>4
      <3>6. QED
        BY <2>1, <2>4, <3>5
    <2>7. QED
      BY <2>5, <2>6
  <1>5. NumClusters \in T
    <2> HIDE DEF T
    <2>1. \A i \in 0 .. NumClusters : i \in T
      BY <1>3, <1>4, UpTo, Numbers
    <2>2. QED
      BY <2>1, Numbers
  <1>6. u[NumClusters] \in SUBSET Heads
    BY <1>1, Numbers
  <1>7. CASE Cardinality(u[NumClusters]) >= NumClusters + 1
    <2>1. /\ Cardinality(u[NumClusters]) <= Cardinality(Heads)
          /\ Cardinality(Heads) = Cardinality(u[NumClusters]) => Heads = u[NumClusters]
      BY <1>6, HeadsFinite, FS_Subset
    <2>2. Cardinality(u[NumClusters]) \in Nat
      BY <1>6, HeadsFinite, FS_Subset, FS_CardinalityType
    <2>3. Heads = u[NumClusters]
      BY <1>7, <2>1, <2>2, HeadsFinite, Numbers
    <2>4. QED
      BY <1>1, <1>2, <2>3, HeadsAre
  <1>8. QED
    BY <1>1, <1>5, <1>6, <1>7

LEMMA ReachedLeast ==
  ASSUME NEW D, NEW f, NEW Z, Root \in Z, \A d \in Z : Kids(D, f, d) \subseteq Z
  PROVE  Reached(D, f) \subseteq Z
  <1>0. PICK u : Stages(D, f, u)
    BY ReachedStages
  <1>1. /\ u \in [0 .. NumClusters -> SUBSET Heads]
        /\ Reached(D, f) = u[NumClusters] /\ u[0] = {Root}
        /\ \A i \in 1 .. NumClusters : u[i] = Round(D, f, u[i - 1])
    BY <1>0 DEF Stages
  <1> DEFINE T == {i \in 0 .. NumClusters : u[i] \subseteq Z}
  <1>2. 0 \in T
    BY <1>1, Numbers
  <1>3. ASSUME NEW i \in 0 .. NumClusters - 1, i \in T PROVE i + 1 \in T
    <2>1. i + 1 \in 1 .. NumClusters /\ i + 1 \in 0 .. NumClusters /\ (i + 1) - 1 = i
      BY Numbers
    <2>2. u[i + 1] = Round(D, f, u[i])
      BY <1>1, <2>1
    <2>3. QED
      BY <1>3, <2>1, <2>2 DEF Round
  <1> HIDE DEF T
  <1>4. \A i \in 0 .. NumClusters : i \in T
    BY <1>2, <1>3, UpTo, Numbers
  <1>5. QED
    BY <1>1, <1>4, Numbers DEF T

-----------------------------------------------------------------------------
(* A sound volume.                                                           *)

(* The places of the files and folders in d. *)
Named(D, f, d) == {p \in Places(f, d) : At(D, p).kind \in {"file", "dir"}}

(* Behind an entry never used d has no other. *)
EndsLast(D, f, d) ==
  \A p, q \in Places(f, d) : At(D, p).kind = "end" /\ Precedes(f, p, q) => At(D, q).kind = "end"

(* A directory by itself: its chain, its dot entries, and no name or folder
   twice. *)
Rows(D, f, d) ==
  /\ d # Root => Proper(f, d) /\ D[d][1] = Dot(d) /\ D[d][2].kind = "dotdot"
  /\ \A p \in Places(f, d) :
       At(D, p).kind \in {"dot", "dotdot"} => d # Root /\ p \in {<<d, 1>>, <<d, 2>>}
  /\ EndsLast(D, f, d)
  /\ \A p, q \in Named(D, f, d) : At(D, p).name = At(D, q).name => p = q
  /\ \A p, q \in Named(D, f, d) :
       At(D, p).kind = "dir" /\ At(D, q).kind = "dir" /\ At(D, p).start = At(D, q).start => p = q

Apart(f, R) == \A d, g \in R : d # g => Area(f, d) \cap Area(f, g) = {}

Shape(D, f, R) ==
  /\ R \subseteq Heads /\ Root \in R
  /\ \A d \in R : Rows(D, f, d)
  /\ Apart(f, R)

(* The directories of R are those found from the root, and each is whole. *)
Stands(D, f, R) == Shape(D, f, R) /\ R = Reached(D, f)

(* Dot-dot entries lead back, and no cluster is in use for nothing. *)
Linked(D, f, R) ==
  \A d \in R : \A p \in Named(D, f, d) : At(D, p).kind = "dir" => D[At(D, p).start][2] = DotDot(d)

Used(f, R) == \A c \in Clusters : f[c] # FREE => \E d \in R : c \in Area(f, d)

(* The volume between calls, holding the entries of E. *)
Volume(D, f, R, E) ==
  /\ IsDisk(D) /\ f \in Fats
  /\ Stands(D, f, R) /\ Linked(D, f, R) /\ Used(f, R)
  /\ E = Contents(D, f)

Rec(D, d, p) == [in |-> d, name |-> At(D, p).name, id |-> At(D, p).start]

LEMMA LiveIs ==
  ASSUME NEW D, NEW f, NEW d, EndsLast(D, f, d)
  PROVE  Live(D, f, d) = Named(D, f, d)
  <1>1. ASSUME NEW p \in Named(D, f, d) PROVE p \in Seen(D, f, d)
    <2>1. p \in Places(f, d) /\ At(D, p).kind # "end"
      BY DEF Named
    <2>2. ASSUME NEW q \in Places(f, d), At(D, q).kind = "end" PROVE ~Precedes(f, q, p)
      BY <2>1, <2>2 DEF EndsLast
    <2>3. QED
      BY <2>1, <2>2 DEF Seen
  <1>2. Live(D, f, d) \subseteq Named(D, f, d)
    BY DEF Live, Seen, Named
  <1>3. QED
    BY <1>1, <1>2 DEF Live, Named

LEMMA NamedIs ==
  ASSUME NEW D, IsDisk(D), NEW f, NEW d \in Heads, NEW p \in Named(D, f, d)
  PROVE  /\ p \in Places(f, d) /\ p \in AllPlaces /\ At(D, p) \in Records
         /\ At(D, p).kind \in {"file", "dir"} /\ At(D, p).name \in Names
         /\ At(D, p).kind = "file" => At(D, p).start = 0 /\ At(D, p) = File(At(D, p).name)
         /\ At(D, p).kind = "dir" => /\ At(D, p).start \in Clusters
                                     /\ At(D, p) = Dir(At(D, p).name, At(D, p).start)
  <1>1. p \in Places(f, d) /\ p \in AllPlaces /\ At(D, p).kind \in {"file", "dir"}
    BY PlaceIs DEF Named
  <1>2. At(D, p) \in Records
    BY <1>1, AtIs
  <1>3. QED
    BY <1>1, <1>2, RecordIs

LEMMA KidsAre ==
  ASSUME NEW D, IsDisk(D), NEW f, NEW d \in Heads, EndsLast(D, f, d)
  PROVE  \A c : c \in Kids(D, f, d) <=>
                  \E p \in Named(D, f, d) : At(D, p).kind = "dir" /\ At(D, p).start = c
  <1>1. Live(D, f, d) = Named(D, f, d)
    BY LiveIs
  <1>2. \A p \in Named(D, f, d) : At(D, p).kind = "dir" => At(D, p).start \in Clusters
    BY NamedIs
  <1>3. QED
    BY <1>1, <1>2 DEF Kids

LEMMA ContentsAre ==
  ASSUME NEW D, NEW f, NEW R, Stands(D, f, R)
  PROVE  \A x : x \in Contents(D, f) <=> \E d \in R : \E p \in Named(D, f, d) : x = Rec(D, d, p)
  <1>1. R = Reached(D, f) /\ \A d \in R : Live(D, f, d) = Named(D, f, d)
    BY LiveIs DEF Stands, Shape, Rows
  <1>2. QED
    BY <1>1 DEF Contents, Rec

(* A cluster belongs to one directory.                                       *)
LEMMA OneArea ==
  ASSUME NEW f, NEW R, Apart(f, R), NEW d \in R, NEW g \in R, NEW c \in Area(f, d), c \in Area(f, g)
  PROVE  d = g
  BY DEF Apart

LEMMA OnePlace ==
  ASSUME NEW f, NEW R, Apart(f, R), NEW d \in R, NEW g \in R, NEW p \in Places(f, d), p \in Places(f, g)
  PROVE  d = g
  BY PlaceIs, OneArea

(* A folder of a sound volume is found, used, and begins with its dot entry. *)
LEMMA MemberIs ==
  ASSUME NEW D, IsDisk(D), NEW f, NEW R, Shape(D, f, R), NEW d \in R
  PROVE  /\ d \in Heads /\ (d # Root => d \in Clusters) /\ EndsLast(D, f, d)
         /\ d \in Area(f, d) /\ Area(f, d) \subseteq Heads
         /\ d # Root => /\ Proper(f, d) /\ f[d] # FREE
                        /\ Area(f, d) = Visited(f, d) /\ Area(f, d) \subseteq Clusters
                        /\ D[d][1] = Dot(d) /\ D[d][2].kind = "dotdot"
         /\ \A c \in Area(f, d) : c \in Clusters => f[c] # FREE
  <1>1. d \in Heads /\ (d # Root => d \in Clusters) /\ EndsLast(D, f, d)
    BY HeadsAre DEF Shape, Rows
  <1>2. d \in Area(f, d) /\ Area(f, d) \subseteq Heads
    BY <1>1, AreaIs
  <1>3. d # Root => /\ Proper(f, d)
                    /\ Area(f, d) = Visited(f, d) /\ Area(f, d) \subseteq Clusters
                    /\ D[d][1] = Dot(d) /\ D[d][2].kind = "dotdot"
    BY <1>1, AreaIs DEF Shape, Rows
  <1>4. \A c \in Area(f, d) : c \in Clusters => f[c] # FREE
    <2>1. CASE d = Root
      BY <2>1, AreaIs, HeadsAre
    <2>2. CASE d # Root
      BY <1>3, <2>2, ChainLinks
    <2>3. QED
      BY <2>1, <2>2
  <1>5. QED
    BY <1>1, <1>2, <1>3, <1>4

(* What a folder of the tree holds is in the tree.                           *)
LEMMA KidIs ==
  ASSUME NEW D, IsDisk(D), NEW f, NEW R, Stands(D, f, R), NEW d \in R, NEW p \in Named(D, f, d),
         At(D, p).kind = "dir"
  PROVE  At(D, p).start \in R /\ At(D, p).start \in Clusters /\ At(D, p).start # Root
  <1>1. d \in Heads /\ EndsLast(D, f, d)
    BY MemberIs DEF Stands
  <1>2. At(D, p).start \in Kids(D, f, d)
    BY <1>1, KidsAre
  <1>3. At(D, p).start \in R
    BY <1>2, ReachedClosed DEF Stands
  <1>4. At(D, p).start \in Clusters
    BY <1>1, NamedIs
  <1>5. QED
    BY <1>3, <1>4, HeadsAre

(* Every folder of the tree is an entry of one of its directories.           *)
LEMMA EveryNamed ==
  ASSUME NEW D, IsDisk(D), NEW f, NEW R, Stands(D, f, R), NEW c \in R, c # Root
  PROVE  \E d \in R : \E p \in Named(D, f, d) : At(D, p).kind = "dir" /\ At(D, p).start = c
  <1> DEFINE Z == {x \in R : x # Root => \E d \in R : \E p \in Named(D, f, d) :
                                               At(D, p).kind = "dir" /\ At(D, p).start = x}
  <1>1. Root \in Z
    BY DEF Stands, Shape
  <1>2. ASSUME NEW d \in Z PROVE Kids(D, f, d) \subseteq Z
    <2>1. d \in R
      OBVIOUS
    <2>2. d \in Heads /\ EndsLast(D, f, d)
      BY <2>1, MemberIs DEF Stands
    <2>3. ASSUME NEW x \in Kids(D, f, d) PROVE x \in Z
      <3>1. PICK p \in Named(D, f, d) : At(D, p).kind = "dir" /\ At(D, p).start = x
        BY <2>2, KidsAre
      <3>2. x \in R
        BY <2>1, <3>1, KidIs
      <3>3. QED
        BY <2>1, <3>1, <3>2
    <2>4. QED
      BY <2>3
  <1>3. Reached(D, f) \subseteq Z
    <2> HIDE DEF Z
    <2>1. QED
      BY <1>1, <1>2, ReachedLeast
  <1>4. c \in Z
    BY <1>3 DEF Stands
  <1>5. QED
    BY <1>4

(* ... and of one only.                                                      *)
LEMMA OneName ==
  ASSUME NEW D, IsDisk(D), NEW f, NEW R, Stands(D, f, R), Linked(D, f, R),
         NEW d \in R, NEW p \in Named(D, f, d), At(D, p).kind = "dir",
         NEW g \in R, NEW q \in Named(D, f, g), At(D, q).kind = "dir", At(D, p).start = At(D, q).start
  PROVE  d = g /\ p = q
  <1>1. d \in Heads /\ g \in Heads
    BY MemberIs DEF Stands
  <1>2. DotDot(d) = DotDot(g)
    BY DEF Linked
  <1>3. d = g
    <2>1. DotDot(d).start = d /\ DotDot(g).start = g
      BY <1>1, KindsOf
    <2>2. QED
      BY <1>2, <2>1
  <1>4. p = q
    BY <1>3 DEF Stands, Shape, Rows
  <1>5. QED
    BY <1>3, <1>4

LEMMA ParentIs ==
  ASSUME NEW D, IsDisk(D), NEW f, NEW R, Stands(D, f, R), Linked(D, f, R), NEW c \in R, c # Root
  PROVE  \E d \in R : /\ D[c][2] = DotDot(d) /\ D[c][2].start = d
                      /\ \E p \in Named(D, f, d) : At(D, p).kind = "dir" /\ At(D, p).start = c
  <1>1. PICK d \in R : \E p \in Named(D, f, d) : At(D, p).kind = "dir" /\ At(D, p).start = c
    BY EveryNamed
  <1>2. D[c][2] = DotDot(d)
    BY <1>1 DEF Linked
  <1>3. d \in Heads
    BY MemberIs DEF Stands
  <1>4. DotDot(d).start = d
    BY <1>3, KindsOf
  <1>5. QED
    BY <1>1, <1>2, <1>4

(* fat12_dir_guard knows the directories of a sound volume.                  *)
LEMMA GuardIs ==
  ASSUME NEW D, IsDisk(D), NEW f, NEW R, Stands(D, f, R), Used(f, R), NEW d \in Heads,
         d # Root => f[d] # FREE /\ D[d][1] = Dot(d) /\ D[d][2].kind = "dotdot"
  PROVE  d \in R
  <1>1. SUFFICES ASSUME d # Root PROVE d \in R
    BY DEF Stands, Shape
  <1>2. d \in Clusters
    BY <1>1, HeadsAre
  <1>3. PICK g \in R : d \in Area(f, g)
    BY <1>1, <1>2 DEF Used
  <1>4. 1 \in 1 .. Slots(d) /\ At(D, <<d, 1>>).kind = "dot"
    <2>1. Slots(d) \in Nat /\ Slots(d) # 0
      BY HeadsAre
    <2>2. D[d][1].kind = "dot"
      BY <1>1, KindsOf
    <2>3. QED
      BY <2>1, <2>2 DEF At
  <1>5. <<d, 1>> \in Places(f, g)
    BY <1>3, <1>4, IsPlace
  <1>6. <<d, 1>> \in {<<g, 1>>, <<g, 2>>}
    BY <1>4, <1>5 DEF Stands, Shape, Rows
  <1>7. d = g
    BY <1>6
  <1>8. QED
    BY <1>7

-----------------------------------------------------------------------------
(* One slot of a directory written.                                          *)

(* No entry never used lies before p. *)
Ahead(D, f, d, p) == \A q \in Places(f, d) : Precedes(f, q, p) => At(D, q).kind # "end"

(* e repeats nothing that d names at another place than p. *)
Fresh(D, f, d, p, e) ==
  e.kind \in {"file", "dir"} =>
    \A q \in Named(D, f, d) : q # p =>
      /\ At(D, q).name # e.name
      /\ e.kind = "dir" /\ At(D, q).kind = "dir" => At(D, q).start # e.start

(* What may be written at p of d. *)
Fits(D, f, d, p, e) ==
  /\ p \in Places(f, d) /\ At(D, p).kind \notin {"dot", "dotdot"}
  /\ Ahead(D, f, d, p)
  /\ e \in Records /\ e.kind \in {"deleted", "file", "dir"}
  /\ Fresh(D, f, d, p, e)

(* What then differs in the directories of R: the entry at p. *)
Differs(D, P, f, R, d, p, e) ==
  /\ \A g \in R : \A q \in Places(f, g) : At(P, q) = IF q = p THEN e ELSE At(D, q)
  /\ \A g \in R : \A q : q \in Named(P, f, g) <=>
       IF q = p THEN g = d /\ e.kind \in {"file", "dir"} ELSE q \in Named(D, f, g)
  /\ \A c \in R : c # Root => P[c][1] = D[c][1] /\ P[c][2] = D[c][2]

LEMMA PutDiffers ==
  ASSUME NEW D, IsDisk(D), NEW f, NEW R, Shape(D, f, R), NEW d \in R, NEW p, NEW e, Fits(D, f, d, p, e)
  PROVE  IsDisk(Put(D, p, e)) /\ Differs(D, Put(D, p, e), f, R, d, p, e)
  <1> DEFINE P == Put(D, p, e)
  <1>1. p \in Places(f, d) /\ p \in AllPlaces /\ d \in Heads
    BY MemberIs, PlaceIs DEF Fits
  <1>2. /\ IsDisk(P)
        /\ \A q \in AllPlaces : At(P, q) = IF q = p THEN e ELSE At(D, q)
    BY <1>1, PutIs DEF Fits
  <1> HIDE DEF P
  <1>3. ASSUME NEW g \in R, NEW q \in Places(f, g) PROVE At(P, q) = IF q = p THEN e ELSE At(D, q)
    <2>1. g \in Heads
      BY MemberIs
    <2>2. q \in AllPlaces
      BY <2>1, PlaceIs
    <2>3. QED
      BY <1>2, <2>2
  <1>4. ASSUME NEW g \in R, NEW q
        PROVE  q \in Named(P, f, g) <=>
                 IF q = p THEN g = d /\ e.kind \in {"file", "dir"} ELSE q \in Named(D, f, g)
    <2>1. CASE q = p
      <3>1. q \in Places(f, g) => g = d
        BY <1>1, <2>1, OnePlace DEF Shape
      <3>2. At(P, p) = e
        BY <1>1, <1>3
      <3>3. QED
        BY <1>1, <2>1, <3>1, <3>2 DEF Named
    <2>2. CASE q # p
      BY <1>3, <2>2 DEF Named
    <2>3. QED
      BY <2>1, <2>2
  <1>5. ASSUME NEW c \in R, c # Root PROVE P[c][1] = D[c][1] /\ P[c][2] = D[c][2]
    <2>1. c \in Clusters /\ c \in Heads /\ c \in Area(f, c) /\ D[c][1] = Dot(c) /\ D[c][2].kind = "dotdot"
      BY <1>5, MemberIs
    <2>2. 1 \in 1 .. Slots(c) /\ 2 \in 1 .. Slots(c)
      BY <1>5, <2>1, HeadsAre
    <2>3. <<c, 1>> \in Places(f, c) /\ <<c, 2>> \in Places(f, c)
      BY <2>1, <2>2, IsPlace
    <2>4. At(D, <<c, 1>>) = D[c][1] /\ At(D, <<c, 2>>) = D[c][2] /\ At(P, <<c, 1>>) = P[c][1] /\ At(P, <<c, 2>>) = P[c][2]
      BY DEF At
    <2>5. D[c][1].kind = "dot"
      BY <2>1, KindsOf
    <2>6. <<c, 1>> # p /\ <<c, 2>> # p
      BY <2>1, <2>4, <2>5 DEF Fits
    <2>7. QED
      BY <1>3, <2>3, <2>4, <2>6
  <1>6. QED
    BY <1>2, <1>3, <1>4, <1>5 DEF Differs, P

LEMMA PutRows ==
  ASSUME NEW D, IsDisk(D), NEW f, NEW R, Shape(D, f, R), NEW d \in R, NEW p, NEW e, Fits(D, f, d, p, e),
         NEW g \in R
  PROVE  Rows(Put(D, p, e), f, g)
  <1> DEFINE P == Put(D, p, e)
  <1>1. Differs(D, P, f, R, d, p, e)
    BY PutDiffers
  <1> HIDE DEF P
  <1>2. Rows(D, f, g)
    BY DEF Shape
  <1>3. p \in Places(f, d) /\ (p \in Places(f, g) => g = d)
    BY OnePlace DEF Fits, Shape
  <1>4. g # Root => Proper(f, g) /\ P[g][1] = Dot(g) /\ P[g][2].kind = "dotdot"
    BY <1>1, <1>2 DEF Rows, Differs
  <1>5. ASSUME NEW q \in Places(f, g), At(P, q).kind \in {"dot", "dotdot"}
        PROVE  g # Root /\ q \in {<<g, 1>>, <<g, 2>>}
    <2>1. At(P, q) = IF q = p THEN e ELSE At(D, q)
      BY <1>1 DEF Differs
    <2>2. At(D, q).kind \in {"dot", "dotdot"}
      BY <1>5, <2>1 DEF Fits
    <2>3. QED
      BY <1>2, <2>2 DEF Rows
  <1>6. EndsLast(P, f, g)
    <2> SUFFICES ASSUME NEW x \in Places(f, g), NEW y \in Places(f, g), At(P, x).kind = "end", Precedes(f, x, y)
                 PROVE  At(P, y).kind = "end"
      BY DEF EndsLast
    <2>1. At(P, x) = (IF x = p THEN e ELSE At(D, x)) /\ At(P, y) = (IF y = p THEN e ELSE At(D, y))
      BY <1>1 DEF Differs
    <2>2. x # p /\ At(D, x).kind = "end"
      BY <2>1 DEF Fits
    <2>3. y # p
      BY <1>3, <2>2 DEF Fits, Ahead
    <2>4. At(D, y).kind = "end"
      BY <1>2, <2>2 DEF Rows, EndsLast
    <2>5. QED
      BY <2>1, <2>3, <2>4
  <1>7. \A q : q \in Named(P, f, g) <=>
          IF q = p THEN g = d /\ e.kind \in {"file", "dir"} ELSE q \in Named(D, f, g)
    BY <1>1 DEF Differs
  <1>8. \A q \in Named(P, f, g) : At(P, q) = IF q = p THEN e ELSE At(D, q)
    BY <1>1 DEF Differs, Named
  <1>9. ASSUME NEW x \in Named(P, f, g), NEW y \in Named(P, f, g)
        PROVE  /\ At(P, x).name = At(P, y).name => x = y
               /\ At(P, x).kind = "dir" /\ At(P, y).kind = "dir" /\ At(P, x).start = At(P, y).start => x = y
    <2>1. CASE x = p /\ y = p
      BY <2>1
    <2>2. CASE x = p /\ y # p
      <3>1. y \in Named(D, f, d) /\ e.kind \in {"file", "dir"} /\ At(P, x) = e /\ At(P, y) = At(D, y)
        BY <1>7, <1>8, <2>2
      <3>2. /\ At(D, y).name # e.name
            /\ e.kind = "dir" /\ At(D, y).kind = "dir" => At(D, y).start # e.start
        BY <2>2, <3>1 DEF Fits, Fresh
      <3>3. QED
        BY <3>1, <3>2
    <2>3. CASE x # p /\ y = p
      <3>1. x \in Named(D, f, d) /\ e.kind \in {"file", "dir"} /\ At(P, y) = e /\ At(P, x) = At(D, x)
        BY <1>7, <1>8, <2>3
      <3>2. /\ At(D, x).name # e.name
            /\ e.kind = "dir" /\ At(D, x).kind = "dir" => At(D, x).start # e.start
        BY <2>3, <3>1 DEF Fits, Fresh
      <3>3. QED
        BY <3>1, <3>2
    <2>4. CASE x # p /\ y # p
      <3>1. x \in Named(D, f, g) /\ y \in Named(D, f, g) /\ At(P, x) = At(D, x) /\ At(P, y) = At(D, y)
        BY <1>7, <1>8, <2>4
      <3>2. QED
        BY <1>2, <3>1 DEF Rows
    <2>5. QED
      BY <2>1, <2>2, <2>3, <2>4
  <1>10. QED
    BY <1>4, <1>5, <1>6, <1>9 DEF Rows, P

LEMMA PutShape ==
  ASSUME NEW D, IsDisk(D), NEW f, NEW R, Shape(D, f, R), NEW d \in R, NEW p, NEW e, Fits(D, f, d, p, e)
  PROVE  Shape(Put(D, p, e), f, R)
  BY PutRows DEF Shape

(* The same directories are found if no folder is named less.                *)
LEMMA SameReached ==
  ASSUME NEW D, IsDisk(D), NEW f, NEW R, Stands(D, f, R), NEW P, IsDisk(P), NEW h, Shape(P, h, R),
         \A d \in R : Kids(D, f, d) \subseteq Kids(P, h, d) /\ Kids(P, h, d) \subseteq R
  PROVE  Stands(P, h, R)
  <1>1. Root \in R /\ R = Reached(D, f)
    BY DEF Stands, Shape
  <1>2. Reached(P, h) \subseteq R
    <2>1. \A d \in R : Kids(P, h, d) \subseteq R
      OBVIOUS
    <2>2. QED
      BY <1>1, <2>1, ReachedLeast
  <1>3. R \subseteq Reached(P, h)
    <2>1. \A d \in Reached(P, h) : Kids(D, f, d) \subseteq Reached(P, h)
      BY <1>2, ReachedClosed
    <2>2. Reached(D, f) \subseteq Reached(P, h)
      BY <2>1, ReachedClosed, ReachedLeast
    <2>3. QED
      BY <1>1, <2>2
  <1>4. QED
    BY <1>2, <1>3 DEF Stands

(* The entry of the tree that p stands for, and the one e makes. *)
Old(D, f, d, p) == IF p \in Named(D, f, d) THEN {Rec(D, d, p)} ELSE {}
New(d, e) == IF e.kind \in {"file", "dir"} THEN {[in |-> d, name |-> e.name, id |-> e.start]} ELSE {}

LEMMA PutKids ==
  ASSUME NEW D, IsDisk(D), NEW f, NEW R, Stands(D, f, R), NEW d \in R, NEW p, NEW e, Fits(D, f, d, p, e),
         NEW g \in R
  PROVE  /\ \A c \in Kids(Put(D, p, e), f, g) : c \in Kids(D, f, g) \/ (e.kind = "dir" /\ c = e.start)
         /\ \A c \in Kids(D, f, g) : \/ c \in Kids(Put(D, p, e), f, g)
                                     \/ g = d /\ At(D, p).kind = "dir" /\ c = At(D, p).start
         /\ g = d /\ e.kind = "dir" => e.start \in Kids(Put(D, p, e), f, g)
  <1> DEFINE P == Put(D, p, e)
  <1>1. IsDisk(P) /\ Differs(D, P, f, R, d, p, e) /\ Shape(P, f, R)
    BY PutDiffers, PutShape DEF Stands
  <1> HIDE DEF P
  <1>2. g \in Heads /\ EndsLast(D, f, g) /\ EndsLast(P, f, g)
    BY <1>1, MemberIs DEF Stands
  <1>3. \A c : c \in Kids(D, f, g) <=> \E q \in Named(D, f, g) : At(D, q).kind = "dir" /\ At(D, q).start = c
    BY <1>2, KidsAre
  <1>4. \A c : c \in Kids(P, f, g) <=> \E q \in Named(P, f, g) : At(P, q).kind = "dir" /\ At(P, q).start = c
    BY <1>1, <1>2, KidsAre
  <1>5. \A q : q \in Named(P, f, g) <=>
          IF q = p THEN g = d /\ e.kind \in {"file", "dir"} ELSE q \in Named(D, f, g)
    BY <1>1 DEF Differs
  <1>6. \A q \in Places(f, g) : At(P, q) = IF q = p THEN e ELSE At(D, q)
    BY <1>1 DEF Differs
  <1>7. \A q : (q \in Named(P, f, g) \/ q \in Named(D, f, g)) => q \in Places(f, g)
    BY DEF Named
  <1>8. p \in Named(D, f, g) => g = d
    BY <1>7, OnePlace DEF Fits, Stands, Shape
  <1>9. \A c \in Kids(P, f, g) : c \in Kids(D, f, g) \/ (e.kind = "dir" /\ c = e.start)
    <2> SUFFICES ASSUME NEW c \in Kids(P, f, g) PROVE c \in Kids(D, f, g) \/ (e.kind = "dir" /\ c = e.start)
      OBVIOUS
    <2>1. PICK q \in Named(P, f, g) : At(P, q).kind = "dir" /\ At(P, q).start = c
      BY <1>4
    <2>2. CASE q = p
      <3>1. At(P, q) = e
        BY <1>6, <1>7, <2>2
      <3>2. QED
        BY <2>1, <3>1
    <2>3. CASE q # p
      <3>1. q \in Named(D, f, g) /\ At(P, q) = At(D, q)
        BY <1>5, <1>6, <1>7, <2>3
      <3>2. QED
        BY <1>3, <2>1, <3>1
    <2>4. QED
      BY <2>2, <2>3
  <1>10. \A c \in Kids(D, f, g) : \/ c \in Kids(P, f, g)
                                  \/ g = d /\ At(D, p).kind = "dir" /\ c = At(D, p).start
    <2> SUFFICES ASSUME NEW c \in Kids(D, f, g)
                 PROVE  \/ c \in Kids(P, f, g)
                        \/ g = d /\ At(D, p).kind = "dir" /\ c = At(D, p).start
      OBVIOUS
    <2>1. PICK q \in Named(D, f, g) : At(D, q).kind = "dir" /\ At(D, q).start = c
      BY <1>3
    <2>2. CASE q = p
      BY <1>8, <2>1, <2>2
    <2>3. CASE q # p
      <3>1. q \in Named(P, f, g) /\ At(P, q) = At(D, q)
        BY <1>5, <1>6, <1>7, <2>3
      <3>2. QED
        BY <1>4, <2>1, <3>1
    <2>4. QED
      BY <2>2, <2>3
  <1>11. ASSUME g = d, e.kind = "dir" PROVE e.start \in Kids(P, f, g)
    <2>1. p \in Named(P, f, g)
      BY <1>5, <1>11
    <2>2. At(P, p) = e
      BY <1>6, <1>7, <2>1
    <2>3. QED
      BY <1>4, <1>11, <2>1, <2>2
  <1>12. QED
    BY <1>9, <1>10, <1>11 DEF P

LEMMA PutStands ==
  ASSUME NEW D, IsDisk(D), NEW f, NEW R, Stands(D, f, R), NEW d \in R, NEW p, NEW e, Fits(D, f, d, p, e),
         e.kind = "dir" => e.start \in R,
         At(D, p).kind = "dir" => e.kind = "dir" /\ e.start = At(D, p).start
  PROVE  IsDisk(Put(D, p, e)) /\ Stands(Put(D, p, e), f, R)
  <1> DEFINE P == Put(D, p, e)
  <1>1. IsDisk(P) /\ Shape(P, f, R)
    BY PutDiffers, PutShape DEF Stands
  <1> HIDE DEF P
  <1>2. ASSUME NEW g \in R PROVE Kids(D, f, g) \subseteq Kids(P, f, g) /\ Kids(P, f, g) \subseteq R
    <2>1. Kids(D, f, g) \subseteq R
      BY ReachedClosed DEF Stands
    <2>2. \A c \in Kids(P, f, g) : c \in R
      <3>1. \A c \in Kids(P, f, g) : c \in Kids(D, f, g) \/ (e.kind = "dir" /\ c = e.start)
        BY PutKids DEF P
      <3>2. QED
        BY <2>1, <3>1
    <2>3. \A c \in Kids(D, f, g) : c \in Kids(P, f, g)
      <3>1. \A c \in Kids(D, f, g) : \/ c \in Kids(P, f, g)
                                     \/ g = d /\ At(D, p).kind = "dir" /\ c = At(D, p).start
        BY PutKids DEF P
      <3>2. g = d /\ e.kind = "dir" => e.start \in Kids(P, f, g)
        BY PutKids DEF P
      <3>3. QED
        BY <3>1, <3>2
    <2>4. QED
      BY <2>2, <2>3
  <1>3. Stands(P, f, R)
    BY <1>1, <1>2, SameReached
  <1>4. QED
    BY <1>1, <1>3 DEF P

(* The entries of the directories of R.                                      *)
Entries(D, f, R) == UNION {{Rec(D, d, p) : p \in Named(D, f, d)} : d \in R}

LEMMA EntriesAre ==
  ASSUME NEW D, NEW f, NEW R
  PROVE  /\ \A x : x \in Entries(D, f, R) <=> \E d \in R : \E p \in Named(D, f, d) : x = Rec(D, d, p)
         /\ Stands(D, f, R) => Contents(D, f) = Entries(D, f, R)
  <1>1. \A x : x \in Entries(D, f, R) <=> \E d \in R : \E p \in Named(D, f, d) : x = Rec(D, d, p)
    BY DEF Entries
  <1>2. ASSUME Stands(D, f, R) PROVE Contents(D, f) = Entries(D, f, R)
    BY <1>1, <1>2, ContentsAre
  <1>3. QED
    BY <1>1, <1>2

(* What they then hold.                                                      *)
LEMMA PutEntries ==
  ASSUME NEW D, IsDisk(D), NEW f, NEW R, Shape(D, f, R), NEW d \in R, NEW p, NEW e, Fits(D, f, d, p, e)
  PROVE  Entries(Put(D, p, e), f, R) = (Entries(D, f, R) \ Old(D, f, d, p)) \cup New(d, e)
  <1> DEFINE P == Put(D, p, e)
             K == (Entries(D, f, R) \ Old(D, f, d, p)) \cup New(d, e)
  <1>1. Differs(D, P, f, R, d, p, e)
    BY PutDiffers
  <1> HIDE DEF P
  <1>2. \A x : x \in Entries(D, f, R) <=> \E g \in R : \E q \in Named(D, f, g) : x = Rec(D, g, q)
    BY EntriesAre
  <1>3. \A x : x \in Entries(P, f, R) <=> \E g \in R : \E q \in Named(P, f, g) : x = Rec(P, g, q)
    BY EntriesAre
  <1>4. \A g \in R : \A q : q \in Named(P, f, g) <=>
          IF q = p THEN g = d /\ e.kind \in {"file", "dir"} ELSE q \in Named(D, f, g)
    BY <1>1 DEF Differs
  <1>5. \A g \in R : \A q : q # p /\ (q \in Named(D, f, g) \/ q \in Named(P, f, g)) => Rec(P, g, q) = Rec(D, g, q)
    BY <1>1 DEF Differs, Named, Rec
  <1>6. At(P, p) = e
    BY <1>1 DEF Differs, Fits
  <1>7. ASSUME NEW x \in Entries(P, f, R) PROVE x \in K
    <2>1. PICK g \in R : \E q \in Named(P, f, g) : x = Rec(P, g, q)
      BY <1>3
    <2>2. PICK q \in Named(P, f, g) : x = Rec(P, g, q)
      BY <2>1
    <2>3. CASE q = p
      <3>1. g = d /\ e.kind \in {"file", "dir"}
        BY <1>4, <2>3
      <3>2. x = [in |-> d, name |-> e.name, id |-> e.start]
        BY <1>6, <2>2, <2>3, <3>1 DEF Rec
      <3>3. QED
        BY <3>1, <3>2 DEF New
    <2>4. CASE q # p
      <3>1. q \in Named(D, f, g) /\ x = Rec(D, g, q)
        BY <1>4, <1>5, <2>2, <2>4
      <3>2. x \in Entries(D, f, R)
        BY <1>2, <3>1
      <3>3. ASSUME p \in Named(D, f, d), x = Rec(D, d, p) PROVE FALSE
        <4>1. g = d /\ At(D, q).name = At(D, p).name
          BY <3>1, <3>3 DEF Rec
        <4>2. QED
          BY <2>4, <3>1, <3>3, <4>1 DEF Shape, Rows
      <3>4. QED
        BY <3>2, <3>3 DEF Old
    <2>5. QED
      BY <2>3, <2>4
  <1>8. ASSUME NEW x \in Entries(D, f, R), x \notin Old(D, f, d, p) PROVE x \in Entries(P, f, R)
    <2>1. PICK g \in R : \E q \in Named(D, f, g) : x = Rec(D, g, q)
      BY <1>2
    <2>2. PICK q \in Named(D, f, g) : x = Rec(D, g, q)
      BY <2>1
    <2>3. q # p
      <3>1. SUFFICES ASSUME q = p PROVE FALSE
        OBVIOUS
      <3>2. g = d
        BY <3>1, OnePlace DEF Named, Fits, Shape
      <3>3. QED
        BY <1>8, <2>2, <3>1, <3>2 DEF Old
    <2>4. q \in Named(P, f, g) /\ x = Rec(P, g, q)
      BY <1>4, <1>5, <2>2, <2>3
    <2>5. QED
      BY <1>3, <2>4
  <1>9. ASSUME NEW x \in New(d, e) PROVE x \in Entries(P, f, R)
    <2>1. e.kind \in {"file", "dir"} /\ x = [in |-> d, name |-> e.name, id |-> e.start]
      BY <1>9 DEF New
    <2>2. p \in Named(P, f, d)
      BY <1>4, <2>1
    <2>3. x = Rec(P, d, p)
      BY <1>6, <2>1 DEF Rec
    <2>4. QED
      BY <1>3, <2>2, <2>3
  <1>10. Entries(P, f, R) = K
    <2>1. \A x : x \in K <=> (x \in Entries(D, f, R) /\ x \notin Old(D, f, d, p)) \/ x \in New(d, e)
      OBVIOUS
    <2> HIDE DEF K
    <2>2. QED
      BY <1>7, <1>8, <1>9, <2>1
  <1>11. QED
    BY <1>10 DEF P

LEMMA PutVolume ==
  ASSUME NEW D, NEW f, NEW R, NEW E, Volume(D, f, R, E), NEW d \in R, NEW p, NEW e, Fits(D, f, d, p, e),
         e.kind = "dir" => e.start \in R /\ e.start # Root /\ D[e.start][2] = DotDot(d),
         At(D, p).kind = "dir" => e.kind = "dir" /\ e.start = At(D, p).start
  PROVE  Volume(Put(D, p, e), f, R, (E \ Old(D, f, d, p)) \cup New(d, e))
  <1> DEFINE P == Put(D, p, e)
  <1>1. IsDisk(D) /\ f \in Fats /\ Stands(D, f, R) /\ Linked(D, f, R) /\ Used(f, R) /\ E = Contents(D, f)
    BY DEF Volume
  <1>2. IsDisk(P) /\ Stands(P, f, R) /\ Differs(D, P, f, R, d, p, e)
    BY <1>1, PutStands, PutDiffers DEF Stands
  <1>3. Contents(P, f) = (E \ Old(D, f, d, p)) \cup New(d, e)
    <2>1. Entries(P, f, R) = (Entries(D, f, R) \ Old(D, f, d, p)) \cup New(d, e)
      BY <1>1, PutEntries DEF Stands
    <2>2. Contents(P, f) = Entries(P, f, R) /\ E = Entries(D, f, R)
      BY <1>1, <1>2, EntriesAre
    <2>3. QED
      BY <2>1, <2>2
  <1> HIDE DEF P
  <1>4. Linked(P, f, R)
    <2> SUFFICES ASSUME NEW g \in R, NEW q \in Named(P, f, g), At(P, q).kind = "dir"
                 PROVE  P[At(P, q).start][2] = DotDot(g)
      BY DEF Linked
    <2>1. \A c \in R : c # Root => P[c][2] = D[c][2]
      BY <1>2 DEF Differs
    <2>2. q \in Named(P, f, g) <=>
            IF q = p THEN g = d /\ e.kind \in {"file", "dir"} ELSE q \in Named(D, f, g)
      BY <1>2 DEF Differs
    <2>3. At(P, q) = IF q = p THEN e ELSE At(D, q)
      BY <1>2 DEF Differs, Named
    <2>4. CASE q = p
      BY <2>1, <2>2, <2>3, <2>4
    <2>5. CASE q # p
      <3>1. q \in Named(D, f, g) /\ At(P, q) = At(D, q)
        BY <2>2, <2>3, <2>5
      <3>2. At(D, q).start \in R /\ At(D, q).start # Root
        BY <1>1, <3>1, KidIs
      <3>3. D[At(D, q).start][2] = DotDot(g)
        BY <1>1, <3>1 DEF Linked
      <3>4. QED
        BY <2>1, <3>1, <3>2, <3>3
    <2>6. QED
      BY <2>4, <2>5
  <1>5. QED
    BY <1>1, <1>2, <1>3, <1>4 DEF Volume, P

-----------------------------------------------------------------------------
(* Disks and tables that agree on directories.                               *)

Agree(D, f, P, h, d) ==
  /\ \A c \in Area(f, d) : P[c] = D[c]
  /\ \A c \in Area(f, d) : c \in Clusters => h[c] = f[c]

LEMMA AgreeArea ==
  ASSUME NEW D, NEW f, NEW P, NEW h, NEW d \in Heads, d # Root => Proper(f, d), Agree(D, f, P, h, d)
  PROVE  /\ Area(h, d) = Area(f, d) /\ Places(h, d) = Places(f, d) /\ (d # Root => Proper(h, d))
         /\ \A p \in Places(f, d) : At(P, p) = At(D, p)
         /\ Named(P, h, d) = Named(D, f, d)
         /\ \A p, q \in Places(f, d) : Precedes(h, p, q) <=> Precedes(f, p, q)
  <1>1. Area(h, d) = Area(f, d) /\ (d # Root => Proper(h, d))
    <2>1. CASE d = Root
      BY <2>1, AreaIs
    <2>2. CASE d # Root
      <3>1. Area(f, d) = Visited(f, d) /\ Area(h, d) = Visited(h, d) /\ Area(f, d) \subseteq Clusters
        BY <2>2, AreaIs
      <3>2. \A c \in Visited(f, d) : h[c] = f[c]
        BY <3>1 DEF Agree
      <3>3. QED
        BY <2>2, <3>1, <3>2, ChainSame
    <2>3. QED
      BY <2>1, <2>2
  <1>2. Places(h, d) = Places(f, d)
    BY <1>1 DEF Places
  <1>3. \A p \in Places(f, d) : At(P, p) = At(D, p)
    BY PlaceIs DEF Agree, At
  <1>4. Named(P, h, d) = Named(D, f, d)
    BY <1>2, <1>3 DEF Named
  <1>5. ASSUME NEW p \in Places(f, d), NEW q \in Places(f, d)
        PROVE  Precedes(h, p, q) <=> Precedes(f, p, q)
    <2>1. p[1] \in Area(f, d) /\ q[1] \in Area(f, d)
      BY PlaceIs
    <2>2. CASE d = Root
      <3>1. p[1] = q[1]
        BY <2>1, <2>2, AreaIs
      <3>2. QED
        BY <3>1 DEF Precedes
    <2>3. CASE d # Root
      <3>1. Area(f, d) = Visited(f, d) /\ Area(f, d) \subseteq Clusters /\ Proper(f, d)
        BY <2>3, AreaIs
      <3>2. Proper(f, p[1]) /\ Visited(f, p[1]) \subseteq Visited(f, d)
        BY <2>1, <3>1, ChainLinks
      <3>3. \A c \in Visited(f, p[1]) : h[c] = f[c]
        BY <3>1, <3>2 DEF Agree
      <3>4. Visited(h, p[1]) = Visited(f, p[1])
        BY <3>2, <3>3, ChainSame
      <3>5. QED
        BY <3>4 DEF Precedes
    <2>4. QED
      BY <2>2, <2>3
  <1>6. QED
    BY <1>1, <1>2, <1>3, <1>4, <1>5

LEMMA AgreeRows ==
  ASSUME NEW D, NEW f, NEW P, NEW h, NEW d \in Heads, Rows(D, f, d), Agree(D, f, P, h, d)
  PROVE  Rows(P, h, d)
  <1>1. d # Root => Proper(f, d)
    BY DEF Rows
  <1>2. /\ Area(h, d) = Area(f, d) /\ Places(h, d) = Places(f, d) /\ (d # Root => Proper(h, d))
        /\ \A p \in Places(f, d) : At(P, p) = At(D, p)
        /\ Named(P, h, d) = Named(D, f, d)
        /\ \A p, q \in Places(f, d) : Precedes(h, p, q) <=> Precedes(f, p, q)
    BY <1>1, AgreeArea
  <1>3. P[d] = D[d]
    BY AreaIs DEF Agree
  <1>4. EndsLast(P, h, d)
    BY <1>2 DEF Rows, EndsLast
  <1>5. \A p \in Named(D, f, d) : p \in Places(f, d)
    BY DEF Named
  <1>6. d # Root => Proper(h, d) /\ P[d][1] = Dot(d) /\ P[d][2].kind = "dotdot"
    BY <1>2, <1>3 DEF Rows
  <1>7. \A p \in Places(h, d) :
          At(P, p).kind \in {"dot", "dotdot"} => d # Root /\ p \in {<<d, 1>>, <<d, 2>>}
    BY <1>2 DEF Rows
  <1>8. /\ \A p, q \in Named(P, h, d) : At(P, p).name = At(P, q).name => p = q
        /\ \A p, q \in Named(P, h, d) :
             At(P, p).kind = "dir" /\ At(P, q).kind = "dir" /\ At(P, p).start = At(P, q).start => p = q
    BY <1>2, <1>5 DEF Rows
  <1>9. QED
    BY <1>4, <1>6, <1>7, <1>8 DEF Rows

LEMMA AgreeKids ==
  ASSUME NEW D, IsDisk(D), NEW f, NEW P, IsDisk(P), NEW h, NEW d \in Heads, Rows(D, f, d), Agree(D, f, P, h, d)
  PROVE  Kids(P, h, d) = Kids(D, f, d)
  <1>1. /\ \A p \in Places(f, d) : At(P, p) = At(D, p)
        /\ Named(P, h, d) = Named(D, f, d)
    BY AgreeArea DEF Rows
  <1>2. Rows(P, h, d)
    BY AgreeRows
  <1>3. \A c : c \in Kids(D, f, d) <=> \E q \in Named(D, f, d) : At(D, q).kind = "dir" /\ At(D, q).start = c
    BY KidsAre DEF Rows
  <1>4. \A c : c \in Kids(P, h, d) <=> \E q \in Named(P, h, d) : At(P, q).kind = "dir" /\ At(P, q).start = c
    BY <1>2, KidsAre DEF Rows
  <1>5. \A p \in Named(D, f, d) : p \in Places(f, d)
    BY DEF Named
  <1>6. \A c : c \in Kids(P, h, d) <=> c \in Kids(D, f, d)
    BY <1>1, <1>3, <1>4, <1>5
  <1>7. QED
    BY <1>6

AllAgree(D, f, P, h, R) == \A d \in R : Agree(D, f, P, h, d)

SameRows(D, f, P, h, R) ==
  \A d \in R : /\ Area(h, d) = Area(f, d) /\ Named(P, h, d) = Named(D, f, d)
               /\ \A p \in Places(f, d) : At(P, p) = At(D, p)

LEMMA AgreeShape ==
  ASSUME NEW D, NEW f, NEW R, Shape(D, f, R), NEW P, NEW h, AllAgree(D, f, P, h, R)
  PROVE  Shape(P, h, R) /\ SameRows(D, f, P, h, R)
  <1> USE DEF AllAgree
  <1>1. R \subseteq Heads /\ \A d \in R : Rows(D, f, d) /\ (d # Root => Proper(f, d))
    BY DEF Shape, Rows
  <1>2. \A d \in R : /\ Area(h, d) = Area(f, d) /\ Named(P, h, d) = Named(D, f, d)
                     /\ \A p \in Places(f, d) : At(P, p) = At(D, p)
    BY <1>1, AgreeArea
  <1>3. \A d \in R : Rows(P, h, d)
    BY <1>1, AgreeRows
  <1>4. Apart(h, R)
    BY <1>2 DEF Shape, Apart
  <1>5. QED
    BY <1>1, <1>2, <1>3, <1>4 DEF Shape, SameRows

LEMMA AgreeEntries ==
  ASSUME NEW D, NEW f, NEW R, Shape(D, f, R), NEW P, NEW h, AllAgree(D, f, P, h, R)
  PROVE  Entries(P, h, R) = Entries(D, f, R)
  <1>1. \A d \in R : /\ Named(P, h, d) = Named(D, f, d)
                     /\ \A p \in Places(f, d) : At(P, p) = At(D, p)
    BY AgreeShape DEF SameRows
  <1>2. \A d \in R : \A p \in Named(D, f, d) : p \in Places(f, d)
    BY DEF Named
  <1>3. \A d \in R : \A p \in Named(D, f, d) : Rec(P, d, p) = Rec(D, d, p)
    BY <1>1, <1>2 DEF Rec
  <1>4. \A x : x \in Entries(P, h, R) <=> x \in Entries(D, f, R)
    BY <1>1, <1>3, EntriesAre
  <1>5. QED
    BY <1>4

LEMMA AgreeStands ==
  ASSUME NEW D, IsDisk(D), NEW f, NEW R, Stands(D, f, R), NEW P, IsDisk(P), NEW h,
         AllAgree(D, f, P, h, R)
  PROVE  Stands(P, h, R)
  <1>1. Shape(P, h, R)
    BY AgreeShape DEF Stands
  <1>2. \A d \in R : Kids(P, h, d) = Kids(D, f, d)
    BY AgreeKids DEF Stands, Shape, AllAgree
  <1>3. \A d \in R : Kids(D, f, d) \subseteq R
    BY ReachedClosed DEF Stands
  <1>4. QED
    BY <1>1, <1>2, <1>3, SameReached

LEMMA AgreeVolume ==
  ASSUME NEW D, NEW f, NEW R, NEW E, Volume(D, f, R, E), NEW P, IsDisk(P), NEW h \in Fats, Used(h, R),
         AllAgree(D, f, P, h, R)
  PROVE  Volume(P, h, R, E)
  <1>1. IsDisk(D) /\ Stands(D, f, R) /\ Linked(D, f, R) /\ E = Contents(D, f)
    BY DEF Volume
  <1>2. Stands(P, h, R)
    BY <1>1, AgreeStands
  <1>3. Contents(P, h) = E
    <2>1. Entries(P, h, R) = Entries(D, f, R)
      BY <1>1, AgreeEntries DEF Stands
    <2>2. QED
      BY <1>1, <1>2, <2>1, EntriesAre
  <1>4. \A d \in R : /\ Named(P, h, d) = Named(D, f, d)
                     /\ \A p \in Places(f, d) : At(P, p) = At(D, p)
    BY <1>1, AgreeShape DEF Stands, SameRows
  <1>5. Linked(P, h, R)
    <2> SUFFICES ASSUME NEW d \in R, NEW p \in Named(P, h, d), At(P, p).kind = "dir"
                 PROVE  P[At(P, p).start][2] = DotDot(d)
      BY DEF Linked
    <2>1. p \in Named(D, f, d) /\ At(P, p) = At(D, p)
      BY <1>4 DEF Named
    <2>2. At(D, p).start \in R /\ D[At(D, p).start][2] = DotDot(d)
      BY <1>1, <2>1, KidIs DEF Linked
    <2>3. At(D, p).start \in Area(f, At(D, p).start)
      BY <1>1, <2>2, MemberIs DEF Stands
    <2>4. P[At(D, p).start] = D[At(D, p).start]
      BY <2>2, <2>3 DEF Agree, AllAgree
    <2>5. QED
      BY <2>1, <2>2, <2>4
  <1>6. QED
    BY <1>2, <1>3, <1>5 DEF Volume

(* A free cluster holds nothing of the tree.                                 *)
LEMMA FillAgrees ==
  ASSUME NEW D, IsDisk(D), NEW f, NEW R, Shape(D, f, R), NEW c \in Clusters, f[c] = FREE,
         NEW s \in [1 .. ClusterSlots -> Records]
  PROVE  IsDisk(Fill(D, c, s)) /\ AllAgree(D, f, Fill(D, c, s), f, R)
  <1>1. \A d \in R : c \notin Area(f, d) /\ Area(f, d) \subseteq Heads
    BY MemberIs
  <1>2. QED
    BY <1>1, FillIs DEF Agree, AllAgree

LEMMA FillVolume ==
  ASSUME NEW D, NEW f, NEW R, NEW E, Volume(D, f, R, E), NEW c \in Clusters, f[c] = FREE,
         NEW s \in [1 .. ClusterSlots -> Records]
  PROVE  Volume(Fill(D, c, s), f, R, E)
  <1>1. IsDisk(D) /\ f \in Fats /\ Shape(D, f, R) /\ Used(f, R)
    BY DEF Volume, Stands
  <1>2. QED
    BY <1>1, FillAgrees, AgreeVolume

-----------------------------------------------------------------------------
(* A directory grown by a blank cluster.                                     *)

LEMMA BlankIs ==
  /\ Blank(ClusterSlots) \in [1 .. ClusterSlots -> Records]
  /\ \A i \in 1 .. ClusterSlots : Blank(ClusterSlots)[i] = End
  BY KindsOf DEF Blank

Grows(f, d, new, g) == g = Grown(f, LastOf(f, d), new)

LEMMA GrownIs ==
  ASSUME NEW f \in Fats, NEW d, Proper(f, d), NEW new \in Clusters, f[new] = FREE, NEW g, Grows(f, d, new, g)
  PROVE  /\ g \in Fats /\ g[new] = EOC /\ g[LastOf(f, d)] = new
         /\ LastOf(f, d) \in Visited(f, d) /\ LastOf(f, d) # new /\ new \notin Visited(f, d)
         /\ \A c \in Clusters : c # new /\ c # LastOf(f, d) => g[c] = f[c]
         /\ Proper(g, d) /\ Visited(g, d) = Visited(f, d) \cup {new}
         /\ Visited(g, new) = {new}
  <1> DEFINE t == LastOf(f, d)
  <1>1. t \in Visited(f, d) /\ f[t] = EOC /\ t \in Clusters
    BY LastIs, ChainLinks
  <1>2. t # new /\ new \notin Visited(f, d)
    BY <1>1, ChainLinks, Numbers
  <1>3. DOMAIN f = Clusters /\ \A c \in Clusters : f[c] \in 0 .. EOC
    BY DEF Fats
  <1> HIDE DEF t
  <1>4. g = [c \in Clusters |-> IF c = t THEN new ELSE IF c = new THEN EOC ELSE f[c]]
    BY <1>1, <1>2, <1>3 DEF Grown, Grows, t
  <1>5. g[new] = EOC /\ g[t] = new /\ \A c \in Clusters : c # new /\ c # t => g[c] = f[c]
    BY <1>1, <1>2, <1>4
  <1>6. new \in 0 .. EOC /\ EOC \in 0 .. EOC
    BY Numbers DEF EOC
  <1>7. g \in Fats
    <2>1. \A c \in Clusters : g[c] \in 0 .. EOC
      BY <1>3, <1>5, <1>6
    <2>2. g = [c \in Clusters |-> g[c]]
      BY <1>4
    <2>3. QED
      BY <2>1, <2>2 DEF Fats
  <1>8. Proper(g, d) /\ Visited(g, d) = Visited(f, d) \cup {new}
    BY ChainGrows DEF Grows
  <1>9. Visited(g, new) = {new}
    BY <1>5, ChainOfOne, Numbers
  <1>10. QED
    BY <1>1, <1>2, <1>5, <1>7, <1>8, <1>9 DEF t

Full(D, f, d) == \A p \in Places(f, d) : At(D, p).kind \notin {"deleted", "end"}

Growing(D, f, R, d, new, g) ==
  /\ IsDisk(D) /\ f \in Fats /\ Shape(D, f, R) /\ d \in R /\ d # Root /\ Full(D, f, d)
  /\ new \in Clusters /\ f[new] = FREE /\ D[new] = Blank(ClusterSlots)
  /\ Grows(f, d, new, g)

HasGrown(D, f, d, new, g) ==
  /\ Rows(D, g, d) /\ Named(D, g, d) = Named(D, f, d) /\ Area(g, d) = Area(f, d) \cup {new}
  /\ <<new, 1>> \in Places(g, d) /\ At(D, <<new, 1>>) = End /\ Ahead(D, g, d, <<new, 1>>)

LEMMA GrownRows ==
  ASSUME NEW D, NEW f, NEW R, NEW d, NEW new, NEW g, Growing(D, f, R, d, new, g)
  PROVE  HasGrown(D, f, d, new, g)
  <1> USE DEF Growing
  <1>1. /\ d \in Clusters /\ Proper(f, d) /\ Area(f, d) = Visited(f, d) /\ Area(f, d) \subseteq Clusters
        /\ D[d][1] = Dot(d) /\ D[d][2].kind = "dotdot"
    BY MemberIs
  <1>2. /\ g \in Fats /\ g[new] = EOC
        /\ Proper(g, d) /\ Visited(g, d) = Visited(f, d) \cup {new} /\ Visited(g, new) = {new}
    BY <1>1, GrownIs
  <1>3. Area(g, d) = Area(f, d) \cup {new}
    BY <1>1, <1>2, HeadsAre, AreaIs
  <1>4. Slots(new) = ClusterSlots /\ 1 \in 1 .. ClusterSlots
    BY HeadsAre
  <1>5. ASSUME NEW p \in Places(g, d)
        PROVE  p \in Places(f, d) \/ (p[1] = new /\ p[2] \in 1 .. ClusterSlots /\ At(D, p) = End)
    <2>1. p[1] \in Area(g, d) /\ p = <<p[1], p[2]>> /\ p[2] \in 1 .. Slots(p[1])
      BY PlaceIs
    <2>2. CASE p[1] = new
      BY <1>4, <2>1, <2>2, BlankIs DEF At
    <2>3. CASE p[1] # new
      <3>1. p[1] \in Area(f, d)
        BY <1>3, <2>1, <2>3
      <3>2. <<p[1], p[2]>> \in Places(f, d)
        BY <2>1, <3>1, IsPlace
      <3>3. QED
        BY <2>1, <3>2
    <2>4. QED
      BY <2>2, <2>3
  <1>6. \A p \in Places(f, d) : p \in Places(g, d)
    BY <1>3 DEF Places
  <1>7. Named(D, g, d) = Named(D, f, d)
    <2>1. End.kind = "end"
      BY KindsOf
    <2>2. QED
      BY <1>5, <1>6, <2>1 DEF Named
  <1>8. EndsLast(D, g, d)
    <2> SUFFICES ASSUME NEW p \in Places(g, d), NEW q \in Places(g, d), At(D, p).kind = "end", Precedes(g, p, q)
                 PROVE  At(D, q).kind = "end"
      BY DEF EndsLast
    <2>1. p[1] = new
      BY <1>5 DEF Full
    <2>2. q[1] = new
      BY <1>2, <2>1 DEF Precedes
    <2>3. q \notin Places(f, d)
      <3>1. new \notin Area(f, d)
        BY MemberIs
      <3>2. QED
        BY <2>2, <3>1, PlaceIs
    <2>4. QED
      BY <1>5, <2>3, KindsOf
  <1>9. Rows(D, f, d)
    BY DEF Shape
  <1>10. \A p \in Places(g, d) :
           At(D, p).kind \in {"dot", "dotdot"} => d # Root /\ p \in {<<d, 1>>, <<d, 2>>}
    <2>1. \A p \in Places(g, d) : At(D, p).kind \in {"dot", "dotdot"} => p \in Places(f, d)
      BY <1>5, KindsOf
    <2>2. QED
      BY <1>9, <2>1 DEF Rows
  <1>11. Rows(D, g, d)
    BY <1>1, <1>2, <1>7, <1>8, <1>9, <1>10 DEF Rows
  <1>12. <<new, 1>> \in Places(g, d)
    BY <1>3, <1>4, IsPlace
  <1>13. At(D, <<new, 1>>) = End
    BY <1>4, BlankIs DEF At
  <1>14. Ahead(D, g, d, <<new, 1>>)
    <2> SUFFICES ASSUME NEW q \in Places(g, d), Precedes(g, q, <<new, 1>>) PROVE At(D, q).kind # "end"
      BY DEF Ahead
    <2>1. CASE q \in Places(f, d)
      BY <2>1 DEF Full
    <2>2. CASE q[1] = new /\ q[2] \in 1 .. ClusterSlots
      <3>1. q[2] < 1
        BY <2>2 DEF Precedes
      <3>2. QED
        BY <2>2, <3>1, HeadsAre
    <2>3. QED
      BY <1>5, <2>1, <2>2
  <1>15. QED
    BY <1>3, <1>7, <1>11, <1>12, <1>13, <1>14 DEF HasGrown

LEMMA GrownVolume ==
  ASSUME NEW D, NEW f, NEW R, NEW E, Volume(D, f, R, E), NEW d \in R, d # Root, Full(D, f, d),
         NEW new \in Clusters, f[new] = FREE, D[new] = Blank(ClusterSlots),
         NEW g, Grows(f, d, new, g)
  PROVE  Volume(D, g, R, E) /\ \A x \in R : Named(D, g, x) = Named(D, f, x)
  <1>1. IsDisk(D) /\ f \in Fats /\ Shape(D, f, R) /\ Stands(D, f, R) /\ Linked(D, f, R) /\ Used(f, R) /\ E = Contents(D, f)
    BY DEF Volume, Stands
  <1>2. /\ Rows(D, g, d) /\ Named(D, g, d) = Named(D, f, d) /\ Area(g, d) = Area(f, d) \cup {new}
    <2>1. Growing(D, f, R, d, new, g)
      BY <1>1 DEF Growing
    <2>2. HasGrown(D, f, d, new, g)
      BY <2>1, GrownRows
    <2>3. QED
      BY <2>2 DEF HasGrown
  <1>3. Proper(f, d) /\ Area(f, d) = Visited(f, d)
    BY <1>1, MemberIs
  <1>4. /\ g \in Fats /\ LastOf(f, d) \in Area(f, d)
        /\ \A c \in Clusters : c # new /\ c # LastOf(f, d) => g[c] = f[c]
    BY <1>1, <1>3, GrownIs
  <1>5. \A x \in R : new \notin Area(f, x)
    BY <1>1, MemberIs
  <1>6. \A x \in R : x # d => Agree(D, f, D, g, x)
    <2>1. \A x \in R : x # d => LastOf(f, d) \notin Area(f, x)
      BY <1>1, <1>4, OneArea DEF Shape
    <2>2. QED
      BY <1>4, <1>5, <2>1 DEF Agree
  <1>7. \A x \in R : x \in Heads /\ Rows(D, f, x) /\ (x # Root => Proper(f, x))
    BY <1>1 DEF Shape, Rows
  <1>8. \A x \in R : x # d => /\ Area(g, x) = Area(f, x) /\ Named(D, g, x) = Named(D, f, x)
                              /\ Rows(D, g, x)
    BY <1>6, <1>7, AgreeArea, AgreeRows
  <1>9. Shape(D, g, R)
    <2>1. Apart(g, R)
      <3> SUFFICES ASSUME NEW x \in R, NEW y \in R, x # y PROVE Area(g, x) \cap Area(g, y) = {}
        BY DEF Apart
      <3>1. Area(f, x) \cap Area(f, y) = {}
        BY <1>1 DEF Shape, Apart
      <3>2. QED
        BY <1>2, <1>5, <1>8, <3>1
    <2>2. QED
      BY <1>1, <1>2, <1>8, <2>1 DEF Shape
  <1>10. \A x \in R : Named(D, g, x) = Named(D, f, x)
    BY <1>2, <1>8
  <1>11. ASSUME NEW x \in R PROVE Kids(D, g, x) = Kids(D, f, x)
    <2>1. x \in Heads /\ EndsLast(D, f, x) /\ EndsLast(D, g, x)
      BY <1>1, <1>9, MemberIs
    <2>2. \A c : c \in Kids(D, f, x) <=> \E q \in Named(D, f, x) : At(D, q).kind = "dir" /\ At(D, q).start = c
      BY <1>1, <2>1, KidsAre
    <2>3. \A c : c \in Kids(D, g, x) <=> \E q \in Named(D, g, x) : At(D, q).kind = "dir" /\ At(D, q).start = c
      BY <1>1, <2>1, KidsAre
    <2>4. \A c : c \in Kids(D, g, x) <=> c \in Kids(D, f, x)
      BY <1>10, <2>2, <2>3
    <2>5. QED
      BY <2>4
  <1>12. Stands(D, g, R)
    <2>1. \A x \in R : Kids(D, f, x) \subseteq R
      BY <1>1, ReachedClosed DEF Stands
    <2>2. QED
      BY <1>1, <1>9, <1>11, <2>1, SameReached
  <1>13. Contents(D, g) = E
    <2>1. \A x : x \in Entries(D, g, R) <=> x \in Entries(D, f, R)
      BY <1>10, EntriesAre
    <2>2. Entries(D, g, R) = Entries(D, f, R)
      BY <2>1
    <2>3. QED
      BY <1>1, <1>12, <2>2, EntriesAre
  <1>14. Linked(D, g, R)
    BY <1>1, <1>10 DEF Linked
  <1>15. Used(g, R)
    <2> SUFFICES ASSUME NEW c \in Clusters, g[c] # FREE PROVE \E x \in R : c \in Area(g, x)
      BY DEF Used
    <2>1. CASE c = new \/ c = LastOf(f, d)
      BY <1>2, <1>4, <2>1
    <2>2. CASE c # new /\ c # LastOf(f, d)
      <3>1. f[c] # FREE
        BY <1>4, <2>2
      <3>2. PICK x \in R : c \in Area(f, x)
        BY <1>1, <3>1 DEF Used
      <3>3. QED
        BY <1>2, <1>8, <3>2
    <2>3. QED
      BY <2>1, <2>2
  <1>16. QED
    BY <1>1, <1>10, <1>4, <1>12, <1>13, <1>14, <1>15 DEF Volume

-----------------------------------------------------------------------------
(* A new folder.                                                             *)

LEMMA DotsAre ==
  ASSUME NEW c \in Heads, NEW d \in Heads
  PROVE  /\ Dots(c, d) \in [1 .. ClusterSlots -> Records]
         /\ Dots(c, d)[1] = Dot(c) /\ Dots(c, d)[2] = DotDot(d)
         /\ \A i \in 1 .. ClusterSlots : i # 1 /\ i # 2 => Dots(c, d)[i] = End
  <1>1. 1 \in 1 .. ClusterSlots /\ 2 \in 1 .. ClusterSlots
    BY HeadsAre
  <1>2. Blank(ClusterSlots) \in [1 .. ClusterSlots -> Records]
    BY BlankIs
  <1>3. Dots(c, d) = [i \in 1 .. ClusterSlots |->
                        IF i = 2 THEN DotDot(d) ELSE IF i = 1 THEN Dot(c) ELSE Blank(ClusterSlots)[i]]
    BY <1>1, <1>2 DEF Dots
  <1>4. \A i \in 1 .. ClusterSlots :
          Dots(c, d)[i] = IF i = 2 THEN DotDot(d) ELSE IF i = 1 THEN Dot(c) ELSE Blank(ClusterSlots)[i]
    BY <1>3
  <1>5. \A i \in 1 .. ClusterSlots : i # 1 /\ i # 2 => Dots(c, d)[i] = End
    BY <1>4, BlankIs
  <1>6. Dots(c, d)[1] = Dot(c) /\ Dots(c, d)[2] = DotDot(d)
    BY <1>1, <1>4
  <1>7. \A i \in 1 .. ClusterSlots : Dots(c, d)[i] \in Records
    BY <1>5, <1>6, KindsOf
  <1>8. Dots(c, d) = [i \in 1 .. ClusterSlots |-> Dots(c, d)[i]]
    BY <1>3, <1>4
  <1>9. QED
    BY <1>5, <1>6, <1>7, <1>8

(* A directory of one cluster that holds no more than its dot entries.       *)
Empty(P, h, c) == Rows(P, h, c) /\ Named(P, h, c) = {} /\ Area(h, c) = {c}

LEMMA NewRows ==
  ASSUME NEW P, NEW h, NEW c \in Clusters, NEW d \in Heads, h[c] = EOC, P[c] = Dots(c, d)
  PROVE  Empty(P, h, c)
  <1>1. c \in Heads /\ c # Root /\ Slots(c) = ClusterSlots
    BY HeadsAre
  <1>2. Visited(h, c) = {c} /\ Proper(h, c)
    BY ChainOfOne, Numbers
  <1>3. Area(h, c) = {c}
    BY <1>1, <1>2, AreaIs
  <1>4. ASSUME NEW p \in Places(h, c)
        PROVE  /\ p = <<c, p[2]>> /\ p[1] = c /\ p[2] \in 1 .. ClusterSlots
               /\ p[2] = 1 => At(P, p) = Dot(c)
               /\ p[2] = 2 => At(P, p) = DotDot(d)
               /\ p[2] # 1 /\ p[2] # 2 => At(P, p) = End
    <2>1. p = <<p[1], p[2]>> /\ p[1] = c /\ p[2] \in 1 .. ClusterSlots
      BY <1>1, <1>3, PlaceIs
    <2>2. At(P, p) = Dots(c, d)[p[2]]
      BY <2>1 DEF At
    <2>3. QED
      BY <1>1, <2>1, <2>2, DotsAre
  <1>5. Dot(c).kind = "dot" /\ DotDot(d).kind = "dotdot" /\ End.kind = "end"
    BY <1>1, KindsOf
  <1>6. Named(P, h, c) = {}
    BY <1>4, <1>5 DEF Named
  <1>7. EndsLast(P, h, c)
    <2> SUFFICES ASSUME NEW p \in Places(h, c), NEW q \in Places(h, c), At(P, p).kind = "end", Precedes(h, p, q)
                 PROVE  At(P, q).kind = "end"
      BY DEF EndsLast
    <2>1. p[1] = c /\ q[1] = c /\ p[2] \in 1 .. ClusterSlots /\ q[2] \in 1 .. ClusterSlots /\ ClusterSlots \in Nat
      BY <1>4, HeadsAre
    <2>2. p[2] # 1 /\ p[2] # 2
      BY <1>4, <1>5
    <2>3. p[2] < q[2]
      BY <2>1 DEF Precedes
    <2>4. q[2] # 1 /\ q[2] # 2
      BY <2>1, <2>2, <2>3
    <2>5. QED
      BY <1>4, <1>5, <2>4
  <1>8. \A p \in Places(h, c) : At(P, p).kind \in {"dot", "dotdot"} => p \in {<<c, 1>>, <<c, 2>>}
    BY <1>4, <1>5
  <1>9. P[c][1] = Dot(c) /\ P[c][2].kind = "dotdot"
    BY <1>1, <1>5, DotsAre
  <1>10. QED
    BY <1>1, <1>2, <1>3, <1>6, <1>7, <1>8, <1>9 DEF Rows, Empty

(* An empty folder c of d. *)
AddsFolder(D, f, R, E, d, p, n, c, P, h) ==
  /\ Volume(D, f, R, E) /\ d \in R /\ n \in Names
  /\ c \in Clusters /\ f[c] = FREE /\ D[c] = Dots(c, d)
  /\ Fits(D, f, d, p, Dir(n, c)) /\ At(D, p).kind \in {"deleted", "end"}
  /\ P = Put(D, p, Dir(n, c)) /\ h = [f EXCEPT ![c] = EOC]

AddedShape(D, f, R, d, p, n, c, P, h) ==
  /\ IsDisk(P) /\ h \in Fats /\ c \notin R
  /\ h[c] = EOC /\ \A x \in Clusters : x # c => h[x] = f[x]
  /\ Differs(D, P, f, R, d, p, Dir(n, c)) /\ Shape(P, f, R) /\ P[c] = Dots(c, d)
  /\ AllAgree(P, f, P, h, R)
  /\ Empty(P, h, c) /\ Shape(P, h, R \cup {c})

LEMMA AddShape ==
  ASSUME NEW D, NEW f, NEW R, NEW E, NEW d, NEW p, NEW n, NEW c, NEW P, NEW h,
         AddsFolder(D, f, R, E, d, p, n, c, P, h)
  PROVE  AddedShape(D, f, R, d, p, n, c, P, h)
  <1> USE DEF AddsFolder
  <1>1. IsDisk(D) /\ f \in Fats /\ Stands(D, f, R) /\ Shape(D, f, R) /\ d \in Heads
    BY MemberIs DEF Volume, Stands
  <1>2. IsDisk(P) /\ Shape(P, f, R) /\ Differs(D, P, f, R, d, p, Dir(n, c))
    BY <1>1, PutDiffers, PutShape
  <1>3. \A g \in R : c \notin Area(f, g)
    BY <1>1, MemberIs
  <1>4. c \notin R
    BY <1>1, <1>3, MemberIs
  <1>5. P[c] = Dots(c, d)
    <2>1. p \in AllPlaces /\ p[1] \in Area(f, d)
      BY <1>1, PlaceIs DEF Fits
    <2>2. c # p[1] /\ c \in Heads
      BY <1>3, <2>1, HeadsAre
    <2>3. QED
      BY <1>1, <2>1, <2>2, PutIs DEF Fits
  <1>6. h \in Fats /\ h[c] = EOC /\ \A x \in Clusters : x # c => h[x] = f[x]
    <2>1. DOMAIN f = Clusters /\ EOC \in 0 .. EOC /\ \A x \in Clusters : f[x] \in 0 .. EOC
      BY <1>1, Numbers DEF Fats, EOC
    <2>2. h = [x \in Clusters |-> IF x = c THEN EOC ELSE f[x]]
      BY <2>1
    <2>3. \A x \in Clusters : h[x] = IF x = c THEN EOC ELSE f[x]
      BY <2>2
    <2>4. \A x \in Clusters : h[x] \in 0 .. EOC
      BY <2>1, <2>3
    <2>5. h = [x \in Clusters |-> h[x]]
      BY <2>2
    <2>6. QED
      BY <2>3, <2>4, <2>5 DEF Fats
  <1> HIDE DEF AddsFolder
  <1>7. AllAgree(P, f, P, h, R)
    BY <1>3, <1>6 DEF Agree, AllAgree
  <1>8. Shape(P, h, R) /\ \A g \in R : Area(h, g) = Area(f, g)
    BY <1>2, <1>7, AgreeShape DEF SameRows
  <1>9. Empty(P, h, c)
    BY <1>1, <1>5, <1>6, NewRows DEF AddsFolder
  <1>10. Shape(P, h, R \cup {c})
    <2>1. \A g \in R \cup {c} : Rows(P, h, g)
      BY <1>8, <1>9 DEF Shape, Empty
    <2>2. Apart(h, R \cup {c})
      BY <1>3, <1>8, <1>9 DEF Shape, Apart, Empty
    <2>3. Root \in R \cup {c} /\ R \cup {c} \subseteq Heads
      BY <1>8, HeadsAre DEF Shape, AddsFolder
    <2>4. QED
      BY <2>1, <2>2, <2>3 DEF Shape
  <1>11. QED
    BY <1>2, <1>4, <1>5, <1>6, <1>7, <1>9, <1>10 DEF AddedShape

LEMMA AddFolder ==
  ASSUME NEW D, NEW f, NEW R, NEW E, NEW d, NEW p, NEW n, NEW c, NEW P, NEW h,
         AddsFolder(D, f, R, E, d, p, n, c, P, h)
  PROVE  Volume(P, h, R \cup {c}, E \cup {[in |-> d, name |-> n, id |-> c]})
  <1> DEFINE Q == R \cup {c}
             e == Dir(n, c)
  <1>1. /\ IsDisk(D) /\ f \in Fats /\ Stands(D, f, R) /\ Shape(D, f, R) /\ Linked(D, f, R) /\ Used(f, R)
        /\ E = Contents(D, f) /\ d \in R /\ d \in Heads /\ n \in Names /\ c \in Clusters /\ c # Root
        /\ Fits(D, f, d, p, Dir(n, c)) /\ At(D, p).kind \in {"deleted", "end"} /\ P = Put(D, p, Dir(n, c))
    BY MemberIs, HeadsAre DEF AddsFolder, Volume, Stands
  <1>2. AddedShape(D, f, R, d, p, n, c, P, h)
    BY AddShape
  <1>3. e.kind = "dir" /\ e.start = c /\ e.name = n
    BY <1>1, KindsOf
  <1>4. Named(P, h, c) = {} /\ Area(h, c) = {c} /\ IsDisk(P) /\ h \in Fats /\ Shape(P, h, Q) /\ Shape(P, f, R) /\ c \notin R
    BY <1>2 DEF AddedShape, Empty
  <1> HIDE DEF e, Q
  <1>5. /\ \A g \in R : Area(h, g) = Area(f, g)
        /\ \A g \in R : Named(P, h, g) = Named(P, f, g)
    BY <1>2, AgreeShape DEF AddedShape, SameRows
  <1>6. Q = R \cup {c} /\ Root \in R /\ R = Reached(D, f)
    BY <1>1 DEF Q, Stands, Shape
  <1>7. Kids(P, h, c) = {}
    <2>1. EndsLast(P, h, c) /\ c \in Heads
      BY <1>4, <1>6, MemberIs
    <2>2. QED
      BY <1>4, <2>1, KidsAre
  <1>8. ASSUME NEW g \in R
        PROVE  /\ \A x \in Kids(P, h, g) : x \in Kids(D, f, g) \/ x = c
               /\ \A x \in Kids(D, f, g) : x \in Kids(P, h, g)
               /\ g = d => c \in Kids(P, h, g)
    <2>1. Kids(P, h, g) = Kids(P, f, g)
      <3>1. g \in Heads /\ Rows(P, f, g) /\ Agree(P, f, P, h, g)
        BY <1>2, <1>4 DEF Shape, AddedShape, AllAgree
      <3>2. QED
        BY <1>4, <3>1, AgreeKids
    <2>2. /\ \A x \in Kids(P, f, g) : x \in Kids(D, f, g) \/ (e.kind = "dir" /\ x = e.start)
          /\ \A x \in Kids(D, f, g) : \/ x \in Kids(P, f, g)
                                      \/ g = d /\ At(D, p).kind = "dir" /\ x = At(D, p).start
          /\ g = d /\ e.kind = "dir" => e.start \in Kids(P, f, g)
      BY <1>1, PutKids DEF e
    <2>3. QED
      BY <1>1, <1>3, <2>1, <2>2
  <1>9. Reached(P, h) \subseteq Q
    <2>1. ASSUME NEW g \in Q PROVE Kids(P, h, g) \subseteq Q
      <3>1. CASE g = c
        BY <1>7, <3>1
      <3>2. CASE g \in R
        <4>1. Kids(D, f, g) \subseteq R
          BY <1>6, <3>2, ReachedClosed
        <4>2. QED
          BY <1>6, <1>8, <3>2, <4>1
      <3>3. QED
        BY <1>6, <3>1, <3>2
    <2>2. Root \in Q
      BY <1>6
    <2>3. QED
      BY <2>1, <2>2, ReachedLeast
  <1>10. Q \subseteq Reached(P, h)
    <2> DEFINE Z == Reached(P, h) \cap R
    <2>1. Root \in Z /\ \A g \in Reached(P, h) : Kids(P, h, g) \subseteq Reached(P, h)
      BY <1>6, ReachedClosed
    <2>2. ASSUME NEW g \in Z PROVE Kids(D, f, g) \subseteq Z
      <3>1. Kids(D, f, g) \subseteq R
        BY <1>6, ReachedClosed
      <3>2. QED
        BY <1>8, <2>1, <3>1
    <2>3. R \subseteq Z
      <3> HIDE DEF Z
      <3>1. QED
        BY <1>6, <2>1, <2>2, ReachedLeast
    <2>4. c \in Reached(P, h)
      BY <1>1, <1>8, <2>1, <2>3
    <2>5. QED
      BY <1>6, <2>3, <2>4
  <1>11. Stands(P, h, Q)
    BY <1>4, <1>9, <1>10 DEF Stands
  <1>12. Contents(P, h) = E \cup {[in |-> d, name |-> n, id |-> c]}
    <2>1. Entries(P, f, R) = (Entries(D, f, R) \ Old(D, f, d, p)) \cup New(d, e)
      BY <1>1, PutEntries DEF e
    <2>2. Old(D, f, d, p) = {} /\ New(d, e) = {[in |-> d, name |-> n, id |-> c]}
      BY <1>1, <1>3 DEF Old, New, Named
    <2>3. \A x : x \in Entries(P, h, Q) <=> x \in Entries(P, f, R)
      <3>1. \A x : x \in Entries(P, f, R) <=> \E g \in R : \E q \in Named(P, f, g) : x = Rec(P, g, q)
        BY EntriesAre
      <3>2. \A x : x \in Entries(P, h, Q) <=> \E g \in Q : \E q \in Named(P, h, g) : x = Rec(P, g, q)
        BY EntriesAre
      <3>3. ASSUME NEW x \in Entries(P, h, Q) PROVE x \in Entries(P, f, R)
        <4>1. PICK g \in Q : \E q \in Named(P, h, g) : x = Rec(P, g, q)
          BY <3>2
        <4>2. g \in R
          BY <1>4, <1>6, <4>1
        <4>3. QED
          BY <1>5, <3>1, <4>1, <4>2
      <3>4. ASSUME NEW x \in Entries(P, f, R) PROVE x \in Entries(P, h, Q)
        <4>1. PICK g \in R : \E q \in Named(P, f, g) : x = Rec(P, g, q)
          BY <3>1
        <4>2. QED
          BY <1>5, <1>6, <3>2, <4>1
      <3>5. QED
        BY <3>3, <3>4
    <2>4. Entries(P, h, Q) = Entries(P, f, R)
      BY <2>3
    <2>5. Contents(P, h) = Entries(P, h, Q) /\ E = Entries(D, f, R)
      BY <1>1, <1>11, EntriesAre
    <2>6. QED
      BY <2>1, <2>2, <2>4, <2>5
  <1>13. Differs(D, P, f, R, d, p, e)
    BY <1>2 DEF AddedShape, e
  <1>14. Linked(P, h, Q)
    <2> SUFFICES ASSUME NEW g \in Q, NEW q \in Named(P, h, g), At(P, q).kind = "dir"
                 PROVE  P[At(P, q).start][2] = DotDot(g)
      BY DEF Linked
    <2>1. g \in R /\ q \in Named(P, f, g)
      BY <1>4, <1>5, <1>6
    <2>2. At(P, q) = IF q = p THEN e ELSE At(D, q)
      BY <1>13, <2>1 DEF Differs, Named
    <2>3. q \in Named(P, f, g) <=>
            IF q = p THEN g = d /\ e.kind \in {"file", "dir"} ELSE q \in Named(D, f, g)
      BY <1>13, <2>1 DEF Differs
    <2>4. CASE q = p
      <3>1. g = d /\ At(P, q).start = c
        BY <1>3, <2>1, <2>2, <2>3, <2>4
      <3>2. P[c] = Dots(c, d)
        BY <1>2 DEF AddedShape
      <3>3. Dots(c, d)[2] = DotDot(d)
        BY <1>1, HeadsAre, DotsAre
      <3>4. QED
        BY <3>1, <3>2, <3>3
    <2>5. CASE q # p
      <3>1. q \in Named(D, f, g) /\ At(P, q) = At(D, q)
        BY <2>1, <2>2, <2>3, <2>5
      <3>2. At(D, q).start \in R /\ At(D, q).start # Root
        BY <1>1, <2>1, <3>1, KidIs
      <3>3. D[At(D, q).start][2] = DotDot(g)
        BY <1>1, <2>1, <3>1 DEF Linked
      <3>4. P[At(D, q).start][2] = D[At(D, q).start][2]
        BY <1>13, <3>2 DEF Differs
      <3>5. QED
        BY <3>1, <3>3, <3>4
    <2>6. QED
      BY <2>4, <2>5
  <1>15. Used(h, Q)
    <2> SUFFICES ASSUME NEW x \in Clusters, h[x] # FREE PROVE \E g \in Q : x \in Area(h, g)
      BY DEF Used
    <2>1. CASE x = c
      BY <1>4, <1>6, <2>1
    <2>2. CASE x # c
      <3>1. f[x] # FREE
        BY <1>2, <2>2 DEF AddedShape
      <3>2. PICK g \in R : x \in Area(f, g)
        BY <1>1, <3>1 DEF Used
      <3>3. QED
        BY <1>5, <1>6, <3>2
    <2>3. QED
      BY <2>1, <2>2
  <1>16. QED
    BY <1>4, <1>11, <1>12, <1>14, <1>15 DEF Volume, Q

-----------------------------------------------------------------------------
(* A folder removed.                                                         *)

LEMMA NamedFits ==
  ASSUME NEW D, IsDisk(D), NEW f, NEW R, Shape(D, f, R), NEW d \in R, NEW p \in Named(D, f, d),
         NEW e \in Records, e.kind \in {"deleted", "file", "dir"}, Fresh(D, f, d, p, e)
  PROVE  Fits(D, f, d, p, e)
  <1>1. p \in Places(f, d) /\ At(D, p).kind \in {"file", "dir"}
    BY DEF Named
  <1>2. EndsLast(D, f, d)
    BY MemberIs
  <1>3. Ahead(D, f, d, p)
    BY <1>1, <1>2 DEF EndsLast, Ahead
  <1>4. QED
    BY <1>1, <1>3 DEF Fits

LEMMA FreedIs ==
  ASSUME NEW f \in Fats, NEW c
  PROVE  /\ Freed(f, c) \in Fats
         /\ \A x \in Clusters : Freed(f, c)[x] = IF x \in Visited(f, c) THEN FREE ELSE f[x]
  <1>1. \A x \in Clusters : Freed(f, c)[x] = IF x \in Visited(f, c) THEN FREE ELSE f[x]
    BY DEF Freed
  <1>2. FREE \in 0 .. EOC /\ \A x \in Clusters : f[x] \in 0 .. EOC
    BY Numbers DEF Fats, EOC
  <1>3. \A x \in Clusters : Freed(f, c)[x] \in 0 .. EOC
    BY <1>1, <1>2
  <1>4. Freed(f, c) = [x \in Clusters |-> Freed(f, c)[x]]
    BY DEF Freed
  <1>5. QED
    BY <1>1, <1>3, <1>4 DEF Fats

(* The entry p of d names the empty folder c. *)
DropsFolder(D, f, R, E, d, p, c, P, h) ==
  /\ Volume(D, f, R, E) /\ d \in R
  /\ p \in Named(D, f, d) /\ At(D, p).kind = "dir" /\ At(D, p).start = c
  /\ Named(D, f, c) = {}
  /\ P = Put(D, p, Deleted) /\ h = Freed(f, c)

DroppedShape(D, f, R, d, p, c, P, h) ==
  /\ IsDisk(P) /\ h \in Fats /\ c \in R /\ c \in Clusters /\ c # Root /\ c # d
  /\ \A x \in Clusters : h[x] = IF x \in Area(f, c) THEN FREE ELSE f[x]
  /\ Fits(D, f, d, p, Deleted) /\ Differs(D, P, f, R, d, p, Deleted) /\ Shape(P, f, R)
  /\ Named(P, f, c) = {} /\ Shape(P, f, R \ {c})
  /\ AllAgree(P, f, P, h, R \ {c}) /\ AllAgree(D, f, D, h, R \ {c})

LEMMA DropShape ==
  ASSUME NEW D, NEW f, NEW R, NEW E, NEW d, NEW p, NEW c, NEW P, NEW h,
         DropsFolder(D, f, R, E, d, p, c, P, h)
  PROVE  DroppedShape(D, f, R, d, p, c, P, h)
  <1>1. /\ IsDisk(D) /\ f \in Fats /\ Stands(D, f, R) /\ Shape(D, f, R) /\ d \in R
        /\ p \in Named(D, f, d) /\ At(D, p).kind = "dir" /\ At(D, p).start = c
        /\ Named(D, f, c) = {} /\ P = Put(D, p, Deleted) /\ h = Freed(f, c)
    BY DEF DropsFolder, Volume, Stands
  <1>2. c \in R /\ c \in Clusters /\ c # Root
    BY <1>1, KidIs
  <1>3. c # d
    BY <1>1
  <1>4. Area(f, c) = Visited(f, c)
    BY <1>1, <1>2, MemberIs
  <1>5. h \in Fats /\ \A x \in Clusters : h[x] = IF x \in Area(f, c) THEN FREE ELSE f[x]
    BY <1>1, <1>4, FreedIs
  <1>6. Fits(D, f, d, p, Deleted)
    <2>1. Fresh(D, f, d, p, Deleted) /\ Deleted \in Records /\ Deleted.kind = "deleted"
      BY KindsOf DEF Fresh
    <2>2. QED
      BY <1>1, <2>1, NamedFits
  <1>7. IsDisk(P) /\ Differs(D, P, f, R, d, p, Deleted) /\ Shape(P, f, R)
    BY <1>1, <1>6, PutDiffers, PutShape
  <1>8. Named(P, f, c) = {}
    <2>1. \A q : q \in Named(P, f, c) <=>
            IF q = p THEN c = d /\ Deleted.kind \in {"file", "dir"} ELSE q \in Named(D, f, c)
      BY <1>2, <1>7 DEF Differs
    <2>2. QED
      BY <1>1, <1>3, <2>1
  <1>9. Shape(P, f, R \ {c})
    BY <1>2, <1>7 DEF Shape, Apart
  <1>10. \A g \in R \ {c} : Area(f, g) \cap Area(f, c) = {}
    BY <1>1, <1>2 DEF Shape, Apart
  <1>11. AllAgree(P, f, P, h, R \ {c}) /\ AllAgree(D, f, D, h, R \ {c})
    BY <1>5, <1>10 DEF AllAgree, Agree
  <1>12. QED
    BY <1>2, <1>3, <1>5, <1>6, <1>7, <1>8, <1>9, <1>11 DEF DroppedShape

LEMMA DropFolder ==
  ASSUME NEW D, NEW f, NEW R, NEW E, NEW d, NEW p, NEW c, NEW P, NEW h,
         DropsFolder(D, f, R, E, d, p, c, P, h)
  PROVE  Volume(P, h, R \ {c}, E \ {Rec(D, d, p)})
  <1> DEFINE Q == R \ {c}
  <1>1. /\ IsDisk(D) /\ f \in Fats /\ Stands(D, f, R) /\ Shape(D, f, R) /\ Linked(D, f, R) /\ Used(f, R)
        /\ E = Contents(D, f) /\ d \in R
        /\ p \in Named(D, f, d) /\ At(D, p).kind = "dir" /\ At(D, p).start = c
        /\ Named(D, f, c) = {} /\ P = Put(D, p, Deleted)
    BY DEF DropsFolder, Volume, Stands
  <1>2. DroppedShape(D, f, R, d, p, c, P, h)
    BY DropShape
  <1>3. /\ IsDisk(P) /\ h \in Fats /\ c \in R /\ c \in Clusters /\ c # Root /\ c # d
        /\ Fits(D, f, d, p, Deleted) /\ Differs(D, P, f, R, d, p, Deleted) /\ Shape(P, f, R)
        /\ Named(P, f, c) = {} /\ Shape(P, f, Q) /\ AllAgree(P, f, P, h, Q)
    BY <1>2 DEF DroppedShape
  <1>4. \A x : x \in Q <=> x \in R /\ x # c
    OBVIOUS
  <1> HIDE DEF Q
  <1>5. Shape(P, h, Q) /\ SameRows(P, f, P, h, Q)
    BY <1>3, AgreeShape
  <1>6. \A g \in Q : Area(h, g) = Area(f, g) /\ Named(P, h, g) = Named(P, f, g)
    BY <1>5 DEF SameRows
  <1>7. Root \in Q /\ R = Reached(D, f)
    BY <1>1, <1>3, <1>4 DEF Stands, Shape
  <1>8. Kids(D, f, c) = {}
    <2>1. EndsLast(D, f, c) /\ c \in Heads
      BY <1>1, <1>3, MemberIs
    <2>2. QED
      BY <1>1, <2>1, KidsAre
  <1>9. ASSUME NEW g \in Q
        PROVE  /\ \A x \in Kids(P, h, g) : x \in Kids(D, f, g) /\ x # c
               /\ \A x \in Kids(D, f, g) : x # c => x \in Kids(P, h, g)
    <2>1. Kids(P, h, g) = Kids(P, f, g)
      <3>1. g \in Heads /\ Rows(P, f, g) /\ Agree(P, f, P, h, g)
        BY <1>3 DEF Shape, AllAgree
      <3>2. QED
        BY <1>3, <3>1, AgreeKids
    <2>2. /\ \A x \in Kids(P, f, g) : x \in Kids(D, f, g) \/ (Deleted.kind = "dir" /\ x = Deleted.start)
          /\ \A x \in Kids(D, f, g) : \/ x \in Kids(P, f, g)
                                      \/ g = d /\ At(D, p).kind = "dir" /\ x = At(D, p).start
      BY <1>1, <1>3, <1>4, PutKids
    <2>3. c \notin Kids(P, f, g)
      <3>1. SUFFICES ASSUME c \in Kids(P, f, g) PROVE FALSE
        OBVIOUS
      <3>2. g \in Heads /\ EndsLast(P, f, g) /\ g \in R
        BY <1>3, <1>4, MemberIs
      <3>3. PICK q \in Named(P, f, g) : At(P, q).kind = "dir" /\ At(P, q).start = c
        BY <1>3, <3>1, <3>2, KidsAre
      <3>4. /\ At(P, q) = IF q = p THEN Deleted ELSE At(D, q)
            /\ q # p => q \in Named(D, f, g)
        BY <1>3, <3>2, <3>3 DEF Differs, Named
      <3>5. q # p
        BY <3>3, <3>4, KindsOf
      <3>6. q = p
        BY <1>1, <3>2, <3>3, <3>4, <3>5, OneName
      <3>7. QED
        BY <3>5, <3>6
    <2>4. QED
      BY <1>1, <2>1, <2>2, <2>3, KindsOf
  <1>10. Reached(P, h) \subseteq Q
    <2>1. ASSUME NEW g \in Q PROVE Kids(P, h, g) \subseteq Q
      <3>1. Kids(D, f, g) \subseteq R
        BY <1>4, <1>7, ReachedClosed
      <3>2. QED
        BY <1>4, <1>9, <3>1
    <2>2. QED
      BY <1>7, <2>1, ReachedLeast
  <1>11. Q \subseteq Reached(P, h)
    <2> DEFINE Z == Reached(P, h) \cup {c}
    <2>1. Root \in Z /\ \A g \in Reached(P, h) : Kids(P, h, g) \subseteq Reached(P, h)
      BY ReachedClosed
    <2>2. ASSUME NEW g \in Z PROVE Kids(D, f, g) \subseteq Z
      <3>1. CASE g = c
        BY <1>8, <3>1
      <3>2. CASE g \in Reached(P, h)
        BY <1>9, <1>10, <2>1, <3>2
      <3>3. QED
        BY <3>1, <3>2
    <2>3. R \subseteq Z
      <3> HIDE DEF Z
      <3>1. QED
        BY <1>7, <2>1, <2>2, ReachedLeast
    <2>4. QED
      BY <1>4, <2>3
  <1>12. Stands(P, h, Q)
    BY <1>5, <1>10, <1>11 DEF Stands
  <1>13. Contents(P, h) = E \ {Rec(D, d, p)}
    <2>1. Entries(P, f, R) = (Entries(D, f, R) \ Old(D, f, d, p)) \cup New(d, Deleted)
      BY <1>1, <1>3, PutEntries
    <2>2. Old(D, f, d, p) = {Rec(D, d, p)} /\ New(d, Deleted) = {}
      BY <1>1, KindsOf DEF Old, New
    <2>3. \A x : x \in Entries(P, h, Q) <=> x \in Entries(P, f, R)
      <3>1. \A x : x \in Entries(P, f, R) <=> \E g \in R : \E q \in Named(P, f, g) : x = Rec(P, g, q)
        BY EntriesAre
      <3>2. \A x : x \in Entries(P, h, Q) <=> \E g \in Q : \E q \in Named(P, h, g) : x = Rec(P, g, q)
        BY EntriesAre
      <3>3. ASSUME NEW x \in Entries(P, h, Q) PROVE x \in Entries(P, f, R)
        BY <1>4, <1>6, <3>1, <3>2
      <3>4. ASSUME NEW x \in Entries(P, f, R) PROVE x \in Entries(P, h, Q)
        <4>1. PICK g \in R : \E q \in Named(P, f, g) : x = Rec(P, g, q)
          BY <3>1
        <4>2. g \in Q
          BY <1>3, <1>4, <4>1
        <4>3. QED
          BY <1>6, <3>2, <4>1, <4>2
      <3>5. QED
        BY <3>3, <3>4
    <2>4. Entries(P, h, Q) = Entries(P, f, R)
      BY <2>3
    <2>5. Contents(P, h) = Entries(P, h, Q) /\ E = Entries(D, f, R)
      BY <1>1, <1>12, EntriesAre
    <2>6. QED
      BY <2>1, <2>2, <2>4, <2>5
  <1>14. Linked(P, h, Q)
    <2> SUFFICES ASSUME NEW g \in Q, NEW q \in Named(P, h, g), At(P, q).kind = "dir"
                 PROVE  P[At(P, q).start][2] = DotDot(g)
      BY DEF Linked
    <2>1. g \in R /\ q \in Named(P, f, g)
      BY <1>4, <1>6
    <2>2. /\ At(P, q) = IF q = p THEN Deleted ELSE At(D, q)
          /\ q # p => q \in Named(D, f, g)
      BY <1>3, <2>1 DEF Differs, Named
    <2>3. q # p
      BY <2>2, KindsOf
    <2>4. q \in Named(D, f, g) /\ At(P, q) = At(D, q)
      BY <2>2, <2>3
    <2>5. At(D, q).start \in R /\ At(D, q).start # Root
      BY <1>1, <2>1, <2>4, KidIs
    <2>6. D[At(D, q).start][2] = DotDot(g)
      BY <1>1, <2>1, <2>4 DEF Linked
    <2>7. P[At(D, q).start][2] = D[At(D, q).start][2]
      BY <1>3, <2>5 DEF Differs
    <2>8. QED
      BY <2>4, <2>6, <2>7
  <1>15. Used(h, Q)
    <2> SUFFICES ASSUME NEW x \in Clusters, h[x] # FREE PROVE \E g \in Q : x \in Area(h, g)
      BY DEF Used
    <2>1. x \notin Area(f, c) /\ f[x] # FREE
      BY <1>2 DEF DroppedShape
    <2>2. PICK g \in R : x \in Area(f, g)
      BY <1>1, <2>1 DEF Used
    <2>3. g \in Q
      BY <1>4, <2>1, <2>2
    <2>4. QED
      BY <1>6, <2>2, <2>3
  <1>16. QED
    BY <1>3, <1>12, <1>13, <1>14, <1>15 DEF Volume, Q

-----------------------------------------------------------------------------
(* An entry moved to another directory.                                      *)

(* The same directories, entry by entry. *)
SameNames(D, P, f, R) ==
  \A g \in R : /\ Named(P, f, g) = Named(D, f, g)
               /\ \A q \in Named(D, f, g) : At(P, q) = At(D, q)

LEMMA SameNamesEntries ==
  ASSUME NEW D, NEW P, NEW f, NEW R, SameNames(D, P, f, R)
  PROVE  Entries(P, f, R) = Entries(D, f, R)
  <1>1. \A g \in R : \A q \in Named(D, f, g) : Rec(P, g, q) = Rec(D, g, q)
    BY DEF SameNames, Rec
  <1>2. \A x : x \in Entries(P, f, R) <=> x \in Entries(D, f, R)
    BY <1>1, EntriesAre DEF SameNames
  <1>3. QED
    BY <1>2

(* The dot-dot entry of c written.                                           *)
Redotted(D, P, f, R, c, x) ==
  /\ IsDisk(P) /\ Shape(P, f, R) /\ SameNames(D, P, f, R)
  /\ <<c, 2>> \in AllPlaces /\ <<c, 2>> \in Places(f, c) /\ At(D, <<c, 2>>) = D[c][2]
  /\ \A g \in AllPlaces : At(P, g) = IF g = <<c, 2>> THEN DotDot(x) ELSE At(D, g)
  /\ \A g \in Heads : g # c => P[g] = D[g]
  /\ P[c][2] = DotDot(x)

LEMMA Redot ==
  ASSUME NEW D, IsDisk(D), NEW f, NEW R, Shape(D, f, R), NEW c \in R, c # Root, NEW x \in Heads
  PROVE  Redotted(D, Put(D, <<c, 2>>, DotDot(x)), f, R, c, x)
  <1> DEFINE P == Put(D, <<c, 2>>, DotDot(x))
             z == <<c, 2>>
  <1>1. c \in Clusters /\ c \in Heads /\ c \in Area(f, c) /\ D[c][1] = Dot(c) /\ D[c][2].kind = "dotdot"
    BY MemberIs
  <1>2. Slots(c) = ClusterSlots /\ 2 \in 1 .. Slots(c) /\ 1 \in 1 .. Slots(c)
    BY <1>1, HeadsAre
  <1>3. z \in Places(f, c) /\ <<c, 1>> \in Places(f, c) /\ z[1] = c /\ z[2] = 2 /\ <<c, 1>> # z
    BY <1>1, <1>2, IsPlace
  <1>4. z \in AllPlaces /\ <<c, 1>> \in AllPlaces
    BY <1>1, <1>3, PlaceIs
  <1>5. DotDot(x) \in Records /\ DotDot(x).kind = "dotdot"
    BY KindsOf
  <1>6. At(D, z) = D[c][2] /\ At(P, z) = P[c][2] /\ At(D, <<c, 1>>) = D[c][1] /\ At(P, <<c, 1>>) = P[c][1]
    BY <1>3 DEF At
  <1>7. /\ IsDisk(P)
        /\ \A q \in AllPlaces : At(P, q) = IF q = z THEN DotDot(x) ELSE At(D, q)
        /\ \A g \in Heads : g # c => P[g] = D[g]
    BY <1>3, <1>4, <1>5, PutIs
  <1> HIDE DEF P, z
  <1>8. At(P, z) = DotDot(x) /\ At(D, z).kind = "dotdot"
    BY <1>1, <1>4, <1>6, <1>7
  <1>9. \A g \in R : g \in Heads /\ \A q \in Places(f, g) : q \in AllPlaces /\ At(P, q).kind = At(D, q).kind
                                                            /\ (q # z => At(P, q) = At(D, q))
    <2>1. \A g \in R : g \in Heads /\ \A q \in Places(f, g) : q \in AllPlaces
      BY MemberIs, PlaceIs
    <2>2. QED
      BY <1>5, <1>7, <1>8, <2>1
  <1>10. SameNames(D, P, f, R)
    <2>1. \A g \in R : Named(P, f, g) = Named(D, f, g)
      BY <1>9 DEF Named
    <2>2. \A g \in R : \A q \in Named(D, f, g) : At(P, q) = At(D, q)
      BY <1>8, <1>9 DEF Named
    <2>3. QED
      BY <2>1, <2>2 DEF SameNames
  <1>11. ASSUME NEW g \in R PROVE Rows(P, f, g)
    <2>1. Rows(D, f, g)
      BY DEF Shape
    <2>2. EndsLast(P, f, g)
      BY <1>9, <2>1 DEF Rows, EndsLast
    <2>3. g # Root => P[g][1] = Dot(g) /\ P[g][2].kind = "dotdot"
      <3>1. CASE g = c
        BY <1>1, <1>3, <1>4, <1>5, <1>6, <1>7, <1>8, <3>1 DEF z
      <3>2. CASE g # c
        BY <1>7, <1>9, <2>1, <3>2 DEF Rows
      <3>3. QED
        BY <3>1, <3>2
    <2>4. \A q \in Places(f, g) :
            At(P, q).kind \in {"dot", "dotdot"} => g # Root /\ q \in {<<g, 1>>, <<g, 2>>}
      BY <1>9, <2>1 DEF Rows
    <2>5. /\ \A p, q \in Named(P, f, g) : At(P, p).name = At(P, q).name => p = q
          /\ \A p, q \in Named(P, f, g) :
               At(P, p).kind = "dir" /\ At(P, q).kind = "dir" /\ At(P, p).start = At(P, q).start => p = q
      BY <1>10, <2>1 DEF SameNames, Rows
    <2>6. QED
      BY <2>1, <2>2, <2>3, <2>4, <2>5 DEF Rows
  <1>12. Shape(P, f, R)
    BY <1>11 DEF Shape
  <1>13. QED
    BY <1>3, <1>4, <1>6, <1>7, <1>8, <1>10, <1>12 DEF Redotted, P, z

LEMMA SameNamesKids ==
  ASSUME NEW D, IsDisk(D), NEW f, NEW R, Shape(D, f, R), NEW P, IsDisk(P), Shape(P, f, R),
         SameNames(D, P, f, R), NEW g \in R
  PROVE  Kids(P, f, g) = Kids(D, f, g)
  <1>1. g \in Heads /\ EndsLast(D, f, g) /\ EndsLast(P, f, g)
    BY MemberIs
  <1>2. \A x : x \in Kids(D, f, g) <=> \E q \in Named(D, f, g) : At(D, q).kind = "dir" /\ At(D, q).start = x
    BY <1>1, KidsAre
  <1>3. \A x : x \in Kids(P, f, g) <=> \E q \in Named(P, f, g) : At(P, q).kind = "dir" /\ At(P, q).start = x
    BY <1>1, KidsAre
  <1>4. \A x : x \in Kids(P, f, g) <=> x \in Kids(D, f, g)
    BY <1>2, <1>3 DEF SameNames
  <1>5. QED
    BY <1>4

LEMMA SameNamesStands ==
  ASSUME NEW D, IsDisk(D), NEW f, NEW R, Stands(D, f, R), NEW P, IsDisk(P), Shape(P, f, R),
         SameNames(D, P, f, R)
  PROVE  Stands(P, f, R)
  <1>1. \A g \in R : Kids(P, f, g) = Kids(D, f, g)
    BY SameNamesKids DEF Stands
  <1>2. \A g \in R : Kids(D, f, g) \subseteq R
    BY ReachedClosed DEF Stands
  <1>3. QED
    BY <1>1, <1>2, SameReached

(* Disks that hold the same entries are one.                                 *)
LEMMA DiskIs ==
  ASSUME NEW D, IsDisk(D), NEW P, IsDisk(P), \A p \in AllPlaces : At(P, p) = At(D, p)
  PROVE  P = D
  <1>1. ASSUME NEW c \in Heads PROVE P[c] = D[c]
    <2>1. D[c] \in [1 .. Slots(c) -> Records] /\ P[c] \in [1 .. Slots(c) -> Records]
      BY DEF IsDisk
    <2>2. ASSUME NEW i \in 1 .. Slots(c) PROVE P[c][i] = D[c][i]
      <3>1. <<c, i>> \in AllPlaces
        BY DEF AllPlaces
      <3>2. At(P, <<c, i>>) = P[c][i] /\ At(D, <<c, i>>) = D[c][i]
        BY DEF At
      <3>3. QED
        BY <3>1, <3>2
    <2>3. D[c] = [i \in 1 .. Slots(c) |-> D[c][i]] /\ P[c] = [i \in 1 .. Slots(c) |-> P[c][i]]
      BY <2>1
    <2>4. QED
      BY <2>2, <2>3
  <1>2. D = [c \in Heads |-> D[c]] /\ P = [c \in Heads |-> P[c]]
    BY DEF IsDisk
  <1>3. QED
    BY <1>1, <1>2

(* No folder above those of A is outside it. *)
Upward(D, A) == \A x \in A : x # Root => D[x][2].start \in A

(* The place p of d is free, and the name of e is. *)
Vacant(D, f, d, p) == p \in Places(f, d) /\ At(D, p).kind \in {"deleted", "end"} /\ Ahead(D, f, d, p)
Unnamed(D, f, d, n) == \A q \in Named(D, f, d) : At(D, q).name # n

(* The entry p of s is to go to the place q of d as e. *)
Moving(D, f, R, E, s, p, d, q, e) ==
  /\ Volume(D, f, R, E) /\ s \in R /\ d \in R /\ s # d
  /\ p \in Named(D, f, s) /\ e \in Records /\ e.kind = At(D, p).kind /\ e.start = At(D, p).start
  /\ Vacant(D, f, d, q) /\ Unnamed(D, f, d, e.name)

LEMMA MovingFits ==
  ASSUME NEW D, NEW f, NEW R, NEW E, NEW s, NEW p, NEW d, NEW q, NEW e, Moving(D, f, R, E, s, p, d, q, e)
  PROVE  Fits(D, f, d, q, e) /\ e.kind \in {"file", "dir"} /\ q # p
  <1>1. /\ IsDisk(D) /\ Stands(D, f, R) /\ Linked(D, f, R) /\ Shape(D, f, R) /\ s \in R /\ d \in R /\ s # d
        /\ p \in Named(D, f, s) /\ e \in Records /\ e.kind = At(D, p).kind /\ e.start = At(D, p).start
        /\ q \in Places(f, d) /\ At(D, q).kind \in {"deleted", "end"} /\ Ahead(D, f, d, q)
        /\ Unnamed(D, f, d, e.name)
    BY DEF Moving, Volume, Stands, Vacant
  <1>2. e.kind \in {"file", "dir"} /\ q # p
    BY <1>1 DEF Named
  <1>3. ASSUME NEW x \in Named(D, f, d), e.kind = "dir", At(D, x).kind = "dir"
        PROVE  At(D, x).start # e.start
    <2>1. At(D, p).kind = "dir"
      BY <1>1, <1>3
    <2>2. ASSUME At(D, p).start = At(D, x).start PROVE s = d
      BY <1>1, <1>3, <2>1, <2>2, OneName
    <2>3. QED
      BY <1>1, <2>2
  <1>4. Fresh(D, f, d, q, e)
    BY <1>1, <1>3 DEF Fresh, Unnamed
  <1>5. QED
    BY <1>1, <1>2, <1>4 DEF Fits

(* A file moved. *)
LEMMA MoveFile ==
  ASSUME NEW D, NEW f, NEW R, NEW E, NEW s, NEW p, NEW d, NEW q, NEW e, Moving(D, f, R, E, s, p, d, q, e),
         e.kind = "file"
  PROVE  /\ Volume(Put(D, q, e), f, R, E \cup New(d, e))
         /\ Volume(Put(Put(D, q, e), p, Deleted), f, R, (E \cup New(d, e)) \ {Rec(D, s, p)})
  <1> DEFINE P == Put(D, q, e)
  <1>1. /\ Volume(D, f, R, E) /\ IsDisk(D) /\ Shape(D, f, R) /\ s \in R /\ d \in R /\ s # d
        /\ p \in Named(D, f, s) /\ e.kind = At(D, p).kind /\ At(D, q).kind \in {"deleted", "end"}
    BY DEF Moving, Volume, Stands, Vacant
  <1>2. Fits(D, f, d, q, e) /\ q # p
    BY MovingFits
  <1>3. Old(D, f, d, q) = {}
    BY <1>1 DEF Old, Named
  <1>4. Volume(P, f, R, (E \ Old(D, f, d, q)) \cup New(d, e))
    BY <1>1, <1>2, PutVolume
  <1>5. (E \ Old(D, f, d, q)) \cup New(d, e) = E \cup New(d, e)
    BY <1>3
  <1>6. Volume(P, f, R, E \cup New(d, e))
    BY <1>4, <1>5
  <1>7. IsDisk(P) /\ Differs(D, P, f, R, d, q, e)
    BY <1>1, <1>2, PutDiffers
  <1> HIDE DEF P
  <1>8. Shape(P, f, R)
    BY <1>6 DEF Volume, Stands
  <1>9. p \in Named(P, f, s) /\ At(P, p) = At(D, p) /\ At(P, p).kind = "file"
    BY <1>1, <1>2, <1>7 DEF Differs, Named
  <1>10. Deleted \in Records /\ Deleted.kind = "deleted"
    BY KindsOf
  <1>11. Fits(P, f, s, p, Deleted)
    BY <1>1, <1>7, <1>8, <1>9, <1>10, NamedFits DEF Fresh
  <1>12. Volume(Put(P, p, Deleted), f, R, ((E \cup New(d, e)) \ Old(P, f, s, p)) \cup New(s, Deleted))
    BY <1>1, <1>6, <1>9, <1>10, <1>11, PutVolume
  <1>13. Old(P, f, s, p) = {Rec(D, s, p)} /\ New(s, Deleted) = {}
    BY <1>9, <1>10 DEF Old, New, Rec
  <1>14. ((E \cup New(d, e)) \ Old(P, f, s, p)) \cup New(s, Deleted) = (E \cup New(d, e)) \ {Rec(D, s, p)}
    BY <1>13
  <1>15. Volume(Put(P, p, Deleted), f, R, (E \cup New(d, e)) \ {Rec(D, s, p)})
    BY <1>12, <1>14
  <1>16. QED
    BY <1>6, <1>15 DEF P

(* A folder's dot-dot entry turned.                                          *)
LEMMA Turned ==
  ASSUME NEW D, NEW f, NEW R, NEW E, Volume(D, f, R, E), NEW c \in R, c # Root, NEW x \in Heads
  PROVE  /\ Redotted(D, Put(D, <<c, 2>>, DotDot(x)), f, R, c, x)
         /\ Stands(Put(D, <<c, 2>>, DotDot(x)), f, R)
  <1>1. IsDisk(D) /\ Shape(D, f, R) /\ Stands(D, f, R)
    BY DEF Volume, Stands
  <1>2. Redotted(D, Put(D, <<c, 2>>, DotDot(x)), f, R, c, x)
    BY <1>1, Redot
  <1>3. QED
    BY <1>1, <1>2, SameNamesStands DEF Redotted

(* ... and turned back. *)
LEMMA TurnedBack ==
  ASSUME NEW D, NEW f, NEW R, NEW E, Volume(D, f, R, E), NEW c \in R, c # Root, NEW x \in Heads,
         NEW y \in Heads, D[c][2] = DotDot(y)
  PROVE  Put(Put(D, <<c, 2>>, DotDot(x)), <<c, 2>>, DotDot(y)) = D
  <1> DEFINE P == Put(D, <<c, 2>>, DotDot(x))
  <1>1. Redotted(D, P, f, R, c, x)
    BY Turned
  <1> HIDE DEF P
  <1>2. /\ IsDisk(D) /\ IsDisk(P) /\ Shape(P, f, R) /\ <<c, 2>> \in AllPlaces /\ At(D, <<c, 2>>) = D[c][2]
        /\ \A g \in AllPlaces : At(P, g) = IF g = <<c, 2>> THEN DotDot(x) ELSE At(D, g)
    BY <1>1 DEF Redotted, Volume
  <1>3. DotDot(y) \in Records
    BY KindsOf
  <1> DEFINE Q == Put(P, <<c, 2>>, DotDot(y))
  <1>4. IsDisk(Q) /\ \A g \in AllPlaces : At(Q, g) = IF g = <<c, 2>> THEN DotDot(y) ELSE At(P, g)
    BY <1>2, <1>3, PutIs
  <1> HIDE DEF Q
  <1>5. \A g \in AllPlaces : At(Q, g) = At(D, g)
    BY <1>2, <1>4
  <1>6. Q = D
    BY <1>2, <1>4, <1>5, DiskIs
  <1>7. QED
    BY <1>6 DEF P, Q

(* What is written and deleted again, with a dot-dot entry turned meanwhile. *)
LEMMA WrittenAndDeleted ==
  ASSUME NEW D, IsDisk(D), NEW z \in AllPlaces, NEW q \in AllPlaces, q # z, NEW t \in Records,
         NEW e \in Records, NEW b \in Records
  PROVE  /\ Put(Put(Put(D, z, t), q, e), q, b) = Put(Put(D, q, b), z, t)
         /\ Put(Put(D, q, e), q, b) = Put(D, q, b)
  <1> DEFINE A1 == Put(D, z, t)
             A2 == Put(A1, q, e)
             A3 == Put(A2, q, b)
             B1 == Put(D, q, b)
             B2 == Put(B1, z, t)
             C1 == Put(D, q, e)
             C2 == Put(C1, q, b)
  <1>1. IsDisk(A1) /\ \A g \in AllPlaces : At(A1, g) = IF g = z THEN t ELSE At(D, g)
    BY PutIs
  <1>2. IsDisk(B1) /\ \A g \in AllPlaces : At(B1, g) = IF g = q THEN b ELSE At(D, g)
    BY PutIs
  <1>3. IsDisk(C1) /\ \A g \in AllPlaces : At(C1, g) = IF g = q THEN e ELSE At(D, g)
    BY PutIs
  <1> HIDE DEF A1, B1, C1
  <1>4. IsDisk(A2) /\ \A g \in AllPlaces : At(A2, g) = IF g = q THEN e ELSE At(A1, g)
    BY <1>1, PutIs
  <1>5. IsDisk(B2) /\ \A g \in AllPlaces : At(B2, g) = IF g = z THEN t ELSE At(B1, g)
    BY <1>2, PutIs
  <1>6. IsDisk(C2) /\ \A g \in AllPlaces : At(C2, g) = IF g = q THEN b ELSE At(C1, g)
    BY <1>3, PutIs
  <1> HIDE DEF A2, B2, C2
  <1>7. IsDisk(A3) /\ \A g \in AllPlaces : At(A3, g) = IF g = q THEN b ELSE At(A2, g)
    BY <1>4, PutIs
  <1> HIDE DEF A3
  <1>8. \A g \in AllPlaces : At(A3, g) = At(B2, g)
    BY <1>1, <1>2, <1>4, <1>5, <1>7
  <1>9. \A g \in AllPlaces : At(C2, g) = At(B1, g)
    BY <1>2, <1>3, <1>6
  <1>10. A3 = B2
    BY <1>5, <1>7, <1>8, DiskIs
  <1>11. C2 = B1
    BY <1>2, <1>6, <1>9, DiskIs
  <1>12. QED
    BY <1>10, <1>11 DEF A1, A2, A3, B1, B2, C1, C2

(* The folder c of s goes to d, below nothing it holds. *)
MovesFolder(D, f, R, E, s, p, d, q, e, D1) ==
  /\ Moving(D, f, R, E, s, p, d, q, e) /\ e.kind = "dir"
  /\ D1 = Put(D, <<e.start, 2>>, DotDot(d))

TurnedFirst(D, f, R, s, p, d, q, e, D1) ==
  /\ IsDisk(D1) /\ Stands(D1, f, R) /\ SameNames(D, D1, f, R)
  /\ e.start \in R /\ e.start # Root /\ s \in Heads /\ d \in Heads
  /\ D[e.start][2] = DotDot(s)
  /\ Redotted(D, D1, f, R, e.start, d)
  /\ q # <<e.start, 2>> /\ p # <<e.start, 2>> /\ p # q /\ q \in AllPlaces
  /\ At(D1, q) = At(D, q) /\ Fits(D1, f, d, q, e)
  /\ p \in Named(D1, f, s) /\ At(D1, p) = At(D, p)

LEMMA TurnFirst ==
  ASSUME NEW D, NEW f, NEW R, NEW E, NEW s, NEW p, NEW d, NEW q, NEW e, NEW D1,
         MovesFolder(D, f, R, E, s, p, d, q, e, D1)
  PROVE  TurnedFirst(D, f, R, s, p, d, q, e, D1)
  <1> DEFINE c == e.start
             z == <<c, 2>>
  <1>1. /\ Volume(D, f, R, E) /\ IsDisk(D) /\ Stands(D, f, R) /\ Linked(D, f, R) /\ Shape(D, f, R)
        /\ s \in R /\ d \in R /\ s # d
        /\ p \in Named(D, f, s) /\ At(D, p).kind = "dir" /\ c = At(D, p).start
        /\ At(D, q).kind \in {"deleted", "end"} /\ Vacant(D, f, d, q) /\ e.kind = "dir"
    BY DEF MovesFolder, Moving, Volume, Stands, Vacant
  <1>2. c \in R /\ c # Root
    BY <1>1, KidIs
  <1>3. D[c][2] = DotDot(s)
    BY <1>1 DEF Linked
  <1>4. s \in Heads /\ d \in Heads /\ D[c][2].kind = "dotdot"
    BY <1>1, <1>2, MemberIs
  <1>5. Moving(D, f, R, E, s, p, d, q, e) /\ D1 = Put(D, z, DotDot(d))
    BY DEF MovesFolder
  <1>6. Fits(D, f, d, q, e) /\ q # p
    BY <1>5, MovingFits
  <1>7. Redotted(D, D1, f, R, c, d) /\ Stands(D1, f, R)
    BY <1>1, <1>2, <1>4, <1>5, Turned
  <1> HIDE DEF c
  <1>8. /\ IsDisk(D1) /\ SameNames(D, D1, f, R) /\ At(D, z) = D[c][2]
        /\ \A g \in AllPlaces : At(D1, g) = IF g = z THEN DotDot(d) ELSE At(D, g)
    BY <1>7 DEF Redotted
  <1>9. q # z /\ p # z
    BY <1>1, <1>4, <1>8
  <1>10. q \in Places(f, d) /\ q \in AllPlaces /\ p \in AllPlaces /\ \A x \in Places(f, d) : x \in AllPlaces
    BY <1>1, <1>4, PlaceIs, NamedIs DEF Vacant
  <1>11. At(D1, q) = At(D, q) /\ At(D1, p) = At(D, p)
    BY <1>8, <1>9, <1>10
  <1>12. p \in Named(D1, f, s)
    BY <1>1, <1>8 DEF SameNames
  <1>13. Ahead(D1, f, d, q)
    <2>1. Ahead(D, f, d, q) /\ DotDot(d).kind # "end"
      BY <1>4, <1>6, KindsOf DEF Fits
    <2>2. \A x \in Places(f, d) : At(D1, x).kind = "end" => At(D, x).kind = "end"
      BY <1>8, <1>10, <2>1
    <2>3. QED
      BY <2>1, <2>2 DEF Ahead
  <1>14. Fresh(D1, f, d, q, e)
    BY <1>1, <1>6, <1>8 DEF Fits, Fresh, SameNames
  <1>15. Fits(D1, f, d, q, e)
    BY <1>1, <1>6, <1>10, <1>11, <1>13, <1>14 DEF Fits
  <1>16. QED
    BY <1>2, <1>3, <1>4, <1>6, <1>7, <1>8, <1>9, <1>10, <1>11, <1>12, <1>15 DEF TurnedFirst, c, z

(* ... then written where it goes ... *)
WrittenNext(f, R, s, p, d, q, e, D1, D2) ==
  /\ IsDisk(D2) /\ Stands(D2, f, R) /\ Differs(D1, D2, f, R, d, q, e)
  /\ p \in Named(D2, f, s) /\ At(D2, p) = At(D1, p) /\ Fits(D2, f, s, p, Deleted)
  /\ Entries(D2, f, R) = Entries(D1, f, R) \cup New(d, e)
  /\ D2[e.start][2] = D1[e.start][2]

LEMMA WriteNext ==
  ASSUME NEW D, NEW f, NEW R, NEW E, NEW s, NEW p, NEW d, NEW q, NEW e, NEW D1,
         MovesFolder(D, f, R, E, s, p, d, q, e, D1)
  PROVE  WrittenNext(f, R, s, p, d, q, e, D1, Put(D1, q, e))
  <1> DEFINE D2 == Put(D1, q, e)
  <1>1. TurnedFirst(D, f, R, s, p, d, q, e, D1)
    BY TurnFirst
  <1>2. /\ IsDisk(D1) /\ Stands(D1, f, R) /\ Shape(D1, f, R) /\ Fits(D1, f, d, q, e) /\ e.start \in R
        /\ p \in Named(D1, f, s) /\ p # q /\ At(D1, q) = At(D, q) /\ e.start # Root
    BY <1>1 DEF TurnedFirst, Stands
  <1>3. d \in R /\ s \in R /\ At(D, q).kind \in {"deleted", "end"} /\ e.kind = "dir"
    BY DEF MovesFolder, Moving, Vacant
  <1>4. At(D1, q).kind # "dir" /\ q \notin Named(D1, f, d)
    BY <1>2, <1>3 DEF Named
  <1>5. Stands(D2, f, R) /\ IsDisk(D2)
    BY <1>2, <1>3, <1>4, PutStands
  <1>6. Differs(D1, D2, f, R, d, q, e)
    BY <1>2, <1>3, PutDiffers
  <1>7. Entries(D2, f, R) = (Entries(D1, f, R) \ Old(D1, f, d, q)) \cup New(d, e)
    BY <1>2, <1>3, PutEntries
  <1>8. Old(D1, f, d, q) = {}
    BY <1>4 DEF Old
  <1>9. Entries(D2, f, R) = Entries(D1, f, R) \cup New(d, e)
    BY <1>7, <1>8
  <1> HIDE DEF D2
  <1>10. p \in Named(D2, f, s) /\ At(D2, p) = At(D1, p)
    BY <1>2, <1>3, <1>6 DEF Differs, Named
  <1>11. Deleted \in Records /\ Deleted.kind = "deleted"
    BY KindsOf
  <1>12. Shape(D2, f, R)
    BY <1>5 DEF Stands
  <1>13. Fits(D2, f, s, p, Deleted)
    BY <1>3, <1>5, <1>10, <1>11, <1>12, NamedFits DEF Fresh
  <1>14. D2[e.start][2] = D1[e.start][2]
    BY <1>2, <1>6 DEF Differs
  <1>15. QED
    BY <1>5, <1>6, <1>9, <1>10, <1>13, <1>14 DEF WrittenNext, D2

(* ... and deleted where it was. *)
Below(D, c, d) == \E A : Upward(D, A) /\ d \in A /\ c \notin A

DeletedLast(f, R, D2, s, p, D3) ==
  /\ IsDisk(D3) /\ Shape(D3, f, R) /\ Differs(D2, D3, f, R, s, p, Deleted)
  /\ Entries(D3, f, R) = Entries(D2, f, R) \ {Rec(D2, s, p)}

LEMMA DeleteLast ==
  ASSUME NEW f, NEW R, NEW s \in R, NEW p, NEW d, NEW q, NEW e, NEW D1, NEW D2,
         WrittenNext(f, R, s, p, d, q, e, D1, D2)
  PROVE  DeletedLast(f, R, D2, s, p, Put(D2, p, Deleted))
  <1>1. IsDisk(D2) /\ Shape(D2, f, R) /\ p \in Named(D2, f, s) /\ Fits(D2, f, s, p, Deleted)
    BY DEF WrittenNext, Stands
  <1> DEFINE D3 == Put(D2, p, Deleted)
  <1>2. IsDisk(D3) /\ Differs(D2, D3, f, R, s, p, Deleted) /\ Shape(D3, f, R)
    BY <1>1, PutDiffers, PutShape
  <1>3. Entries(D3, f, R) = (Entries(D2, f, R) \ Old(D2, f, s, p)) \cup New(s, Deleted)
    BY <1>1, PutEntries
  <1>4. Old(D2, f, s, p) = {Rec(D2, s, p)} /\ New(s, Deleted) = {}
    BY <1>1, KindsOf DEF Old, New
  <1>5. Entries(D3, f, R) = Entries(D2, f, R) \ {Rec(D2, s, p)}
    BY <1>3, <1>4
  <1>6. QED
    BY <1>2, <1>5 DEF DeletedLast

MovedFolder(D, f, R, E, s, p, d, q, e, D1, D2, D3) ==
  /\ MovesFolder(D, f, R, E, s, p, d, q, e, D1) /\ Below(D, e.start, d)
  /\ TurnedFirst(D, f, R, s, p, d, q, e, D1)
  /\ WrittenNext(f, R, s, p, d, q, e, D1, D2)
  /\ DeletedLast(f, R, D2, s, p, D3)

(* What the folders of the moved tree hold. *)
LEMMA MovedKids ==
  ASSUME NEW D, NEW f, NEW R, NEW E, NEW s, NEW p, NEW d, NEW q, NEW e, NEW D1, NEW D2, NEW D3,
         MovedFolder(D, f, R, E, s, p, d, q, e, D1, D2, D3), NEW g \in R
  PROVE  /\ \A k \in Kids(D3, f, g) : k \in R
         /\ \A k \in Kids(D, f, g) : k \in Kids(D3, f, g) \/ k = e.start
         /\ g = d => e.start \in Kids(D3, f, g)
  <1>1. /\ IsDisk(D) /\ Stands(D, f, R) /\ Shape(D, f, R) /\ s \in R /\ d \in R /\ s # d /\ e.kind = "dir"
        /\ p \in Named(D, f, s) /\ At(D, p).start = e.start
    BY DEF MovedFolder, MovesFolder, Moving, Volume, Stands
  <1>2. /\ IsDisk(D1) /\ Stands(D1, f, R) /\ SameNames(D, D1, f, R) /\ Shape(D1, f, R) /\ e.start \in R
        /\ At(D1, p) = At(D, p)
    BY DEF MovedFolder, TurnedFirst, Stands
  <1>3. /\ IsDisk(D2) /\ Stands(D2, f, R) /\ Shape(D2, f, R) /\ Differs(D1, D2, f, R, d, q, e)
        /\ At(D2, p) = At(D1, p) /\ p \in Named(D2, f, s)
    BY DEF MovedFolder, WrittenNext, Stands
  <1>4. IsDisk(D3) /\ Shape(D3, f, R) /\ Differs(D2, D3, f, R, s, p, Deleted)
    BY DEF MovedFolder, DeletedLast
  <1>5. /\ g \in Heads /\ EndsLast(D, f, g) /\ EndsLast(D2, f, g) /\ EndsLast(D3, f, g)
    BY <1>1, <1>3, <1>4, MemberIs
  <1>6. \A k : k \in Kids(D, f, g) <=> \E x \in Named(D, f, g) : At(D, x).kind = "dir" /\ At(D, x).start = k
    BY <1>1, <1>5, KidsAre
  <1>7. \A k : k \in Kids(D2, f, g) <=> \E x \in Named(D2, f, g) : At(D2, x).kind = "dir" /\ At(D2, x).start = k
    BY <1>3, <1>5, KidsAre
  <1>8. \A k : k \in Kids(D3, f, g) <=> \E x \in Named(D3, f, g) : At(D3, x).kind = "dir" /\ At(D3, x).start = k
    BY <1>4, <1>5, KidsAre
  <1>9. Deleted.kind = "deleted"
    BY KindsOf
  <1>10. \A x : x \in Named(D3, f, g) <=> x \in Named(D2, f, g) /\ x # p
    BY <1>3, <1>4, <1>9 DEF Differs
  <1>11. \A x \in Named(D3, f, g) : At(D3, x) = At(D2, x)
    BY <1>3, <1>4, <1>10 DEF Differs, Named
  <1>12. \A x : x \in Named(D2, f, g) <=> IF x = q THEN g = d ELSE x \in Named(D, f, g)
    BY <1>1, <1>2, <1>3 DEF Differs, SameNames
  <1>13. \A x \in Named(D2, f, g) : At(D2, x) = IF x = q THEN e ELSE At(D, x)
    <2>1. \A x \in Named(D2, f, g) : At(D2, x) = IF x = q THEN e ELSE At(D1, x)
      BY <1>3 DEF Differs, Named
    <2>2. \A x \in Named(D, f, g) : At(D1, x) = At(D, x)
      BY <1>2 DEF SameNames
    <2>3. QED
      BY <1>12, <2>1, <2>2
  <1>14. \A k \in Kids(D3, f, g) : k \in R
    <2>1. \A k \in Kids(D3, f, g) : k \in Kids(D2, f, g)
      BY <1>7, <1>8, <1>10, <1>11
    <2>2. Kids(D2, f, g) \subseteq R
      BY <1>3, ReachedClosed DEF Stands
    <2>3. QED
      BY <2>1, <2>2
  <1>15. ASSUME NEW k \in Kids(D, f, g), k # e.start PROVE k \in Kids(D3, f, g)
    <2>1. PICK x \in Named(D, f, g) : At(D, x).kind = "dir" /\ At(D, x).start = k
      BY <1>6
    <2>2. x # p /\ x # q
      <3>1. At(D, q).kind \in {"deleted", "end"}
        BY DEF MovedFolder, MovesFolder, Moving, Vacant
      <3>2. QED
        BY <1>1, <1>15, <2>1, <3>1
    <2>3. x \in Named(D2, f, g) /\ At(D2, x) = At(D, x)
      BY <1>12, <1>13, <2>2
    <2>4. x \in Named(D3, f, g) /\ At(D3, x) = At(D, x)
      BY <1>10, <1>11, <2>2, <2>3
    <2>5. QED
      BY <1>8, <2>1, <2>4
  <1>16. ASSUME g = d PROVE e.start \in Kids(D3, f, g)
    <2>1. q \in Named(D2, f, g) /\ At(D2, q) = e
      BY <1>12, <1>13, <1>16
    <2>2. q # p
      BY DEF MovedFolder, TurnedFirst
    <2>3. q \in Named(D3, f, g) /\ At(D3, q) = e
      BY <1>10, <1>11, <2>1, <2>2
    <2>4. QED
      BY <1>1, <1>8, <2>3
  <1>17. QED
    BY <1>14, <1>15, <1>16

LEMMA MovedStands ==
  ASSUME NEW D, NEW f, NEW R, NEW E, NEW s, NEW p, NEW d, NEW q, NEW e, NEW D1, NEW D2, NEW D3,
         MovedFolder(D, f, R, E, s, p, d, q, e, D1, D2, D3)
  PROVE  Stands(D3, f, R)
  <1> DEFINE c == e.start
             M == Reached(D3, f)
  <1>1. /\ IsDisk(D) /\ Stands(D, f, R) /\ Shape(D, f, R) /\ Linked(D, f, R) /\ d \in R
    BY DEF MovedFolder, MovesFolder, Moving, Volume, Stands
  <1>2. PICK A : Upward(D, A) /\ d \in A /\ c \notin A
    BY DEF MovedFolder, Below
  <1>3. \A g \in R : /\ \A k \in Kids(D3, f, g) : k \in R
                     /\ \A k \in Kids(D, f, g) : k \in Kids(D3, f, g) \/ k = c
                     /\ g = d => c \in Kids(D3, f, g)
    BY MovedKids
  <1>4. Root \in R /\ \A g \in R : Kids(D, f, g) \subseteq R
    BY <1>1, ReachedClosed DEF Stands
  <1> HIDE DEF c
  <1>5. M \subseteq R
    BY <1>3, <1>4, ReachedLeast
  <1>6. Root \in M /\ \A g \in M : Kids(D3, f, g) \subseteq M
    BY ReachedClosed
  <1> HIDE DEF M
  <1>7. R \subseteq {x \in R : x \in A => x \in M}
    <2> DEFINE Z == {x \in R : x \in A => x \in M}
    <2>1. Root \in Z
      BY <1>4, <1>6
    <2>2. ASSUME NEW g \in Z, NEW k \in Kids(D, f, g) PROVE k \in Z
      <3>1. g \in R /\ k \in R
        BY <1>4, <2>2
      <3>2. ASSUME k \in A PROVE k \in M
        <4>1. PICK x \in Named(D, f, g) : At(D, x).kind = "dir" /\ At(D, x).start = k
          BY <1>1, <2>2, <3>1, KidsAre, MemberIs
        <4>2. D[k][2] = DotDot(g) /\ k # Root
          BY <1>1, <3>1, <4>1, KidIs DEF Linked
        <4>3. D[k][2].start = g
          BY <1>1, <3>1, <4>2, MemberIs, KindsOf
        <4>4. g \in A
          BY <1>2, <3>2, <4>2, <4>3 DEF Upward
        <4>5. g \in M
          BY <2>2, <4>4
        <4>6. k \in Kids(D3, f, g)
          BY <1>2, <1>3, <2>2, <3>1, <3>2
        <4>7. QED
          BY <1>6, <4>5, <4>6
      <3>3. QED
        BY <3>1, <3>2
    <2>3. Reached(D, f) \subseteq Z
      BY <2>1, <2>2, ReachedLeast
    <2>4. QED
      BY <1>1, <2>3 DEF Stands
  <1>8. d \in M
    BY <1>1, <1>2, <1>7
  <1>9. c \in M
    BY <1>1, <1>3, <1>6, <1>8
  <1>10. \A g \in M : Kids(D, f, g) \subseteq M
    BY <1>3, <1>5, <1>6, <1>9
  <1>11. Reached(D, f) \subseteq M
    BY <1>6, <1>10, ReachedLeast
  <1>12. R = M
    BY <1>1, <1>5, <1>11 DEF Stands
  <1>13. Shape(D3, f, R)
    BY DEF MovedFolder, DeletedLast
  <1>14. QED
    BY <1>12, <1>13 DEF Stands, M

LEMMA MovedLinks ==
  ASSUME NEW D, NEW f, NEW R, NEW E, NEW s, NEW p, NEW d, NEW q, NEW e, NEW D1, NEW D2, NEW D3,
         MovedFolder(D, f, R, E, s, p, d, q, e, D1, D2, D3)
  PROVE  Linked(D3, f, R)
  <1>1. /\ IsDisk(D) /\ Stands(D, f, R) /\ Shape(D, f, R) /\ Linked(D, f, R) /\ d \in R /\ s \in R
        /\ p \in Named(D, f, s) /\ At(D, p).kind = "dir" /\ At(D, p).start = e.start /\ e.kind = "dir"
    BY DEF MovedFolder, MovesFolder, Moving, Volume, Stands
  <1>2. /\ SameNames(D, D1, f, R) /\ e.start \in R /\ e.start # Root /\ Redotted(D, D1, f, R, e.start, d)
    BY DEF MovedFolder, TurnedFirst
  <1>3. Differs(D1, D2, f, R, d, q, e)
    BY DEF MovedFolder, WrittenNext
  <1>4. Differs(D2, D3, f, R, s, p, Deleted)
    BY DEF MovedFolder, DeletedLast
  <1>5. D1[e.start][2] = DotDot(d) /\ \A g \in Heads : g # e.start => D1[g] = D[g]
    BY <1>2 DEF Redotted
  <1>6. \A k \in R : k # Root => D3[k][2] = D1[k][2]
    BY <1>3, <1>4 DEF Differs
  <1>7. ASSUME NEW g \in R, NEW x \in Named(D3, f, g), At(D3, x).kind = "dir"
        PROVE  D3[At(D3, x).start][2] = DotDot(g)
    <2>1. x # p /\ x \in Named(D2, f, g) /\ At(D3, x) = At(D2, x)
      <3>1. Deleted.kind = "deleted"
        BY KindsOf
      <3>2. x # p
        BY <1>4, <3>1 DEF Differs
      <3>3. x \in Named(D2, f, g)
        BY <1>4, <3>2 DEF Differs
      <3>4. QED
        BY <1>4, <3>2, <3>3 DEF Differs, Named
    <2>2. CASE x = q
      <3>1. g = d
        BY <1>3, <2>1, <2>2 DEF Differs
      <3>2. At(D2, x) = e
        BY <1>3, <2>1, <2>2 DEF Differs, Named
      <3>3. QED
        BY <1>2, <1>5, <1>6, <2>1, <3>1, <3>2
    <2>3. CASE x # q
      <3>1. x \in Named(D1, f, g)
        BY <1>3, <2>1, <2>3 DEF Differs
      <3>2. At(D2, x) = At(D1, x)
        BY <1>3, <2>1, <2>3 DEF Differs, Named
      <3>3. x \in Named(D, f, g) /\ At(D1, x) = At(D, x)
        BY <1>2, <3>1 DEF SameNames
      <3>4. At(D, x).kind = "dir"
        BY <1>7, <2>1, <3>2, <3>3
      <3> DEFINE k == At(D, x).start
      <3>5. k \in R /\ k # Root /\ k \in Heads
        <4>1. k \in R /\ k # Root
          BY <1>1, <3>3, <3>4, KidIs
        <4>2. QED
          BY <1>1, <4>1, MemberIs
      <3>6. k # e.start
        BY <1>1, <2>1, <3>3, <3>4, OneName
      <3>7. D[k][2] = DotDot(g)
        BY <1>1, <3>3, <3>4 DEF Linked
      <3>8. D3[k][2] = DotDot(g)
        BY <1>5, <1>6, <3>5, <3>6, <3>7
      <3>9. QED
        BY <2>1, <3>2, <3>3, <3>8
    <2>4. QED
      BY <2>2, <2>3
  <1>8. QED
    BY <1>7 DEF Linked

LEMMA MoveFolder ==
  ASSUME NEW D, NEW f, NEW R, NEW E, NEW s, NEW p, NEW d, NEW q, NEW e, NEW D1, NEW D2, NEW D3,
         MovedFolder(D, f, R, E, s, p, d, q, e, D1, D2, D3)
  PROVE  Volume(D3, f, R, (E \cup New(d, e)) \ {Rec(D, s, p)})
  <1>1. /\ Stands(D, f, R) /\ f \in Fats /\ Used(f, R) /\ E = Contents(D, f)
    BY DEF MovedFolder, MovesFolder, Moving, Volume
  <1>2. SameNames(D, D1, f, R) /\ At(D1, p) = At(D, p)
    BY DEF MovedFolder, TurnedFirst
  <1>3. Entries(D2, f, R) = Entries(D1, f, R) \cup New(d, e) /\ At(D2, p) = At(D1, p)
    BY DEF MovedFolder, WrittenNext
  <1>4. IsDisk(D3) /\ Entries(D3, f, R) = Entries(D2, f, R) \ {Rec(D2, s, p)}
    BY DEF MovedFolder, DeletedLast
  <1>5. Entries(D1, f, R) = Entries(D, f, R)
    BY <1>2, SameNamesEntries
  <1>6. E = Entries(D, f, R)
    BY <1>1, EntriesAre
  <1>7. Rec(D2, s, p) = Rec(D, s, p)
    BY <1>2, <1>3 DEF Rec
  <1>8. Stands(D3, f, R)
    BY MovedStands
  <1>9. Contents(D3, f) = Entries(D3, f, R)
    BY <1>8, EntriesAre
  <1>10. Contents(D3, f) = (E \cup New(d, e)) \ {Rec(D, s, p)}
    BY <1>3, <1>4, <1>5, <1>6, <1>7, <1>9
  <1>11. Linked(D3, f, R)
    BY MovedLinks
  <1>12. QED
    BY <1>1, <1>4, <1>8, <1>10, <1>11 DEF Volume

-----------------------------------------------------------------------------
(* Sequences, one element at a time.                                         *)

IsSeq(t) == \E S : t \in Seq(S)
Cons(s, t) == <<s>> \o t

LEMMA Chained ==
  ASSUME NEW s, NEW t, NEW u, IsSeq(t), IsSeq(u)
  PROVE  /\ IsSeq(Cons(s, t)) /\ Cons(s, t) # <<>> /\ Head(Cons(s, t)) = s /\ Tail(Cons(s, t)) = t
         /\ Cons(s, t) \o u = Cons(s, t \o u) /\ IsSeq(t \o u)
         /\ Len(Cons(s, t)) = 1 <=> t = <<>>
  <1>1. PICK A : t \in Seq(A)
    BY DEF IsSeq
  <1>2. PICK B : u \in Seq(B)
    BY DEF IsSeq
  <1> DEFINE S == A \cup B \cup {s}
  <1>3. t \in Seq(S) /\ u \in Seq(S)
    BY <1>1, <1>2, SeqMonotonic
  <1>4. s \in S
    OBVIOUS
  <1> HIDE DEF S
  <1>5. <<s>> \in Seq(S) /\ <<s>> # <<>> /\ Len(<<s>>) = 1 /\ <<s>>[1] = s
    BY <1>4
  <1> DEFINE o == <<s>>
  <1>6. o \in Seq(S) /\ o # <<>> /\ Len(o) = 1 /\ o[1] = s
    BY <1>5
  <1>7. Cons(s, t) = o \o t
    BY DEF Cons
  <1> HIDE DEF o
  <1>8. /\ o \o t \in Seq(S) /\ Len(o \o t) = 1 + Len(t) /\ Len(t) \in Nat
        /\ \A i \in 1 .. Len(o) + Len(t) : (o \o t)[i] = IF i <= Len(o) THEN o[i] ELSE t[i - Len(o)]
    <2>1. /\ o \o t \in Seq(S) /\ Len(o \o t) = Len(o) + Len(t)
          /\ \A i \in 1 .. Len(o) + Len(t) : (o \o t)[i] = IF i <= Len(o) THEN o[i] ELSE t[i - Len(o)]
      BY <1>3, <1>6, ConcatProperties
    <2>2. Len(t) \in Nat
      BY <1>3, LenProperties
    <2>3. QED
      BY <1>6, <2>1, <2>2
  <1>9. o \o t # <<>>
    BY <1>8, EmptySeq
  <1>10. Head(o \o t) = s
    <2>1. Head(o \o t) = (o \o t)[1]
      BY <1>8, <1>9, HeadTailProperties
    <2>2. QED
      BY <1>6, <1>8, <2>1
  <1>11. Tail(o \o t) = t
    <2>1. /\ Tail(o \o t) \in Seq(S) /\ Len(Tail(o \o t)) = Len(o \o t) - 1
          /\ \A i \in 1 .. Len(Tail(o \o t)) : Tail(o \o t)[i] = (o \o t)[i + 1]
      BY <1>8, <1>9, HeadTailProperties
    <2>2. \A i \in 1 .. Len(t) : Tail(o \o t)[i] = t[i]
      BY <1>6, <1>8, <2>1
    <2>3. QED
      BY <1>3, <1>8, <2>1, <2>2, SeqEqual
  <1>12. (o \o t) \o u = o \o (t \o u) /\ t \o u \in Seq(S)
    BY <1>3, <1>6, ConcatAssociative, ConcatProperties
  <1>13. Len(t) = 0 <=> t = <<>>
    BY <1>3, EmptySeq
  <1>14. QED
    BY <1>7, <1>8, <1>9, <1>10, <1>11, <1>12, <1>13, SMTT(30) DEF IsSeq, Cons

LEMMA NoneChained ==
  ASSUME NEW u, IsSeq(u)
  PROVE  IsSeq(<<>>) /\ <<>> \o u = u /\ u \o <<>> = u
  <1>1. PICK B : u \in Seq(B)
    BY DEF IsSeq
  <1>2. QED
    BY <1>1, ConcatEmptySeq DEF IsSeq

(* A list of writes is none, or one and then a list. *)
Step(w, kind, back, undo) == [write |-> w, kind |-> kind, back |-> back, undo |-> undo]

LEMMA NoSteps ==
  ASSUME NEW kind, NEW back, NEW undo
  PROVE  Steps(<<>>, kind, back, undo) = <<>>
  <1>1. DOMAIN <<>> = {}
    OBVIOUS
  <1>2. Steps(<<>>, kind, back, undo) = [i \in {} |-> 0]
    BY <1>1 DEF Steps
  <1>3. QED
    BY <1>2

LEMMA StepsAre ==
  ASSUME NEW w, NEW W, IsSeq(W), NEW kind, NEW back, NEW undo
  PROVE  /\ Steps(<<>>, kind, back, undo) = <<>>
         /\ Steps(Cons(w, W), kind, back, undo) = Cons(Step(w, kind, back, undo), Steps(W, kind, back, undo))
         /\ IsSeq(Steps(W, kind, back, undo))
  <1> DEFINE st(x) == Step(x, kind, back, undo)
             V == Steps(W, kind, back, undo)
  <1>1. PICK A : W \in Seq(A)
    BY DEF IsSeq
  <1>2. W \in [1 .. Len(W) -> A] /\ Len(W) \in Nat
    BY <1>1, LenProperties
  <1> DEFINE S == {st(x) : x \in A} \cup {st(w)}
  <1>3. /\ V \in [1 .. Len(W) -> S] /\ \A i \in 1 .. Len(W) : V[i] = st(W[i])
    <2>1. V = [i \in 1 .. Len(W) |-> st(W[i])]
      BY <1>2 DEF Steps, Step
    <2>2. \A i \in 1 .. Len(W) : st(W[i]) \in S
      BY <1>2
    <2> HIDE DEF S, V
    <2>3. QED
      BY <2>1, <2>2
  <1>4. st(w) \in S
    OBVIOUS
  <1> HIDE DEF S, V
  <1>5. V \in Seq(S) /\ Len(V) = Len(W)
    <2>1. \A i \in 1 .. Len(W) : V[i] \in S
      BY <1>3
    <2>2. QED
      BY <1>2, <1>3, LenProperties
  <1> DEFINE o == <<w>>
             p == <<st(w)>>
             X == Cons(w, W)
             Y == Steps(X, kind, back, undo)
             Z == Cons(st(w), V)
  <1>6. w \in A \cup {w} /\ W \in Seq(A \cup {w})
    BY <1>1, SeqMonotonic
  <1>7. o \in Seq(A \cup {w}) /\ Len(o) = 1 /\ o[1] = w
    BY <1>6
  <1>8. p \in Seq(S) /\ Len(p) = 1 /\ p[1] = st(w)
    <2> HIDE DEF S
    <2>1. QED
      BY <1>4
  <1>9. X = o \o W /\ Z = p \o V
    BY DEF Cons
  <1> HIDE DEF o, p, X, Z
  <1>10. /\ X \in Seq(A \cup {w}) /\ Len(X) = 1 + Len(W)
         /\ \A i \in 1 .. 1 + Len(W) : X[i] = IF i <= 1 THEN w ELSE W[i - 1]
    <2>1. /\ o \o W \in Seq(A \cup {w}) /\ Len(o \o W) = Len(o) + Len(W)
          /\ \A i \in 1 .. Len(o) + Len(W) : (o \o W)[i] = IF i <= Len(o) THEN o[i] ELSE W[i - Len(o)]
      BY <1>6, <1>7, ConcatProperties
    <2>2. QED
      BY <1>2, <1>7, <1>9, <2>1
  <1>11. /\ Z \in Seq(S) /\ Len(Z) = 1 + Len(W)
         /\ \A i \in 1 .. 1 + Len(W) : Z[i] = IF i <= 1 THEN st(w) ELSE V[i - 1]
    <2>1. /\ p \o V \in Seq(S) /\ Len(p \o V) = Len(p) + Len(V)
          /\ \A i \in 1 .. Len(p) + Len(V) : (p \o V)[i] = IF i <= Len(p) THEN p[i] ELSE V[i - Len(p)]
      BY <1>5, <1>8, ConcatProperties
    <2>2. QED
      BY <1>2, <1>5, <1>8, <1>9, <2>1
  <1>12. DOMAIN X = 1 .. 1 + Len(W)
    BY <1>10, LenProperties
  <1>13. Y = [i \in 1 .. 1 + Len(W) |-> st(X[i])]
    BY <1>12 DEF Steps, Step
  <1>14. Z = [i \in 1 .. 1 + Len(W) |-> Z[i]]
    BY <1>11, LenProperties
  <1>15. \A i \in 1 .. 1 + Len(W) : Z[i] = st(X[i])
    <2>1. ASSUME NEW i \in 1 .. 1 + Len(W) PROVE Z[i] = st(X[i])
      <3>1. CASE i <= 1
        BY <1>10, <1>11, <3>1
      <3>2. CASE ~(i <= 1)
        <4>1. i - 1 \in 1 .. Len(W)
          BY <1>2, <3>2
        <4>2. QED
          BY <1>3, <1>10, <1>11, <3>2, <4>1
      <3>3. QED
        BY <3>1, <3>2
    <2>2. QED
      BY <2>1
  <1>16. Y = Z
    BY <1>13, <1>14, <1>15
  <1>17. Steps(<<>>, kind, back, undo) = <<>>
    BY NoSteps
  <1>18. QED
    BY <1>5, <1>16, <1>17 DEF IsSeq, X, Y, Z, V

-----------------------------------------------------------------------------
(* A power failure.                                                          *)

(* What is kept of the entries E when the tree is read from disk D with the
   table T, and v is being removed. *)
CutSafe(D, T, E, v) ==
  /\ {e.id : e \in E} \ {0, v} \subseteq Reached(D, T)
  /\ \A d \in Reached(D, T) \ {Root, v} : (\E c \in Visited(T, d) : T[c] = EOC) /\ D[d][1] = Dot(d)

(* T has every chain of f. *)
Covers(T, f) == \A c \in Clusters : f[c] # FREE => T[c] = f[c]

(* Every entry but that of v is of the directories R. *)
Within(E, v, R) == \A e \in E : e.id # 0 /\ e.id # v => e.id \in R

LEMMA Cut ==
  ASSUME NEW D, IsDisk(D), NEW f, NEW R, Stands(D, f, R), NEW T, Covers(T, f), NEW E, NEW v, Within(E, v, R)
  PROVE  CutSafe(D, T, E, v)
  <1>1. Shape(D, f, R)
    BY DEF Stands
  <1>2. AllAgree(D, f, D, T, R)
    <2>1. \A d \in R : \A c \in Area(f, d) : c \in Clusters => T[c] = f[c]
      BY <1>1, MemberIs DEF Covers
    <2>2. QED
      BY <2>1 DEF AllAgree, Agree
  <1>3. Stands(D, T, R)
    BY <1>2, AgreeStands
  <1>4. R = Reached(D, T) /\ Shape(D, T, R)
    BY <1>3 DEF Stands
  <1>5. \A d \in R \ {Root} : Proper(T, d) /\ D[d][1] = Dot(d)
    BY <1>4, MemberIs
  <1>6. {e.id : e \in E} \ {0, v} \subseteq R
    BY DEF Within
  <1>7. QED
    BY <1>4, <1>5, <1>6 DEF CutSafe, Proper

LEMMA VolumeWithin ==
  ASSUME NEW D, NEW f, NEW R, NEW E, Volume(D, f, R, E), NEW v
  PROVE  Within(E, v, R)
  <1>1. IsDisk(D) /\ Stands(D, f, R) /\ Shape(D, f, R) /\ E = Contents(D, f)
    BY DEF Volume, Stands
  <1>2. ASSUME NEW x \in E, x.id # 0 PROVE x.id \in R
    <2>0. PICK d \in R : \E p \in Named(D, f, d) : x = Rec(D, d, p)
      <3>1. x \in Contents(D, f)
        BY <1>1, <1>2
      <3>2. \A y : y \in Contents(D, f) <=> \E d \in R : \E p \in Named(D, f, d) : y = Rec(D, d, p)
        BY <1>1, ContentsAre
      <3>3. QED
        BY <3>1, <3>2
    <2>1. PICK p \in Named(D, f, d) : x = Rec(D, d, p)
      BY <2>0
    <2>2. x.id = At(D, p).start
      BY <2>1 DEF Rec
    <2>3. d \in Heads
      BY <1>1, MemberIs
    <2>4. At(D, p).kind = "dir"
      BY <1>1, <1>2, <2>2, <2>3, NamedIs
    <2>5. QED
      BY <1>1, <2>2, <2>4, KidIs
  <1>3. QED
    BY <1>2 DEF Within

LEMMA VolumeCut ==
  ASSUME NEW D, NEW f, NEW R, NEW E, Volume(D, f, R, E), NEW T, Covers(T, f), NEW v
  PROVE  CutSafe(D, T, E, v)
  <1>1. IsDisk(D) /\ Stands(D, f, R) /\ Within(E, v, R)
    BY VolumeWithin DEF Volume
  <1>2. QED
    BY <1>1, Cut

-----------------------------------------------------------------------------
(* The course of a call.                                                     *)

(* What is left to write, the volume it is written to, whether all of it is as
   a mount would read it, and what the tree is to hold in the end. *)
At4(todo, T, D, f, k, G) ==
  [todo |-> todo, table |-> T, disk |-> D, fat |-> f, clean |-> k, goal |-> G]

Sound(D, f, E) == \E R : Volume(D, f, R, E)

(* E is what the tree held before, v the directory being removed. *)
Fair(x, E, v) ==
  /\ IsSeq(x.todo) /\ x.table \in Fats /\ x.fat \in Fats /\ IsDisk(x.disk)
  /\ x.clean => CutSafe(x.disk, x.table, E, v)
  /\ x.todo = <<>> => Sound(x.disk, x.fat, x.goal) /\ (x.clean => Covers(x.table, x.fat))
  /\ x.todo # <<>> /\ Head(x.todo).kind = "undo" => x.goal = E

Tabled(w, T) == IF w.to = "fat" /\ w.copy = 1 THEN w.new ELSE T
Written(w, D) == IF w.to = "slot" THEN Put(D, w.at, w.new)
                 ELSE IF w.to = "sector" THEN Fill(D, w.at, w.new) ELSE D

(* The next write taken, or refused. *)
Took(x) ==
  LET w == Head(x.todo).write
  IN  At4(Tail(x.todo), Tabled(w, x.table), Written(w, x.disk), x.fat, x.clean, x.goal)

Undoing(x, E) ==
  LET s == Head(x.todo)
  IN  At4(Steps(s.undo, "undo", s.back, <<>>), x.table, x.disk, s.back,
          IF s.kind = "step" THEN x.clean ELSE FALSE, E)

GoingOn(x, E) == At4(GoOn(x.todo), x.table, x.disk, Head(x.todo).back, FALSE, E)

Leads(x, y, E) ==
  LET s == Head(x.todo)
  IN  /\ x.todo # <<>>
      /\ \/ y = Took(x)
         \/ s.kind \in {"step", "behind"} /\ y = Undoing(x, E)
         \/ s.kind = "undo" /\ s.write.to = "fat" /\ y = GoingOn(x, E)

Closed(G, E, v) == \A x \in G : Fair(x, E, v) /\ \A y : Leads(x, y, E) => y \in G

OnCourse(x, E, v) == \E G : x \in G /\ Closed(G, E, v)

LEMMA Proceeds ==
  ASSUME NEW x, NEW E, NEW v, OnCourse(x, E, v)
  PROVE  Fair(x, E, v) /\ \A y : Leads(x, y, E) => OnCourse(y, E, v)
  BY DEF OnCourse, Closed

LEMMA Starts ==
  ASSUME NEW x, NEW E, NEW v, Fair(x, E, v), \A y : Leads(x, y, E) => OnCourse(y, E, v)
  PROVE  OnCourse(x, E, v)
  <1> DEFINE Of(y) == IF Leads(x, y, E) THEN CHOOSE G : y \in G /\ Closed(G, E, v) ELSE {}
             A == Of(Took(x))
             B == Of(Undoing(x, E))
             C == Of(GoingOn(x, E))
             G == {x} \cup A \cup B \cup C
  <1>1. ASSUME NEW y PROVE Closed(Of(y), E, v) /\ (Leads(x, y, E) => y \in Of(y))
    <2>1. CASE Leads(x, y, E)
      <3>1. \E H : y \in H /\ Closed(H, E, v)
        BY <2>1 DEF OnCourse
      <3>2. QED
        BY <2>1, <3>1
    <2>2. CASE ~Leads(x, y, E)
      BY <2>2 DEF Closed
    <2>3. QED
      BY <2>1, <2>2
  <1> HIDE DEF Of
  <1>2. Closed(A, E, v) /\ Closed(B, E, v) /\ Closed(C, E, v)
    BY <1>1
  <1>3. ASSUME NEW y, Leads(x, y, E) PROVE y \in A \cup B \cup C
    <2>1. y = Took(x) \/ y = Undoing(x, E) \/ y = GoingOn(x, E)
      BY <1>3 DEF Leads
    <2>2. QED
      BY <1>1, <1>3, <2>1
  <1> HIDE DEF A, B, C
  <1>4. Closed(G, E, v)
    BY <1>2, <1>3 DEF Closed
  <1>5. QED
    BY <1>4 DEF OnCourse

(* At rest. *)
LEMMA Rests ==
  ASSUME NEW T \in Fats, NEW D, NEW f, NEW k, NEW R, NEW G, Volume(D, f, R, G), NEW E, NEW v,
         k => Covers(T, f) /\ Within(E, v, R)
  PROVE  OnCourse(At4(<<>>, T, D, f, k, G), E, v)
  <1> DEFINE x == At4(<<>>, T, D, f, k, G)
  <1>1. /\ x.todo = <<>> /\ x.table = T /\ x.disk = D /\ x.fat = f /\ x.clean = k /\ x.goal = G
    BY DEF At4
  <1> HIDE DEF x
  <1>2. IsDisk(D) /\ f \in Fats /\ Stands(D, f, R)
    BY DEF Volume
  <1>3. k => CutSafe(D, T, E, v)
    BY <1>2, Cut
  <1>4. Sound(D, f, G)
    BY DEF Sound
  <1>5. IsSeq(<<>>)
    BY DEF IsSeq
  <1>6. Fair(x, E, v)
    BY <1>1, <1>2, <1>3, <1>4, <1>5 DEF Fair
  <1>7. \A y : ~Leads(x, y, E)
    BY <1>1 DEF Leads
  <1>8. OnCourse(x, E, v)
    BY <1>6, <1>7, Starts
  <1>9. QED
    BY <1>8 DEF x

(* The four kinds of write. *)
Copy1(f)     == [to |-> "fat", copy |-> 1, new |-> f]
Copy2        == [to |-> "fat", copy |-> 2]
InSlot(p, e) == [to |-> "slot", at |-> p, new |-> e]
InSector(c, s) == [to |-> "sector", at |-> c, new |-> s]

LEMMA WritesAre ==
  ASSUME NEW T, NEW D
  PROVE  /\ \A f : Tabled(Copy1(f), T) = f /\ Written(Copy1(f), D) = D
         /\ Tabled(Copy2, T) = T /\ Written(Copy2, D) = D
         /\ \A p, e : Tabled(InSlot(p, e), T) = T /\ Written(InSlot(p, e), D) = Put(D, p, e)
         /\ \A c, s : Tabled(InSector(c, s), T) = T /\ Written(InSector(c, s), D) = Fill(D, c, s)
  BY DEF Tabled, Written, Copy1, Copy2, InSlot, InSector

LEMMA ListsAre ==
  /\ \A f : ToFat(f) = Cons(Copy1(f), Cons(Copy2, <<>>))
  /\ \A p, e : ToSlot(p, e) = Cons(InSlot(p, e), <<>>)
  /\ \A c, s : ToSector(c, s) = Cons(InSector(c, s), <<>>)
  <1>1. ASSUME NEW f PROVE ToFat(f) = Cons(Copy1(f), Cons(Copy2, <<>>))
    <2> DEFINE a == Copy1(f)
               b == Copy2
    <2>1. ToFat(f) = <<a, b>>
      BY DEF ToFat, Copy1, Copy2
    <2> HIDE DEF a, b
    <2>2. <<b>> \o <<>> = <<b>>
      OBVIOUS
    <2>3. <<a>> \o <<b>> = <<a, b>>
      <3> DEFINE p == <<a>>
                 q == <<b>>
                 r == <<a, b>>
      <3>1. /\ p \in Seq({a, b}) /\ Len(p) = 1 /\ p[1] = a /\ q \in Seq({a, b}) /\ Len(q) = 1 /\ q[1] = b
            /\ r \in Seq({a, b}) /\ Len(r) = 2 /\ r[1] = a /\ r[2] = b
        OBVIOUS
      <3> HIDE DEF p, q, r
      <3>2. /\ p \o q \in Seq({a, b}) /\ Len(p \o q) = Len(p) + Len(q)
            /\ \A i \in 1 .. Len(p) + Len(q) : (p \o q)[i] = IF i <= Len(p) THEN p[i] ELSE q[i - Len(p)]
        BY <3>1, ConcatProperties
      <3>3. \A i \in 1 .. Len(r) : (p \o q)[i] = r[i]
        BY <3>1, <3>2
      <3>4. p \o q = r
        BY <3>1, <3>2, <3>3, SeqEqual
      <3>5. QED
        BY <3>4 DEF p, q, r
    <2>4. QED
      BY <2>1, <2>2, <2>3 DEF Cons, a, b
  <1>2. ASSUME NEW p, NEW e PROVE ToSlot(p, e) = Cons(InSlot(p, e), <<>>)
    <2> DEFINE a == InSlot(p, e)
    <2>1. ToSlot(p, e) = <<a>>
      BY DEF ToSlot, InSlot
    <2> HIDE DEF a
    <2>2. <<a>> = <<a>> \o <<>>
      OBVIOUS
    <2>3. QED
      BY <2>1, <2>2 DEF Cons, a
  <1>3. ASSUME NEW c, NEW s PROVE ToSector(c, s) = Cons(InSector(c, s), <<>>)
    <2> DEFINE a == InSector(c, s)
    <2>1. ToSector(c, s) = <<a>>
      BY DEF ToSector, InSector
    <2> HIDE DEF a
    <2>2. <<a>> = <<a>> \o <<>>
      OBVIOUS
    <2>3. QED
      BY <2>1, <2>2 DEF Cons, a
  <1>4. QED
    BY <1>1, <1>2, <1>3

(* A write of the call itself. *)
LEMMA Attempt ==
  ASSUME NEW w, NEW kind, NEW back, NEW undo, NEW rest, IsSeq(rest), NEW T \in Fats, NEW D, IsDisk(D),
         NEW f \in Fats, NEW k, NEW G, NEW E, NEW v, k => CutSafe(D, T, E, v),
         kind \in {"step", "behind", "free"},
         OnCourse(At4(rest, Tabled(w, T), Written(w, D), f, k, G), E, v),
         kind \in {"step", "behind"} =>
           OnCourse(At4(Steps(undo, "undo", back, <<>>), T, D, back, IF kind = "step" THEN k ELSE FALSE, E), E, v)
  PROVE  OnCourse(At4(Cons(Step(w, kind, back, undo), rest), T, D, f, k, G), E, v)
  <1> DEFINE s == Step(w, kind, back, undo)
             t == Cons(s, rest)
             x == At4(t, T, D, f, k, G)
  <1>1. s.write = w /\ s.kind = kind /\ s.back = back /\ s.undo = undo
    BY DEF Step
  <1>2. IsSeq(t) /\ t # <<>> /\ Head(t) = s /\ Tail(t) = rest
    BY Chained, NoneChained
  <1> HIDE DEF s, t
  <1>3. x.todo = t /\ x.table = T /\ x.disk = D /\ x.fat = f /\ x.clean = k /\ x.goal = G
    BY DEF At4
  <1> HIDE DEF x
  <1>4. Fair(x, E, v)
    BY <1>1, <1>2, <1>3 DEF Fair
  <1>5. Took(x) = At4(rest, Tabled(w, T), Written(w, D), f, k, G)
    BY <1>1, <1>2, <1>3 DEF Took
  <1>6. kind = "step" => Undoing(x, E) = At4(Steps(undo, "undo", back, <<>>), T, D, back, k, E)
    BY <1>1, <1>2, <1>3 DEF Undoing
  <1>7. kind = "behind" => Undoing(x, E) = At4(Steps(undo, "undo", back, <<>>), T, D, back, FALSE, E)
    BY <1>1, <1>2, <1>3 DEF Undoing
  <1>8. ASSUME NEW y, Leads(x, y, E) PROVE OnCourse(y, E, v)
    <2>1. y = Took(x) \/ (kind \in {"step", "behind"} /\ y = Undoing(x, E))
      BY <1>1, <1>2, <1>3, <1>8 DEF Leads
    <2>2. CASE y = Took(x)
      BY <1>5, <2>2
    <2>3. CASE kind = "step" /\ y = Undoing(x, E)
      BY <1>6, <2>3
    <2>4. CASE kind = "behind" /\ y = Undoing(x, E)
      BY <1>7, <2>4
    <2>5. QED
      BY <2>1, <2>2, <2>3, <2>4
  <1>9. OnCourse(x, E, v)
    BY <1>4, <1>8, Starts
  <1>10. QED
    BY <1>9 DEF x, t, s

(* A write of a rollback, other than of the table. *)
LEMMA Revert ==
  ASSUME NEW w, w.to # "fat", NEW back, NEW rest, IsSeq(rest), NEW T \in Fats, NEW D, IsDisk(D),
         back \in Fats, NEW k, NEW E, NEW v, k => CutSafe(D, T, E, v),
         OnCourse(At4(rest, Tabled(w, T), Written(w, D), back, k, E), E, v)
  PROVE  OnCourse(At4(Cons(Step(w, "undo", back, <<>>), rest), T, D, back, k, E), E, v)
  <1> DEFINE s == Step(w, "undo", back, <<>>)
             t == Cons(s, rest)
             x == At4(t, T, D, back, k, E)
  <1>1. s.write = w /\ s.kind = "undo"
    BY DEF Step
  <1>2. IsSeq(t) /\ t # <<>> /\ Head(t) = s /\ Tail(t) = rest
    BY Chained, NoneChained
  <1> HIDE DEF s, t
  <1>3. x.todo = t /\ x.table = T /\ x.disk = D /\ x.fat = back /\ x.clean = k /\ x.goal = E
    BY DEF At4
  <1> HIDE DEF x
  <1>4. Fair(x, E, v)
    BY <1>1, <1>2, <1>3 DEF Fair
  <1>5. Took(x) = At4(rest, Tabled(w, T), Written(w, D), back, k, E)
    BY <1>1, <1>2, <1>3 DEF Took
  <1>6. \A y : Leads(x, y, E) => y = Took(x)
    BY <1>1, <1>2, <1>3 DEF Leads
  <1>7. OnCourse(x, E, v)
    BY <1>4, <1>5, <1>6, Starts
  <1>8. QED
    BY <1>7 DEF x, t, s

(* The table written in a rollback: copy 1, copy 2. *)
LEMMA RevertTable ==
  ASSUME NEW g \in Fats, NEW back \in Fats, NEW rest, IsSeq(rest), NEW T \in Fats, NEW D, IsDisk(D),
         NEW k, NEW E, NEW v, k => CutSafe(D, T, E, v) /\ CutSafe(D, g, E, v),
         OnCourse(At4(rest, g, D, back, k, E), E, v),
         OnCourse(At4(rest, g, D, back, FALSE, E), E, v),
         OnCourse(At4(rest, T, D, back, FALSE, E), E, v)
  PROVE  OnCourse(At4(Cons(Step(Copy1(g), "undo", back, <<>>), Cons(Step(Copy2, "undo", back, <<>>), rest)),
                      T, D, back, k, E), E, v)
  <1> DEFINE s2 == Step(Copy2, "undo", back, <<>>)
             t2 == Cons(s2, rest)
             x2 == At4(t2, g, D, back, k, E)
             s1 == Step(Copy1(g), "undo", back, <<>>)
             t1 == Cons(s1, t2)
             x1 == At4(t1, T, D, back, k, E)
  <1>1. /\ s1.write = Copy1(g) /\ s1.kind = "undo" /\ s1.back = back
        /\ s2.write = Copy2 /\ s2.kind = "undo" /\ s2.back = back
    BY DEF Step
  <1>2. IsSeq(t2) /\ t2 # <<>> /\ Head(t2) = s2 /\ Tail(t2) = rest
    BY Chained, NoneChained
  <1> HIDE DEF s1, s2, t2
  <1>3. IsSeq(t1) /\ t1 # <<>> /\ Head(t1) = s1 /\ Tail(t1) = t2
    BY <1>2, Chained, NoneChained
  <1> HIDE DEF t1
  <1>4. /\ x1.todo = t1 /\ x1.table = T /\ x1.disk = D /\ x1.fat = back /\ x1.clean = k /\ x1.goal = E
        /\ x2.todo = t2 /\ x2.table = g /\ x2.disk = D /\ x2.fat = back /\ x2.clean = k /\ x2.goal = E
    BY DEF At4
  <1> HIDE DEF x1, x2
  <1>5. Copy1(g).to = "fat" /\ Copy1(g).copy = 1 /\ Copy2.to = "fat" /\ Copy2.copy # 1
    BY DEF Copy1, Copy2
  <1>6. GoOn(t1) = rest /\ GoOn(t2) = rest
    BY <1>1, <1>2, <1>3, <1>5 DEF GoOn
  <1>7. Fair(x1, E, v) /\ Fair(x2, E, v)
    BY <1>1, <1>2, <1>3, <1>4 DEF Fair
  <1>8. Took(x2) = At4(rest, g, D, back, k, E) /\ GoingOn(x2, E) = At4(rest, g, D, back, FALSE, E)
    BY <1>1, <1>2, <1>4, <1>6, WritesAre DEF Took, GoingOn
  <1>9. \A y : Leads(x2, y, E) => y = Took(x2) \/ y = GoingOn(x2, E)
    BY <1>1, <1>2, <1>4 DEF Leads
  <1>10. OnCourse(x2, E, v)
    BY <1>7, <1>8, <1>9, Starts
  <1>11. Took(x1) = x2 /\ GoingOn(x1, E) = At4(rest, T, D, back, FALSE, E)
    <2>0. Tabled(Copy1(g), T) = g /\ Written(Copy1(g), D) = D
      BY WritesAre
    <2>1. Took(x1) = At4(t2, g, D, back, k, E)
      BY <1>1, <1>3, <1>4, <2>0 DEF Took
    <2>2. GoingOn(x1, E) = At4(rest, T, D, back, FALSE, E)
      BY <1>1, <1>3, <1>4, <1>6 DEF GoingOn
    <2>3. QED
      BY <2>1, <2>2 DEF x2
  <1>12. \A y : Leads(x1, y, E) => y = Took(x1) \/ y = GoingOn(x1, E)
    BY <1>1, <1>3, <1>4 DEF Leads
  <1>13. OnCourse(x1, E, v)
    BY <1>7, <1>10, <1>11, <1>12, Starts
  <1>14. QED
    BY <1>13 DEF x1, t1, s1, t2, s2

LEMMA EmptyList == IsSeq(<<>>)
  BY DEF IsSeq

LEMMA ConsList == ASSUME NEW s, NEW t, IsSeq(t) PROVE IsSeq(Cons(s, t))
  BY EmptyList, Chained

LEMMA ConsConcat ==
  ASSUME NEW s, NEW t, IsSeq(t), NEW u, IsSeq(u)
  PROVE  Cons(s, t) \o u = Cons(s, t \o u)
  BY Chained

LEMMA EmptyConcat == ASSUME NEW u, IsSeq(u) PROVE <<>> \o u = u
  BY NoneChained

LEMMA ConcatEmpty == ASSUME NEW u, IsSeq(u) PROVE u \o <<>> = u
  BY NoneChained

LEMMA OneConcat ==
  ASSUME NEW s, NEW W, IsSeq(W)
  PROVE  Cons(s, <<>>) \o W = Cons(s, W)
  <1>1. ASSUME NEW n, IsSeq(n), n \o W = W PROVE Cons(s, n) \o W = Cons(s, W)
    <2>0. IsSeq(n)
      BY <1>1
    <2>1. Cons(s, n) \o W = Cons(s, n \o W)
      BY <2>0, ConsConcat
    <2>2. QED
      BY <1>1, <2>1
  <1>2. IsSeq(<<>>) /\ <<>> \o W = W
    BY EmptyList, EmptyConcat
  <1>3. QED
    BY <1>1, <1>2

LEMMA FatList == ASSUME NEW f PROVE IsSeq(ToFat(f))
  BY ListsAre, EmptyList, ConsList

LEMMA FatConcat ==
  ASSUME NEW f, NEW W, IsSeq(W)
  PROVE  ToFat(f) \o W = Cons(Copy1(f), Cons(Copy2, W))
  <1>1. ToFat(f) = Cons(Copy1(f), Cons(Copy2, <<>>))
    BY ListsAre
  <1>2. IsSeq(Cons(Copy2, <<>>))
    BY EmptyList, ConsList
  <1>3. Cons(Copy2, <<>>) \o W = Cons(Copy2, W)
    BY OneConcat
  <1>5. Cons(Copy1(f), Cons(Copy2, <<>>)) \o W = Cons(Copy1(f), Cons(Copy2, <<>>) \o W)
    BY <1>2, ConsConcat
  <1>6. QED
    BY <1>1, <1>3, <1>5

LEMMA SlotConcat ==
  ASSUME NEW p, NEW e, NEW W, IsSeq(W)
  PROVE  ToSlot(p, e) \o W = Cons(InSlot(p, e), W)
  <1>1. ToSlot(p, e) = Cons(InSlot(p, e), <<>>)
    BY ListsAre
  <1>2. Cons(InSlot(p, e), <<>>) \o W = Cons(InSlot(p, e), W)
    BY OneConcat
  <1>3. QED
    BY <1>1, <1>2

(* A rollback of the writes W that goes through. *)
Backs(W, T, D, b, k, E, v) == OnCourse(At4(Steps(W, "undo", b, <<>>), T, D, b, k, E), E, v)

LEMMA SlotBack ==
  ASSUME NEW p, NEW e, NEW W, IsSeq(W), NEW T \in Fats, NEW D, IsDisk(D), NEW b \in Fats, NEW k, NEW E, NEW v,
         k => CutSafe(D, T, E, v), Backs(W, T, Put(D, p, e), b, k, E, v)
  PROVE  Backs(ToSlot(p, e) \o W, T, D, b, k, E, v)
  <1> DEFINE w == InSlot(p, e)
  <1>1. w.to # "fat" /\ Tabled(w, T) = T /\ Written(w, D) = Put(D, p, e)
    <2>1. w.to # "fat"
      BY DEF InSlot
    <2>2. QED
      BY <2>1, WritesAre, SMTT(30)
  <1>3. ToSlot(p, e) \o W = Cons(w, W)
    BY SlotConcat
  <1> HIDE DEF w
  <1>4. Steps(Cons(w, W), "undo", b, <<>>) = Cons(Step(w, "undo", b, <<>>), Steps(W, "undo", b, <<>>))
    BY StepsAre
  <1>5. IsSeq(Steps(W, "undo", b, <<>>))
    BY StepsAre
  <1>6. OnCourse(At4(Steps(W, "undo", b, <<>>), Tabled(w, T), Written(w, D), b, k, E), E, v)
    BY <1>1 DEF Backs
  <1>7. OnCourse(At4(Cons(Step(w, "undo", b, <<>>), Steps(W, "undo", b, <<>>)), T, D, b, k, E), E, v)
    BY <1>1, <1>5, <1>6, Revert
  <1>8. QED
    BY <1>3, <1>4, <1>7 DEF Backs

LEMMA TableBack ==
  ASSUME NEW g \in Fats, NEW W, IsSeq(W), NEW T \in Fats, NEW D, IsDisk(D), NEW b \in Fats, NEW k, NEW E, NEW v,
         k => CutSafe(D, T, E, v) /\ CutSafe(D, g, E, v),
         Backs(W, g, D, b, k, E, v), Backs(W, g, D, b, FALSE, E, v), Backs(W, T, D, b, FALSE, E, v)
  PROVE  Backs(ToFat(g) \o W, T, D, b, k, E, v)
  <1> DEFINE w1 == Copy1(g)
             w2 == Copy2
             X  == Cons(w2, W)
             V  == Steps(W, "undo", b, <<>>)
  <1>3. IsSeq(X)
    BY ConsList
  <1>4. ToFat(g) \o W = Cons(w1, X)
    BY FatConcat
  <1>5. Steps(X, "undo", b, <<>>) = Cons(Step(w2, "undo", b, <<>>), V) /\ IsSeq(V)
    BY StepsAre
  <1>6. Steps(Cons(w1, X), "undo", b, <<>>) = Cons(Step(w1, "undo", b, <<>>), Steps(X, "undo", b, <<>>))
    BY <1>3, StepsAre
  <1>7. /\ OnCourse(At4(V, g, D, b, k, E), E, v)
        /\ OnCourse(At4(V, g, D, b, FALSE, E), E, v)
        /\ OnCourse(At4(V, T, D, b, FALSE, E), E, v)
    BY DEF Backs
  <1>8. OnCourse(At4(Cons(Step(Copy1(g), "undo", b, <<>>), Cons(Step(Copy2, "undo", b, <<>>), V)),
                     T, D, b, k, E), E, v)
    <2> HIDE DEF V
    <2>1. QED
      BY <1>5, <1>7, RevertTable
  <1>9. QED
    BY <1>4, <1>5, <1>6, <1>8 DEF Backs

(* Nothing to take back, or the table f. *)
Shrinks(U, f) == U = <<>> \/ U = ToFat(f)

LEMMA NoneBack ==
  ASSUME NEW T \in Fats, NEW D, NEW b, NEW k, NEW R, NEW E, Volume(D, b, R, E), k => Covers(T, b), NEW v
  PROVE  Backs(<<>>, T, D, b, k, E, v)
  <1>1. Within(E, v, R)
    BY VolumeWithin
  <1>2. OnCourse(At4(<<>>, T, D, b, k, E), E, v)
    BY <1>1, Rests
  <1>3. Steps(<<>>, "undo", b, <<>>) = <<>>
    BY NoSteps
  <1>4. QED
    BY <1>2, <1>3 DEF Backs

LEMMA ShrinkBack ==
  ASSUME NEW U, NEW b, Shrinks(U, b), NEW T \in Fats, NEW D, NEW k, NEW R, NEW E, Volume(D, b, R, E), NEW v,
         k => CutSafe(D, T, E, v), k /\ U = <<>> => Covers(T, b)
  PROVE  Backs(U, T, D, b, k, E, v)
  <1>1. CASE U = <<>>
    <2>1. k => Covers(T, b)
      BY <1>1
    <2>2. QED
      BY <1>1, <2>1, NoneBack
  <1>2. CASE U = ToFat(b)
    <2>1. IsDisk(D) /\ b \in Fats
      BY DEF Volume
    <2>2. Covers(b, b)
      BY DEF Covers
    <2>3. CutSafe(D, b, E, v)
      BY <2>2, VolumeCut
    <2>4. Backs(<<>>, b, D, b, k, E, v) /\ Backs(<<>>, b, D, b, FALSE, E, v) /\ Backs(<<>>, T, D, b, FALSE, E, v)
      <3>1. Backs(<<>>, b, D, b, k, E, v)
        BY <2>1, <2>2, NoneBack
      <3>2. Backs(<<>>, b, D, b, FALSE, E, v)
        BY <2>1, <2>2, NoneBack
      <3>3. Backs(<<>>, T, D, b, FALSE, E, v)
        BY NoneBack
      <3>4. QED
        BY <3>1, <3>2, <3>3
    <2>5. IsSeq(<<>>) /\ ToFat(b) \o <<>> = ToFat(b)
      BY EmptyList, FatList, ConcatEmpty
    <2>6. Backs(ToFat(b) \o <<>>, T, D, b, k, E, v)
      BY <2>1, <2>3, <2>4, <2>5, TableBack
    <2>7. QED
      BY <1>2, <2>5, <2>6
  <1>3. QED
    BY <1>1, <1>2 DEF Shrinks

LEMMA ShrinkList ==
  ASSUME NEW U, NEW b, Shrinks(U, b)
  PROVE  IsSeq(U)
  BY EmptyList, FatList DEF Shrinks

LEMMA TableShrinkBack ==
  ASSUME NEW U, NEW b, Shrinks(U, b), NEW g \in Fats, NEW T \in Fats, NEW D, NEW k, NEW R, NEW E,
         Volume(D, b, R, E), NEW v,
         k => CutSafe(D, T, E, v) /\ CutSafe(D, g, E, v), k /\ U = <<>> => Covers(g, b)
  PROVE  Backs(ToFat(g) \o U, T, D, b, k, E, v)
  <1>1. IsDisk(D) /\ b \in Fats /\ IsSeq(U)
    BY ShrinkList DEF Volume
  <1>2. Backs(U, g, D, b, k, E, v)
    BY ShrinkBack
  <1>3. Backs(U, g, D, b, FALSE, E, v)
    BY ShrinkBack
  <1>4. Backs(U, T, D, b, FALSE, E, v)
    BY ShrinkBack
  <1>5. QED
    BY <1>1, <1>2, <1>3, <1>4, TableBack

(* Lists of steps, put together. *)
LEMMA StepsCons ==
  ASSUME NEW w, NEW W, IsSeq(W), NEW kind, NEW b, NEW u
  PROVE  Steps(Cons(w, W), kind, b, u) = Cons(Step(w, kind, b, u), Steps(W, kind, b, u))
  BY StepsAre

LEMMA StepsList ==
  ASSUME NEW W, IsSeq(W), NEW kind, NEW b, NEW u
  PROVE  IsSeq(Steps(W, kind, b, u))
  BY StepsAre

LEMMA OneStep ==
  ASSUME NEW w, NEW kind, NEW b, NEW u
  PROVE  Steps(Cons(w, <<>>), kind, b, u) = Cons(Step(w, kind, b, u), <<>>)
  <1>1. Steps(Cons(w, <<>>), kind, b, u) = Cons(Step(w, kind, b, u), Steps(<<>>, kind, b, u))
    BY EmptyList, StepsCons
  <1>2. QED
    BY <1>1, NoSteps

LEMMA TwoSteps ==
  ASSUME NEW w, NEW x, NEW kind, NEW b, NEW u
  PROVE  Steps(Cons(w, Cons(x, <<>>)), kind, b, u) = Cons(Step(w, kind, b, u), Cons(Step(x, kind, b, u), <<>>))
  <1>1. IsSeq(Cons(x, <<>>))
    BY EmptyList, ConsList
  <1>2. QED
    BY <1>1, StepsCons, OneStep

LEMMA ListConcat ==
  ASSUME NEW t, IsSeq(t), NEW u, IsSeq(u)
  PROVE  IsSeq(t \o u)
  BY Chained

LEMMA Associates ==
  ASSUME NEW t, IsSeq(t), NEW u, IsSeq(u), NEW w, IsSeq(w)
  PROVE  (t \o u) \o w = t \o (u \o w)
  <1>1. PICK A : t \in Seq(A)
    BY DEF IsSeq
  <1>2. PICK B : u \in Seq(B)
    BY DEF IsSeq
  <1>3. PICK C : w \in Seq(C)
    BY DEF IsSeq
  <1> DEFINE S == A \cup B \cup C
  <1>4. t \in Seq(S) /\ u \in Seq(S) /\ w \in Seq(S)
    BY <1>1, <1>2, <1>3, SeqMonotonic
  <1> HIDE DEF S
  <1>5. QED
    BY <1>4, ConcatAssociative, SMTT(30)

LEMMA OneConcats ==
  ASSUME NEW s, NEW rest, IsSeq(rest)
  PROVE  Cons(s, <<>>) \o rest = Cons(s, rest)
  BY OneConcat

LEMMA TwoConcats ==
  ASSUME NEW s, NEW t, NEW rest, IsSeq(rest)
  PROVE  Cons(s, Cons(t, <<>>)) \o rest = Cons(s, Cons(t, rest))
  <1>1. IsSeq(Cons(t, <<>>))
    BY EmptyList, ConsList
  <1>2. Cons(s, Cons(t, <<>>)) \o rest = Cons(s, Cons(t, <<>>) \o rest)
    BY <1>1, ConsConcat
  <1>3. QED
    BY <1>2, OneConcats

LEMMA SlotSteps ==
  ASSUME NEW p, NEW e, NEW kind, NEW b, NEW u, NEW rest, IsSeq(rest)
  PROVE  /\ IsSeq(Steps(ToSlot(p, e), kind, b, u))
         /\ Steps(ToSlot(p, e), kind, b, u) \o rest = Cons(Step(InSlot(p, e), kind, b, u), rest)
  <1>1. ToSlot(p, e) = Cons(InSlot(p, e), <<>>)
    BY ListsAre
  <1>2. Steps(ToSlot(p, e), kind, b, u) = Cons(Step(InSlot(p, e), kind, b, u), <<>>)
    BY <1>1, OneStep
  <1>3. QED
    BY <1>2, OneConcats, EmptyList, ConsList

LEMMA SectorSteps ==
  ASSUME NEW c, NEW s, NEW kind, NEW b, NEW u, NEW rest, IsSeq(rest)
  PROVE  /\ IsSeq(Steps(ToSector(c, s), kind, b, u))
         /\ Steps(ToSector(c, s), kind, b, u) \o rest = Cons(Step(InSector(c, s), kind, b, u), rest)
  <1>1. ToSector(c, s) = Cons(InSector(c, s), <<>>)
    BY ListsAre
  <1>2. Steps(ToSector(c, s), kind, b, u) = Cons(Step(InSector(c, s), kind, b, u), <<>>)
    BY <1>1, OneStep
  <1>3. QED
    BY <1>2, OneConcats, EmptyList, ConsList

LEMMA FatSteps ==
  ASSUME NEW g, NEW kind, NEW b, NEW u, NEW rest, IsSeq(rest)
  PROVE  /\ IsSeq(Steps(ToFat(g), kind, b, u))
         /\ Steps(ToFat(g), kind, b, u) \o rest =
              Cons(Step(Copy1(g), kind, b, u), Cons(Step(Copy2, kind, b, u), rest))
  <1>1. ToFat(g) = Cons(Copy1(g), Cons(Copy2, <<>>))
    BY ListsAre
  <1>2. Steps(ToFat(g), kind, b, u) = Cons(Step(Copy1(g), kind, b, u), Cons(Step(Copy2, kind, b, u), <<>>))
    BY <1>1, TwoSteps
  <1>3. IsSeq(ToFat(g))
    BY FatList
  <1>4. IsSeq(Steps(ToFat(g), kind, b, u))
    BY <1>3, StepsList
  <1>5. Cons(Step(Copy1(g), kind, b, u), Cons(Step(Copy2, kind, b, u), <<>>)) \o rest
          = Cons(Step(Copy1(g), kind, b, u), Cons(Step(Copy2, kind, b, u), rest))
    BY TwoConcats
  <1>6. QED
    BY <1>2, <1>4, <1>5

(* The writes of a call, one after another. *)
LEMMA TrySlot ==
  ASSUME NEW p, NEW e, NEW b, NEW u, NEW rest, IsSeq(rest), NEW T \in Fats, NEW D, IsDisk(D),
         NEW f \in Fats, NEW k, NEW G, NEW E, NEW v, k => CutSafe(D, T, E, v),
         OnCourse(At4(rest, T, Put(D, p, e), f, k, G), E, v), Backs(u, T, D, b, k, E, v)
  PROVE  OnCourse(At4(Steps(ToSlot(p, e), "step", b, u) \o rest, T, D, f, k, G), E, v)
  <1> DEFINE w == InSlot(p, e)
  <1>1. Tabled(w, T) = T /\ Written(w, D) = Put(D, p, e)
    BY WritesAre
  <1>2. Steps(ToSlot(p, e), "step", b, u) \o rest = Cons(Step(w, "step", b, u), rest)
    BY SlotSteps
  <1> HIDE DEF w
  <1>3. OnCourse(At4(rest, Tabled(w, T), Written(w, D), f, k, G), E, v)
    BY <1>1
  <1>4. OnCourse(At4(Steps(u, "undo", b, <<>>), T, D, b, IF "step" = "step" THEN k ELSE FALSE, E), E, v)
    BY DEF Backs
  <1>5. OnCourse(At4(Cons(Step(w, "step", b, u), rest), T, D, f, k, G), E, v)
    BY <1>3, <1>4, Attempt
  <1>6. QED
    BY <1>2, <1>5

LEMMA TrySector ==
  ASSUME NEW c, NEW s, NEW b, NEW u, NEW rest, IsSeq(rest), NEW T \in Fats, NEW D, IsDisk(D),
         NEW f \in Fats, NEW k, NEW G, NEW E, NEW v, k => CutSafe(D, T, E, v),
         OnCourse(At4(rest, T, Fill(D, c, s), f, k, G), E, v), Backs(u, T, D, b, k, E, v)
  PROVE  OnCourse(At4(Steps(ToSector(c, s), "step", b, u) \o rest, T, D, f, k, G), E, v)
  <1> DEFINE w == InSector(c, s)
  <1>1. Tabled(w, T) = T /\ Written(w, D) = Fill(D, c, s)
    BY WritesAre
  <1>2. Steps(ToSector(c, s), "step", b, u) \o rest = Cons(Step(w, "step", b, u), rest)
    BY SectorSteps
  <1> HIDE DEF w
  <1>3. OnCourse(At4(rest, Tabled(w, T), Written(w, D), f, k, G), E, v)
    BY <1>1
  <1>4. OnCourse(At4(Steps(u, "undo", b, <<>>), T, D, b, IF "step" = "step" THEN k ELSE FALSE, E), E, v)
    BY DEF Backs
  <1>5. OnCourse(At4(Cons(Step(w, "step", b, u), rest), T, D, f, k, G), E, v)
    BY <1>3, <1>4, Attempt
  <1>6. QED
    BY <1>2, <1>5

LEMMA TryTable ==
  ASSUME NEW g \in Fats, NEW b, NEW u, NEW rest, IsSeq(rest), NEW T \in Fats, NEW D, IsDisk(D),
         NEW f \in Fats, NEW k, NEW G, NEW E, NEW v, k => CutSafe(D, T, E, v) /\ CutSafe(D, g, E, v),
         OnCourse(At4(rest, g, D, f, k, G), E, v),
         Backs(u, T, D, b, k, E, v), Backs(u, g, D, b, k, E, v)
  PROVE  OnCourse(At4(Steps(ToFat(g), "step", b, u) \o rest, T, D, f, k, G), E, v)
  <1> DEFINE w1 == Copy1(g)
             w2 == Copy2
             t2 == Cons(Step(w2, "step", b, u), rest)
  <1>1. Tabled(w1, T) = g /\ Written(w1, D) = D
    BY WritesAre
  <1>2. Tabled(w2, g) = g /\ Written(w2, D) = D
    BY WritesAre
  <1>3. Steps(ToFat(g), "step", b, u) \o rest = Cons(Step(w1, "step", b, u), t2)
    BY FatSteps
  <1>4. IsSeq(t2)
    BY ConsList
  <1> HIDE DEF w1, w2
  <1>5. OnCourse(At4(rest, Tabled(w2, g), Written(w2, D), f, k, G), E, v)
    BY <1>2
  <1>6. OnCourse(At4(Steps(u, "undo", b, <<>>), g, D, b, IF "step" = "step" THEN k ELSE FALSE, E), E, v)
    BY DEF Backs
  <1>7. OnCourse(At4(t2, g, D, f, k, G), E, v)
    BY <1>5, <1>6, Attempt
  <1> HIDE DEF t2
  <1>8. OnCourse(At4(t2, Tabled(w1, T), Written(w1, D), f, k, G), E, v)
    BY <1>1, <1>7
  <1>9. OnCourse(At4(Steps(u, "undo", b, <<>>), T, D, b, IF "step" = "step" THEN k ELSE FALSE, E), E, v)
    BY DEF Backs
  <1>10. OnCourse(At4(Cons(Step(w1, "step", b, u), t2), T, D, f, k, G), E, v)
    BY <1>4, <1>8, <1>9, Attempt
  <1>11. QED
    BY <1>3, <1>10

(* A table that stays behind when it is refused. *)
LEMMA TryBehind ==
  ASSUME NEW g \in Fats, NEW rest, IsSeq(rest), NEW T \in Fats, NEW D, IsDisk(D),
         NEW f \in Fats, NEW k, NEW G, NEW E, NEW v, k => CutSafe(D, T, E, v) /\ CutSafe(D, g, E, v),
         OnCourse(At4(rest, g, D, f, k, G), E, v),
         Backs(<<>>, T, D, g, FALSE, E, v), Backs(<<>>, g, D, g, FALSE, E, v)
  PROVE  OnCourse(At4(Steps(ToFat(g), "behind", g, <<>>) \o rest, T, D, f, k, G), E, v)
  <1> DEFINE w1 == Copy1(g)
             w2 == Copy2
             t2 == Cons(Step(w2, "behind", g, <<>>), rest)
  <1>1. Tabled(w1, T) = g /\ Written(w1, D) = D
    BY WritesAre
  <1>2. Tabled(w2, g) = g /\ Written(w2, D) = D
    BY WritesAre
  <1>3. Steps(ToFat(g), "behind", g, <<>>) \o rest = Cons(Step(w1, "behind", g, <<>>), t2)
    BY FatSteps
  <1>4. IsSeq(t2)
    BY ConsList
  <1> HIDE DEF w1, w2
  <1>5. OnCourse(At4(rest, Tabled(w2, g), Written(w2, D), f, k, G), E, v)
    BY <1>2
  <1>6. OnCourse(At4(Steps(<<>>, "undo", g, <<>>), g, D, g, IF "behind" = "step" THEN k ELSE FALSE, E), E, v)
    BY DEF Backs
  <1>7. OnCourse(At4(t2, g, D, f, k, G), E, v)
    BY <1>5, <1>6, Attempt
  <1> HIDE DEF t2
  <1>8. OnCourse(At4(t2, Tabled(w1, T), Written(w1, D), f, k, G), E, v)
    BY <1>1, <1>7
  <1>9. OnCourse(At4(Steps(<<>>, "undo", g, <<>>), T, D, g, IF "behind" = "step" THEN k ELSE FALSE, E), E, v)
    BY DEF Backs
  <1>10. OnCourse(At4(Cons(Step(w1, "behind", g, <<>>), t2), T, D, f, k, G), E, v)
    BY <1>4, <1>8, <1>9, Attempt
  <1>11. QED
    BY <1>3, <1>10

-----------------------------------------------------------------------------
(* Room for an entry in d: g is the table with it, S the steps that make it and
   U those that take it back, D0 the disk with it.                           *)
IsRoom(D, f, R, d, g, at, S, U, D0) ==
  \/ /\ Vacant(D, f, d, at)
     /\ g = f /\ S = <<>> /\ U = <<>> /\ D0 = D
  \/ \E new \in Clusters :
       /\ d # Root /\ Full(D, f, d) /\ f[new] = FREE /\ at = <<new, 1>>
       /\ Grows(f, d, new, g)
       /\ S = Steps(ToSector(new, Blank(ClusterSlots)), "step", f, ToFat(f))
              \o Steps(ToFat(g), "behind", g, <<>>)
       /\ U = ToFat(f) /\ D0 = Fill(D, new, Blank(ClusterSlots))

(* The same directories as before, and room in d. *)
Roomy(D, f, R, E, d, g, at, U, D0) ==
  /\ Volume(D0, f, R, E) /\ Volume(D0, g, R, E) /\ d \in R
  /\ Vacant(D0, g, d, at) /\ Shrinks(U, f) /\ (U = <<>> => g = f)
  /\ \A c \in Clusters : g[c] = FREE => f[c] = FREE
  /\ \A x \in R : /\ Named(D0, g, x) = Named(D, f, x)
                  /\ \A q \in Named(D, f, x) : At(D0, q) = At(D, q)
                  /\ x # Root => D0[x] = D[x]

LEMMA RoomIs ==
  ASSUME NEW D, NEW f, NEW R, NEW E, Volume(D, f, R, E), NEW d \in R,
         NEW g, NEW at, NEW S, NEW U, NEW D0, IsRoom(D, f, R, d, g, at, S, U, D0)
  PROVE  Roomy(D, f, R, E, d, g, at, U, D0)
  <1>1. IsDisk(D) /\ f \in Fats /\ Shape(D, f, R) /\ Stands(D, f, R)
    BY DEF Volume, Stands
  <1>2. CASE Vacant(D, f, d, at) /\ g = f /\ S = <<>> /\ U = <<>> /\ D0 = D
    BY <1>2 DEF Roomy, Shrinks
  <1>3. ASSUME NEW new \in Clusters, d # Root, Full(D, f, d), f[new] = FREE, at = <<new, 1>>,
               Grows(f, d, new, g), U = ToFat(f), D0 = Fill(D, new, Blank(ClusterSlots))
        PROVE  Roomy(D, f, R, E, d, g, at, U, D0)
    <2> DEFINE b == Blank(ClusterSlots)
    <2>1. b \in [1 .. ClusterSlots -> Records]
      BY BlankIs
    <2>2. Volume(D0, f, R, E)
      BY <1>3, <2>1, FillVolume
    <2>3. IsDisk(D0) /\ AllAgree(D, f, D0, f, R)
      BY <1>1, <1>3, <2>1, FillAgrees
    <2>4. D0[new] = b /\ \A x \in Heads : x # new => D0[x] = D[x]
      BY <1>1, <1>3, <2>1, FillIs
    <2>5. SameRows(D, f, D0, f, R)
      BY <1>1, <2>3, AgreeShape
    <2>6. \A x \in R : Named(D0, f, x) = Named(D, f, x) /\ \A q \in Named(D, f, x) : At(D0, q) = At(D, q)
      BY <2>5 DEF SameRows, Named
    <2>7. Full(D0, f, d)
      BY <1>3, <2>5 DEF SameRows, Full
    <2>8. Volume(D0, g, R, E) /\ \A x \in R : Named(D0, g, x) = Named(D0, f, x)
      BY <1>3, <2>2, <2>4, <2>7, GrownVolume
    <2>9. Growing(D0, f, R, d, new, g)
      BY <1>1, <1>3, <2>2, <2>4, <2>7 DEF Growing, Volume, Stands
    <2>10. HasGrown(D0, f, d, new, g)
      BY <2>9, GrownRows
    <2>11. Vacant(D0, g, d, at)
      BY <1>3, <2>10, KindsOf DEF HasGrown, Vacant
    <2>12. \A x \in R : x # Root => x # new /\ x \in Heads
      BY <1>1, <1>3, MemberIs
    <2>13. ToFat(f) # <<>>
      <3>1. ToFat(f)[1] = [to |-> "fat", copy |-> 1, new |-> f] /\ Len(ToFat(f)) = 2
        BY DEF ToFat
      <3>2. QED
        BY <3>1
    <2>14. \A c \in Clusters : g[c] = FREE => f[c] = FREE
      <3>1. Proper(f, d)
        BY <1>1, <1>3, MemberIs
      <3>2. /\ g[new] = EOC /\ g[LastOf(f, d)] = new
            /\ \A c \in Clusters : c # new /\ c # LastOf(f, d) => g[c] = f[c]
        BY <1>1, <1>3, <3>1, GrownIs
      <3>3. QED
        BY <1>3, <3>2, Numbers
    <2>15. QED
      BY <1>3, <2>2, <2>4, <2>6, <2>8, <2>11, <2>12, <2>13, <2>14 DEF Roomy, Shrinks
  <1>4. QED
    BY <1>2, <1>3 DEF IsRoom

(* With the table as it is when there is room. *)
LEMMA RoomCourse ==
  ASSUME NEW D, NEW f, NEW R, NEW E, Volume(D, f, R, E), NEW d \in R,
         NEW g, NEW at, NEW S, NEW U, NEW D0, IsRoom(D, f, R, d, g, at, S, U, D0),
         NEW T \in Fats, NEW k, k => Covers(T, f), NEW v, NEW rest, IsSeq(rest), NEW h \in Fats, NEW G,
         \A T0 \in Fats : (k => Covers(T0, g)) => OnCourse(At4(rest, T0, D0, h, k, G), E, v)
  PROVE  OnCourse(At4(S \o rest, T, D, h, k, G), E, v)
  <1>1. IsDisk(D) /\ f \in Fats /\ Shape(D, f, R) /\ Stands(D, f, R)
    BY DEF Volume, Stands
  <1>2. CASE g = f /\ S = <<>> /\ D0 = D
    <2>1. OnCourse(At4(rest, T, D, h, k, G), E, v)
      BY <1>2
    <2>2. QED
      BY <1>2, <2>1, EmptyConcat
  <1>3. ASSUME NEW new \in Clusters, d # Root, f[new] = FREE, Grows(f, d, new, g), U = ToFat(f),
               S = Steps(ToSector(new, Blank(ClusterSlots)), "step", f, ToFat(f))
                   \o Steps(ToFat(g), "behind", g, <<>>),
               D0 = Fill(D, new, Blank(ClusterSlots))
        PROVE  OnCourse(At4(S \o rest, T, D, h, k, G), E, v)
    <2> DEFINE A1 == Steps(ToSector(new, Blank(ClusterSlots)), "step", f, ToFat(f))
               A2 == Steps(ToFat(g), "behind", g, <<>>)
    <2>1. Roomy(D, f, R, E, d, g, at, U, D0)
      BY RoomIs
    <2>2. Volume(D0, f, R, E) /\ Volume(D0, g, R, E)
      BY <2>1 DEF Roomy
    <2>3. IsDisk(D0) /\ g \in Fats
      BY <2>2 DEF Volume
    <2>4. Covers(g, g)
      BY DEF Covers
    <2>5. k => CutSafe(D, T, E, v) /\ CutSafe(D0, T, E, v) /\ CutSafe(D0, g, E, v)
      BY <2>2, <2>4, VolumeCut
    <2>6. OnCourse(At4(rest, g, D0, h, k, G), E, v)
      BY <2>3, <2>4
    <2>7. Backs(<<>>, T, D0, g, FALSE, E, v)
      BY <2>2, NoneBack
    <2>8. Backs(<<>>, g, D0, g, FALSE, E, v)
      BY <2>2, <2>3, NoneBack
    <2>9. OnCourse(At4(A2 \o rest, T, D0, h, k, G), E, v)
      BY <2>3, <2>5, <2>6, <2>7, <2>8, TryBehind
    <2>10. Backs(ToFat(f), T, D, f, k, E, v)
      <3>1. Shrinks(ToFat(f), f)
        BY DEF Shrinks
      <3>2. k /\ ToFat(f) = <<>> => Covers(T, f)
        OBVIOUS
      <3>3. k => CutSafe(D, T, E, v)
        BY <2>5
      <3>4. QED
        BY <3>1, <3>2, <3>3, ShrinkBack
    <2>11. IsSeq(A1) /\ IsSeq(A2)
      BY SectorSteps, FatSteps, EmptyList
    <2>12. IsSeq(A2 \o rest) /\ (A1 \o A2) \o rest = A1 \o (A2 \o rest)
      BY <2>11, ListConcat, Associates, SMTT(30)
    <2> DEFINE r == A2 \o rest
    <2>13. OnCourse(At4(r, T, Fill(D, new, Blank(ClusterSlots)), h, k, G), E, v) /\ IsSeq(r)
      BY <1>3, <2>9, <2>12
    <2> HIDE DEF r, A2
    <2>14. OnCourse(At4(A1 \o r, T, D, h, k, G), E, v)
      <3>1. k => CutSafe(D, T, E, v)
        BY <2>5
      <3>2. QED
        BY <1>1, <2>10, <2>13, <3>1, TrySector
    <2> HIDE DEF A1
    <2>15. (A1 \o A2) \o rest = A1 \o r
      BY <2>12 DEF r
    <2>16. S = A1 \o A2
      BY <1>3 DEF A1, A2
    <2>17. QED
      BY <2>14, <2>15, <2>16
  <1>4. QED
    BY <1>2, <1>3 DEF IsRoom

-----------------------------------------------------------------------------
(* The courses of the calls.                                                 *)

(* A volume at rest with what a mount would read. *)
Resting(D, f, R, E, T, k) == Volume(D, f, R, E) /\ T \in Fats /\ (k => Covers(T, f))

LEMMA RoomyFits ==
  ASSUME NEW D, NEW f, NEW R, NEW E, NEW d, NEW g, NEW at, NEW U, NEW D0, Roomy(D, f, R, E, d, g, at, U, D0),
         NEW e \in Records, e.kind \in {"file", "dir"}, Unnamed(D, f, d, e.name),
         e.kind = "dir" => \A q \in Named(D0, g, d) : At(D0, q).kind = "dir" => At(D0, q).start # e.start
  PROVE  /\ Fits(D0, g, d, at, e) /\ Unnamed(D0, g, d, e.name)
         /\ Old(D0, g, d, at) = {} /\ At(D0, at).kind \in {"deleted", "end"}
  <1>1. d \in R /\ at \in Places(g, d) /\ At(D0, at).kind \in {"deleted", "end"} /\ Ahead(D0, g, d, at)
    BY DEF Roomy, Vacant
  <1>2. Named(D0, g, d) = Named(D, f, d) /\ \A q \in Named(D, f, d) : At(D0, q) = At(D, q)
    BY <1>1 DEF Roomy
  <1>3. Unnamed(D0, g, d, e.name)
    BY <1>2 DEF Unnamed
  <1>4. Fresh(D0, g, d, at, e)
    BY <1>3 DEF Fresh, Unnamed
  <1>5. QED
    BY <1>1, <1>3, <1>4 DEF Fits, Old, Named

(* fat12_create. *)
LEMMA CreateCourse ==
  ASSUME NEW D, NEW f, NEW R, NEW E, NEW T, NEW k, Resting(D, f, R, E, T, k), NEW d \in R,
         NEW g, NEW at, NEW S, NEW U, NEW D0, IsRoom(D, f, R, d, g, at, S, U, D0),
         NEW n \in Names, Unnamed(D, f, d, n), NEW v
  PROVE  OnCourse(At4(S \o Steps(ToSlot(at, File(n)), "step", g, <<>>), T, D, g, k, E \cup New(d, File(n))), E, v)
  <1> DEFINE e == File(n)
             A == Steps(ToSlot(at, e), "step", g, <<>>)
             G == E \cup New(d, e)
             P == Put(D0, at, e)
  <1>1. Volume(D, f, R, E) /\ T \in Fats /\ (k => Covers(T, f))
    BY DEF Resting
  <1>2. Roomy(D, f, R, E, d, g, at, U, D0)
    BY <1>1, RoomIs
  <1>3. Volume(D0, g, R, E) /\ IsDisk(D0) /\ g \in Fats
    BY <1>2 DEF Roomy, Volume
  <1>4. e \in Records /\ e.kind = "file" /\ e.name = n
    BY KindsOf
  <1> HIDE DEF e
  <1>5. Fits(D0, g, d, at, e) /\ Old(D0, g, d, at) = {} /\ At(D0, at).kind \in {"deleted", "end"}
    BY <1>2, <1>4, RoomyFits
  <1>6. Volume(P, g, R, (E \ Old(D0, g, d, at)) \cup New(d, e))
    BY <1>3, <1>4, <1>5, PutVolume
  <1>7. Volume(P, g, R, G)
    BY <1>5, <1>6
  <1> HIDE DEF P, G
  <1>8. IsSeq(A) /\ A \o <<>> = A
    <2>1. IsSeq(A)
      BY SlotSteps, EmptyList
    <2>2. QED
      BY <2>1, ConcatEmpty
  <1>9. ASSUME NEW T0 \in Fats, k => Covers(T0, g) PROVE OnCourse(At4(A, T0, D0, g, k, G), E, v)
    <2>1. k => CutSafe(D0, T0, E, v)
      BY <1>3, <1>9, VolumeCut
    <2>2. Within(E, v, R)
      BY <1>1, VolumeWithin
    <2>3. OnCourse(At4(<<>>, T0, P, g, k, G), E, v)
      BY <1>7, <1>9, <2>2, Rests
    <2>4. Backs(<<>>, T0, D0, g, k, E, v)
      BY <1>3, <1>9, NoneBack
    <2>5. OnCourse(At4(A \o <<>>, T0, D0, g, k, G), E, v)
      BY <1>3, <2>1, <2>3, <2>4, EmptyList, TrySlot DEF P
    <2>6. QED
      BY <1>8, <2>5
  <1> HIDE DEF A
  <1>10. OnCourse(At4(S \o A, T, D, g, k, G), E, v)
    BY <1>1, <1>3, <1>8, <1>9, RoomCourse
  <1>11. QED
    BY <1>10 DEF A, G, e

(* fat12_unlink and fat12_rename: one entry written over. *)
LEMMA OverCourse ==
  ASSUME NEW D, NEW f, NEW R, NEW E, NEW T, NEW k, Resting(D, f, R, E, T, k), NEW d \in R,
         NEW p \in Named(D, f, d), NEW e, Fits(D, f, d, p, e), NEW v,
         e.kind = "dir" => e.start \in R /\ e.start # Root /\ D[e.start][2] = DotDot(d),
         At(D, p).kind = "dir" => e.kind = "dir" /\ e.start = At(D, p).start
  PROVE  OnCourse(At4(Steps(ToSlot(p, e), "step", f, <<>>), T, D, f, k, (E \ {Rec(D, d, p)}) \cup New(d, e)), E, v)
  <1> DEFINE A == Steps(ToSlot(p, e), "step", f, <<>>)
             G == (E \ {Rec(D, d, p)}) \cup New(d, e)
             P == Put(D, p, e)
  <1>1. Volume(D, f, R, E) /\ T \in Fats /\ (k => Covers(T, f)) /\ IsDisk(D) /\ f \in Fats
    BY DEF Resting, Volume
  <1>2. Volume(P, f, R, (E \ Old(D, f, d, p)) \cup New(d, e))
    BY <1>1, PutVolume
  <1>3. Old(D, f, d, p) = {Rec(D, d, p)}
    BY DEF Old
  <1>4. Volume(P, f, R, G)
    BY <1>2, <1>3
  <1> HIDE DEF P, G
  <1>5. A \o <<>> = A
    BY SlotSteps, EmptyList, ConcatEmpty
  <1>6. k => CutSafe(D, T, E, v)
    BY <1>1, VolumeCut
  <1>7. Within(E, v, R)
    BY <1>1, VolumeWithin
  <1>8. OnCourse(At4(<<>>, T, P, f, k, G), E, v)
    BY <1>1, <1>4, <1>7, Rests
  <1>9. Backs(<<>>, T, D, f, k, E, v)
    BY <1>1, NoneBack
  <1>10. OnCourse(At4(A \o <<>>, T, D, f, k, G), E, v)
    BY <1>1, <1>6, <1>8, <1>9, EmptyList, TrySlot DEF P
  <1>11. QED
    BY <1>5, <1>10 DEF A, G

(* fat12_mkdir that has grown the parent and finds no cluster. *)
LEMMA GrownInVain ==
  ASSUME NEW D, NEW f, NEW R, NEW E, NEW T, NEW k, Resting(D, f, R, E, T, k), NEW d \in R,
         NEW g, NEW at, NEW S, NEW U, NEW D0, IsRoom(D, f, R, d, g, at, S, U, D0), NEW v
  PROVE  OnCourse(At4(S \o Steps(ToFat(f), "undo", f, <<>>), T, D, f, k, E), E, v)
  <1> DEFINE A == Steps(ToFat(f), "undo", f, <<>>)
  <1>1. Volume(D, f, R, E) /\ T \in Fats /\ (k => Covers(T, f)) /\ f \in Fats
    BY DEF Resting, Volume
  <1>2. Roomy(D, f, R, E, d, g, at, U, D0)
    BY <1>1, RoomIs
  <1>3. Volume(D0, g, R, E) /\ Volume(D0, f, R, E) /\ IsDisk(D0)
    BY <1>2 DEF Roomy, Volume
  <1>4. IsSeq(A)
    BY FatSteps, EmptyList
  <1>5. ASSUME NEW T0 \in Fats, k => Covers(T0, g) PROVE OnCourse(At4(A, T0, D0, f, k, E), E, v)
    <2>1. k => CutSafe(D0, T0, E, v)
      BY <1>3, <1>5, VolumeCut
    <2>2. Shrinks(ToFat(f), f)
      BY DEF Shrinks
    <2>3. ToFat(f) # <<>>
      <3>1. Len(ToFat(f)) = 2
        BY DEF ToFat
      <3>2. QED
        BY <3>1
    <2>4. Backs(ToFat(f), T0, D0, f, k, E, v)
      BY <1>3, <2>1, <2>2, <2>3, ShrinkBack
    <2>5. QED
      BY <2>4 DEF Backs
  <1> HIDE DEF A
  <1>6. OnCourse(At4(S \o A, T, D, f, k, E), E, v)
    BY <1>1, <1>4, <1>5, RoomCourse
  <1>7. QED
    BY <1>6 DEF A

(* fat12_mkdir: the volume once there is room for the entry, and a cluster c. *)
Making(D0, f, g, R, E, d, at, U, n, c, h) ==
  /\ Volume(D0, f, R, E) /\ Volume(D0, g, R, E) /\ d \in R
  /\ Shrinks(U, f) /\ (U = <<>> => g = f)
  /\ Vacant(D0, g, d, at) /\ n \in Names /\ Unnamed(D0, g, d, n)
  /\ c \in Clusters /\ g[c] = FREE /\ f[c] = FREE /\ h = [g EXCEPT ![c] = EOC]

LEMMA MadeFat ==
  ASSUME NEW g \in Fats, NEW c \in Clusters, g[c] = FREE
  PROVE  [g EXCEPT ![c] = EOC] \in Fats /\ Covers([g EXCEPT ![c] = EOC], g)
  <1>1. EOC \in 0 .. EOC
    BY Numbers
  <1>2. QED
    BY <1>1 DEF Fats, Covers

LEMMA MadeFolder ==
  ASSUME NEW D0, NEW f, NEW g, NEW R, NEW E, NEW d, NEW at, NEW U, NEW n, NEW c, NEW h,
         Making(D0, f, g, R, E, d, at, U, n, c, h)
  PROVE  LET D1 == Fill(D0, c, Dots(c, d))
         IN  /\ Volume(D1, f, R, E) /\ Volume(D1, g, R, E)
             /\ Volume(Put(D1, at, Dir(n, c)), h, R \cup {c}, E \cup New(d, Dir(n, c)))
  <1> DEFINE D1 == Fill(D0, c, Dots(c, d))
             e  == Dir(n, c)
             P  == Put(D1, at, e)
  <1>1. /\ Volume(D0, f, R, E) /\ Volume(D0, g, R, E) /\ d \in R /\ IsDisk(D0) /\ g \in Fats
        /\ Vacant(D0, g, d, at) /\ n \in Names /\ Unnamed(D0, g, d, n) /\ Shape(D0, g, R)
        /\ c \in Clusters /\ g[c] = FREE /\ f[c] = FREE /\ h = [g EXCEPT ![c] = EOC]
    BY DEF Making, Volume, Stands
  <1>2. c \in Heads /\ d \in Heads
    BY <1>1, HeadsAre, MemberIs
  <1>3. Dots(c, d) \in [1 .. ClusterSlots -> Records]
    BY <1>2, DotsAre
  <1>4. Volume(D1, f, R, E)
    BY <1>1, <1>3, FillVolume
  <1>5. Volume(D1, g, R, E)
    BY <1>1, <1>3, FillVolume
  <1>6. D1[c] = Dots(c, d)
    BY <1>1, <1>3, FillIs
  <1>7. IsDisk(D1) /\ AllAgree(D0, g, D1, g, R)
    BY <1>1, <1>3, FillAgrees
  <1> HIDE DEF D1
  <1>8. SameRows(D0, g, D1, g, R)
    BY <1>1, <1>7, AgreeShape
  <1>9. Vacant(D1, g, d, at) /\ Unnamed(D1, g, d, n)
    BY <1>1, <1>8 DEF SameRows, Vacant, Unnamed, Ahead, Named
  <1>10. e \in Records /\ e.kind = "dir" /\ e.name = n /\ e.start = c
    BY <1>1, KindsOf
  <1> HIDE DEF e
  <1>11. Stands(D1, g, R) /\ Shape(D1, g, R)
    BY <1>5 DEF Volume, Stands
  <1>12. ASSUME NEW q \in Named(D1, g, d), At(D1, q).kind = "dir" PROVE At(D1, q).start # c
    <2>1. At(D1, q).start \in R /\ At(D1, q).start # Root
      BY <1>1, <1>7, <1>11, <1>12, KidIs
    <2>2. g[At(D1, q).start] # FREE
      BY <1>7, <1>11, <2>1, MemberIs
    <2>3. QED
      BY <1>1, <2>2
  <1>13. Fits(D1, g, d, at, e)
    <2>1. Fresh(D1, g, d, at, e)
      BY <1>9, <1>10, <1>12 DEF Fresh, Unnamed
    <2>2. QED
      BY <1>9, <1>10, <2>1 DEF Fits, Vacant
  <1>14. AddsFolder(D1, g, R, E, d, at, n, c, P, h)
    BY <1>1, <1>5, <1>6, <1>9, <1>13 DEF AddsFolder, Vacant, e
  <1> HIDE DEF P
  <1>15. Volume(P, h, R \cup {c}, E \cup {[in |-> d, name |-> n, id |-> c]})
    BY <1>14, AddFolder
  <1>16. New(d, e) = {[in |-> d, name |-> n, id |-> c]}
    BY <1>10 DEF New
  <1>17. Volume(P, h, R \cup {c}, E \cup New(d, e))
    BY <1>15, <1>16
  <1>18. QED
    BY <1>4, <1>5, <1>17 DEF D1, P, e

LEMMA SectorAndSlot ==
  ASSUME NEW c, NEW s, NEW p, NEW e, NEW kind, NEW b, NEW u
  PROVE  Steps(ToSector(c, s) \o ToSlot(p, e), kind, b, u)
           = Steps(ToSector(c, s), kind, b, u) \o Steps(ToSlot(p, e), kind, b, u)
  <1> DEFINE w == InSector(c, s)
             x == InSlot(p, e)
  <1>1. ToSector(c, s) = Cons(w, <<>>) /\ ToSlot(p, e) = Cons(x, <<>>)
    BY ListsAre
  <1> HIDE DEF w, x
  <1>2. IsSeq(Cons(x, <<>>))
    BY EmptyList, ConsList
  <1>3. Cons(w, <<>>) \o Cons(x, <<>>) = Cons(w, Cons(x, <<>>))
    BY <1>2, OneConcats
  <1>4. Steps(Cons(w, Cons(x, <<>>)), kind, b, u) = Cons(Step(w, kind, b, u), Cons(Step(x, kind, b, u), <<>>))
    BY TwoSteps
  <1>5. Steps(Cons(w, <<>>), kind, b, u) = Cons(Step(w, kind, b, u), <<>>)
    BY OneStep
  <1>6. Steps(Cons(x, <<>>), kind, b, u) = Cons(Step(x, kind, b, u), <<>>)
    BY OneStep
  <1>7. IsSeq(Cons(Step(x, kind, b, u), <<>>))
    BY EmptyList, ConsList
  <1>8. Cons(Step(w, kind, b, u), <<>>) \o Cons(Step(x, kind, b, u), <<>>)
          = Cons(Step(w, kind, b, u), Cons(Step(x, kind, b, u), <<>>))
    BY <1>7, OneConcats
  <1>9. QED
    BY <1>1, <1>3, <1>4, <1>5, <1>6, <1>8

LEMMA MakeCourse ==
  ASSUME NEW D0, NEW f, NEW g, NEW R, NEW E, NEW d, NEW at, NEW U, NEW n, NEW c, NEW h,
         Making(D0, f, g, R, E, d, at, U, n, c, h), NEW v,
         NEW T0 \in Fats, NEW k, k => Covers(T0, g)
  PROVE  OnCourse(At4(Steps(ToFat(h), "step", f, U)
                      \o (Steps(ToSector(c, Dots(c, d)), "step", f, ToFat(g) \o U)
                          \o Steps(ToSlot(at, Dir(n, c)), "step", f, ToFat(g) \o U)),
                      T0, D0, h, k, E \cup New(d, Dir(n, c))), E, v)
  <1> DEFINE e  == Dir(n, c)
             D1 == Fill(D0, c, Dots(c, d))
             P  == Put(D1, at, e)
             W  == ToFat(g) \o U
             A  == Steps(ToFat(h), "step", f, U)
             B1 == Steps(ToSector(c, Dots(c, d)), "step", f, W)
             B2 == Steps(ToSlot(at, e), "step", f, W)
             G  == E \cup New(d, e)
  <1>1. /\ Volume(D0, f, R, E) /\ Volume(D0, g, R, E) /\ IsDisk(D0) /\ f \in Fats /\ g \in Fats
        /\ Shrinks(U, f) /\ (U = <<>> => g = f) /\ c \in Clusters /\ g[c] = FREE /\ h = [g EXCEPT ![c] = EOC]
    BY DEF Making, Volume
  <1>2. h \in Fats /\ Covers(h, g)
    BY <1>1, MadeFat
  <1>3. Volume(D1, f, R, E) /\ Volume(D1, g, R, E) /\ Volume(P, h, R \cup {c}, G)
    BY MadeFolder
  <1> HIDE DEF P, D1, G
  <1>4. Covers(g, g) /\ Covers(h, h)
    BY DEF Covers
  <1>5. CutSafe(D0, h, E, v) /\ CutSafe(D0, g, E, v) /\ CutSafe(D1, h, E, v) /\ CutSafe(D1, g, E, v)
    BY <1>1, <1>2, <1>3, <1>4, VolumeCut
  <1>6. k => CutSafe(D0, T0, E, v)
    BY <1>1, VolumeCut
  <1>7. IsDisk(D1)
    BY <1>3 DEF Volume
  <1>8. Within(E, v, R \cup {c})
    <2>1. Within(E, v, R)
      BY <1>1, VolumeWithin
    <2>2. QED
      BY <2>1 DEF Within
  <1>9. OnCourse(At4(<<>>, h, P, h, k, G), E, v)
    BY <1>2, <1>3, <1>4, <1>8, Rests
  <1>10. Backs(W, h, D1, f, k, E, v)
    <2>1. k /\ U = <<>> => Covers(g, f)
      BY <1>1, <1>4
    <2>2. QED
      BY <1>1, <1>2, <1>3, <1>5, <2>1, TableShrinkBack
  <1>11. Backs(W, h, D0, f, k, E, v)
    <2>1. k /\ U = <<>> => Covers(g, f)
      BY <1>1, <1>4
    <2>2. QED
      BY <1>1, <1>2, <1>5, <2>1, TableShrinkBack
  <1> HIDE DEF W
  <1>12. OnCourse(At4(B2 \o <<>>, h, D1, h, k, G), E, v)
    BY <1>2, <1>5, <1>7, <1>9, <1>10, EmptyList, TrySlot DEF P
  <1>13. IsSeq(B2)
    BY SlotSteps, EmptyList
  <1>14. B2 \o <<>> = B2
    BY <1>13, ConcatEmpty
  <1> HIDE DEF B2
  <1>15. OnCourse(At4(B2, h, D1, h, k, G), E, v)
    BY <1>12, <1>14
  <1>16. OnCourse(At4(B1 \o B2, h, D0, h, k, G), E, v)
    BY <1>1, <1>2, <1>5, <1>11, <1>13, <1>15, TrySector DEF D1
  <1>17. IsSeq(B1)
    BY SectorSteps, EmptyList
  <1>18. IsSeq(B1 \o B2)
    BY <1>13, <1>17, ListConcat
  <1> DEFINE B == B1 \o B2
  <1>19. IsSeq(B) /\ OnCourse(At4(B, h, D0, h, k, G), E, v)
    BY <1>16, <1>18
  <1> HIDE DEF B
  <1>20. Backs(U, T0, D0, f, k, E, v)
    <2>1. k /\ U = <<>> => Covers(T0, f)
      BY <1>1
    <2>2. QED
      BY <1>1, <1>6, <2>1, ShrinkBack
  <1>21. Backs(U, h, D0, f, k, E, v)
    <2>1. k /\ U = <<>> => Covers(h, f)
      BY <1>1, <1>2
    <2>2. k => CutSafe(D0, h, E, v)
      BY <1>5
    <2>3. QED
      BY <1>1, <1>2, <2>1, <2>2, ShrinkBack
  <1>22. OnCourse(At4(A \o B, T0, D0, h, k, G), E, v)
    BY <1>1, <1>2, <1>5, <1>6, <1>19, <1>20, <1>21, TryTable
  <1>23. QED
    BY <1>22 DEF A, B, B1, B2, W, G, e

IsMade(g, c, h) == h = [g EXCEPT ![c] = EOC]

LEMMA MkDirCourse ==
  ASSUME NEW D, NEW f, NEW R, NEW E, NEW T, NEW k, Resting(D, f, R, E, T, k), NEW d \in R,
         NEW g, NEW at, NEW S, NEW U, NEW D0, IsRoom(D, f, R, d, g, at, S, U, D0),
         NEW n \in Names, Unnamed(D, f, d, n), NEW c \in Clusters, g[c] = FREE, NEW h, IsMade(g, c, h),
         NEW v
  PROVE  OnCourse(At4((S \o Steps(ToFat(h), "step", f, U))
                      \o Steps(ToSector(c, Dots(c, d)) \o ToSlot(at, Dir(n, c)), "step", f, ToFat(g) \o U),
                      T, D, h, k, E \cup New(d, Dir(n, c))), E, v)
  <1> DEFINE A  == Steps(ToFat(h), "step", f, U)
             B1 == Steps(ToSector(c, Dots(c, d)), "step", f, ToFat(g) \o U)
             B2 == Steps(ToSlot(at, Dir(n, c)), "step", f, ToFat(g) \o U)
             G  == E \cup New(d, Dir(n, c))
  <1>1. Volume(D, f, R, E) /\ T \in Fats /\ (k => Covers(T, f))
    BY DEF Resting
  <1>2. Roomy(D, f, R, E, d, g, at, U, D0)
    BY <1>1, RoomIs
  <1>3. /\ Volume(D0, f, R, E) /\ Volume(D0, g, R, E) /\ g \in Fats
        /\ Shrinks(U, f) /\ (U = <<>> => g = f) /\ Vacant(D0, g, d, at) /\ f[c] = FREE
    BY <1>2 DEF Roomy, Volume
  <1>4. Unnamed(D0, g, d, n)
    BY <1>2 DEF Roomy, Unnamed
  <1>5. Making(D0, f, g, R, E, d, at, U, n, c, h)
    BY <1>3, <1>4 DEF Making, IsMade
  <1>6. h \in Fats
    BY <1>3, MadeFat DEF IsMade
  <1>7. \A T0 \in Fats : (k => Covers(T0, g)) => OnCourse(At4(A \o (B1 \o B2), T0, D0, h, k, G), E, v)
    BY <1>5, MakeCourse
  <1>8. IsSeq(A) /\ IsSeq(B1) /\ IsSeq(B2)
    <2>1. IsSeq(A)
      BY FatSteps, EmptyList
    <2>2. IsSeq(B1)
      BY SectorSteps, EmptyList
    <2>3. IsSeq(B2)
      BY SlotSteps, EmptyList
    <2>4. QED
      BY <2>1, <2>2, <2>3
  <1>9. IsSeq(S)
    <2>1. IsSeq(<<>>)
      BY EmptyList
    <2>2. ASSUME NEW new, S = Steps(ToSector(new, Blank(ClusterSlots)), "step", f, ToFat(f))
                              \o Steps(ToFat(g), "behind", g, <<>>)
          PROVE  IsSeq(S)
      <3>1. IsSeq(Steps(ToSector(new, Blank(ClusterSlots)), "step", f, ToFat(f)))
        BY SectorSteps, EmptyList
      <3>2. IsSeq(Steps(ToFat(g), "behind", g, <<>>))
        BY FatSteps, EmptyList
      <3>3. QED
        BY <2>2, <3>1, <3>2, ListConcat
    <2>3. QED
      BY <2>1, <2>2 DEF IsRoom
  <1>10. Steps(ToSector(c, Dots(c, d)) \o ToSlot(at, Dir(n, c)), "step", f, ToFat(g) \o U) = B1 \o B2
    BY SectorAndSlot
  <1> HIDE DEF A, B1, B2, G
  <1> DEFINE rest == A \o (B1 \o B2)
  <1>11. IsSeq(rest) /\ (S \o A) \o (B1 \o B2) = S \o rest
    <2>1. IsSeq(B1 \o B2)
      BY <1>8, ListConcat
    <2> DEFINE B == B1 \o B2
    <2>2. IsSeq(B)
      BY <2>1
    <2> HIDE DEF B
    <2>3. IsSeq(A \o B)
      BY <1>8, <2>2, ListConcat
    <2>4. (S \o A) \o B = S \o (A \o B)
      BY <1>8, <1>9, <2>2, Associates, SMTT(30)
    <2>5. QED
      BY <2>3, <2>4 DEF B
  <1> HIDE DEF rest
  <1>12. \A T0 \in Fats : (k => Covers(T0, g)) => OnCourse(At4(rest, T0, D0, h, k, G), E, v)
    BY <1>7 DEF rest
  <1>13. OnCourse(At4(S \o rest, T, D, h, k, G), E, v)
    BY <1>1, <1>6, <1>11, <1>12, RoomCourse
  <1>14. QED
    BY <1>10, <1>11, <1>13 DEF A, G

(* fat12_rmdir: the power fails when the chain is free and the entry not deleted. *)
LEMMA FreedCut ==
  ASSUME NEW D, NEW f, NEW R, NEW E, NEW d, NEW p, NEW c, NEW P, NEW h,
         DropsFolder(D, f, R, E, d, p, c, P, h)
  PROVE  CutSafe(D, h, E, c)
  <1>1. /\ Volume(D, f, R, E) /\ IsDisk(D) /\ Stands(D, f, R) /\ Shape(D, f, R) /\ Named(D, f, c) = {}
        /\ Within(E, c, R)
    BY VolumeWithin DEF DropsFolder, Volume, Stands
  <1>2. /\ c \in R /\ c \in Clusters /\ c # Root /\ AllAgree(D, f, D, h, R \ {c})
        /\ \A x \in Clusters : h[x] = IF x \in Area(f, c) THEN FREE ELSE f[x]
    <2>1. DroppedShape(D, f, R, d, p, c, P, h)
      BY DropShape
    <2>2. QED
      BY <2>1 DEF DroppedShape
  <1>3. \A x \in R : x \in Heads /\ Rows(D, f, x) /\ (x # Root => Proper(f, x) /\ D[x][1] = Dot(x))
    BY <1>1, MemberIs DEF Shape
  <1>4. \A x \in R \ {c} : Kids(D, h, x) = Kids(D, f, x) /\ (x # Root => Proper(h, x))
    BY <1>1, <1>2, <1>3, AgreeKids, AgreeArea DEF AllAgree
  <1>5. Kids(D, h, c) = {} /\ Kids(D, f, c) = {}
    <2>1. c \in Area(f, c) /\ Area(f, c) = Visited(f, c)
      BY <1>1, <1>2, MemberIs
    <2>2. h[c] \notin Clusters
      BY <1>2, <2>1, Numbers
    <2>3. Area(h, c) = {c}
      BY <1>2, <2>2, ChainOfOne DEF Area
    <2>4. Places(h, c) \subseteq Places(f, c)
      BY <2>1, <2>3 DEF Places
    <2>5. Named(D, h, c) = {}
      BY <1>1, <2>4 DEF Named
    <2>6. Live(D, h, c) = {} /\ Live(D, f, c) = {}
      BY <1>1, <2>5 DEF Live, Seen, Named
    <2>7. QED
      BY <2>6 DEF Kids
  <1>6. \A x \in R : Kids(D, h, x) = Kids(D, f, x)
    BY <1>4, <1>5
  <1>7. R = Reached(D, f) /\ Root \in R /\ \A x \in R : Kids(D, f, x) \subseteq R
    BY <1>1, ReachedClosed DEF Stands
  <1>8. Reached(D, h) \subseteq R
    BY <1>6, <1>7, ReachedLeast
  <1>9. Root \in Reached(D, h) /\ \A x \in Reached(D, h) : Kids(D, h, x) \subseteq Reached(D, h)
    BY ReachedClosed
  <1>10. R \subseteq Reached(D, h)
    <2>1. \A x \in Reached(D, h) : Kids(D, f, x) \subseteq Reached(D, h)
      BY <1>6, <1>8, <1>9
    <2>2. QED
      BY <1>7, <1>9, <2>1, ReachedLeast
  <1>11. Reached(D, h) = R
    BY <1>8, <1>10
  <1>12. {e.id : e \in E} \ {0, c} \subseteq R
    BY <1>1 DEF Within
  <1>13. \A x \in R \ {Root, c} : (\E y \in Visited(h, x) : h[y] = EOC) /\ D[x][1] = Dot(x)
    BY <1>3, <1>4 DEF Proper
  <1>14. QED
    BY <1>11, <1>12, <1>13 DEF CutSafe

LEMMA RmDirCourse ==
  ASSUME NEW D, NEW f, NEW R, NEW E, NEW T, NEW k, Resting(D, f, R, E, T, k),
         NEW d, NEW p, NEW c, NEW P, NEW h, DropsFolder(D, f, R, E, d, p, c, P, h)
  PROVE  OnCourse(At4(Steps(ToFat(h) \o ToSlot(p, Deleted), "free", h, <<>>), T, D, h, k,
                      E \ {Rec(D, d, p)}), E, c)
  <1> DEFINE G  == E \ {Rec(D, d, p)}
             w1 == Copy1(h)
             w2 == Copy2
             w3 == InSlot(p, Deleted)
             t3 == Cons(Step(w3, "free", h, <<>>), <<>>)
             t2 == Cons(Step(w2, "free", h, <<>>), t3)
             t1 == Cons(Step(w1, "free", h, <<>>), t2)
  <1>1. Volume(D, f, R, E) /\ T \in Fats /\ (k => Covers(T, f)) /\ IsDisk(D)
    BY DEF Resting, Volume
  <1>2. Volume(P, h, R \ {c}, G) /\ P = Put(D, p, Deleted)
    BY DropFolder DEF DropsFolder
  <1>3. h \in Fats /\ Covers(h, h)
    BY <1>2 DEF Volume, Covers
  <1>4. CutSafe(D, h, E, c)
    BY FreedCut
  <1>5. k => CutSafe(D, T, E, c)
    BY <1>1, VolumeCut
  <1>6. Within(E, c, R \ {c})
    <2>1. Within(E, c, R)
      BY <1>1, VolumeWithin
    <2>2. QED
      BY <2>1 DEF Within
  <1> HIDE DEF G
  <1>7. OnCourse(At4(<<>>, h, P, h, k, G), E, c)
    BY <1>2, <1>3, <1>6, Rests
  <1>8. /\ Tabled(w1, T) = h /\ Written(w1, D) = D
        /\ Tabled(w2, h) = h /\ Written(w2, D) = D
        /\ Tabled(w3, h) = h /\ Written(w3, D) = P
    BY <1>2, WritesAre
  <1>9. IsSeq(t3)
    BY EmptyList, ConsList
  <1>10. Steps(ToFat(h) \o ToSlot(p, Deleted), "free", h, <<>>) = t1
    <2>1. ToSlot(p, Deleted) = Cons(w3, <<>>)
      BY ListsAre
    <2>2. IsSeq(Cons(w3, <<>>))
      BY EmptyList, ConsList
    <2>3. ToFat(h) \o Cons(w3, <<>>) = Cons(w1, Cons(w2, Cons(w3, <<>>)))
      BY <2>2, FatConcat
    <2> HIDE DEF w1, w2, w3
    <2>4. Steps(Cons(w2, Cons(w3, <<>>)), "free", h, <<>>) = t2
      BY TwoSteps
    <2>5. IsSeq(Cons(w2, Cons(w3, <<>>)))
      BY <2>2, ConsList
    <2>6. Steps(Cons(w1, Cons(w2, Cons(w3, <<>>))), "free", h, <<>>) = t1
      BY <2>4, <2>5, StepsCons
    <2>7. QED
      BY <2>1, <2>3, <2>6
  <1>11. IsSeq(t2)
    BY <1>9, ConsList
  <1> HIDE DEF w1, w2, w3
  <1>12. OnCourse(At4(t3, h, D, h, k, G), E, c)
    <2>1. OnCourse(At4(<<>>, Tabled(w3, h), Written(w3, D), h, k, G), E, c)
      BY <1>7, <1>8
    <2>2. QED
      BY <1>1, <1>3, <1>4, <2>1, EmptyList, Attempt
  <1> HIDE DEF t3
  <1>13. OnCourse(At4(t2, h, D, h, k, G), E, c)
    <2>1. OnCourse(At4(t3, Tabled(w2, h), Written(w2, D), h, k, G), E, c)
      BY <1>8, <1>12
    <2>2. QED
      BY <1>1, <1>3, <1>4, <1>9, <2>1, Attempt
  <1> HIDE DEF t2
  <1>14. OnCourse(At4(t1, T, D, h, k, G), E, c)
    <2>1. OnCourse(At4(t2, Tabled(w1, T), Written(w1, D), h, k, G), E, c)
      BY <1>8, <1>13
    <2>2. QED
      BY <1>1, <1>3, <1>5, <1>11, <2>1, Attempt
  <1>15. QED
    BY <1>10, <1>14 DEF G

(* An entry deleted where there was room for it. *)
LEMMA RoomBlanked ==
  ASSUME NEW D, NEW f, NEW R, NEW E, Volume(D, f, R, E), NEW d \in R,
         NEW g, NEW at, NEW S, NEW U, NEW D0, IsRoom(D, f, R, d, g, at, S, U, D0)
  PROVE  Volume(Put(D0, at, Deleted), g, R, E) /\ Volume(Put(D0, at, Deleted), f, R, E) /\ at \in AllPlaces
  <1> DEFINE V == Put(D0, at, Deleted)
  <1>1. Roomy(D, f, R, E, d, g, at, U, D0)
    BY RoomIs
  <1>2. /\ Volume(D0, f, R, E) /\ Volume(D0, g, R, E) /\ IsDisk(D0) /\ Shape(D0, g, R)
        /\ at \in Places(g, d) /\ At(D0, at).kind \in {"deleted", "end"} /\ Ahead(D0, g, d, at)
    BY <1>1 DEF Roomy, Volume, Stands, Vacant
  <1>3. Deleted \in Records /\ Deleted.kind = "deleted"
    BY KindsOf
  <1>4. Fits(D0, g, d, at, Deleted)
    BY <1>2, <1>3 DEF Fits, Fresh
  <1>5. Volume(V, g, R, (E \ Old(D0, g, d, at)) \cup New(d, Deleted))
    BY <1>2, <1>3, <1>4, PutVolume
  <1>6. Old(D0, g, d, at) = {} /\ New(d, Deleted) = {}
    BY <1>2, <1>3 DEF Old, New, Named
  <1>7. Volume(V, g, R, E)
    BY <1>5, <1>6
  <1>8. at \in AllPlaces
    BY <1>2, MemberIs, PlaceIs
  <1>9. CASE g = f
    BY <1>7, <1>8, <1>9
  <1>10. ASSUME NEW new \in Clusters, f[new] = FREE, at = <<new, 1>> PROVE Volume(V, f, R, E)
    <2> DEFINE b == [D0[new] EXCEPT ![1] = Deleted]
    <2>1. new \in Heads /\ Slots(new) = ClusterSlots
      BY HeadsAre
    <2>2. D0[new] \in [1 .. ClusterSlots -> Records]
      BY <1>2, <2>1 DEF IsDisk
    <2>3. b \in [1 .. ClusterSlots -> Records]
      BY <1>3, <2>2
    <2>4. V = Fill(D0, new, b)
      BY <1>10 DEF Put, Fill
    <2> HIDE DEF b, V
    <2>5. Volume(Fill(D0, new, b), f, R, E)
      BY <1>2, <1>10, <2>3, FillVolume
    <2>6. QED
      BY <2>4, <2>5
  <1>11. QED
    BY <1>7, <1>8, <1>9, <1>10 DEF IsRoom

BelowIn(D, R, c, d) == \E A : A \subseteq R /\ Upward(D, A) /\ d \in A /\ c \notin A

(* fat12_move_dirent: the volume once there is room for the entry. *)
MoveReady(D0, f, g, R, E, s, p, d, at, e, U) ==
  /\ Volume(D0, f, R, E) /\ Moving(D0, g, R, E, s, p, d, at, e)
  /\ Volume(Put(D0, at, Deleted), f, R, E) /\ Volume(Put(D0, at, Deleted), g, R, E) /\ at \in AllPlaces
  /\ Shrinks(U, f) /\ (U = <<>> => g = f)
  /\ e.kind = "dir" => Below(D0, e.start, d)

LEMMA MoveIsReady ==
  ASSUME NEW D, NEW f, NEW R, NEW E, Volume(D, f, R, E), NEW s \in R, NEW d \in R, s # d,
         NEW p \in Named(D, f, s), NEW g, NEW at, NEW S, NEW U, NEW D0, IsRoom(D, f, R, d, g, at, S, U, D0),
         NEW e \in Records, e.kind = At(D, p).kind, e.start = At(D, p).start, Unnamed(D, f, d, e.name),
         e.kind = "dir" => BelowIn(D, R, e.start, d)
  PROVE  MoveReady(D0, f, g, R, E, s, p, d, at, e, U)
  <1>1. Roomy(D, f, R, E, d, g, at, U, D0)
    BY RoomIs
  <1>2. Volume(Put(D0, at, Deleted), g, R, E) /\ Volume(Put(D0, at, Deleted), f, R, E) /\ at \in AllPlaces
    BY RoomBlanked
  <1>3. /\ Volume(D0, f, R, E) /\ Volume(D0, g, R, E) /\ Vacant(D0, g, d, at)
        /\ Shrinks(U, f) /\ (U = <<>> => g = f)
    BY <1>1 DEF Roomy
  <1>4. \A x \in R : /\ Named(D0, g, x) = Named(D, f, x)
                     /\ \A q \in Named(D, f, x) : At(D0, q) = At(D, q)
                     /\ x # Root => D0[x] = D[x]
    BY <1>1 DEF Roomy
  <1>5. Moving(D0, g, R, E, s, p, d, at, e)
    BY <1>3, <1>4 DEF Moving, Unnamed
  <1>6. ASSUME e.kind = "dir" PROVE Below(D0, e.start, d)
    <2>1. PICK A : A \subseteq R /\ Upward(D, A) /\ d \in A /\ e.start \notin A
      BY <1>6 DEF BelowIn
    <2>2. Upward(D0, A)
      BY <1>4, <2>1 DEF Upward
    <2>3. QED
      BY <2>1, <2>2 DEF Below
  <1>7. QED
    BY <1>2, <1>3, <1>5, <1>6 DEF MoveReady

(* What the call writes, with the dot-dot entry of the folder before and after. *)
MoveList(f, p, at, e, U, to, from) ==
  (Steps(to, "step", f, U) \o Steps(ToSlot(at, e), "step", f, from \o U))
  \o Steps(ToSlot(p, Deleted), "step", f, (ToSlot(at, Deleted) \o from) \o U)

LEMMA MoveLists ==
  ASSUME NEW f, NEW p, NEW at, NEW e, NEW U, IsSeq(U), NEW to, IsSeq(to), NEW from
  PROVE  LET A1 == Steps(to, "step", f, U)
             A2 == Steps(ToSlot(at, e), "step", f, from \o U)
             A3 == Steps(ToSlot(p, Deleted), "step", f, (ToSlot(at, Deleted) \o from) \o U)
         IN  /\ MoveList(f, p, at, e, U, to, from) = A1 \o (A2 \o (A3 \o <<>>))
             /\ IsSeq(A3 \o <<>>) /\ IsSeq(A2 \o (A3 \o <<>>)) /\ IsSeq(MoveList(f, p, at, e, U, to, from))
  <1> DEFINE A1 == Steps(to, "step", f, U)
             A2 == Steps(ToSlot(at, e), "step", f, from \o U)
             A3 == Steps(ToSlot(p, Deleted), "step", f, (ToSlot(at, Deleted) \o from) \o U)
  <1>1. IsSeq(A1)
    BY StepsList
  <1>2. IsSeq(A2)
    BY SlotSteps, EmptyList
  <1>3. IsSeq(A3)
    BY SlotSteps, EmptyList
  <1>4. MoveList(f, p, at, e, U, to, from) = (A1 \o A2) \o A3
    BY DEF MoveList
  <1> HIDE DEF A1, A2, A3
  <1>5. A3 \o <<>> = A3
    BY <1>3, ConcatEmpty
  <1>6. IsSeq(A2 \o A3)
    BY <1>2, <1>3, ListConcat
  <1>7. (A1 \o A2) \o A3 = A1 \o (A2 \o A3)
    BY <1>1, <1>2, <1>3, Associates, SMTT(30)
  <1> DEFINE B == A2 \o A3
  <1>8. IsSeq(B)
    BY <1>6
  <1> HIDE DEF B
  <1>9. IsSeq(A1 \o B)
    BY <1>1, <1>8, ListConcat
  <1>10. IsSeq(A1 \o (A2 \o A3))
    BY <1>9 DEF B
  <1>11. QED
    BY <1>3, <1>4, <1>5, <1>6, <1>7, <1>10 DEF A1, A2, A3

LEMMA MoveListIs ==
  ASSUME NEW f, NEW p, NEW at, NEW e, NEW U, NEW to, NEW from, IsSeq(U), IsSeq(to)
  PROVE  MoveList(f, p, at, e, U, to, from)
           = Steps(to, "step", f, U)
             \o (Steps(ToSlot(at, e), "step", f, from \o U)
                 \o (Steps(ToSlot(p, Deleted), "step", f, (ToSlot(at, Deleted) \o from) \o U) \o <<>>))
  <1> DEFINE A1 == Steps(to, "step", f, U)
             A2 == Steps(ToSlot(at, e), "step", f, from \o U)
             A3 == Steps(ToSlot(p, Deleted), "step", f, (ToSlot(at, Deleted) \o from) \o U)
  <1>1. IsSeq(A1)
    BY StepsList
  <1>2. IsSeq(A2)
    BY SlotSteps, EmptyList
  <1>3. IsSeq(A3)
    BY SlotSteps, EmptyList
  <1>4. MoveList(f, p, at, e, U, to, from) = (A1 \o A2) \o A3
    BY DEF MoveList
  <1> HIDE DEF A1, A2, A3
  <1>5. A3 \o <<>> = A3
    BY <1>3, ConcatEmpty
  <1>6. (A1 \o A2) \o A3 = A1 \o (A2 \o A3)
    BY <1>1, <1>2, <1>3, Associates, SMTT(30)
  <1>7. MoveList(f, p, at, e, U, to, from) = A1 \o (A2 \o (A3 \o <<>>))
    BY <1>4, <1>5, <1>6
  <1>8. QED
    BY <1>7 DEF A1, A2, A3

LEMMA FileMoveList ==
  ASSUME NEW f, NEW p, NEW at, NEW e, NEW U, IsSeq(U)
  PROVE  MoveList(f, p, at, e, U, <<>>, <<>>)
           = Steps(ToSlot(at, e), "step", f, <<>> \o U)
             \o (Steps(ToSlot(p, Deleted), "step", f, (ToSlot(at, Deleted) \o <<>>) \o U) \o <<>>)
  <1>1. ASSUME NEW n, IsSeq(n)
        PROVE  MoveList(f, p, at, e, U, n, n)
                 = Steps(n, "step", f, U)
                   \o (Steps(ToSlot(at, e), "step", f, n \o U)
                       \o (Steps(ToSlot(p, Deleted), "step", f, (ToSlot(at, Deleted) \o n) \o U) \o <<>>))
    BY <1>1, MoveListIs
  <1>2. IsSeq(<<>>) /\ Steps(<<>>, "step", f, U) = <<>>
    BY EmptyList, NoSteps
  <1> DEFINE A2 == Steps(ToSlot(at, e), "step", f, <<>> \o U)
             A3 == Steps(ToSlot(p, Deleted), "step", f, (ToSlot(at, Deleted) \o <<>>) \o U)
  <1>3. MoveList(f, p, at, e, U, <<>>, <<>>) = Steps(<<>>, "step", f, U) \o (A2 \o (A3 \o <<>>))
    BY <1>1, <1>2
  <1>4. IsSeq(A2) /\ IsSeq(A3)
    BY SlotSteps, EmptyList
  <1> HIDE DEF A2, A3
  <1>5. IsSeq(A2 \o (A3 \o <<>>))
    BY <1>4, EmptyList, ListConcat
  <1> DEFINE B == A2 \o (A3 \o <<>>)
  <1>6. <<>> \o B = B
    BY <1>5, EmptyConcat
  <1>7. MoveList(f, p, at, e, U, <<>>, <<>>) = B
    BY <1>2, <1>3, <1>6
  <1>8. QED
    BY <1>7 DEF A2, A3, B

LEMMA MoveFileCourse ==
  ASSUME NEW D0, NEW f, NEW g, NEW R, NEW E, NEW s, NEW p, NEW d, NEW at, NEW e, NEW U,
         MoveReady(D0, f, g, R, E, s, p, d, at, e, U), e.kind = "file",
         NEW v, NEW T0 \in Fats, NEW k, k => Covers(T0, g)
  PROVE  OnCourse(At4(MoveList(f, p, at, e, U, <<>>, <<>>), T0, D0, g, k,
                      (E \cup New(d, e)) \ {Rec(D0, s, p)}), E, v)
  <1> DEFINE D2 == Put(D0, at, e)
             D3 == Put(D2, p, Deleted)
             V  == Put(D0, at, Deleted)
             G  == (E \cup New(d, e)) \ {Rec(D0, s, p)}
             A2 == Steps(ToSlot(at, e), "step", f, <<>> \o U)
             A3 == Steps(ToSlot(p, Deleted), "step", f, (ToSlot(at, Deleted) \o <<>>) \o U)
  <1>1. /\ Volume(D0, f, R, E) /\ Moving(D0, g, R, E, s, p, d, at, e)
        /\ Volume(V, f, R, E) /\ Volume(V, g, R, E) /\ at \in AllPlaces
        /\ Shrinks(U, f) /\ (U = <<>> => g = f)
    BY DEF MoveReady
  <1>2. Volume(D0, g, R, E) /\ e \in Records /\ p # at
    BY <1>1, MovingFits DEF Moving
  <1>3. IsDisk(D0) /\ g \in Fats /\ f \in Fats
    BY <1>1, <1>2 DEF Volume
  <1>4. Volume(D2, g, R, E \cup New(d, e))
    BY <1>1, MoveFile
  <1>5. Volume(D3, g, R, G)
    BY <1>1, MoveFile
  <1>6. Deleted \in Records
    BY KindsOf
  <1>7. Put(D2, at, Deleted) = V
    <2>1. \E z \in AllPlaces : z # at
      <3>1. <<Root, 1>> \in AllPlaces
        BY HeadsAre DEF AllPlaces
      <3>2. p \in AllPlaces
        <4>1. s \in R /\ p \in Named(D0, g, s) /\ Shape(D0, g, R)
          BY <1>1 DEF Moving, Volume, Stands
        <4>2. s \in Heads
          BY <1>3, <4>1, MemberIs
        <4>3. QED
          BY <1>3, <4>1, <4>2, NamedIs
      <3>3. QED
        BY <1>2, <3>2
    <2>2. PICK z \in AllPlaces : z # at
      BY <2>1
    <2>3. QED
      BY <1>1, <1>2, <1>3, <1>6, <2>2, WrittenAndDeleted
  <1>8. IsDisk(D2) /\ Stands(D2, g, R) /\ Within(E, v, R)
    BY <1>2, <1>4, VolumeWithin DEF Volume
  <1> HIDE DEF D3, G
  <1>9. OnCourse(At4(<<>>, T0, D3, g, k, G), E, v)
    BY <1>5, <1>8, Rests
  <1>10. k => CutSafe(D0, T0, E, v) /\ CutSafe(V, T0, E, v)
    BY <1>1, <1>2, VolumeCut
  <1>11. k => CutSafe(D2, T0, E, v)
    BY <1>8, Cut
  <1>12. k /\ U = <<>> => Covers(T0, f)
    BY <1>1
  <1>13. IsSeq(U)
    BY <1>1, ShrinkList
  <1> HIDE DEF V
  <1>14. Backs(U, T0, V, f, k, E, v)
    BY <1>1, <1>10, <1>12, ShrinkBack
  <1>15. Backs(ToSlot(at, Deleted) \o U, T0, D2, f, k, E, v)
    <2>1. Backs(U, T0, Put(D2, at, Deleted), f, k, E, v)
      BY <1>7, <1>14
    <2> HIDE DEF D2
    <2>2. QED
      BY <1>3, <1>8, <1>11, <1>13, <2>1, SlotBack
  <1>16. Backs(<<>> \o U, T0, D0, f, k, E, v)
    <2>1. Backs(U, T0, D0, f, k, E, v)
      BY <1>1, <1>10, <1>12, ShrinkBack
    <2>2. QED
      BY <1>13, <2>1, EmptyConcat
  <1>17. ToSlot(at, Deleted) \o <<>> = ToSlot(at, Deleted)
    BY ListsAre, EmptyList, ConsList, ConcatEmpty
  <1>18. Backs((ToSlot(at, Deleted) \o <<>>) \o U, T0, D2, f, k, E, v)
    BY <1>15, <1>17
  <1> HIDE DEF D2
  <1>19. OnCourse(At4(A3 \o <<>>, T0, D2, g, k, G), E, v)
    BY <1>3, <1>8, <1>9, <1>11, <1>18, EmptyList, TrySlot DEF D3
  <1>20. IsSeq(<<>>) /\ Steps(<<>>, "step", f, U) = <<>>
    BY EmptyList, NoSteps
  <1>21. IsSeq(A3 \o <<>>) /\ IsSeq(A2 \o (A3 \o <<>>))
    BY <1>13, <1>20, MoveLists
  <1> DEFINE B == A3 \o <<>>
  <1>23. OnCourse(At4(B, T0, D2, g, k, G), E, v) /\ IsSeq(B)
    BY <1>19, <1>21
  <1> HIDE DEF B
  <1>24. OnCourse(At4(A2 \o B, T0, D0, g, k, G), E, v)
    BY <1>3, <1>10, <1>16, <1>23, TrySlot DEF D2
  <1>26. MoveList(f, p, at, e, U, <<>>, <<>>) = A2 \o B
    BY <1>13, FileMoveList DEF A2, A3, B
  <1>27. QED
    BY <1>24, <1>26 DEF G

(* A folder on its way: turned, written, deleted where it was; and taken back. *)
FolderMoves(D0, at, p, d, e, D1, D2, D3, V, W) ==
  /\ D1 = Put(D0, <<e.start, 2>>, DotDot(d)) /\ D2 = Put(D1, at, e) /\ D3 = Put(D2, p, Deleted)
  /\ V = Put(D0, at, Deleted) /\ W = Put(V, <<e.start, 2>>, DotDot(d))

FolderMoved(D0, f, g, R, E, s, p, d, at, e, D1, D2, D3, V, W) ==
  /\ Volume(D0, f, R, E) /\ Volume(D0, g, R, E) /\ Volume(V, f, R, E) /\ Volume(V, g, R, E)
  /\ Volume(D3, g, R, (E \cup New(d, e)) \ {Rec(D0, s, p)})
  /\ IsDisk(D1) /\ Stands(D1, g, R) /\ IsDisk(D2) /\ Stands(D2, g, R) /\ IsDisk(W) /\ Stands(W, g, R)
  /\ Put(D1, <<e.start, 2>>, DotDot(s)) = D0
  /\ Put(D2, at, Deleted) = W
  /\ Put(W, <<e.start, 2>>, DotDot(s)) = V

LEMMA MovedAndBack ==
  ASSUME NEW D0, NEW f, NEW g, NEW R, NEW E, NEW s, NEW p, NEW d, NEW at, NEW e, NEW U,
         MoveReady(D0, f, g, R, E, s, p, d, at, e, U), e.kind = "dir",
         NEW D1, NEW D2, NEW D3, NEW V, NEW W, FolderMoves(D0, at, p, d, e, D1, D2, D3, V, W)
  PROVE  FolderMoved(D0, f, g, R, E, s, p, d, at, e, D1, D2, D3, V, W)
  <1> DEFINE c == e.start
             z == <<c, 2>>
  <1>1. /\ Volume(D0, f, R, E) /\ Moving(D0, g, R, E, s, p, d, at, e)
        /\ Volume(V, f, R, E) /\ Volume(V, g, R, E) /\ at \in AllPlaces
        /\ Below(D0, c, d)
    BY DEF MoveReady, FolderMoves
  <1>2. Volume(D0, g, R, E) /\ e \in Records /\ s \in R /\ d \in R
    BY <1>1 DEF Moving
  <1>3. MovesFolder(D0, g, R, E, s, p, d, at, e, D1)
    BY <1>1 DEF MovesFolder, FolderMoves
  <1>4. TurnedFirst(D0, g, R, s, p, d, at, e, D1)
    BY <1>3, TurnFirst
  <1>5. WrittenNext(g, R, s, p, d, at, e, D1, D2)
    BY <1>3, WriteNext DEF FolderMoves
  <1>6. DeletedLast(g, R, D2, s, p, D3)
    BY <1>2, <1>5, DeleteLast DEF FolderMoves
  <1>7. MovedFolder(D0, g, R, E, s, p, d, at, e, D1, D2, D3)
    BY <1>1, <1>3, <1>4, <1>5, <1>6 DEF MovedFolder
  <1>8. Volume(D3, g, R, (E \cup New(d, e)) \ {Rec(D0, s, p)})
    BY <1>7, MoveFolder
  <1>9. /\ IsDisk(D1) /\ Stands(D1, g, R) /\ c \in R /\ c # Root /\ s \in Heads /\ d \in Heads
        /\ D0[c][2] = DotDot(s) /\ at # z /\ Redotted(D0, D1, g, R, c, d)
    BY <1>4 DEF TurnedFirst
  <1>10. IsDisk(D2) /\ Stands(D2, g, R)
    BY <1>5 DEF WrittenNext
  <1>11. Put(D1, z, DotDot(s)) = D0
    BY <1>2, <1>9, TurnedBack DEF FolderMoves
  <1>12. z \in AllPlaces
    BY <1>9 DEF Redotted
  <1>13. Deleted \in Records /\ DotDot(d) \in Records
    BY <1>9, KindsOf
  <1>14. IsDisk(D0)
    BY <1>2 DEF Volume
  <1>15. Put(D2, at, Deleted) = W
    BY <1>1, <1>2, <1>9, <1>12, <1>13, <1>14, WrittenAndDeleted DEF FolderMoves
  <1>16. Redotted(V, W, g, R, c, d) /\ Stands(W, g, R)
    BY <1>1, <1>9, Turned DEF FolderMoves
  <1>17. IsDisk(W)
    BY <1>16 DEF Redotted
  <1>18. V[c][2] = DotDot(s)
    <2>1. At(V, z) = At(D0, z)
      BY <1>1, <1>9, <1>12, <1>13, <1>14, PutIs DEF FolderMoves
    <2>2. QED
      BY <1>9, <2>1 DEF At
  <1>19. Put(W, z, DotDot(s)) = V
    BY <1>1, <1>9, <1>18, TurnedBack DEF FolderMoves
  <1>20. QED
    BY <1>1, <1>2, <1>8, <1>9, <1>10, <1>11, <1>15, <1>16, <1>17, <1>19 DEF FolderMoved

(* Slots taken back before U. *)
LEMMA SlotsBack ==
  ASSUME NEW a, NEW x, NEW z, NEW y, NEW U, IsSeq(U)
  PROVE  /\ (ToSlot(a, x) \o ToSlot(z, y)) \o U = ToSlot(a, x) \o (ToSlot(z, y) \o U)
         /\ IsSeq(ToSlot(z, y)) /\ IsSeq(ToSlot(z, y) \o U)
  <1>1. ToSlot(a, x) = Cons(InSlot(a, x), <<>>) /\ ToSlot(z, y) = Cons(InSlot(z, y), <<>>)
    BY ListsAre
  <1>2. IsSeq(ToSlot(a, x)) /\ IsSeq(ToSlot(z, y))
    BY <1>1, EmptyList, ConsList
  <1>3. IsSeq(ToSlot(z, y) \o U)
    BY <1>2, ListConcat
  <1>4. QED
    BY <1>2, <1>3, Associates, SMTT(30)

LEMMA FolderBacks ==
  ASSUME NEW D0, NEW f, NEW g, NEW R, NEW E, NEW s, NEW p, NEW d, NEW at, NEW e,
         NEW D1, NEW D2, NEW D3, NEW V, NEW W,
         FolderMoved(D0, f, g, R, E, s, p, d, at, e, D1, D2, D3, V, W),
         NEW U, Shrinks(U, f), U = <<>> => g = f,
         NEW v, NEW T0 \in Fats, NEW k, k => Covers(T0, g)
  PROVE  /\ Backs(U, T0, D0, f, k, E, v)
         /\ Backs(ToSlot(<<e.start, 2>>, DotDot(s)) \o U, T0, D1, f, k, E, v)
         /\ Backs((ToSlot(at, Deleted) \o ToSlot(<<e.start, 2>>, DotDot(s))) \o U, T0, D2, f, k, E, v)
         /\ k => CutSafe(D0, T0, E, v) /\ CutSafe(D1, T0, E, v) /\ CutSafe(D2, T0, E, v)
  <1> DEFINE z == <<e.start, 2>>
  <1>1. /\ Volume(D0, f, R, E) /\ Volume(D0, g, R, E) /\ Volume(V, f, R, E) /\ Volume(V, g, R, E)
        /\ IsDisk(D1) /\ Stands(D1, g, R) /\ IsDisk(D2) /\ Stands(D2, g, R) /\ IsDisk(W) /\ Stands(W, g, R)
        /\ Put(D1, z, DotDot(s)) = D0 /\ Put(D2, at, Deleted) = W /\ Put(W, z, DotDot(s)) = V
    BY DEF FolderMoved
  <1>2. f \in Fats /\ Within(E, v, R)
    BY <1>1, VolumeWithin DEF Volume
  <1>3. k => CutSafe(D0, T0, E, v) /\ CutSafe(V, T0, E, v)
    BY <1>1, VolumeCut
  <1>4. k => CutSafe(D1, T0, E, v)
    BY <1>1, <1>2, Cut
  <1>5. k => CutSafe(D2, T0, E, v)
    BY <1>1, <1>2, Cut
  <1>6. k => CutSafe(W, T0, E, v)
    BY <1>1, <1>2, Cut
  <1>7. k /\ U = <<>> => Covers(T0, f)
    OBVIOUS
  <1>8. IsSeq(U)
    BY ShrinkList
  <1>9. Backs(U, T0, D0, f, k, E, v)
    BY <1>1, <1>3, <1>7, ShrinkBack
  <1>10. Backs(U, T0, V, f, k, E, v)
    BY <1>1, <1>3, <1>7, ShrinkBack
  <1> HIDE DEF z
  <1>11. Backs(ToSlot(z, DotDot(s)) \o U, T0, D1, f, k, E, v)
    BY <1>1, <1>2, <1>4, <1>8, <1>9, SlotBack
  <1>12. Backs(ToSlot(z, DotDot(s)) \o U, T0, W, f, k, E, v)
    BY <1>1, <1>2, <1>6, <1>8, <1>10, SlotBack
  <1> DEFINE Y == ToSlot(z, DotDot(s)) \o U
  <1>13. IsSeq(Y)
    BY <1>8, SlotsBack
  <1>14. Backs(Y, T0, Put(D2, at, Deleted), f, k, E, v)
    BY <1>1, <1>12
  <1> HIDE DEF Y
  <1>15. Backs(ToSlot(at, Deleted) \o Y, T0, D2, f, k, E, v)
    BY <1>1, <1>2, <1>5, <1>13, <1>14, SlotBack
  <1> DEFINE X == (ToSlot(at, Deleted) \o ToSlot(z, DotDot(s))) \o U
  <1>18. X = ToSlot(at, Deleted) \o (ToSlot(z, DotDot(s)) \o U)
    BY <1>8, SlotsBack
  <1>19. X = ToSlot(at, Deleted) \o Y
    BY <1>18 DEF Y
  <1> HIDE DEF X
  <1>16. Backs((ToSlot(at, Deleted) \o ToSlot(z, DotDot(s))) \o U, T0, D2, f, k, E, v)
    BY <1>15, <1>19 DEF X
  <1>17. QED
    BY <1>3, <1>4, <1>5, <1>9, <1>11, <1>16 DEF z

LEMMA MoveFolderCourse ==
  ASSUME NEW D0, NEW f, NEW g, NEW R, NEW E, NEW s, NEW p, NEW d, NEW at, NEW e, NEW U,
         MoveReady(D0, f, g, R, E, s, p, d, at, e, U), e.kind = "dir",
         NEW v, NEW T0 \in Fats, NEW k, k => Covers(T0, g)
  PROVE  OnCourse(At4(MoveList(f, p, at, e, U, ToSlot(<<e.start, 2>>, DotDot(d)), ToSlot(<<e.start, 2>>, DotDot(s))),
                      T0, D0, g, k, (E \cup New(d, e)) \ {Rec(D0, s, p)}), E, v)
  <1> DEFINE z  == <<e.start, 2>>
             to == ToSlot(z, DotDot(d))
             from == ToSlot(z, DotDot(s))
             D1 == Put(D0, z, DotDot(d))
             D2 == Put(D1, at, e)
             D3 == Put(D2, p, Deleted)
             V  == Put(D0, at, Deleted)
             W  == Put(V, z, DotDot(d))
             G  == (E \cup New(d, e)) \ {Rec(D0, s, p)}
             A1 == Steps(to, "step", f, U)
             A2 == Steps(ToSlot(at, e), "step", f, from \o U)
             A3 == Steps(ToSlot(p, Deleted), "step", f, (ToSlot(at, Deleted) \o from) \o U)
  <1>1. Shrinks(U, f) /\ (U = <<>> => g = f)
    BY DEF MoveReady
  <1>2. FolderMoves(D0, at, p, d, e, D1, D2, D3, V, W)
    BY DEF FolderMoves
  <1>3. D1 = Put(D0, z, DotDot(d)) /\ D2 = Put(D1, at, e) /\ D3 = Put(D2, p, Deleted)
    OBVIOUS
  <1> HIDE DEF D1, D2, D3, V, W
  <1>4. FolderMoved(D0, f, g, R, E, s, p, d, at, e, D1, D2, D3, V, W)
    BY <1>2, MovedAndBack
  <1>5. /\ Backs(U, T0, D0, f, k, E, v)
        /\ Backs(from \o U, T0, D1, f, k, E, v)
        /\ Backs((ToSlot(at, Deleted) \o from) \o U, T0, D2, f, k, E, v)
        /\ k => CutSafe(D0, T0, E, v) /\ CutSafe(D1, T0, E, v) /\ CutSafe(D2, T0, E, v)
    BY <1>1, <1>4, FolderBacks
  <1>6. /\ Volume(D0, g, R, E) /\ Volume(D3, g, R, G)
        /\ IsDisk(D1) /\ IsDisk(D2)
    BY <1>4 DEF FolderMoved
  <1>7. IsDisk(D0) /\ g \in Fats /\ Within(E, v, R)
    BY <1>6, VolumeWithin DEF Volume
  <1> HIDE DEF G
  <1>8. OnCourse(At4(<<>>, T0, D3, g, k, G), E, v)
    BY <1>6, <1>7, Rests
  <1>9. IsSeq(U)
    BY <1>1, ShrinkList
  <1>10. IsSeq(to) /\ IsSeq(<<>>)
    BY <1>9, SlotsBack, EmptyList
  <1>11. IsSeq(A3 \o <<>>)
    BY <1>9, <1>10, MoveLists
  <1>12. IsSeq(A2 \o (A3 \o <<>>))
    BY <1>9, <1>10, MoveLists
  <1>13. MoveList(f, p, at, e, U, to, from) = A1 \o (A2 \o (A3 \o <<>>))
    <2>1. ASSUME NEW x, IsSeq(x), NEW y
          PROVE  MoveList(f, p, at, e, U, x, y)
                   = Steps(x, "step", f, U)
                     \o (Steps(ToSlot(at, e), "step", f, y \o U)
                         \o (Steps(ToSlot(p, Deleted), "step", f, (ToSlot(at, Deleted) \o y) \o U) \o <<>>))
      BY <1>9, <2>1, MoveListIs
    <2> HIDE DEF to, from
    <2>2. QED
      BY <1>10, <2>1
  <1> DEFINE U3 == (ToSlot(at, Deleted) \o from) \o U
             U2 == from \o U
  <1>14. Backs(U3, T0, D2, f, k, E, v) /\ Backs(U2, T0, D1, f, k, E, v)
    BY <1>5
  <1>15. A3 = Steps(ToSlot(p, Deleted), "step", f, U3) /\ A2 = Steps(ToSlot(at, e), "step", f, U2)
    OBVIOUS
  <1>16. A1 = Steps(ToSlot(z, DotDot(d)), "step", f, U)
    OBVIOUS
  <1> HIDE DEF U3, U2, A1, A2, A3, to, from, z
  <1>17. OnCourse(At4(A3 \o <<>>, T0, D2, g, k, G), E, v)
    BY <1>3, <1>5, <1>6, <1>7, <1>8, <1>10, <1>14, <1>15, TrySlot
  <1> DEFINE B == A3 \o <<>>
  <1>18. OnCourse(At4(B, T0, D2, g, k, G), E, v) /\ IsSeq(B)
    BY <1>11, <1>17
  <1>19. IsSeq(A2 \o B) /\ MoveList(f, p, at, e, U, to, from) = A1 \o (A2 \o B)
    BY <1>12, <1>13
  <1> HIDE DEF B
  <1>20. OnCourse(At4(A2 \o B, T0, D1, g, k, G), E, v)
    BY <1>3, <1>5, <1>6, <1>7, <1>14, <1>15, <1>18, TrySlot
  <1> DEFINE C == A2 \o B
  <1>21. OnCourse(At4(C, T0, D1, g, k, G), E, v) /\ IsSeq(C) /\ MoveList(f, p, at, e, U, to, from) = A1 \o C
    BY <1>19, <1>20
  <1> HIDE DEF C
  <1>22. OnCourse(At4(A1 \o C, T0, D0, g, k, G), E, v)
    BY <1>3, <1>5, <1>6, <1>7, <1>16, <1>21, TrySlot
  <1>23. QED
    BY <1>21, <1>22 DEF G, to, from, z

(* fat12_move_dirent. *)
LEMMA MoveCourse ==
  ASSUME NEW D, NEW f, NEW R, NEW E, NEW T, NEW k, Resting(D, f, R, E, T, k),
         NEW s \in R, NEW d \in R, s # d, NEW p \in Named(D, f, s),
         NEW g, NEW at, NEW S, NEW U, NEW D0, IsRoom(D, f, R, d, g, at, S, U, D0),
         NEW e \in Records, e.kind = At(D, p).kind, e.start = At(D, p).start, Unnamed(D, f, d, e.name),
         e.kind = "dir" => BelowIn(D, R, e.start, d),
         NEW to, NEW from,
         e.kind = "file" => to = <<>> /\ from = <<>>,
         e.kind = "dir" => to = ToSlot(<<e.start, 2>>, DotDot(d)) /\ from = ToSlot(<<e.start, 2>>, DotDot(s)),
         NEW v
  PROVE  OnCourse(At4(S \o MoveList(f, p, at, e, U, to, from), T, D, g, k, (E \cup New(d, e)) \ {Rec(D, s, p)}), E, v)
  <1> DEFINE G == (E \cup New(d, e)) \ {Rec(D, s, p)}
             B == MoveList(f, p, at, e, U, to, from)
  <1>1. Volume(D, f, R, E) /\ T \in Fats /\ (k => Covers(T, f))
    BY DEF Resting
  <1>2. MoveReady(D0, f, g, R, E, s, p, d, at, e, U)
    BY <1>1, MoveIsReady
  <1>3. Roomy(D, f, R, E, d, g, at, U, D0)
    BY <1>1, RoomIs
  <1>4. Rec(D0, s, p) = Rec(D, s, p)
    BY <1>3 DEF Roomy, Rec
  <1>5. G = (E \cup New(d, e)) \ {Rec(D0, s, p)}
    BY <1>4
  <1>6. Volume(D0, g, R, E) /\ Shrinks(U, f)
    BY <1>3 DEF Roomy
  <1>7. g \in Fats /\ IsSeq(U)
    BY <1>6, ShrinkList DEF Volume
  <1>8. At(D, p).kind \in {"file", "dir"}
    BY DEF Named
  <1> HIDE DEF G
  <1>9. IsSeq(<<>>)
    BY EmptyList
  <1>10. CASE e.kind = "file"
    <2> DEFINE B0 == MoveList(f, p, at, e, U, <<>>, <<>>)
    <2>1. B = B0
      BY <1>10
    <2>2. IsSeq(B0)
      BY <1>7, <1>9, MoveLists
    <2>3. \A T0 \in Fats : (k => Covers(T0, g)) => OnCourse(At4(B0, T0, D0, g, k, G), E, v)
      BY <1>2, <1>5, <1>10, MoveFileCourse
    <2> HIDE DEF B0, B
    <2>4. OnCourse(At4(S \o B0, T, D, g, k, G), E, v)
      BY <1>1, <1>7, <2>2, <2>3, RoomCourse
    <2>5. QED
      BY <2>1, <2>4 DEF G, B
  <1>11. CASE e.kind = "dir"
    <2> DEFINE B0 == MoveList(f, p, at, e, U, ToSlot(<<e.start, 2>>, DotDot(d)), ToSlot(<<e.start, 2>>, DotDot(s)))
    <2>1. B = B0
      BY <1>11
    <2>2. IsSeq(ToSlot(<<e.start, 2>>, DotDot(d)))
      BY <1>7, SlotsBack
    <2>3. IsSeq(B0)
      BY <1>7, <2>2, MoveLists
    <2>4. \A T0 \in Fats : (k => Covers(T0, g)) => OnCourse(At4(B0, T0, D0, g, k, G), E, v)
      BY <1>2, <1>5, <1>11, MoveFolderCourse
    <2> HIDE DEF B0, B
    <2>5. OnCourse(At4(S \o B0, T, D, g, k, G), E, v)
      BY <1>1, <1>7, <2>3, <2>4, RoomCourse
    <2>6. QED
      BY <2>1, <2>5 DEF G, B
  <1>12. QED
    BY <1>8, <1>10, <1>11

-----------------------------------------------------------------------------
(* The state: room for an entry, names, directories known by their number.   *)

LEMMA FreeAfterIs ==
  ASSUME NEW f, NEW c, FreeClusters(f) # {}
  PROVE  FreeAfter(f, c) \in Clusters /\ f[FreeAfter(f, c)] = FREE
  <1> DEFINE behind == {x \in FreeClusters(f) : x > c}
             from   == IF behind = {} THEN FreeClusters(f) ELSE behind
  <1>1. from \in SUBSET Nat /\ from # {} /\ from \subseteq FreeClusters(f)
    BY Numbers DEF FreeClusters
  <1>2. \E x \in from : \A y \in from : x <= y
    BY <1>1, NatMin
  <1>3. FreeAfter(f, c) = CHOOSE x \in from : \A y \in from : x <= y
    BY DEF FreeAfter
  <1> HIDE DEF from
  <1>4. FreeAfter(f, c) \in from
    BY <1>2, <1>3
  <1>5. QED
    BY <1>1, <1>4 DEF FreeClusters

LEMMA FreePlaceIs ==
  ASSUME NEW R, NEW E, Volume(disk, fat, R, E), NEW d \in R, FreePlaces(d) # {},
         NEW at, at = CHOOSE p \in FreePlaces(d) : \A q \in FreePlaces(d) : ~Precedes(fat, q, p)
  PROVE  Vacant(disk, fat, d, at)
  <1>1. IsDisk(disk) /\ Shape(disk, fat, R)
    BY DEF Volume, Stands
  <1>2. d \in Heads /\ (d # Root => Proper(fat, d))
    BY <1>1, MemberIs
  <1>3. FreePlaces(d) \in SUBSET Places(fat, d)
    BY DEF FreePlaces
  <1>4. \E p \in FreePlaces(d) : \A q \in FreePlaces(d) : ~Precedes(fat, q, p)
    BY <1>2, <1>3, FirstPlace
  <1>5. at \in FreePlaces(d) /\ \A q \in FreePlaces(d) : ~Precedes(fat, q, at)
    BY <1>4
  <1>6. Ahead(disk, fat, d, at)
    BY <1>5 DEF Ahead, FreePlaces
  <1>7. QED
    BY <1>5, <1>6 DEF Vacant, FreePlaces

LEMMA RoomMade ==
  ASSUME NEW R, NEW E, Volume(disk, fat, R, E), NEW d \in R, HasRoom(d)
  PROVE  \E D0 : IsRoom(disk, fat, R, d, Room(d).fat, Room(d).at, Room(d).steps, Shrink(Room(d)), D0)
  <1>1. CASE FreePlaces(d) # {}
    <2> DEFINE at == CHOOSE p \in FreePlaces(d) : \A q \in FreePlaces(d) : ~Precedes(fat, q, p)
    <2>1. Room(d) = [grew |-> FALSE, fat |-> fat, steps |-> <<>>, at |-> at]
      BY <1>1 DEF Room
    <2>2. Vacant(disk, fat, d, at)
      BY <1>1, FreePlaceIs
    <2> HIDE DEF at
    <2>3. /\ Room(d).fat = fat /\ Room(d).at = at /\ Room(d).steps = <<>> /\ Shrink(Room(d)) = <<>>
      BY <2>1 DEF Shrink
    <2>4. IsRoom(disk, fat, R, d, Room(d).fat, Room(d).at, Room(d).steps, Shrink(Room(d)), disk)
      BY <2>2, <2>3 DEF IsRoom
    <2>5. QED
      BY <2>4
  <1>2. CASE FreePlaces(d) = {}
    <2> DEFINE tail  == LastOf(fat, d)
               new   == FreeAfter(fat, tail)
               grown == [fat EXCEPT ![new] = EOC, ![tail] = new]
               S     == Steps(ToSector(new, Blank(ClusterSlots)), "step", fat, ToFat(fat))
                        \o Steps(ToFat(grown), "behind", grown, <<>>)
               D0    == Fill(disk, new, Blank(ClusterSlots))
    <2>1. Room(d) = [grew |-> TRUE, at |-> <<new, 1>>, fat |-> grown, steps |-> S]
      BY <1>2 DEF Room
    <2>2. d # Root /\ FreeClusters(fat) # {}
      BY <1>2 DEF HasRoom
    <2>3. new \in Clusters /\ fat[new] = FREE
      BY <2>2, FreeAfterIs
    <2>4. Full(disk, fat, d)
      BY <1>2 DEF Full, FreePlaces
    <2>5. Grows(fat, d, new, grown)
      BY DEF Grows, Grown
    <2> DEFINE W == Steps(ToSector(new, Blank(ClusterSlots)), "step", fat, ToFat(fat))
                    \o Steps(ToFat(Room(d).fat), "behind", Room(d).fat, <<>>)
    <2> HIDE DEF S, grown
    <2>6. /\ Room(d).fat = grown /\ Room(d).at = <<new, 1>> /\ Room(d).steps = S
          /\ Shrink(Room(d)) = ToFat(fat)
      BY <2>1 DEF Shrink
    <2>7. S = W
      BY <2>6 DEF S
    <2> HIDE DEF new, D0
    <2>8. IsRoom(disk, fat, R, d, Room(d).fat, Room(d).at, Room(d).steps, Shrink(Room(d)), D0)
      BY <2>2, <2>3, <2>4, <2>5, <2>6, <2>7 DEF IsRoom, D0, W
    <2>9. QED
      BY <2>8
  <1>3. QED
    BY <1>1, <1>2

LEMMA LiveDirIs ==
  ASSUME NEW R, NEW E, Volume(disk, fat, R, E), NEW d \in Heads, LiveDir(d)
  PROVE  d \in R
  BY GuardIs DEF LiveDir, Volume

LEMMA MatchesAre ==
  ASSUME NEW R, NEW E, Volume(disk, fat, R, E), NEW d \in R, NEW n
  PROVE  /\ Matches(d, n) = {p \in Named(disk, fat, d) : At(disk, p).name = n}
         /\ Matches(d, n) = {} => Unnamed(disk, fat, d, n)
         /\ Live(disk, fat, d) = Named(disk, fat, d)
  <1>1. IsDisk(disk) /\ Shape(disk, fat, R)
    BY DEF Volume, Stands
  <1>2. EndsLast(disk, fat, d)
    BY <1>1, MemberIs
  <1>3. Live(disk, fat, d) = Named(disk, fat, d)
    BY <1>2, LiveIs
  <1>4. QED
    BY <1>3 DEF Matches, Unnamed

-----------------------------------------------------------------------------
(* The directories above another.                                            *)

Climbed(D, d, u) == u = [i \in 0 .. NumClusters |->
                           IF i = 0 THEN d ELSE IF u[i - 1] = Root THEN Root ELSE D[u[i - 1]][2].start]

(* u goes from d up, within R. *)
Climbs(D, d, R, u) ==
  /\ u[0] = d
  /\ \A i \in 0 .. NumClusters : u[i] \in R
  /\ \A i \in 1 .. NumClusters : u[i] = IF u[i - 1] = Root THEN Root ELSE D[u[i - 1]][2].start

LEMMA AncestorsClimb ==
  ASSUME NEW R, Root \in R, NEW d \in R, \A x \in R : x # Root => disk[x][2].start \in R
  PROVE  \E u : Climbs(disk, d, R, u) /\ Ancestors(d) = {u[i] : i \in 0 .. NumClusters}
  <1> DEFINE h == [x \in R |-> IF x = Root THEN Root ELSE disk[x][2].start]
  <1>1. h \in [R -> R] /\ \A x \in R : h[x] = IF x = Root THEN Root ELSE disk[x][2].start
    OBVIOUS
  <1> HIDE DEF h
  <1>2. PICK g \in [0 .. NumClusters -> R] :
          g[0] = d /\ \A i \in 1 .. NumClusters : g[i] = h[g[i - 1]]
    <2>1. \E g : Iterated(NumClusters, R, d, h, g)
      BY <1>1, Numbers, Iterate
    <2>2. QED
      BY <2>1 DEF Iterated
  <1>3. \A i \in 0 .. NumClusters : (i = 0 \/ i \in 1 .. NumClusters)
    BY Numbers
  <1>4. 0 \in 0 .. NumClusters /\ \A i \in 1 .. NumClusters : i \in 0 .. NumClusters /\ i # 0 /\ i - 1 \in 0 .. NumClusters
    BY Numbers
  <1>5. ASSUME NEW i \in 0 .. NumClusters
        PROVE  g[i] = IF i = 0 THEN d ELSE IF g[i - 1] = Root THEN Root ELSE disk[g[i - 1]][2].start
    <2>1. CASE i = 0
      BY <1>2, <2>1
    <2>2. CASE i \in 1 .. NumClusters
      <3>1. g[i] = h[g[i - 1]] /\ g[i - 1] \in R /\ i # 0
        BY <1>2, <1>4, <2>2
      <3>2. QED
        BY <1>1, <3>1
    <2>3. QED
      BY <1>3, <2>1, <2>2
  <1>6. g = [i \in 0 .. NumClusters |-> g[i]]
    BY <1>2
  <1>7. Climbed(disk, d, g)
    BY <1>5, <1>6 DEF Climbed
  <1> DEFINE u == CHOOSE x : Climbed(disk, d, x)
  <1>8. Climbed(disk, d, u)
    BY <1>7
  <1>9. Ancestors(d) = {u[i] : i \in 0 .. NumClusters}
    BY Zenon DEF Ancestors, Climbed
  <1> HIDE DEF u
  <1>10. \A i \in 0 .. NumClusters : u[i] = IF i = 0 THEN d ELSE IF u[i - 1] = Root THEN Root ELSE disk[u[i - 1]][2].start
    BY <1>8 DEF Climbed
  <1>11. u[0] = d /\ \A i \in 1 .. NumClusters : u[i] = IF u[i - 1] = Root THEN Root ELSE disk[u[i - 1]][2].start
    BY <1>4, <1>10
  <1>12. \A i \in 0 .. NumClusters : u[i] \in R
    <2> DEFINE T == {i \in 0 .. NumClusters : u[i] \in R}
    <2>1. 0 \in T
      BY <1>4, <1>11
    <2>2. ASSUME NEW i \in 0 .. NumClusters - 1, i \in T PROVE i + 1 \in T
      <3>1. i + 1 \in 1 .. NumClusters /\ i + 1 \in 0 .. NumClusters /\ (i + 1) - 1 = i
        BY Numbers
      <3>2. u[i + 1] = IF u[i] = Root THEN Root ELSE disk[u[i]][2].start
        BY <1>11, <3>1
      <3>3. QED
        BY <2>2, <3>1, <3>2
    <2> HIDE DEF T
    <2>3. \A i \in 0 .. NumClusters : i \in T
      BY <2>1, <2>2, UpTo, Numbers
    <2>4. QED
      BY <2>3 DEF T
  <1>13. QED
    BY <1>9, <1>11, <1>12 DEF Climbs

(* Parents of a sound volume. *)
LEMMA ParentOf ==
  ASSUME NEW D, NEW f, NEW R, NEW E, Volume(D, f, R, E)
  PROVE  /\ Root \in R /\ \A x \in R : x # Root => D[x][2].start \in R
         /\ \A g \in R : \A k \in Kids(D, f, g) : k \in R /\ k # Root /\ D[k][2].start = g
  <1>1. IsDisk(D) /\ Stands(D, f, R) /\ Linked(D, f, R) /\ Shape(D, f, R) /\ Root \in R
    BY DEF Volume, Stands, Shape
  <1>2. \A x \in R : x # Root => D[x][2].start \in R
    BY <1>1, ParentIs
  <1>3. ASSUME NEW g \in R, NEW k \in Kids(D, f, g) PROVE k \in R /\ k # Root /\ D[k][2].start = g
    <2>1. g \in Heads /\ EndsLast(D, f, g)
      BY <1>1, MemberIs
    <2>2. PICK p \in Named(D, f, g) : At(D, p).kind = "dir" /\ At(D, p).start = k
      BY <1>1, <2>1, KidsAre
    <2>3. k \in R /\ k # Root
      BY <1>1, <2>2, KidIs
    <2>4. D[k][2] = DotDot(g)
      BY <1>1, <2>2 DEF Linked
    <2>5. QED
      BY <2>1, <2>3, <2>4, KindsOf
  <1>4. QED
    BY <1>1, <1>2, <1>3

(* A walk from the root meets a folder later than its parent. *)
LEMMA StagesClimb ==
  ASSUME NEW D, NEW f, NEW R, NEW E, Volume(D, f, R, E), NEW u, Stages(D, f, u)
  PROVE  \A i \in 0 .. NumClusters : /\ Root \in u[i] /\ u[i] \subseteq R
                                     /\ \A c \in u[i] : c # Root => i # 0 /\ D[c][2].start \in u[i - 1]
  <1>1. /\ R = Reached(D, f) /\ Root \in R
        /\ \A g \in R : \A k \in Kids(D, f, g) : k \in R /\ k # Root /\ D[k][2].start = g
    BY ParentOf DEF Volume, Stands
  <1>2. u[0] = {Root} /\ \A i \in 1 .. NumClusters : u[i] = Round(D, f, u[i - 1])
    BY DEF Stages
  <1> DEFINE T == {i \in 0 .. NumClusters : /\ Root \in u[i] /\ u[i] \subseteq R
                                            /\ \A c \in u[i] : c # Root => i # 0 /\ D[c][2].start \in u[i - 1]}
  <1>3. 0 \in T
    BY <1>1, <1>2, Numbers
  <1>4. ASSUME NEW i \in 0 .. NumClusters - 1, i \in T PROVE i + 1 \in T
    <2>1. i + 1 \in 1 .. NumClusters /\ i + 1 \in 0 .. NumClusters /\ (i + 1) - 1 = i /\ i + 1 # 0
          /\ (i # 0 => i \in 1 .. NumClusters)
      BY Numbers
    <2>2. u[i + 1] = u[i] \cup UNION {Kids(D, f, d) : d \in u[i]}
      BY <1>2, <2>1 DEF Round
    <2>3. Root \in u[i] /\ u[i] \subseteq R /\ \A c \in u[i] : c # Root => i # 0 /\ D[c][2].start \in u[i - 1]
      BY <1>4
    <2>4. \A c \in u[i + 1] : c \in u[i] \/ \E d \in u[i] : c \in Kids(D, f, d)
      BY <2>2
    <2>5. Root \in u[i + 1] /\ u[i + 1] \subseteq R
      BY <1>1, <2>2, <2>3, <2>4
    <2>6. i # 0 => u[i] = u[i - 1] \cup UNION {Kids(D, f, d) : d \in u[i - 1]}
      BY <1>2, <2>1 DEF Round
    <2>7. ASSUME NEW c \in u[i + 1], c # Root PROVE D[c][2].start \in u[i]
      <3>1. CASE c \in u[i]
        BY <2>3, <2>6, <2>7, <3>1
      <3>2. CASE \E d \in u[i] : c \in Kids(D, f, d)
        BY <1>1, <2>3, <3>2
      <3>3. QED
        BY <2>4, <3>1, <3>2
    <2>8. QED
      BY <2>1, <2>5, <2>7
  <1> HIDE DEF T
  <1>5. \A i \in 0 .. NumClusters : i \in T
    BY <1>3, <1>4, UpTo, Numbers
  <1>6. QED
    BY <1>5 DEF T

(* fat12_move_cycle_check sees every directory above d. *)
LEMMA AncestorsAre ==
  ASSUME NEW R, NEW E, Volume(disk, fat, R, E), NEW d \in R
  PROVE  Ancestors(d) \subseteq R /\ Upward(disk, Ancestors(d)) /\ d \in Ancestors(d)
  <1>1. Root \in R /\ \A x \in R : x # Root => disk[x][2].start \in R
    BY ParentOf
  <1>2. PICK up : Climbs(disk, d, R, up) /\ Ancestors(d) = {up[i] : i \in 0 .. NumClusters}
    BY <1>1, AncestorsClimb
  <1>3. PICK u : Stages(disk, fat, u)
    BY ReachedStages
  <1>4. \A i \in 0 .. NumClusters : /\ Root \in u[i]
                                    /\ \A c \in u[i] : c # Root => i # 0 /\ disk[c][2].start \in u[i - 1]
    BY <1>3, StagesClimb
  <1>5. /\ up[0] = d /\ \A i \in 0 .. NumClusters : up[i] \in R
        /\ \A i \in 1 .. NumClusters : up[i] = IF up[i - 1] = Root THEN Root ELSE disk[up[i - 1]][2].start
    BY <1>2 DEF Climbs
  <1> DEFINE T == {j \in 0 .. NumClusters : up[j] \in u[NumClusters - j]}
  <1>6. 0 \in T
    <2>1. R = u[NumClusters]
      BY <1>3 DEF Stages, Volume, Stands
    <2>2. QED
      BY <1>5, <2>1, Numbers
  <1>7. ASSUME NEW j \in 0 .. NumClusters - 1, j \in T PROVE j + 1 \in T
    <2>1. /\ j + 1 \in 1 .. NumClusters /\ j + 1 \in 0 .. NumClusters /\ (j + 1) - 1 = j
          /\ NumClusters - j \in 0 .. NumClusters /\ NumClusters - (j + 1) \in 0 .. NumClusters
          /\ (NumClusters - j) - 1 = NumClusters - (j + 1)
      BY Numbers
    <2>2. up[j] \in u[NumClusters - j]
      BY <1>7
    <2>3. up[j + 1] = IF up[j] = Root THEN Root ELSE disk[up[j]][2].start
      BY <1>5, <2>1
    <2>4. CASE up[j] = Root
      BY <1>4, <2>1, <2>3, <2>4
    <2>5. CASE up[j] # Root
      <3>1. disk[up[j]][2].start \in u[(NumClusters - j) - 1]
        BY <1>4, <2>1, <2>2, <2>5
      <3>2. QED
        BY <2>1, <2>3, <2>5, <3>1
    <2>6. QED
      BY <2>4, <2>5
  <1> HIDE DEF T
  <1>8. \A j \in 0 .. NumClusters : j \in T
    BY <1>6, <1>7, UpTo, Numbers
  <1>9. up[NumClusters] = Root
    <2>1. NumClusters \in 0 .. NumClusters /\ NumClusters - NumClusters = 0
      BY Numbers
    <2>2. up[NumClusters] \in u[0]
      BY <1>8, <2>1 DEF T
    <2>3. QED
      BY <1>3, <2>2 DEF Stages
  <1>10. Upward(disk, Ancestors(d))
    <2>1. SUFFICES ASSUME NEW x \in Ancestors(d), x # Root PROVE disk[x][2].start \in Ancestors(d)
      BY DEF Upward
    <2>2. PICK i \in 0 .. NumClusters : x = up[i]
      BY <1>2
    <2>3. i # NumClusters
      BY <1>9, <2>1, <2>2
    <2>4. i + 1 \in 1 .. NumClusters /\ i + 1 \in 0 .. NumClusters /\ (i + 1) - 1 = i
      BY <2>3, Numbers
    <2>5. up[i + 1] = disk[x][2].start
      BY <1>5, <2>1, <2>2, <2>4
    <2>6. QED
      BY <1>2, <2>4, <2>5
  <1>11. 0 \in 0 .. NumClusters
    BY Numbers
  <1>12. QED
    BY <1>2, <1>5, <1>10, <1>11

(* No folder is above its parent. *)
Straight(D, R, x) == \E A : /\ A \subseteq R /\ Upward(D, A) /\ x \in A
                            /\ \A k \in A : k # Root => D[k][2].start # x

LEMMA NoLoop ==
  ASSUME NEW D, NEW f, NEW R, NEW E, Volume(D, f, R, E), NEW d \in R, NEW c \in R, c # Root, D[c][2].start = d
  PROVE  BelowIn(D, R, c, d)
  <1>1. /\ Root \in R /\ \A x \in R : x # Root => D[x][2].start \in R
        /\ \A g \in R : \A k \in Kids(D, f, g) : k \in R /\ k # Root /\ D[k][2].start = g
    BY ParentOf
  <1> DEFINE Z == {x \in R : Straight(D, R, x)}
  <1>2. Root \in Z
    <2>1. {Root} \subseteq R /\ Upward(D, {Root})
      BY <1>1 DEF Upward
    <2>2. QED
      BY <1>1, <2>1 DEF Straight
  <1>3. ASSUME NEW g \in Z, NEW k \in Kids(D, f, g) PROVE k \in Z
    <2>1. g \in R /\ Straight(D, R, g)
      BY <1>3
    <2>2. PICK A : A \subseteq R /\ Upward(D, A) /\ g \in A /\ \A x \in A : x # Root => D[x][2].start # g
      BY <2>1 DEF Straight
    <2>3. k \in R /\ k # Root /\ D[k][2].start = g
      BY <1>1, <1>3, <2>1
    <2>4. k \notin A
      BY <2>2, <2>3
    <2> DEFINE B == A \cup {k}
    <2>5. B \subseteq R /\ k \in B
      BY <2>2, <2>3
    <2>6. Upward(D, B)
      BY <2>2, <2>3 DEF Upward
    <2>7. ASSUME NEW x \in B, x # Root PROVE D[x][2].start # k
      BY <2>2, <2>3, <2>4, <2>7 DEF Upward
    <2>8. QED
      BY <2>3, <2>5, <2>6, <2>7 DEF Straight
  <1>4. Reached(D, f) \subseteq Z
    <2> HIDE DEF Z
    <2>1. \A g \in Z : Kids(D, f, g) \subseteq Z
      BY <1>3
    <2>2. QED
      BY <1>2, <2>1, ReachedLeast
  <1>5. d \in Z
    BY <1>4 DEF Volume, Stands
  <1>6. PICK A : A \subseteq R /\ Upward(D, A) /\ d \in A /\ \A x \in A : x # Root => D[x][2].start # d
    BY <1>5 DEF Straight
  <1>7. c \notin A
    BY <1>6
  <1>8. QED
    BY <1>6, <1>7 DEF BelowIn

-----------------------------------------------------------------------------
(* What the calls do to the tree as Folders sees it.                         *)

IsIn(E, g) == g = Root \/ \E x \in E : x.id = g
Untaken(E, g, n) == \A x \in E : ~(x.in = g /\ x.name = n)

(* A has with every folder the one it lies in. *)
Rising(E, A) == A \subseteq Clusters \cup {Root} /\ \A y \in E : y.id # 0 /\ y.id \in A => y.in \in A

Adds(E, G, e) ==
  /\ e \in [in: Clusters \cup {Root}, name: Names, id: Clusters \cup {0}]
  /\ IsIn(E, e.in) /\ Untaken(E, e.in, e.name) /\ (e.id # 0 => ~IsIn(E, e.id))
  /\ G = E \cup {e}

Drops(E, G, e) ==
  /\ e \in E /\ (e.id # 0 => \A x \in E : x.in # e.id)
  /\ G = E \ {e}

Shifts(E, G, e, g, n) ==
  /\ e \in E /\ g \in Clusters \cup {Root} /\ n \in Names
  /\ IsIn(E, g) /\ Untaken(E, g, n)
  /\ e.id # 0 => \E A : Rising(E, A) /\ g \in A /\ e.id \notin A
  /\ G = (E \ {e}) \cup {[in |-> g, name |-> n, id |-> e.id]}

Follows(E, G) ==
  \/ \E e : Adds(E, G, e)
  \/ \E e : Drops(E, G, e)
  \/ \E e, g, n : Shifts(E, G, e, g, n)

LEMMA AboveIn ==
  ASSUME NEW A, Rising(entries, A), NEW g \in A
  PROVE  Promise!Above(g) \subseteq A
  BY DEF Promise!Above, Promise!Root, Promise!File, Rising, Root

LEMMA FollowsIsNext ==
  ASSUME Follows(entries, entries')
  PROVE  Promise!Next
  <1>1. Promise!Root = Root /\ Promise!File = 0 /\ Root = 0
    BY DEF Promise!Root, Promise!File, Root
  <1>2. ASSUME NEW e, Adds(entries, entries', e) PROVE Promise!Next
    <2>1. e \in Promise!Entry
      BY <1>1, <1>2 DEF Adds, Promise!Entry
    <2>2. Promise!Put(e)
      BY <1>1, <1>2 DEF Adds, Promise!Put, IsIn, Untaken, Promise!Exists, Promise!Taken
    <2>3. QED
      BY <2>1, <2>2 DEF Promise!Next
  <1>3. ASSUME NEW e, Drops(entries, entries', e) PROVE Promise!Next
    <2>1. e \in entries /\ Promise!Drop(e)
      BY <1>1, <1>3 DEF Drops, Promise!Drop, Promise!Empty
    <2>2. QED
      BY <2>1 DEF Promise!Next
  <1>4. ASSUME NEW e, NEW g, NEW n, Shifts(entries, entries', e, g, n) PROVE Promise!Next
    <2>1. e \in entries /\ g \in Clusters \cup {Promise!Root} /\ n \in Names
      BY <1>1, <1>4 DEF Shifts
    <2>2. Promise!Exists(g) /\ ~Promise!Taken(g, n)
      BY <1>1, <1>4 DEF Shifts, IsIn, Untaken, Promise!Exists, Promise!Taken
    <2>3. e.id # Promise!File => e.id \notin Promise!Above(g)
      BY <1>1, <1>4, AboveIn DEF Shifts
    <2>4. entries' = (entries \ {e}) \cup {[in |-> g, name |-> n, id |-> e.id]}
      BY <1>4 DEF Shifts
    <2>5. Promise!Move(e, g, n)
      BY <2>2, <2>3, <2>4 DEF Promise!Move
    <2>6. QED
      BY <2>1, <2>5 DEF Promise!Next
  <1>5. QED
    BY <1>2, <1>3, <1>4 DEF Follows

LEMMA VolumeEntries ==
  ASSUME NEW D, NEW f, NEW R, NEW E, Volume(D, f, R, E)
  PROVE  /\ \A x : x \in E <=> \E d \in R : \E p \in Named(D, f, d) : x = Rec(D, d, p)
         /\ \A g \in R : IsIn(E, g)
         /\ \A x \in E : x.in \in R /\ x.id \in Clusters \cup {0} /\ (x.id # 0 => x.id \in R /\ D[x.id][2].start = x.in)
         /\ R \subseteq Clusters \cup {Root}
  <1>1. IsDisk(D) /\ Stands(D, f, R) /\ Linked(D, f, R) /\ Shape(D, f, R) /\ R \subseteq Heads
    BY DEF Volume, Stands, Shape
  <1>2. \A x : x \in E <=> \E d \in R : \E p \in Named(D, f, d) : x = Rec(D, d, p)
    BY <1>1, ContentsAre DEF Volume
  <1>3. ASSUME NEW g \in R, g # Root PROVE \E x \in E : x.id = g
    <2>1. PICK d \in R : \E p \in Named(D, f, d) : At(D, p).kind = "dir" /\ At(D, p).start = g
      BY <1>1, <1>3, EveryNamed
    <2>2. PICK p \in Named(D, f, d) : At(D, p).kind = "dir" /\ At(D, p).start = g
      BY <2>1
    <2>3. Rec(D, d, p) \in E /\ Rec(D, d, p).id = g
      BY <1>2, <2>2 DEF Rec
    <2>4. QED
      BY <2>3
  <1>4. ASSUME NEW x \in E
        PROVE  x.in \in R /\ x.id \in Clusters \cup {0} /\ (x.id # 0 => x.id \in R /\ D[x.id][2].start = x.in)
    <2>1. PICK d \in R : \E p \in Named(D, f, d) : x = Rec(D, d, p)
      BY <1>2
    <2>2. PICK p \in Named(D, f, d) : x = Rec(D, d, p)
      BY <2>1
    <2>3. x.in = d /\ x.id = At(D, p).start
      BY <2>2 DEF Rec
    <2>4. d \in Heads
      BY <1>1
    <2>5. At(D, p).kind \in {"file", "dir"} /\ (At(D, p).kind = "file" => At(D, p).start = 0)
      BY <1>1, <2>4, NamedIs
    <2>6. CASE At(D, p).kind = "file"
      BY <2>3, <2>5, <2>6
    <2>7. CASE At(D, p).kind = "dir"
      <3>1. x.id \in R /\ x.id \in Clusters
        BY <1>1, <2>3, <2>7, KidIs
      <3>2. D[x.id][2] = DotDot(d)
        BY <1>1, <2>3, <2>7 DEF Linked
      <3>3. D[x.id][2].start = d
        BY <2>4, <3>2, KindsOf
      <3>4. QED
        BY <2>3, <3>1, <3>3
    <2>8. QED
      BY <2>5, <2>6, <2>7
  <1>5. \A g \in R : IsIn(E, g)
    BY <1>3 DEF IsIn
  <1>6. R \subseteq Clusters \cup {Root}
    BY <1>1 DEF Heads
  <1>7. QED
    BY <1>2, <1>4, <1>5, <1>6

LEMMA UnnamedIs ==
  ASSUME NEW D, NEW f, NEW R, NEW E, Volume(D, f, R, E), NEW d \in R, NEW n, Unnamed(D, f, d, n)
  PROVE  Untaken(E, d, n)
  <1>1. \A x : x \in E <=> \E g \in R : \E p \in Named(D, f, g) : x = Rec(D, g, p)
    BY VolumeEntries
  <1>2. QED
    BY <1>1 DEF Unnamed, Untaken, Rec

LEMMA BelowRises ==
  ASSUME NEW D, NEW f, NEW R, NEW E, Volume(D, f, R, E), NEW c, NEW d, BelowIn(D, R, c, d)
  PROVE  \E A : Rising(E, A) /\ d \in A /\ c \notin A
  <1>1. PICK A : A \subseteq R /\ Upward(D, A) /\ d \in A /\ c \notin A
    BY DEF BelowIn
  <1>2. \A x \in E : x.id # 0 => x.id \in R /\ D[x.id][2].start = x.in
    BY VolumeEntries
  <1>3. R \subseteq Clusters \cup {Root}
    BY VolumeEntries
  <1>4. Rising(E, A)
    BY <1>1, <1>2, <1>3, HeadsAre DEF Rising, Upward
  <1>5. QED
    BY <1>1, <1>4

(* An entry made. *)
LEMMA AddFollows ==
  ASSUME NEW D, NEW f, NEW R, NEW E, Volume(D, f, R, E), NEW d \in R, NEW n \in Names, Unnamed(D, f, d, n)
  PROVE  /\ Follows(E, E \cup New(d, File(n)))
         /\ \A c \in Clusters : f[c] = FREE => Follows(E, E \cup New(d, Dir(n, c)))
  <1>1. /\ IsIn(E, d) /\ Untaken(E, d, n) /\ d \in Clusters \cup {Root}
        /\ \A x \in E : x.id # 0 => x.id \in R
    BY VolumeEntries, UnnamedIs
  <1>2. New(d, File(n)) = {[in |-> d, name |-> n, id |-> 0]}
    BY KindsOf DEF New
  <1>3. Adds(E, E \cup {[in |-> d, name |-> n, id |-> 0]}, [in |-> d, name |-> n, id |-> 0])
    BY <1>1 DEF Adds
  <1>4. ASSUME NEW c \in Clusters, f[c] = FREE PROVE Follows(E, E \cup New(d, Dir(n, c)))
    <2> DEFINE e == [in |-> d, name |-> n, id |-> c]
    <2>1. New(d, Dir(n, c)) = {e}
      BY KindsOf DEF New
    <2>2. c \notin R /\ c # Root
      BY <1>4, MemberIs, HeadsAre DEF Volume, Stands
    <2>3. ~IsIn(E, c)
      BY <1>1, <2>2, HeadsAre DEF IsIn
    <2>4. Adds(E, E \cup {e}, e)
      BY <1>1, <2>3 DEF Adds
    <2>5. QED
      BY <2>1, <2>4 DEF Follows
  <1>5. QED
    BY <1>2, <1>3, <1>4 DEF Follows

(* An entry deleted. *)
LEMMA DropFollows ==
  ASSUME NEW D, NEW f, NEW R, NEW E, Volume(D, f, R, E), NEW d \in R, NEW p \in Named(D, f, d),
         At(D, p).kind = "dir" => Named(D, f, At(D, p).start) = {}
  PROVE  Follows(E, E \ {Rec(D, d, p)})
  <1>1. \A x : x \in E <=> \E g \in R : \E q \in Named(D, f, g) : x = Rec(D, g, q)
    BY VolumeEntries
  <1>2. Rec(D, d, p) \in E
    BY <1>1
  <1>3. IsDisk(D) /\ d \in Heads
    BY MemberIs DEF Volume, Stands
  <1>4. At(D, p).kind \in {"file", "dir"} /\ (At(D, p).kind = "file" => At(D, p).start = 0)
    BY <1>3, NamedIs
  <1>5. ASSUME Rec(D, d, p).id # 0, NEW x \in E PROVE x.in # Rec(D, d, p).id
    <2>1. Named(D, f, At(D, p).start) = {}
      BY <1>4, <1>5 DEF Rec
    <2>2. PICK g \in R : \E q \in Named(D, f, g) : x = Rec(D, g, q)
      BY <1>1
    <2>3. x.in = g /\ Named(D, f, g) # {}
      BY <2>2 DEF Rec
    <2>4. Rec(D, d, p).id = At(D, p).start
      BY DEF Rec
    <2>5. QED
      BY <2>1, <2>3, <2>4
  <1>6. Drops(E, E \ {Rec(D, d, p)}, Rec(D, d, p))
    BY <1>2, <1>5 DEF Drops
  <1>7. QED
    BY <1>6 DEF Follows

(* An entry moved, renamed or both. *)
LEMMA ShiftFollows ==
  ASSUME NEW D, NEW f, NEW R, NEW E, Volume(D, f, R, E), NEW s \in R, NEW p \in Named(D, f, s),
         NEW d \in R, NEW e \in Records, e.kind = At(D, p).kind, e.start = At(D, p).start, e.name \in Names,
         Unnamed(D, f, d, e.name),
         e.kind = "dir" => BelowIn(D, R, e.start, d)
  PROVE  Follows(E, (E \ {Rec(D, s, p)}) \cup New(d, e))
  <1> DEFINE r == Rec(D, s, p)
  <1>1. \A x : x \in E <=> \E g \in R : \E q \in Named(D, f, g) : x = Rec(D, g, q)
    BY VolumeEntries
  <1>2. r \in E
    BY <1>1
  <1>3. /\ IsIn(E, d) /\ Untaken(E, d, e.name) /\ d \in Clusters \cup {Root}
    BY VolumeEntries, UnnamedIs
  <1>4. e.kind \in {"file", "dir"}
    BY DEF Named
  <1>5. New(d, e) = {[in |-> d, name |-> e.name, id |-> e.start]}
    BY <1>4 DEF New
  <1>6. r.id = e.start
    BY DEF Rec
  <1>7. r.id # 0 => \E A : Rising(E, A) /\ d \in A /\ r.id \notin A
    <2>1. r.id = e.start
      BY DEF Rec
    <2>2. ASSUME r.id # 0 PROVE e.kind = "dir"
      <3>1. IsDisk(D) /\ s \in Heads
        BY MemberIs DEF Volume, Stands
      <3>2. At(D, p).kind = "file" => At(D, p).start = 0
        BY <3>1, NamedIs
      <3>3. QED
        BY <1>4, <2>1, <2>2, <3>2
    <2> HIDE DEF r
    <2>3. ASSUME r.id # 0 PROVE \E A : Rising(E, A) /\ d \in A /\ e.start \notin A
      BY <2>2, <2>3, BelowRises
    <2>4. QED
      BY <2>1, <2>3
  <1> HIDE DEF r
  <1>8. Shifts(E, (E \ {r}) \cup New(d, e), r, d, e.name)
    BY <1>2, <1>3, <1>5, <1>6, <1>7 DEF Shifts
  <1>9. QED
    BY <1>8 DEF Follows, r

-----------------------------------------------------------------------------
(* The invariant: the call under way is on course to what it was to do, or to
   nothing.                                                                  *)

Safe(todo, v, T, D, f, h, E) ==
  h \subseteq {"behind"} =>
    \E k, G :
      /\ k \in BOOLEAN
      /\ k <=> h = {}
      /\ G = E \/ Follows(E, G)
      /\ OnCourse(At4(todo, T, D, f, k, G), E, v)
      /\ todo = <<>> => G = E

IInv == /\ Safe(job.todo, job.victim, table, disk, fat, harm, entries)
        /\ job = [todo |-> job.todo, victim |-> job.victim]

LEMMA ConfigIs ==
  ASSUME NEW todo, NEW T, NEW D, NEW f, NEW k, NEW G
  PROVE  LET x == At4(todo, T, D, f, k, G)
         IN  x.todo = todo /\ x.table = T /\ x.disk = D /\ x.fat = f /\ x.clean = k /\ x.goal = G
  BY DEF At4

(* What a call at its end leaves. *)
LEMMA EndIs ==
  ASSUME NEW T, NEW D, NEW f, NEW k, NEW G, NEW E, NEW v, OnCourse(At4(<<>>, T, D, f, k, G), E, v)
  PROVE  /\ T \in Fats /\ \E R : Volume(D, f, R, G)
         /\ k => Covers(T, f)
         /\ G = Contents(D, f)
  <1> DEFINE x == At4(<<>>, T, D, f, k, G)
  <1>1. x.todo = <<>> /\ x.table = T /\ x.disk = D /\ x.fat = f /\ x.clean = k /\ x.goal = G
    BY DEF At4
  <1>2. OnCourse(x, E, v)
    OBVIOUS
  <1> HIDE DEF x
  <1>3. Fair(x, E, v)
    BY <1>2, Proceeds
  <1>4. T \in Fats /\ Sound(D, f, G) /\ (k => Covers(T, f))
    BY <1>1, <1>3 DEF Fair
  <1>5. PICK R : Volume(D, f, R, G)
    BY <1>4 DEF Sound
  <1>6. G = Contents(D, f)
    BY <1>5 DEF Volume
  <1>7. QED
    BY <1>4, <1>5, <1>6

(* What Settle makes of where a step leads. *)
Settling(todo, T, D, f, h, h2, E, E2, v, v2) ==
  /\ h2 = h \ (IF todo = <<>> /\ T = f THEN {"behind"} ELSE {})
  /\ E2 = IF todo = <<>> /\ h2 \subseteq {"behind"} THEN Contents(D, f) ELSE E
  /\ todo # <<>> => v2 = v

LEMMA Settled ==
  ASSUME NEW todo, NEW T, NEW D, NEW f, NEW k \in BOOLEAN, NEW G, NEW E, NEW v,
         OnCourse(At4(todo, T, D, f, k, G), E, v), G = E \/ Follows(E, G),
         NEW h, h \subseteq {"behind"}, k <=> h = {},
         NEW h2, NEW E2, NEW v2, Settling(todo, T, D, f, h, h2, E, E2, v, v2)
  PROVE  /\ Safe(todo, v2, T, D, f, h2, E2)
         /\ todo = <<>> => E2 = G
         /\ todo # <<>> => E2 = E
  <1>0. /\ h2 = h \ (IF todo = <<>> /\ T = f THEN {"behind"} ELSE {})
        /\ E2 = IF todo = <<>> /\ h2 \subseteq {"behind"} THEN Contents(D, f) ELSE E
        /\ todo # <<>> => v2 = v
    BY DEF Settling
  <1>1. CASE todo # <<>>
    <2>1. h2 = h /\ E2 = E /\ v2 = v
      BY <1>0, <1>1
    <2>2. Safe(todo, v, T, D, f, h, E)
      BY <1>1 DEF Safe
    <2>3. QED
      BY <1>1, <2>1, <2>2
  <1>2. CASE todo = <<>>
    <2>1. T \in Fats /\ (\E R : Volume(D, f, R, G)) /\ (k => Covers(T, f)) /\ G = Contents(D, f)
      BY <1>2, EndIs
    <2>2. h2 \subseteq {"behind"} /\ E2 = G
      BY <1>0, <1>2, <2>1
    <2>3. PICK R : Volume(D, f, R, G)
      BY <2>1
    <2>4. Within(G, v2, R)
      BY <2>3, VolumeWithin
    <2>5. PICK j \in BOOLEAN : j <=> h2 = {}
      OBVIOUS
    <2>6. j => Covers(T, f)
      <3>1. CASE T = f
        BY <3>1 DEF Covers
      <3>2. CASE T # f
        <4>1. h2 = h
          BY <1>0, <3>2
        <4>2. QED
          BY <2>1, <2>5, <4>1
      <3>3. QED
        BY <3>1, <3>2
    <2>7. OnCourse(At4(<<>>, T, D, f, j, G), G, v2)
      BY <2>1, <2>3, <2>4, <2>6, Rests
    <2>8. Safe(<<>>, v2, T, D, f, h2, G)
      BY <2>5, <2>7 DEF Safe
    <2>9. QED
      BY <1>2, <2>2, <2>8
  <1>3. QED
    BY <1>1, <1>2

LEMMA NotEmpty ==
  ASSUME NEW t, IsSeq(t), NEW u, IsSeq(u), u # <<>>
  PROVE  t \o u # <<>>
  <1>1. PICK S : t \in Seq(S)
    BY DEF IsSeq
  <1>2. PICK Z : u \in Seq(Z)
    BY DEF IsSeq
  <1>3. t \in Seq(S \cup Z) /\ u \in Seq(S \cup Z)
    BY <1>1, <1>2
  <1>4. Len(t \o u) = Len(t) + Len(u) /\ Len(t) \in Nat /\ Len(u) \in Nat
    BY <1>3
  <1>5. Len(u) # 0
    BY <1>3
  <1>6. Len(t \o u) # 0
    BY <1>4, <1>5
  <1>7. Len(<<>>) = 0
    OBVIOUS
  <1>8. QED
    BY <1>6, <1>7

LEMMA ConsNotEmpty ==
  ASSUME NEW s, NEW t, IsSeq(t)
  PROVE  Cons(s, t) # <<>>
  BY EmptyList, Chained

LEMMA SlotStepsSome ==
  ASSUME NEW p, NEW e, NEW kind, NEW b, NEW u
  PROVE  IsSeq(Steps(ToSlot(p, e), kind, b, u)) /\ Steps(ToSlot(p, e), kind, b, u) # <<>>
  <1>1. ToSlot(p, e) = Cons(InSlot(p, e), <<>>)
    BY ListsAre
  <1>2. Steps(ToSlot(p, e), kind, b, u) = Cons(Step(InSlot(p, e), kind, b, u), <<>>)
    BY <1>1, OneStep
  <1>3. QED
    BY <1>2, EmptyList, ConsList, ConsNotEmpty

LEMMA FatStepsSome ==
  ASSUME NEW g, NEW kind, NEW b, NEW u
  PROVE  IsSeq(Steps(ToFat(g), kind, b, u)) /\ Steps(ToFat(g), kind, b, u) # <<>>
  <1>1. ToFat(g) = Cons(Copy1(g), Cons(Copy2, <<>>))
    BY ListsAre
  <1> DEFINE c2 == Copy2
  <1>2. ToFat(g) = Cons(Copy1(g), Cons(c2, <<>>))
    BY <1>1
  <1> HIDE DEF c2
  <1>3. Steps(ToFat(g), kind, b, u) = Cons(Step(Copy1(g), kind, b, u), Cons(Step(c2, kind, b, u), <<>>))
    BY <1>2, TwoSteps
  <1>4. IsSeq(Cons(Step(c2, kind, b, u), <<>>))
    BY EmptyList, ConsList
  <1>5. QED
    BY <1>3, <1>4, ConsList, ConsNotEmpty

LEMMA RoomList ==
  ASSUME NEW D, NEW f, NEW R, NEW d, NEW g, NEW at, NEW S, NEW U, NEW D0, IsRoom(D, f, R, d, g, at, S, U, D0)
  PROVE  IsSeq(S) /\ IsSeq(U)
  <1>1. CASE S = <<>> /\ U = <<>>
    BY <1>1, EmptyList
  <1>2. ASSUME NEW new, S = Steps(ToSector(new, Blank(ClusterSlots)), "step", f, ToFat(f))
                            \o Steps(ToFat(g), "behind", g, <<>>), U = ToFat(f)
        PROVE  IsSeq(S) /\ IsSeq(U)
    <2> DEFINE A1 == Steps(ToSector(new, Blank(ClusterSlots)), "step", f, ToFat(f))
               A2 == Steps(ToFat(g), "behind", g, <<>>)
    <2>1. IsSeq(A1) /\ IsSeq(A2)
      BY EmptyList, SectorSteps, FatSteps
    <2>2. S = A1 \o A2
      BY <1>2
    <2> HIDE DEF A1, A2
    <2>3. IsSeq(S)
      BY <2>1, <2>2, ListConcat
    <2>4. QED
      BY <1>2, <2>3, FatList
  <1>3. QED
    BY <1>1, <1>2 DEF IsRoom

LEMMA Renamed ==
  ASSUME NEW r \in Records, r.kind \in {"file", "dir"}, NEW n \in Names
  PROVE  LET e == [r EXCEPT !.name = n]
         IN  e \in Records /\ e.kind = r.kind /\ e.start = r.start /\ e.name = n
  <1>1. CASE r.kind = "file"
    <2>1. PICK m \in Names : r = File(m)
      BY <1>1, RecordIs
    <2>2. [r EXCEPT !.name = n] = File(n)
      BY <2>1 DEF File
    <2>3. QED
      BY <1>1, <2>1, <2>2, KindsOf
  <1>2. CASE r.kind = "dir"
    <2>1. PICK m \in Names, c \in Clusters : r = Dir(m, c)
      BY <1>2, RecordIs
    <2>2. [r EXCEPT !.name = n] = Dir(n, c)
      BY <2>1 DEF Dir
    <2>3. QED
      BY <1>2, <2>1, <2>2, KindsOf
  <1>3. QED
    BY <1>1, <1>2

-----------------------------------------------------------------------------
(* The calls.                                                                *)

LEMMA Called ==
  ASSUME IInv, Ready, harm \subseteq {"behind"}
  PROVE  \E R : \E k \in BOOLEAN : (k <=> harm = {}) /\ Resting(disk, fat, R, entries, table, k)
  <1>1. PICK k \in BOOLEAN : \E G : /\ k <=> harm = {}
                                    /\ OnCourse(At4(job.todo, table, disk, fat, k, G), entries, job.victim)
                                    /\ job.todo = <<>> => G = entries
    BY DEF IInv, Safe
  <1>2. OnCourse(At4(<<>>, table, disk, fat, k, entries), entries, job.victim) /\ (k <=> harm = {})
    BY <1>1 DEF Ready
  <1>3. table \in Fats /\ (\E R : Volume(disk, fat, R, entries)) /\ (k => Covers(table, fat))
    BY <1>2, EndIs
  <1>4. QED
    BY <1>2, <1>3 DEF Resting

LEMMA CallStarts ==
  ASSUME NEW cache, NEW todo, NEW victim, Call(cache, todo, victim), todo # <<>>,
         NEW k \in BOOLEAN, k <=> harm = {}, NEW G, G = entries \/ Follows(entries, G),
         OnCourse(At4(todo, table, disk, cache, k, G), entries, victim)
  PROVE  IInv'
  <1>1. /\ fat' = cache /\ job'.todo = todo /\ job'.victim = victim
        /\ table' = table /\ disk' = disk /\ harm' = harm /\ entries' = entries
    BY DEF Call
  <1>2. Safe(todo, victim, table, disk, cache, harm, entries)
    BY DEF Safe
  <1>3. job' = [todo |-> job'.todo, victim |-> job'.victim]
    BY DEF Call
  <1>4. QED
    BY <1>1, <1>2, <1>3 DEF IInv

LEMMA CallHarmed ==
  ASSUME NEW cache, NEW todo, NEW victim, Call(cache, todo, victim), ~(harm \subseteq {"behind"})
  PROVE  IInv'
  <1>1. harm' = harm
    BY DEF Call
  <1>2. job' = [todo |-> job'.todo, victim |-> job'.victim]
    BY DEF Call
  <1>3. QED
    BY <1>1, <1>2 DEF IInv, Safe

LEMMA CreateKeeps ==
  ASSUME IInv, NEW d \in Heads, NEW n \in Names, Create(d, n)
  PROVE  IInv'
  <1> DEFINE r == Room(d)
             A == Steps(ToSlot(r.at, File(n)), "step", r.fat, <<>>)
  <1>1. /\ Ready /\ LiveDir(d) /\ Matches(d, n) = {} /\ HasRoom(d)
        /\ Call(r.fat, r.steps \o A, Root)
    BY DEF Create
  <1> HIDE DEF r
  <1>2. CASE ~(harm \subseteq {"behind"})
    BY <1>1, <1>2, CallHarmed
  <1>3. CASE harm \subseteq {"behind"}
    <2>1. PICK R : \E k \in BOOLEAN : (k <=> harm = {}) /\ Resting(disk, fat, R, entries, table, k)
      BY <1>1, <1>3, Called
    <2>2. PICK k \in BOOLEAN : (k <=> harm = {}) /\ Resting(disk, fat, R, entries, table, k)
      BY <2>1
    <2>3. Volume(disk, fat, R, entries)
      BY <2>2 DEF Resting
    <2>4. d \in R
      BY <1>1, <2>3, LiveDirIs
    <2>5. Unnamed(disk, fat, d, n)
      BY <1>1, <2>3, <2>4, MatchesAre
    <2>6. PICK D0 : IsRoom(disk, fat, R, d, r.fat, r.at, r.steps, Shrink(r), D0)
      BY <1>1, <2>3, <2>4, RoomMade DEF r
    <2>7. OnCourse(At4(r.steps \o A, table, disk, r.fat, k, entries \cup New(d, File(n))), entries, Root)
      BY <2>2, <2>4, <2>5, <2>6, CreateCourse
    <2>8. Follows(entries, entries \cup New(d, File(n)))
      BY <2>3, <2>4, <2>5, AddFollows
    <2>9. IsSeq(r.steps) /\ IsSeq(A) /\ A # <<>>
      BY <2>6, RoomList, SlotStepsSome
    <2> HIDE DEF A
    <2>10. r.steps \o A # <<>>
      BY <2>9, NotEmpty
    <2>11. QED
      BY <1>1, <2>2, <2>7, <2>8, <2>10, CallStarts
  <1>4. QED
    BY <1>2, <1>3

LEMMA UnlinkKeeps ==
  ASSUME IInv, NEW d \in Heads, NEW n \in Names, Unlink(d, n)
  PROVE  IInv'
  <1>1. Ready /\ LiveDir(d)
    BY DEF Unlink
  <1>2. PICK p \in Matches(d, n) : At(disk, p).kind = "file" /\ Call(fat, Steps(ToSlot(p, Deleted), "step", fat, <<>>), Root)
    BY DEF Unlink
  <1> DEFINE A == Steps(ToSlot(p, Deleted), "step", fat, <<>>)
  <1>3. Call(fat, A, Root) /\ A # <<>>
    BY <1>2, SlotStepsSome
  <1>4. CASE ~(harm \subseteq {"behind"})
    BY <1>3, <1>4, CallHarmed
  <1>5. CASE harm \subseteq {"behind"}
    <2>1. PICK R : \E k \in BOOLEAN : (k <=> harm = {}) /\ Resting(disk, fat, R, entries, table, k)
      BY <1>1, <1>5, Called
    <2>2. PICK k \in BOOLEAN : (k <=> harm = {}) /\ Resting(disk, fat, R, entries, table, k)
      BY <2>1
    <2>3. Volume(disk, fat, R, entries)
      BY <2>2 DEF Resting
    <2>4. d \in R
      BY <1>1, <2>3, LiveDirIs
    <2>5. p \in Named(disk, fat, d)
      BY <1>2, <2>3, <2>4, MatchesAre
    <2>6. Deleted \in Records /\ Deleted.kind = "deleted"
      BY KindsOf
    <2>7. IsDisk(disk) /\ Shape(disk, fat, R)
      BY <2>3 DEF Volume, Stands
    <2>8. Fits(disk, fat, d, p, Deleted)
      BY <2>4, <2>5, <2>6, <2>7, NamedFits DEF Fresh
    <2> DEFINE G == (entries \ {Rec(disk, d, p)}) \cup New(d, Deleted)
    <2>9. OnCourse(At4(A, table, disk, fat, k, G), entries, Root)
      BY <1>2, <2>2, <2>4, <2>5, <2>6, <2>8, OverCourse
    <2>10. G = entries \ {Rec(disk, d, p)}
      BY <2>6 DEF New
    <2>11. Follows(entries, entries \ {Rec(disk, d, p)})
      BY <1>2, <2>3, <2>4, <2>5, DropFollows
    <2> HIDE DEF G, A
    <2>12. QED
      BY <1>3, <2>2, <2>9, <2>10, <2>11, CallStarts
  <1>6. QED
    BY <1>4, <1>5

LEMMA RmDirKeeps ==
  ASSUME IInv, NEW d \in Heads, NEW n \in Names, RmDir(d, n)
  PROVE  IInv'
  <1>1. Ready /\ LiveDir(d)
    BY DEF RmDir
  <1>2. PICK p \in Matches(d, n) :
          /\ At(disk, p).kind = "dir" /\ Live(disk, fat, At(disk, p).start) = {}
          /\ Call(Freed(fat, At(disk, p).start),
                  Steps(ToFat(Freed(fat, At(disk, p).start)) \o ToSlot(p, Deleted), "free",
                        Freed(fat, At(disk, p).start), <<>>), At(disk, p).start)
    BY DEF RmDir
  <1> DEFINE c == At(disk, p).start
             h == Freed(fat, c)
             W == ToFat(h) \o ToSlot(p, Deleted)
             A == Steps(W, "free", h, <<>>)
  <1>3. Call(h, A, c)
    BY <1>2
  <1>4. A # <<>>
    <2>1. IsSeq(ToSlot(p, Deleted))
      BY EmptyList, SlotsBack
    <2>2. W = Cons(Copy1(h), Cons(Copy2, ToSlot(p, Deleted)))
      BY <2>1, FatConcat
    <2> DEFINE t == Cons(Copy2, ToSlot(p, Deleted))
    <2>3. IsSeq(t) /\ W = Cons(Copy1(h), t)
      BY <2>1, <2>2, ConsList
    <2> HIDE DEF t, W
    <2>4. A = Cons(Step(Copy1(h), "free", h, <<>>), Steps(t, "free", h, <<>>)) /\ IsSeq(Steps(t, "free", h, <<>>))
      BY <2>3, StepsCons, StepsList
    <2>5. QED
      BY <2>4, ConsNotEmpty
  <1>5. CASE ~(harm \subseteq {"behind"})
    BY <1>3, <1>5, CallHarmed
  <1>6. CASE harm \subseteq {"behind"}
    <2>1. PICK R : \E k \in BOOLEAN : (k <=> harm = {}) /\ Resting(disk, fat, R, entries, table, k)
      BY <1>1, <1>6, Called
    <2>2. PICK k \in BOOLEAN : (k <=> harm = {}) /\ Resting(disk, fat, R, entries, table, k)
      BY <2>1
    <2>3. Volume(disk, fat, R, entries)
      BY <2>2 DEF Resting
    <2>4. d \in R
      BY <1>1, <2>3, LiveDirIs
    <2>5. p \in Named(disk, fat, d)
      BY <1>2, <2>3, <2>4, MatchesAre
    <2>6. c \in R
      BY <1>2, <2>3, <2>4, <2>5, KidIs DEF Volume
    <2>7. Named(disk, fat, c) = {}
      BY <1>2, <2>3, <2>6, MatchesAre
    <2> DEFINE P == Put(disk, p, Deleted)
    <2>8. DropsFolder(disk, fat, R, entries, d, p, c, P, h)
      BY <1>2, <2>3, <2>4, <2>5, <2>7 DEF DropsFolder
    <2>9. OnCourse(At4(A, table, disk, h, k, entries \ {Rec(disk, d, p)}), entries, c)
      BY <2>2, <2>8, RmDirCourse
    <2>10. Follows(entries, entries \ {Rec(disk, d, p)})
      BY <2>3, <2>4, <2>5, <2>7, DropFollows
    <2> HIDE DEF A, h, c
    <2>11. QED
      BY <1>3, <1>4, <2>2, <2>9, <2>10, CallStarts
  <1>7. QED
    BY <1>5, <1>6

LEMMA RenameKeeps ==
  ASSUME IInv, NEW d \in Heads, NEW old \in Names, NEW new \in Names, Rename(d, old, new), d \in Reached(disk, fat)
  PROVE  IInv'
  <1>1. Ready /\ Matches(d, new) = {}
    BY DEF Rename
  <1>2. PICK p \in Matches(d, old) :
          Call(fat, Steps(ToSlot(p, [At(disk, p) EXCEPT !.name = new]), "step", fat, <<>>), Root)
    BY DEF Rename
  <1> DEFINE e == [At(disk, p) EXCEPT !.name = new]
             A == Steps(ToSlot(p, e), "step", fat, <<>>)
  <1>3. Call(fat, A, Root) /\ A # <<>>
    BY <1>2, SlotStepsSome
  <1>4. CASE ~(harm \subseteq {"behind"})
    BY <1>3, <1>4, CallHarmed
  <1>5. CASE harm \subseteq {"behind"}
    <2>1. PICK R : \E k \in BOOLEAN : (k <=> harm = {}) /\ Resting(disk, fat, R, entries, table, k)
      BY <1>1, <1>5, Called
    <2>2. PICK k \in BOOLEAN : (k <=> harm = {}) /\ Resting(disk, fat, R, entries, table, k)
      BY <2>1
    <2>3. Volume(disk, fat, R, entries)
      BY <2>2 DEF Resting
    <2>4. d \in R
      BY <2>3 DEF Volume, Stands
    <2>5. p \in Named(disk, fat, d) /\ Unnamed(disk, fat, d, new)
      BY <1>1, <1>2, <2>3, <2>4, MatchesAre
    <2>6. IsDisk(disk) /\ Stands(disk, fat, R) /\ Shape(disk, fat, R) /\ Linked(disk, fat, R)
      BY <2>3 DEF Volume, Stands
    <2>7. At(disk, p) \in Records /\ At(disk, p).kind \in {"file", "dir"}
      BY <2>5, <2>6, NamedIs
    <2>8. e \in Records /\ e.kind = At(disk, p).kind /\ e.start = At(disk, p).start /\ e.name = new
      BY <2>7, Renamed
    <2> HIDE DEF e
    <2>9. Fits(disk, fat, d, p, e)
      <3>1. Fresh(disk, fat, d, p, e)
        <4>1. ASSUME NEW q \in Named(disk, fat, d), q # p, At(disk, q).kind = "dir", e.kind = "dir"
              PROVE  At(disk, q).start # e.start
          <5>1. At(disk, p).kind = "dir"
            BY <2>8, <4>1
          <5>2. At(disk, p).start = At(disk, q).start => p = q
            BY <2>4, <2>5, <2>6, <4>1, <5>1, OneName
          <5>3. QED
            BY <2>8, <4>1, <5>2
        <4>2. QED
          BY <2>5, <2>8, <4>1 DEF Fresh, Unnamed
      <3>2. QED
        BY <2>4, <2>5, <2>6, <2>7, <2>8, <3>1, NamedFits
    <2>10. e.kind = "dir" => e.start \in R /\ e.start # Root /\ disk[e.start][2] = DotDot(d)
      <3>1. SUFFICES ASSUME e.kind = "dir"
                     PROVE  e.start \in R /\ e.start # Root /\ disk[e.start][2] = DotDot(d)
        OBVIOUS
      <3>2. At(disk, p).kind = "dir" /\ At(disk, p).start = e.start
        BY <2>8, <3>1
      <3>3. At(disk, p).start \in R /\ At(disk, p).start # Root
        BY <2>4, <2>5, <2>6, <3>2, KidIs
      <3>4. disk[At(disk, p).start][2] = DotDot(d)
        BY <2>4, <2>5, <2>6, <3>2 DEF Linked
      <3>5. QED
        BY <3>2, <3>3, <3>4
    <2>11. e.kind = "dir" => BelowIn(disk, R, e.start, d)
      <3>1. ASSUME e.kind = "dir" PROVE disk[e.start][2].start = d
        BY <2>4, <2>6, <2>10, <3>1, MemberIs, KindsOf
      <3>2. QED
        BY <2>3, <2>4, <2>10, <3>1, NoLoop
    <2> DEFINE G == (entries \ {Rec(disk, d, p)}) \cup New(d, e)
    <2>12. OnCourse(At4(A, table, disk, fat, k, G), entries, Root)
      BY <2>2, <2>4, <2>5, <2>8, <2>9, <2>10, OverCourse
    <2>13. Follows(entries, G)
      BY <2>3, <2>4, <2>5, <2>8, <2>11, ShiftFollows
    <2> HIDE DEF G, A
    <2>14. QED
      BY <1>3, <2>2, <2>12, <2>13, CallStarts
  <1>6. QED
    BY <1>4, <1>5

LEMMA MkDirKeeps ==
  ASSUME IInv, NEW d \in Heads, NEW n \in Names, MkDir(d, n)
  PROVE  IInv'
  <1> DEFINE r == Room(d)
             c == FreeAfter(r.fat, 0)
             made == [r.fat EXCEPT ![c] = EOC]
             A0 == Steps(ToFat(fat), "undo", fat, <<>>)
             A1 == Steps(ToFat(made), "step", fat, Shrink(r))
             A2 == Steps(ToSector(c, Dots(c, d)) \o ToSlot(r.at, Dir(n, c)), "step", fat, ToFat(r.fat) \o Shrink(r))
  <1>1. /\ Ready /\ LiveDir(d) /\ Matches(d, n) = {} /\ HasRoom(d)
        /\ IF FreeClusters(r.fat) = {} THEN Call(fat, r.steps \o A0, Root)
           ELSE Call(made, (r.steps \o A1) \o A2, Root)
    BY DEF MkDir
  <1> HIDE DEF r
  <1>2. CASE ~(harm \subseteq {"behind"})
    <2> HIDE DEF A0, A1, A2, made
    <2>1. QED
      BY <1>1, <1>2, CallHarmed
  <1>3. CASE harm \subseteq {"behind"}
    <2>1. PICK R : \E k \in BOOLEAN : (k <=> harm = {}) /\ Resting(disk, fat, R, entries, table, k)
      BY <1>1, <1>3, Called
    <2>2. PICK k \in BOOLEAN : (k <=> harm = {}) /\ Resting(disk, fat, R, entries, table, k)
      BY <2>1
    <2>3. Volume(disk, fat, R, entries)
      BY <2>2 DEF Resting
    <2>4. d \in R
      BY <1>1, <2>3, LiveDirIs
    <2>5. Unnamed(disk, fat, d, n)
      BY <1>1, <2>3, <2>4, MatchesAre
    <2>6. PICK D0 : IsRoom(disk, fat, R, d, r.fat, r.at, r.steps, Shrink(r), D0)
      BY <1>1, <2>3, <2>4, RoomMade DEF r
    <2>7. IsSeq(r.steps) /\ IsSeq(Shrink(r))
      BY <2>6, RoomList
    <2>8. CASE FreeClusters(r.fat) = {}
      <3>1. Call(fat, r.steps \o A0, Root)
        BY <1>1, <2>8
      <3>2. OnCourse(At4(r.steps \o A0, table, disk, fat, k, entries), entries, Root)
        BY <2>2, <2>4, <2>6, GrownInVain
      <3>3. IsSeq(A0) /\ A0 # <<>>
        BY FatStepsSome
      <3> HIDE DEF A0
      <3>4. r.steps \o A0 # <<>>
        BY <2>7, <3>3, NotEmpty
      <3>5. QED
        BY <2>2, <3>1, <3>2, <3>4, CallStarts
    <2>9. CASE FreeClusters(r.fat) # {}
      <3> DEFINE B == (r.steps \o A1) \o A2
                 G == entries \cup New(d, Dir(n, c))
      <3>1. Call(made, B, Root)
        BY <1>1, <2>9
      <3>2. c \in Clusters /\ r.fat[c] = FREE
        BY <2>9, FreeAfterIs
      <3>3. IsMade(r.fat, c, made)
        BY DEF IsMade
      <3> HIDE DEF made, c
      <3>4. OnCourse(At4(B, table, disk, made, k, G), entries, Root)
        BY <2>2, <2>4, <2>5, <2>6, <3>2, <3>3, MkDirCourse
      <3>5. fat[c] = FREE
        <4>1. Roomy(disk, fat, R, entries, d, r.fat, r.at, Shrink(r), D0)
          BY <2>3, <2>4, <2>6, RoomIs
        <4>2. QED
          BY <3>2, <4>1 DEF Roomy
      <3>6. Follows(entries, G)
        BY <2>3, <2>4, <2>5, <3>2, <3>5, AddFollows
      <3>7. B # <<>>
        <4>1. IsSeq(A1)
          BY FatStepsSome
        <4>2. IsSeq(ToSlot(r.at, Dir(n, c)))
          BY EmptyList, SlotsBack
        <4> DEFINE s2 == Steps(ToSector(c, Dots(c, d)), "step", fat, ToFat(r.fat) \o Shrink(r))
                   t2 == Steps(ToSlot(r.at, Dir(n, c)), "step", fat, ToFat(r.fat) \o Shrink(r))
        <4>3. A2 = s2 \o t2
          BY SectorAndSlot
        <4>4. IsSeq(s2) /\ IsSeq(t2) /\ t2 # <<>>
          BY EmptyList, SectorSteps, SlotStepsSome
        <4> HIDE DEF s2, t2, A1, A2
        <4>5. IsSeq(A2) /\ A2 # <<>>
          BY <4>3, <4>4, ListConcat, NotEmpty
        <4>6. IsSeq(r.steps \o A1)
          BY <2>7, <4>1, ListConcat
        <4> DEFINE t == r.steps \o A1
        <4>7. IsSeq(t)
          BY <4>6
        <4> HIDE DEF t
        <4>8. t \o A2 # <<>>
          BY <4>5, <4>7, NotEmpty
        <4>9. QED
          BY <4>8 DEF t
      <3> HIDE DEF B, G
      <3>8. QED
        BY <2>2, <3>1, <3>4, <3>6, <3>7, CallStarts
    <2>10. QED
      BY <2>8, <2>9
  <1>4. QED
    BY <1>2, <1>3

(* The dot-dot entry a move writes. *)
Turns(e, x) == IF e.kind = "dir" THEN ToSlot(<<e.start, 2>>, DotDot(x)) ELSE <<>>

LEMMA MoveCalls ==
  ASSUME NEW s, NEW d, NEW old, NEW new, Move(s, old, d, new)
  PROVE  /\ Ready /\ LiveDir(s) /\ LiveDir(d) /\ s # d /\ Matches(d, new) = {} /\ HasRoom(d)
         /\ \E p \in Matches(s, old) :
              LET o == At(disk, p)
                  e == [o EXCEPT !.name = new]
                  r == Room(d)
              IN  /\ o.kind = "dir" => o.start \notin Ancestors(d)
                  /\ Call(r.fat, r.steps \o MoveList(fat, p, r.at, e, Shrink(r), Turns(o, d), Turns(o, s)), Root)
  <1>1. /\ Ready /\ LiveDir(s) /\ LiveDir(d) /\ s # d /\ Matches(d, new) = {} /\ HasRoom(d)
    BY DEF Move
  <1>2. QED
    BY <1>1 DEF Move, InItself, MoveOrder, TakenBack, MoveList, Turns

LEMMA MoveKeeps ==
  ASSUME IInv, NEW s \in Heads, NEW d \in Heads, NEW old \in Names, NEW new \in Names, Move(s, old, d, new)
  PROVE  IInv'
  <1>1. /\ Ready /\ LiveDir(s) /\ LiveDir(d) /\ s # d /\ Matches(d, new) = {} /\ HasRoom(d)
    BY MoveCalls
  <1> DEFINE r == Room(d)
  <1>2. PICK p \in Matches(s, old) :
              LET o == At(disk, p)
                  e == [o EXCEPT !.name = new]
              IN  /\ o.kind = "dir" => o.start \notin Ancestors(d)
                  /\ Call(r.fat, r.steps \o MoveList(fat, p, r.at, e, Shrink(r), Turns(o, d), Turns(o, s)), Root)
    BY MoveCalls
  <1> DEFINE o == At(disk, p)
             e == [o EXCEPT !.name = new]
             M == MoveList(fat, p, r.at, e, Shrink(r), Turns(o, d), Turns(o, s))
  <1>3. Call(r.fat, r.steps \o M, Root) /\ (o.kind = "dir" => o.start \notin Ancestors(d))
    BY <1>2
  <1> HIDE DEF r, M
  <1>4. CASE ~(harm \subseteq {"behind"})
    BY <1>3, <1>4, CallHarmed
  <1>5. CASE harm \subseteq {"behind"}
    <2>1. PICK R : \E k \in BOOLEAN : (k <=> harm = {}) /\ Resting(disk, fat, R, entries, table, k)
      BY <1>1, <1>5, Called
    <2>2. PICK k \in BOOLEAN : (k <=> harm = {}) /\ Resting(disk, fat, R, entries, table, k)
      BY <2>1
    <2>3. Volume(disk, fat, R, entries)
      BY <2>2 DEF Resting
    <2>4. s \in R /\ d \in R
      BY <1>1, <2>3, LiveDirIs
    <2>5. p \in Named(disk, fat, s) /\ Unnamed(disk, fat, d, new)
      BY <1>1, <1>2, <2>3, <2>4, MatchesAre
    <2>6. PICK D0 : IsRoom(disk, fat, R, d, r.fat, r.at, r.steps, Shrink(r), D0)
      BY <1>1, <2>3, <2>4, RoomMade DEF r
    <2>7. IsSeq(r.steps) /\ IsSeq(Shrink(r))
      BY <2>6, RoomList
    <2>8. o \in Records /\ o.kind \in {"file", "dir"}
      BY <2>3, <2>4, <2>5, NamedIs DEF Volume
    <2>9. e \in Records /\ e.kind = o.kind /\ e.start = o.start /\ e.name = new
      BY <2>8, Renamed
    <2> DEFINE to == Turns(o, d)
               from == Turns(o, s)
    <2>10. M = MoveList(fat, p, r.at, e, Shrink(r), to, from)
      BY DEF M
    <2> HIDE DEF e
    <2>11. e.kind = "dir" => BelowIn(disk, R, e.start, d)
      <3>1. Ancestors(d) \subseteq R /\ Upward(disk, Ancestors(d)) /\ d \in Ancestors(d)
        BY <2>3, <2>4, AncestorsAre
      <3>2. QED
        BY <1>3, <2>9, <3>1 DEF BelowIn
    <2>12. e.kind = "file" => to = <<>> /\ from = <<>>
      BY <2>9 DEF Turns
    <2>13. e.kind = "dir" => to = ToSlot(<<e.start, 2>>, DotDot(d)) /\ from = ToSlot(<<e.start, 2>>, DotDot(s))
      BY <2>9 DEF Turns
    <2> DEFINE G == (entries \cup New(d, e)) \ {Rec(disk, s, p)}
    <2>14. IsSeq(M) /\ M # <<>>
      <3>1. IsSeq(to)
        <4>1. CASE e.kind = "file"
          <5>1. to = <<>>
            BY <2>12, <4>1
          <5> HIDE DEF to
          <5>2. QED
            BY <5>1, EmptyList
        <4>2. CASE e.kind = "dir"
          <5>1. IsSeq(ToSlot(<<e.start, 2>>, DotDot(d)))
            BY EmptyList, SlotsBack
          <5>2. QED
            BY <2>13, <4>2, <5>1
        <4>3. QED
          BY <2>8, <2>9, <4>1, <4>2
      <3> HIDE DEF to, from
      <3>2. IsSeq(M)
        BY <2>7, <2>10, <3>1, MoveLists
      <3> DEFINE A1 == Steps(to, "step", fat, Shrink(r))
                 A2 == Steps(ToSlot(r.at, e), "step", fat, from \o Shrink(r))
                 A3 == Steps(ToSlot(p, Deleted), "step", fat, (ToSlot(r.at, Deleted) \o from) \o Shrink(r))
      <3>3. M = (A1 \o A2) \o A3
        BY <2>10 DEF MoveList
      <3>4. IsSeq(A1)
        BY <3>1, StepsList
      <3>5. IsSeq(A2)
        BY SlotStepsSome
      <3>6. IsSeq(A3) /\ A3 # <<>>
        BY SlotStepsSome
      <3> HIDE DEF A1, A2, A3
      <3> DEFINE t == A1 \o A2
      <3>7. IsSeq(t)
        BY <3>4, <3>5, ListConcat
      <3>8. M = t \o A3
        BY <3>3
      <3> HIDE DEF t
      <3>9. t \o A3 # <<>>
        BY <3>6, <3>7, NotEmpty
      <3>10. QED
        BY <3>2, <3>8, <3>9
    <2>15. r.steps \o M # <<>>
      BY <2>7, <2>14, NotEmpty
    <2> HIDE DEF to, from
    <2>16. OnCourse(At4(r.steps \o MoveList(fat, p, r.at, e, Shrink(r), to, from), table, disk, r.fat, k, G), entries, Root)
      BY <1>1, <2>2, <2>4, <2>5, <2>6, <2>9, <2>11, <2>12, <2>13, MoveCourse
    <2>17. OnCourse(At4(r.steps \o M, table, disk, r.fat, k, G), entries, Root)
      BY <2>10, <2>16
    <2>18. G = (entries \ {Rec(disk, s, p)}) \cup New(d, e)
      <3>1. Rec(disk, s, p) \notin New(d, e)
        BY <1>1 DEF Rec, New
      <3>2. QED
        BY <3>1
    <2>19. Follows(entries, (entries \ {Rec(disk, s, p)}) \cup New(d, e))
      BY <2>3, <2>4, <2>5, <2>9, <2>11, ShiftFollows
    <2> HIDE DEF G
    <2>20. QED
      BY <1>3, <2>2, <2>15, <2>17, <2>18, <2>19, CallStarts
  <1>6. QED
    BY <1>4, <1>5

-----------------------------------------------------------------------------
(* The device.                                                               *)

LEMMA LastOne ==
  ASSUME NEW t, IsSeq(t), t # <<>>
  PROVE  /\ Len(t) = 1 <=> Tail(t) = <<>>
         /\ Len(t) > 1 => Tail(t) # <<>>
  <1>1. PICK S : t \in Seq(S)
    BY DEF IsSeq
  <1>2. Len(t) \in Nat /\ Len(t) # 0
    BY <1>1
  <1>3. Tail(t) \in Seq(S) /\ Len(Tail(t)) = Len(t) - 1
    BY <1>1, <1>2
  <1>4. Tail(t) = <<>> <=> Len(Tail(t)) = 0
    BY <1>3
  <1>5. QED
    BY <1>2, <1>3, <1>4

LEMMA JobAfter ==
  ASSUME job = [todo |-> job.todo, victim |-> job.victim], NEW rest,
         job' = IF rest = <<>> THEN Idle ELSE [job EXCEPT !.todo = rest]
  PROVE  /\ job'.todo = rest /\ (rest # <<>> => job'.victim = job.victim)
         /\ job' = [todo |-> job'.todo, victim |-> job'.victim]
  <1>1. CASE rest = <<>>
    BY <1>1 DEF Idle
  <1>2. CASE rest # <<>>
    <2>1. job' = [todo |-> rest, victim |-> job.victim]
      BY <1>2
    <2>2. QED
      BY <2>1
  <1>3. QED
    BY <1>1, <1>2

(* Where a step leads, settled. *)
LEMMA SettledState ==
  ASSUME IInv, NEW rest, NEW k \in BOOLEAN, NEW G, NEW h, h \subseteq {"behind"}, k <=> h = {},
         NEW n, job' = IF rest = <<>> THEN Idle ELSE [job EXCEPT !.todo = rest], Settle(n, h),
         OnCourse(At4(rest, table', disk', fat', k, G), entries, job.victim), G = entries \/ Follows(entries, G)
  PROVE  /\ IInv'
         /\ job'.todo = <<>> => entries' = G
         /\ job'.todo # <<>> => entries' = entries
  <1>1. job = [todo |-> job.todo, victim |-> job.victim]
    BY DEF IInv
  <1>2. /\ job'.todo = rest /\ (rest # <<>> => job'.victim = job.victim)
        /\ job' = [todo |-> job'.todo, victim |-> job'.victim]
    BY <1>1, JobAfter
  <1>3. harm' = h \ (IF rest = <<>> /\ table' = fat' THEN {"behind"} ELSE {})
    BY <1>2 DEF Settle
  <1>4. entries' = IF rest = <<>> /\ harm' \subseteq {"behind"} THEN Contents(disk', fat') ELSE entries
    BY <1>2 DEF Settle
  <1> DEFINE T == table'
             D == disk'
             f == fat'
             h2 == harm'
             E2 == entries'
             v2 == job'.victim
             v == job.victim
  <1>5. OnCourse(At4(rest, T, D, f, k, G), entries, v) /\ (rest # <<>> => v2 = v)
    BY <1>2
  <1>6. h2 = h \ (IF rest = <<>> /\ T = f THEN {"behind"} ELSE {})
    BY <1>3
  <1>7. E2 = IF rest = <<>> /\ h2 \subseteq {"behind"} THEN Contents(D, f) ELSE entries
    BY <1>4
  <1> HIDE DEF T, D, f, h2, E2, v2, v
  <1>11. Settling(rest, T, D, f, h, h2, entries, E2, v, v2)
    BY <1>5, <1>6, <1>7 DEF Settling
  <1>8. /\ Safe(rest, v2, T, D, f, h2, E2)
        /\ rest = <<>> => E2 = G
        /\ rest # <<>> => E2 = entries
    BY <1>5, <1>11, Settled
  <1>9. Safe(job'.todo, job'.victim, table', disk', fat', harm', entries')
    BY <1>2, <1>8 DEF T, D, f, h2, E2, v2
  <1>10. QED
    BY <1>2, <1>8, <1>9 DEF IInv, E2

LEMMA SettledHarmed ==
  ASSUME IInv, NEW rest, NEW h, ~(h \subseteq {"behind"}), NEW n,
         job' = IF rest = <<>> THEN Idle ELSE [job EXCEPT !.todo = rest], Settle(n, h)
  PROVE  IInv' /\ entries' = entries /\ ~(harm' \subseteq {"behind"})
  <1>1. job = [todo |-> job.todo, victim |-> job.victim]
    BY DEF IInv
  <1>2. job' = [todo |-> job'.todo, victim |-> job'.victim]
    BY <1>1, JobAfter
  <1>3. ~(harm' \subseteq {"behind"})
    BY DEF Settle
  <1>4. entries' = entries
    BY <1>3 DEF Settle
  <1>5. QED
    BY <1>2, <1>3, <1>4 DEF IInv, Safe

(* What the invariant says of a call under way. *)
LEMMA UnderWay ==
  ASSUME IInv, harm \subseteq {"behind"}
  PROVE  \E k, G :
           /\ k \in BOOLEAN
           /\ k <=> harm = {}
           /\ G = entries \/ Follows(entries, G)
           /\ OnCourse(At4(job.todo, table, disk, fat, k, G), entries, job.victim)
           /\ IsSeq(job.todo)
           /\ job.todo # <<>> /\ Head(job.todo).kind = "undo" => G = entries
  <1>1. PICK k, G :
           /\ k \in BOOLEAN
           /\ k <=> harm = {}
           /\ G = entries \/ Follows(entries, G)
           /\ OnCourse(At4(job.todo, table, disk, fat, k, G), entries, job.victim)
    BY DEF IInv, Safe
  <1> DEFINE x == At4(job.todo, table, disk, fat, k, G)
  <1>2. x.todo = job.todo /\ x.goal = G
    BY ConfigIs
  <1> HIDE DEF x
  <1>3. Fair(x, entries, job.victim)
    BY <1>1, Proceeds DEF x
  <1>4. IsSeq(job.todo) /\ (job.todo # <<>> /\ Head(job.todo).kind = "undo" => G = entries)
    BY <1>2, <1>3 DEF Fair
  <1>5. QED
    BY <1>1, <1>4

LEMMA WriteKeeps ==
  ASSUME IInv, DeviceWrites
  PROVE  /\ IInv'
         /\ entries' = entries \/ Follows(entries, entries')
         /\ Head(job.todo).kind = "undo" \/ (Len(job.todo) > 1 /\ job'.todo = <<>> /\ harm' \subseteq {"behind"})
            => entries' = entries
  <1> DEFINE w == Head(job.todo).write
             rest == Tail(job.todo)
  <1>1. /\ job.todo # <<>> /\ fat' = fat /\ Settle(0, harm)
        /\ job' = IF Len(job.todo) = 1 THEN Idle ELSE [job EXCEPT !.todo = rest]
    BY SMTT(30) DEF DeviceWrites, Ready
  <1>2. table' = Tabled(w, table) /\ disk' = Written(w, disk)
    BY DEF DeviceWrites, Tabled, Written, Put, Fill
  <1>3. CASE ~(harm \subseteq {"behind"})
    <2>1. harm' = harm \ (IF job'.todo = <<>> /\ table' = fat' THEN {"behind"} ELSE {})
      BY <1>1 DEF Settle
    <2>2. ~(harm' \subseteq {"behind"})
      BY <1>3, <2>1
    <2>3. entries' = entries
      BY <1>1, <2>2 DEF Settle
    <2>4. job = [todo |-> job.todo, victim |-> job.victim]
      BY DEF IInv
    <2>5. job' = [todo |-> job'.todo, victim |-> job'.victim]
      <3>1. CASE Len(job.todo) = 1
        BY <1>1, <3>1 DEF Idle
      <3>2. CASE Len(job.todo) # 1
        BY <1>1, <2>4, <3>2
      <3>3. QED
        BY <3>1, <3>2
    <2>6. QED
      BY <2>2, <2>3, <2>5 DEF IInv, Safe
  <1>4. CASE harm \subseteq {"behind"}
    <2>1. PICK k, G :
           /\ k \in BOOLEAN
           /\ k <=> harm = {}
           /\ G = entries \/ Follows(entries, G)
           /\ OnCourse(At4(job.todo, table, disk, fat, k, G), entries, job.victim)
           /\ IsSeq(job.todo)
           /\ job.todo # <<>> /\ Head(job.todo).kind = "undo" => G = entries
      BY <1>4, UnderWay
    <2> DEFINE x == At4(job.todo, table, disk, fat, k, G)
    <2>2. x.todo = job.todo /\ x.table = table /\ x.disk = disk /\ x.fat = fat /\ x.clean = k /\ x.goal = G
      BY ConfigIs
    <2>3. OnCourse(x, entries, job.victim)
      BY <2>1
    <2> HIDE DEF x
    <2>4. Leads(x, Took(x), entries)
      BY <1>1, <2>2 DEF Leads
    <2>5. OnCourse(Took(x), entries, job.victim)
      BY <2>3, <2>4, Proceeds
    <2>6. Took(x) = At4(rest, Tabled(w, table), Written(w, disk), fat, k, G)
      BY <2>2 DEF Took
    <2>7. OnCourse(At4(rest, table', disk', fat', k, G), entries, job.victim)
      BY <1>1, <1>2, <2>5, <2>6
    <2>8. (Len(job.todo) = 1 <=> rest = <<>>) /\ (Len(job.todo) > 1 => rest # <<>>)
      BY <1>1, <2>1, LastOne
    <2>9. job' = IF rest = <<>> THEN Idle ELSE [job EXCEPT !.todo = rest]
      BY <1>1, <2>8
    <2> HIDE DEF rest, w
    <2>10. /\ IInv'
           /\ job'.todo = <<>> => entries' = G
           /\ job'.todo # <<>> => entries' = entries
      BY <1>1, <1>4, <2>1, <2>7, <2>9, SettledState
    <2>11. job'.todo = rest
      BY <2>9, JobAfter DEF IInv
    <2>12. QED
      BY <1>1, <2>1, <2>8, <2>10, <2>11
  <1>5. QED
    BY <1>3, <1>4, SMTT(30)

LEMMA FailKeeps ==
  ASSUME IInv, DeviceFails
  PROVE  IInv' /\ entries' = entries
  <1> DEFINE s == Head(job.todo)
             rest == IF s.kind = "undo" THEN GoOn(job.todo) ELSE Steps(s.undo, "undo", s.back, <<>>)
             X == IF s.kind = "undo" /\ s.write.to = "fat" THEN {"behind"} ELSE {s.kind} \ {"step"}
             h == harm \cup X
  <1>1. /\ job.todo # <<>> /\ fat' = s.back /\ table' = table /\ disk' = disk /\ Settle(1, h)
        /\ job' = IF rest = <<>> THEN Idle ELSE [job EXCEPT !.todo = rest]
        /\ s.kind \in Failing \cup {"undo"}
    BY DEF DeviceFails, Ready
  <1>2. s.kind \in {"step", "behind", "free", "undo"}
    BY <1>1, TreeAssumption DEF Kinds
  <1>3. CASE ~(h \subseteq {"behind"})
    <2> HIDE DEF h, rest
    <2>1. QED
      BY <1>1, <1>3, SettledHarmed
  <1>4. CASE h \subseteq {"behind"}
    <2>1. harm \subseteq {"behind"}
      BY <1>4
    <2>2. PICK k, G :
           /\ k \in BOOLEAN
           /\ k <=> harm = {}
           /\ G = entries \/ Follows(entries, G)
           /\ OnCourse(At4(job.todo, table, disk, fat, k, G), entries, job.victim)
           /\ IsSeq(job.todo)
           /\ job.todo # <<>> /\ Head(job.todo).kind = "undo" => G = entries
      BY <2>1, UnderWay
    <2> DEFINE x == At4(job.todo, table, disk, fat, k, G)
    <2>3. x.todo = job.todo /\ x.table = table /\ x.disk = disk /\ x.fat = fat /\ x.clean = k /\ x.goal = G
      BY ConfigIs
    <2>4. OnCourse(x, entries, job.victim)
      BY <2>2
    <2> HIDE DEF x
    <2>5. \E j \in BOOLEAN : (j <=> h = {}) /\ OnCourse(At4(rest, table, disk, s.back, j, entries), entries, job.victim)
      <3>1. CASE s.kind = "undo"
        <4>1. s.write.to = "fat"
          BY <1>4, <3>1
        <4>2. Leads(x, GoingOn(x, entries), entries)
          BY <1>1, <2>3, <3>1, <4>1 DEF Leads
        <4>3. GoingOn(x, entries) = At4(rest, table, disk, s.back, FALSE, entries)
          BY <2>3, <3>1 DEF GoingOn
        <4>4. h # {}
          BY <3>1, <4>1
        <4>5. OnCourse(At4(rest, table, disk, s.back, FALSE, entries), entries, job.victim)
          BY <2>4, <4>2, <4>3, Proceeds
        <4> HIDE DEF rest, h
        <4>6. QED
          BY <4>4, <4>5
      <3>2. CASE s.kind \in {"step", "behind"}
        <4>1. Leads(x, Undoing(x, entries), entries)
          BY <1>1, <2>3, <3>2 DEF Leads
        <4>2. OnCourse(Undoing(x, entries), entries, job.victim)
          BY <2>4, <4>1, Proceeds
        <4>3. rest = Steps(s.undo, "undo", s.back, <<>>)
          BY <3>2
        <4>4. Undoing(x, entries) = At4(rest, table, disk, s.back, IF s.kind = "step" THEN k ELSE FALSE, entries)
          BY <2>3, <4>3 DEF Undoing
        <4> HIDE DEF rest
        <4>5. CASE s.kind = "step"
          <5>1. h = harm
            BY <4>5
          <5>2. OnCourse(At4(rest, table, disk, s.back, k, entries), entries, job.victim)
            BY <4>2, <4>4, <4>5
          <5> HIDE DEF h
          <5>3. QED
            BY <2>2, <5>1, <5>2
        <4>6. CASE s.kind = "behind"
          <5>1. h # {}
            BY <4>6
          <5>2. OnCourse(At4(rest, table, disk, s.back, FALSE, entries), entries, job.victim)
            BY <4>2, <4>4, <4>6
          <5> HIDE DEF h
          <5>3. QED
            BY <5>1, <5>2
        <4>7. QED
          BY <3>2, <4>5, <4>6
      <3>3. CASE s.kind = "free"
        BY <1>4, <3>3
      <3>4. QED
        BY <1>2, <3>1, <3>2, <3>3
    <2>6. PICK j \in BOOLEAN : (j <=> h = {}) /\ OnCourse(At4(rest, table, disk, s.back, j, entries), entries, job.victim)
      BY <2>5
    <2> HIDE DEF h, rest, s
    <2>7. OnCourse(At4(rest, table', disk', fat', j, entries), entries, job.victim)
      BY <1>1, <2>6
    <2>8. /\ IInv'
          /\ job'.todo = <<>> => entries' = entries
          /\ job'.todo # <<>> => entries' = entries
      BY <1>1, <1>4, <2>6, <2>7, SettledState
    <2>9. QED
      BY <2>8
  <1>5. QED
    BY <1>3, <1>4

-----------------------------------------------------------------------------
(* The specification.                                                        *)

LEMMA FirstDisk ==
  ASSUME Init
  PROVE  Volume(disk, fat, {Root}, {}) /\ table \in Fats /\ Covers(table, fat)
  <1>1. /\ fat = EmptyFat /\ table = EmptyFat
        /\ disk = [c \in Heads |->
                     IF c = Root THEN [k \in 1 .. RootSlots |-> Deleted]
                     ELSE [Dots(c, c - 1) EXCEPT ![3] = IF c < NumClusters THEN Deleted ELSE End]]
    BY DEF Init
  <1>2. /\ fat \in Fats /\ table \in Fats /\ Covers(table, fat)
        /\ \A c \in Clusters : fat[c] = FREE
    BY <1>1, Numbers DEF EmptyFat, Fats, Covers
  <1>3. disk[Root] = [k \in 1 .. RootSlots |-> Deleted] /\ Root \in Heads
    BY <1>1, HeadsAre
  <1>4. IsDisk(disk)
    <2>1. ASSUME NEW c \in Heads PROVE disk[c] \in [1 .. Slots(c) -> Records]
      <3>1. CASE c = Root
        BY <1>3, <3>1, HeadsAre, KindsOf
      <3>2. CASE c # Root
        <4>1. c \in Clusters /\ c - 1 \in Heads /\ Slots(c) = ClusterSlots
          BY <3>2, HeadsAre, Numbers DEF Heads, Clusters, Root
        <4>2. Dots(c, c - 1) \in [1 .. ClusterSlots -> Records]
          BY <4>1, DotsAre
        <4> DEFINE x == Dots(c, c - 1)
                   e == IF c < NumClusters THEN Deleted ELSE End
        <4>3. disk[c] = [x EXCEPT ![3] = e] /\ e \in Records
          BY <1>1, <3>2, KindsOf
        <4> HIDE DEF x, e
        <4>4. QED
          BY <4>1, <4>2, <4>3 DEF x
      <3>3. QED
        BY <3>1, <3>2
    <2>2. disk = [c \in Heads |-> disk[c]]
      BY <1>1
    <2>3. \A c \in Heads : disk[c] \in UNION {[1 .. Slots(x) -> Records] : x \in Heads}
      BY <2>1
    <2>4. disk \in [Heads -> UNION {[1 .. Slots(c) -> Records] : c \in Heads}]
      BY <2>2, <2>3
    <2>5. QED
      BY <2>1, <2>4 DEF IsDisk
  <1>5. \A p \in Places(fat, Root) : At(disk, p) = Deleted
    <2>1. SUFFICES ASSUME NEW p \in Places(fat, Root) PROVE At(disk, p) = Deleted
      OBVIOUS
    <2>2. p[1] = Root /\ p[2] \in 1 .. RootSlots
      BY PlaceIs, HeadsAre, AreaIs
    <2>3. QED
      BY <1>3, <2>2 DEF At
  <1>6. Named(disk, fat, Root) = {}
    BY <1>5, KindsOf DEF Named
  <1>7. Rows(disk, fat, Root)
    BY <1>5, <1>6, KindsOf DEF Rows, EndsLast
  <1>8. Shape(disk, fat, {Root})
    BY <1>3, <1>7 DEF Shape, Apart
  <1>9. Reached(disk, fat) = {Root}
    <2>1. Kids(disk, fat, Root) = {}
      BY <1>3, <1>4, <1>6, <1>7, KidsAre DEF Rows
    <2>2. Reached(disk, fat) \subseteq {Root}
      BY <2>1, ReachedLeast
    <2>3. QED
      BY <2>2, ReachedClosed
  <1>10. Stands(disk, fat, {Root})
    BY <1>8, <1>9 DEF Stands
  <1>11. Contents(disk, fat) = {}
    BY <1>6, <1>10, ContentsAre
  <1>12. Linked(disk, fat, {Root}) /\ Used(fat, {Root})
    BY <1>2, <1>6 DEF Linked, Used
  <1>13. QED
    BY <1>2, <1>4, <1>10, <1>11, <1>12 DEF Volume

LEMMA IdleIsSafe ==
  ASSUME NEW t, t = <<>>, NEW v, NEW T, NEW D, NEW f, NEW k \in BOOLEAN, NEW h, k <=> h = {},
         NEW E, OnCourse(At4(t, T, D, f, k, E), E, v)
  PROVE  Safe(t, v, T, D, f, h, E)
  BY DEF Safe

LEMMA InitInv == Init => IInv
  <1>1. SUFFICES ASSUME Init PROVE IInv
    OBVIOUS
  <1>2. Volume(disk, fat, {Root}, {}) /\ table \in Fats /\ Covers(table, fat)
    BY <1>1, FirstDisk
  <1>3. job = Idle /\ harm = {} /\ entries = {}
    BY <1>1 DEF Init
  <1>4. job.todo = <<>> /\ job = [todo |-> job.todo, victim |-> job.victim]
    BY <1>3 DEF Idle
  <1>5. Within({}, job.victim, {Root})
    BY DEF Within
  <1>6. PICK k \in BOOLEAN : k <=> harm = {}
    OBVIOUS
  <1>7. OnCourse(At4(job.todo, table, disk, fat, k, entries), entries, job.victim)
    BY <1>2, <1>3, <1>4, <1>5, Rests
  <1>8. Safe(job.todo, job.victim, table, disk, fat, harm, entries)
    BY <1>4, <1>6, <1>7, IdleIsSafe
  <1>9. QED
    BY <1>4, <1>8 DEF IInv

(* A step as the tree sees it. *)
Kept == entries' = entries \/ Follows(entries, entries')

LEMMA CallsKeepEntries ==
  ASSUME NEW cache, NEW todo, NEW victim, Call(cache, todo, victim)
  PROVE  entries' = entries
  BY DEF Call

LEMMA NextKeeps ==
  ASSUME ~StaleRenames, IInv, [Next]_vars
  PROVE  IInv' /\ Kept
  <1>1. ASSUME NEW d \in Heads, NEW n \in Names, Create(d, n) PROVE IInv' /\ Kept
    BY <1>1, CreateKeeps, CallsKeepEntries DEF Create, Kept
  <1>2. ASSUME NEW d \in Heads, NEW n \in Names, MkDir(d, n) PROVE IInv' /\ Kept
    BY <1>2, MkDirKeeps, CallsKeepEntries DEF MkDir, Kept
  <1>3. ASSUME NEW d \in Heads, NEW n \in Names, Unlink(d, n) PROVE IInv' /\ Kept
    BY <1>3, UnlinkKeeps, CallsKeepEntries DEF Unlink, Kept
  <1>4. ASSUME NEW d \in Heads, NEW n \in Names, RmDir(d, n) PROVE IInv' /\ Kept
    BY <1>4, RmDirKeeps, CallsKeepEntries DEF RmDir, Kept
  <1>5. ASSUME NEW d \in Heads, NEW o \in Names, NEW n \in Names, Rename(d, o, n), d \in Reached(disk, fat)
        PROVE  IInv' /\ Kept
    BY <1>5, RenameKeeps, CallsKeepEntries DEF Rename, Kept
  <1>6. ASSUME NEW s \in Heads, NEW d \in Heads, NEW o \in Names, NEW n \in Names, Move(s, o, d, n)
        PROVE  IInv' /\ Kept
    BY <1>6, MoveKeeps, CallsKeepEntries DEF Move, Kept
  <1>7. CASE DeviceWrites
    BY <1>7, WriteKeeps DEF Kept
  <1>8. CASE DeviceFails
    BY <1>8, FailKeeps DEF Kept
  <1>9. CASE UNCHANGED vars
    BY <1>9 DEF vars, IInv, Kept
  <1>10. QED
    BY <1>1, <1>2, <1>3, <1>4, <1>5, <1>6, <1>7, <1>8, <1>9 DEF Next

-----------------------------------------------------------------------------

LEMMA InvSound == IInv => TreeSound
  <1>1. CASE ~(Ready /\ harm \subseteq {"behind"})
    BY <1>1 DEF TreeSound, NoNameTwice
  <1>2. ASSUME IInv, Ready, harm \subseteq {"behind"} PROVE TreeSound
    <2>1. PICK R : \E k \in BOOLEAN : (k <=> harm = {}) /\ Resting(disk, fat, R, entries, table, k)
      BY <1>2, Called
    <2>2. Volume(disk, fat, R, entries)
      BY <2>1 DEF Resting
    <2>3. /\ IsDisk(disk) /\ Stands(disk, fat, R) /\ Shape(disk, fat, R) /\ Linked(disk, fat, R) /\ Used(fat, R)
          /\ R = Reached(disk, fat) /\ Apart(fat, R)
      BY <2>2 DEF Volume, Stands, Shape
    <2>4. \A x : x \in Contents(disk, fat) <=> \E d \in R : \E p \in Named(disk, fat, d) : x = Rec(disk, d, p)
      BY <2>3, ContentsAre
    <2>5. NoNameTwice
      <3>1. \A d \in R : Live(disk, fat, d) = Named(disk, fat, d)
        BY <2>2, MatchesAre
      <3>2. \A d \in R : \A p, q \in Named(disk, fat, d) : At(disk, p).name = At(disk, q).name => p = q
        BY <2>3 DEF Shape, Rows
      <3>3. QED
        BY <2>3, <3>1, <3>2 DEF NoNameTwice
    <2>6. \A d \in R : d # Root => Proper(fat, d) /\ Area(fat, d) = Visited(fat, d) /\ d \in Heads
      BY <2>3, MemberIs
    <2>7. ASSUME NEW x \in Contents(disk, fat), x.id # 0
          PROVE  \E d \in R : \E p \in Named(disk, fat, d) :
                   x = Rec(disk, d, p) /\ At(disk, p).kind = "dir" /\ At(disk, p).start = x.id /\ x.in = d
      <3>1. PICK d \in R : \E p \in Named(disk, fat, d) : x = Rec(disk, d, p)
        BY <2>4
      <3>2. PICK p \in Named(disk, fat, d) : x = Rec(disk, d, p)
        BY <3>1
      <3>3. d \in Heads
        BY <2>3, MemberIs
      <3>4. At(disk, p).kind \in {"file", "dir"} /\ (At(disk, p).kind = "file" => At(disk, p).start = 0)
        BY <2>3, <3>3, NamedIs
      <3>5. QED
        BY <2>7, <3>2, <3>4 DEF Rec
    <2>8. Branches(disk, fat)
      <3>1. \A d \in R \ {Root} : \E c \in Visited(fat, d) : fat[c] = EOC
        BY <2>6 DEF Proper
      <3>2. \A d, g \in R \ {Root} : d # g => Visited(fat, d) \cap Visited(fat, g) = {}
        BY <2>3, <2>6 DEF Apart
      <3>3. ASSUME NEW x \in Contents(disk, fat), NEW y \in Contents(disk, fat), x.id = y.id, x.id # 0
            PROVE  x = y
        <4>1. PICK d \in R : \E p \in Named(disk, fat, d) :
                   x = Rec(disk, d, p) /\ At(disk, p).kind = "dir" /\ At(disk, p).start = x.id
          BY <2>7, <3>3
        <4>2. PICK p \in Named(disk, fat, d) :
                   x = Rec(disk, d, p) /\ At(disk, p).kind = "dir" /\ At(disk, p).start = x.id
          BY <4>1
        <4>3. PICK g \in R : \E q \in Named(disk, fat, g) :
                   y = Rec(disk, g, q) /\ At(disk, q).kind = "dir" /\ At(disk, q).start = y.id
          BY <2>7, <3>3
        <4>4. PICK q \in Named(disk, fat, g) :
                   y = Rec(disk, g, q) /\ At(disk, q).kind = "dir" /\ At(disk, q).start = y.id
          BY <4>3
        <4>5. d = g /\ p = q
          BY <2>3, <3>3, <4>2, <4>4, OneName
        <4>6. QED
          BY <4>2, <4>4, <4>5
      <3>4. QED
        BY <2>3, <3>1, <3>2, <3>3 DEF Branches
    <2>9. ASSUME NEW x \in Contents(disk, fat), x.id # 0
          PROVE  disk[x.id][1] = Dot(x.id) /\ disk[x.id][2] = DotDot(x.in)
      <3>1. PICK d \in R : \E p \in Named(disk, fat, d) :
                   At(disk, p).kind = "dir" /\ At(disk, p).start = x.id /\ x.in = d
        BY <2>7, <2>9
      <3>2. PICK p \in Named(disk, fat, d) : At(disk, p).kind = "dir" /\ At(disk, p).start = x.id /\ x.in = d
        BY <3>1
      <3>3. x.id \in R /\ x.id # Root
        BY <2>3, <3>2, KidIs
      <3>4. disk[x.id][1] = Dot(x.id)
        BY <2>3, <3>3, MemberIs
      <3>5. disk[x.id][2] = DotDot(x.in)
        BY <2>3, <3>2 DEF Linked
      <3>6. QED
        BY <3>4, <3>5
    <2>10. Clusters \ FreeClusters(fat) = UNION {Visited(fat, d) : d \in R \ {Root}}
      <3>1. ASSUME NEW c \in Clusters, fat[c] # FREE PROVE \E d \in R \ {Root} : c \in Visited(fat, d)
        <4>1. PICK d \in R : c \in Area(fat, d)
          BY <2>3, <3>1 DEF Used
        <4>2. d # Root
          BY <4>1, AreaIs, HeadsAre
        <4>3. QED
          BY <2>6, <4>1, <4>2
      <3>2. ASSUME NEW d \in R \ {Root}, NEW c \in Visited(fat, d) PROVE c \in Clusters /\ fat[c] # FREE
        BY <2>6, ChainLinks
      <3>3. QED
        BY <3>1, <3>2 DEF FreeClusters
    <2>11. QED
      BY <2>3, <2>5, <2>8, <2>9, <2>10 DEF TreeSound
  <1>3. QED
    BY <1>1, <1>2

LEMMA InvCut == IInv => NothingLostByACut
  <1>1. SUFFICES ASSUME IInv, harm = {}
                 PROVE  CutSafe(disk, table, entries, job.victim)
    BY DEF NothingLostByACut, CutSafe
  <1>2. PICK k, G :
           k /\ OnCourse(At4(job.todo, table, disk, fat, k, G), entries, job.victim)
    BY <1>1 DEF IInv, Safe
  <1> DEFINE x == At4(job.todo, table, disk, fat, k, G)
  <1>3. x.table = table /\ x.disk = disk /\ x.clean = k
    BY ConfigIs
  <1> HIDE DEF x
  <1>4. Fair(x, entries, job.victim)
    BY <1>2, Proceeds DEF x
  <1>5. QED
    BY <1>2, <1>3, <1>4 DEF Fair

(* Whatever calls were made through whatever numbers, and whatever failed and
   was rolled back, the volume is a tree between calls (fat12.c's subdirectory
   calls), provided that names are changed only in directories of the tree. *)
THEOREM TreeStaysSound == ASSUME ~StaleRenames PROVE Spec => []TreeSound
  <1>1. Init => IInv
    BY InitInv
  <1>2. IInv /\ [Next]_vars => IInv'
    BY NextKeeps
  <1>3. IInv => TreeSound
    BY InvSound
  <1>4. QED
    BY <1>1, <1>2, <1>3, PTL DEF Spec

(* A power failure between any two sector writes of any call costs no directory
   that the tree held, and no chain its end (fat12_read_fat reads the first
   copy). *)
THEOREM CutsLoseNothing == ASSUME ~StaleRenames PROVE Spec => []NothingLostByACut
  <1>1. Init => IInv
    BY InitInv
  <1>2. IInv /\ [Next]_vars => IInv'
    BY NextKeeps
  <1>3. IInv => NothingLostByACut
    BY InvCut
  <1>4. QED
    BY <1>1, <1>2, <1>3, PTL DEF Spec

(* A call that the device refuses leaves the tree as it found it, unless a write
   of its rollback is refused as well (fat12_move_dirent and the others). *)
THEOREM RefusalsChangeNothing == ASSUME ~StaleRenames PROVE Spec => RefusedCallsChangeNothing
  <1>1. Init => IInv
    BY InitInv
  <1>2. IInv /\ [Next]_vars => IInv'
    BY NextKeeps
  <1>3. IInv /\ [Next]_vars =>
          [/\ ~Ready /\ job'.todo = <<>> /\ harm' \subseteq {"behind"}
           /\ Head(job.todo).kind = "undo" \/ Len(job.todo) > 1
           => entries' = entries]_vars
    <2>1. SUFFICES ASSUME IInv, Next, ~Ready, job'.todo = <<>>, harm' \subseteq {"behind"},
                          Head(job.todo).kind = "undo" \/ Len(job.todo) > 1
                   PROVE  entries' = entries
      OBVIOUS
    <2>2. DeviceWrites \/ DeviceFails
      BY <2>1 DEF Next, Create, MkDir, Unlink, RmDir, Rename, Move
    <2>3. CASE DeviceWrites
      BY <2>1, <2>3, WriteKeeps
    <2>4. CASE DeviceFails
      BY <2>1, <2>4, FailKeeps
    <2>5. QED
      BY <2>2, <2>3, <2>4
  <1>4. QED
    BY <1>1, <1>2, <1>3, PTL DEF Spec, RefusedCallsChangeNothing

(* Every call is one whole operation on a tree of folders, or none: the volume
   implements Folders. *)
THEOREM VolumeKeepsPromise == ASSUME ~StaleRenames PROVE Spec => KeepsPromise
  <1>1. Init => IInv /\ Promise!Init
    BY InitInv DEF Init, Promise!Init
  <1>2. IInv /\ [Next]_vars => IInv'
    BY NextKeeps
  <1>3. IInv /\ [Next]_vars => [Promise!Next]_entries
    <2>1. SUFFICES ASSUME IInv, [Next]_vars PROVE Promise!Next \/ entries' = entries
      OBVIOUS
    <2>2. entries' = entries \/ Follows(entries, entries')
      BY <2>1, NextKeeps DEF Kept
    <2>3. QED
      BY <2>2, FollowsIsNext
  <1>4. QED
    BY <1>1, <1>2, <1>3, PTL DEF Spec, KeepsPromise, Promise!Spec

=============================================================================
