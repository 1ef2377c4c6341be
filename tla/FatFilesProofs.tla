--------------------------- MODULE FatFilesProofs ---------------------------
(* Proofs about FatFiles, for every size of the volume and the directory.   *)
EXTENDS FatFiles, FiniteSetTheorems, SequenceTheorems, WellFoundedInduction, TLAPS

-----------------------------------------------------------------------------
(* Induction over a set of numbers.                                         *)

LEMMA UpTo ==
  ASSUME NEW n \in Nat, NEW T, 0 \in T, \A k \in 0 .. n - 1 : k \in T => k + 1 \in T
  PROVE  \A k \in 0 .. n : k \in T
  <1> DEFINE S == {k \in 0 .. n : k \notin T}
  <1>1. SUFFICES ASSUME S # {} PROVE FALSE
    OBVIOUS
  <1>2. S \subseteq Nat
    OBVIOUS
  <1>3. PICK m \in S : \A k \in S : <<k, m>> \notin OpToRel(<, Nat)
    BY <1>1, <1>2, NatLessThanWellFounded, WFMin
  <1>4. m \in 0 .. n /\ m # 0
    OBVIOUS
  <1>5. m - 1 \in 0 .. n - 1 /\ m - 1 \in Nat /\ m \in Nat /\ m - 1 < m /\ (m - 1) + 1 = m
    BY <1>4
  <1>6. m - 1 \notin S
    BY <1>3, <1>5 DEF OpToRel
  <1>7. m - 1 \in T
    BY <1>5, <1>6
  <1>8. m \in T
    BY <1>5, <1>7
  <1>9. QED
    BY <1>8

-----------------------------------------------------------------------------
(* Chains. *)

(* One link. *)
Hop(f, c) == IF c \in Clusters THEN f[c] ELSE c

(* g lists the first links of a walk.                                       *)
Walk(f, s, k, g) == g = [i \in 0 .. k |-> IF i = 0 THEN s ELSE Hop(f, g[i - 1])]

Hops(f, s, k, g) == g[0] = s /\ \A i \in 1 .. k : g[i] = Hop(f, g[i - 1])

LEMMA WalkIs ==
  ASSUME NEW f, NEW s, NEW k \in Nat, NEW g, Walk(f, s, k, g)
  PROVE  Hops(f, s, k, g)
  <1>1. \A i \in 0 .. k : g[i] = IF i = 0 THEN s ELSE Hop(f, g[i - 1])
    BY DEF Walk
  <1>2. 0 \in 0 .. k /\ \A i \in 1 .. k : i \in 0 .. k /\ i # 0
    OBVIOUS
  <1>3. QED
    BY <1>1, <1>2 DEF Hops

LEMMA WalkExists ==
  ASSUME NEW f, NEW s, NEW n \in Nat
  PROVE  \E g : Walk(f, s, n, g)
  <1> DEFINE T == {k \in 0 .. n : \E g : Walk(f, s, k, g)}
  <1>1. 0 \in T
    <2> DEFINE g == [i \in 0 .. 0 |-> s]
    <2>1. g = [i \in 0 .. 0 |-> IF i = 0 THEN s ELSE Hop(f, g[i - 1])]
      OBVIOUS
    <2> HIDE DEF g
    <2>2. Walk(f, s, 0, g) /\ 0 \in 0 .. n
      BY <2>1 DEF Walk
    <2>3. QED
      BY <2>2
  <1>2. ASSUME NEW k \in 0 .. n - 1, k \in T PROVE k + 1 \in T
    <2>1. PICK g : Walk(f, s, k, g)
      BY <1>2
    <2>2. g[0] = s /\ \A i \in 1 .. k : g[i] = Hop(f, g[i - 1])
      <3>1. k \in Nat
        OBVIOUS
      <3>2. Hops(f, s, k, g)
        BY <2>1, <3>1, WalkIs
      <3>3. QED
        BY <3>2 DEF Hops
    <2> DEFINE h == [i \in 0 .. k + 1 |-> IF i = k + 1 THEN Hop(f, g[k]) ELSE g[i]]
    <2>3. ASSUME NEW i \in 0 .. k + 1
          PROVE  h[i] = IF i = 0 THEN s ELSE Hop(f, h[i - 1])
      <3>1. CASE i = 0
        <4>1. h[0] = g[0]
          BY <3>1
        <4>2. QED
          BY <2>2, <3>1, <4>1
      <3>2. CASE i = k + 1
        <4>1. h[k + 1] = Hop(f, g[k]) /\ h[k] = g[k] /\ (k + 1) - 1 = k /\ k + 1 # 0
          OBVIOUS
        <4> HIDE DEF h
        <4>2. QED
          BY <3>2, <4>1
      <3>3. CASE i \in 1 .. k
        <4>1. h[i] = g[i] /\ h[i - 1] = g[i - 1]
          BY <3>3
        <4> HIDE DEF h
        <4>2. QED
          BY <2>2, <3>3, <4>1
      <3>4. QED
        BY <3>1, <3>2, <3>3
    <2>4. h = [i \in 0 .. k + 1 |-> h[i]]
      OBVIOUS
    <2> HIDE DEF h
    <2>5. h = [i \in 0 .. k + 1 |-> IF i = 0 THEN s ELSE Hop(f, h[i - 1])]
      BY <2>3, <2>4
    <2>6. Walk(f, s, k + 1, h) /\ k + 1 \in 0 .. n
      BY <2>5 DEF Walk
    <2>7. QED
      BY <2>6
  <1> HIDE DEF T
  <1>3. \A k \in 0 .. n : k \in T
    BY <1>1, <1>2, UpTo
  <1>4. n \in T
    BY <1>3
  <1>5. QED
    BY <1>4 DEF T

LEMMA WalkUnique ==
  ASSUME NEW f, NEW s, NEW k \in Nat, NEW m \in Nat, k <= m,
         NEW g, Walk(f, s, k, g), NEW h, Walk(f, s, m, h)
  PROVE  \A i \in 0 .. k : g[i] = h[i]
  <1>1. /\ g[0] = s /\ \A i \in 1 .. k : g[i] = Hop(f, g[i - 1])
        /\ h[0] = s /\ \A i \in 1 .. m : h[i] = Hop(f, h[i - 1])
    BY WalkIs DEF Hops
  <1> DEFINE T == {i \in 0 .. k : g[i] = h[i]}
  <1>2. 0 \in T
    BY <1>1
  <1>3. ASSUME NEW i \in 0 .. k - 1, i \in T PROVE i + 1 \in T
    <2>1. i + 1 \in 1 .. k /\ i + 1 \in 1 .. m /\ i + 1 \in 0 .. k /\ (i + 1) - 1 = i
      OBVIOUS
    <2>2. g[i + 1] = Hop(f, g[i]) /\ h[i + 1] = Hop(f, h[i])
      BY <1>1, <2>1
    <2>3. QED
      BY <1>3, <2>1, <2>2
  <1> HIDE DEF T
  <1>4. \A i \in 0 .. k : i \in T
    BY <1>2, <1>3, UpTo
  <1>5. QED
    BY <1>4 DEF T

(* A walk goes on by the link of the node it has reached.                   *)
LEMMA NodeStep ==
  ASSUME NEW f, NEW s
  PROVE  /\ Node(f, s, 0) = s
         /\ \A k \in Nat : Node(f, s, k + 1) = Hop(f, Node(f, s, k))
  <1> DEFINE W(k) == CHOOSE g : Walk(f, s, k, g)
  <1>1. \A k \in Nat : Walk(f, s, k, W(k))
    BY WalkExists
  <1>2. \A k \in Nat : Node(f, s, k) = W(k)[k]
    BY Zenon DEF Node, Walk, Hop
  <1> HIDE DEF W
  <1>3. Node(f, s, 0) = s
    <2>1. 0 \in Nat
      OBVIOUS
    <2>2. W(0)[0] = s
      BY <1>1, <2>1, WalkIs DEF Hops
    <2>3. QED
      BY <1>2, <2>1, <2>2
  <1>4. ASSUME NEW k \in Nat PROVE Node(f, s, k + 1) = Hop(f, Node(f, s, k))
    <2>1. k + 1 \in Nat /\ k <= k + 1 /\ k \in 0 .. k /\ k + 1 \in 1 .. k + 1 /\ (k + 1) - 1 = k
      OBVIOUS
    <2>2. W(k + 1)[k + 1] = Hop(f, W(k + 1)[(k + 1) - 1])
      <3>1. Walk(f, s, k + 1, W(k + 1))
        BY <1>1, <2>1
      <3>2. Hops(f, s, k + 1, W(k + 1))
        BY <2>1, <3>1, WalkIs
      <3>3. QED
        BY <2>1, <3>2 DEF Hops
    <2>3. W(k)[k] = W(k + 1)[k]
      BY <1>1, <2>1, WalkUnique
    <2>4. QED
      BY <1>2, <2>1, <2>2, <2>3
  <1>5. QED
    BY <1>3, <1>4

(* From s, the table f has a chain of n clusters, ended as fat12.c ends it. *)
Ends(f, s, n) == /\ \A k \in 0 .. n - 1 : Node(f, s, k) \in Clusters
                 /\ Node(f, s, n) = EOC

(* The clusters of such a chain. *)
Run(f, s, n) == {Node(f, s, k) : k \in 0 .. n - 1}

LEMMA Numbers == /\ NumClusters \in Nat /\ EOC \in Nat /\ EOC \notin Clusters /\ FREE \notin Clusters
                 /\ EOC # FREE /\ FREE = 0
                 /\ \A c \in Clusters : c \in Nat /\ c # 0 /\ c <= NumClusters
  BY ClustersAssumption DEF EOC, Clusters, FREE

LEMMA HopIs ==
  ASSUME NEW f, NEW s, NEW k \in Nat
  PROVE  /\ Node(f, s, k) \in Clusters => Node(f, s, k + 1) = f[Node(f, s, k)]
         /\ Node(f, s, k) \notin Clusters => Node(f, s, k + 1) = Node(f, s, k)
  BY NodeStep DEF Hop

(* Behind its end a walk stays where it is.                                 *)
LEMMA Stuck ==
  ASSUME NEW f, NEW s, NEW n \in Nat, Node(f, s, n) \notin Clusters, NEW j \in Nat, j >= n
  PROVE  Node(f, s, j) = Node(f, s, n)
  <1> DEFINE T == {i \in 0 .. j - n : Node(f, s, n + i) = Node(f, s, n)}
             m == j - n
  <1>1. m \in Nat /\ j = n + m /\ m \in 0 .. m
    OBVIOUS
  <1>2. 0 \in T
    <2>1. n + 0 = n /\ 0 \in 0 .. j - n
      OBVIOUS
    <2>2. QED
      BY <2>1
  <1>3. ASSUME NEW i \in 0 .. m - 1, i \in T PROVE i + 1 \in T
    <2>1. n + i \in Nat /\ n + (i + 1) = (n + i) + 1 /\ i + 1 \in 0 .. j - n
      OBVIOUS
    <2>2. Node(f, s, n + i) = Node(f, s, n)
      BY <1>3
    <2>3. Node(f, s, (n + i) + 1) = Node(f, s, n + i)
      BY <2>1, <2>2, HopIs
    <2>4. QED
      BY <2>1, <2>2, <2>3
  <1>4. m \in T
    <2> HIDE DEF T, m
    <2>1. \A i \in 0 .. m : i \in T
      BY <1>1, <1>2, <1>3, UpTo
    <2>2. QED
      BY <1>1, <2>1
  <1>5. QED
    BY <1>1, <1>4

(* A chain that ends meets no cluster twice.                                *)
LEMMA Distinct ==
  ASSUME NEW f, NEW s, NEW n \in Nat, Ends(f, s, n),
         NEW j \in 0 .. n - 1, NEW k \in 0 .. n - 1, Node(f, s, j) = Node(f, s, k)
  PROVE  j = k
  <1>1. \A a, b \in 0 .. n - 1 : a < b => Node(f, s, a) # Node(f, s, b)
    <2> SUFFICES ASSUME NEW a \in 0 .. n - 1, NEW b \in 0 .. n - 1, a < b,
                        Node(f, s, a) = Node(f, s, b)
                 PROVE  FALSE
      OBVIOUS
    <2> DEFINE m == n - b
               T == {i \in 0 .. m : Node(f, s, a + i) = Node(f, s, b + i)}
    <2>1. m \in Nat /\ b + m = n /\ a + m \in 0 .. n - 1 /\ m \in 0 .. m
      OBVIOUS
    <2>2. 0 \in T
      <3>1. a + 0 = a /\ b + 0 = b /\ 0 \in 0 .. m
        BY <2>1
      <3>2. QED
        BY <3>1
    <2>3. ASSUME NEW i \in 0 .. m - 1, i \in T PROVE i + 1 \in T
      <3>1. /\ a + i \in Nat /\ b + i \in Nat /\ i + 1 \in 0 .. m
            /\ a + (i + 1) = (a + i) + 1 /\ b + (i + 1) = (b + i) + 1
        OBVIOUS
      <3>2. Node(f, s, a + i) = Node(f, s, b + i)
        BY <2>3
      <3>3. Node(f, s, (a + i) + 1) = Hop(f, Node(f, s, a + i))
            /\ Node(f, s, (b + i) + 1) = Hop(f, Node(f, s, b + i))
        <4>1. \A x \in Nat : Node(f, s, x + 1) = Hop(f, Node(f, s, x))
          BY NodeStep
        <4>2. QED
          BY <3>1, <4>1
      <3>4. QED
        BY <3>1, <3>2, <3>3
    <2>4. m \in T
      <3> HIDE DEF T, m
      <3>1. \A i \in 0 .. m : i \in T
        BY <2>1, <2>2, <2>3, UpTo
      <3>2. QED
        BY <2>1, <3>1
    <2>5. Node(f, s, a + m) = Node(f, s, n)
      BY <2>1, <2>4
    <2>6. Node(f, s, a + m) \in Clusters /\ Node(f, s, n) \notin Clusters
      BY <2>1, Numbers DEF Ends
    <2>7. QED
      BY <2>5, <2>6
  <1>2. j \in Int /\ k \in Int /\ (j < k \/ k < j \/ j = k)
    OBVIOUS
  <1>3. QED
    BY <1>1, <1>2

LEMMA Unfree ==
  ASSUME NEW f, NEW s, NEW n \in Nat, Ends(f, s, n), NEW c \in Run(f, s, n)
  PROVE  c \in Clusters /\ f[c] # FREE
  <1>1. PICK k \in 0 .. n - 1 : c = Node(f, s, k)
    BY DEF Run
  <1>2. k \in Nat /\ (k + 1 \in 0 .. n - 1 \/ k + 1 = n)
    OBVIOUS
  <1>3. c \in Clusters /\ Node(f, s, k + 1) = f[c]
    BY <1>1, <1>2, HopIs DEF Ends
  <1>4. Node(f, s, k + 1) \in Clusters \/ Node(f, s, k + 1) = EOC
    BY <1>2 DEF Ends
  <1>5. QED
    BY <1>3, <1>4, Numbers

(* Its length is bounded by the volume's.                                   *)
LEMMA Short ==
  ASSUME NEW f, NEW s, NEW n \in Nat, Ends(f, s, n)
  PROVE  n <= NumClusters
  <1> DEFINE g == [k \in 1 .. n |-> Node(f, s, k - 1)]
  <1>1. \A k \in 1 .. n : k - 1 \in 0 .. n - 1
    OBVIOUS
  <1>2. g \in [1 .. n -> Clusters]
    BY <1>1 DEF Ends
  <1>3. \A i, j \in 1 .. n : g[i] = g[j] => i = j
    <2> TAKE i, j \in 1 .. n
    <2> HAVE g[i] = g[j]
    <2>1. Node(f, s, i - 1) = Node(f, s, j - 1)
      OBVIOUS
    <2>2. i - 1 = j - 1
      BY <1>1, <2>1, Distinct
    <2>3. QED
      BY <2>2
  <1> HIDE DEF g
  <1>4. g \in Injection(1 .. n, Clusters)
    BY <1>2, <1>3 DEF Injection, IsInjective
  <1>5. NumClusters \in Nat /\ 1 \in Int /\ NumClusters \in Int /\ n \in Int /\ Clusters = 1 .. NumClusters
    BY Numbers DEF Clusters
  <1>6. IsFiniteSet(Clusters) /\ Cardinality(Clusters) = NumClusters /\ Cardinality(1 .. n) = n
    <2>1. IsFiniteSet(1 .. NumClusters)
          /\ Cardinality(1 .. NumClusters) = IF 1 > NumClusters THEN 0 ELSE NumClusters - 1 + 1
      BY <1>5, FS_Interval
    <2>2. Cardinality(1 .. n) = IF 1 > n THEN 0 ELSE n - 1 + 1
      BY <1>5, FS_Interval
    <2>3. QED
      BY <1>5, <2>1, <2>2
  <1>7. Cardinality(1 .. n) <= Cardinality(Clusters)
    BY <1>4, <1>6, FS_Injection
  <1>8. QED
    BY <1>6, <1>7

(* Two tables that agree along a walk. *)
Same(g, f, s, m) == \A k \in 0 .. m : Node(g, s, k) = Node(f, s, k)

LEMMA SameNodes ==
  ASSUME NEW f, NEW g, NEW s, NEW m \in Nat,
         \A k \in 0 .. m - 1 : Node(f, s, k) \in Clusters /\ g[Node(f, s, k)] = f[Node(f, s, k)]
  PROVE  Same(g, f, s, m)
  <1> DEFINE T == {k \in 0 .. m : Node(g, s, k) = Node(f, s, k)}
  <1>1. 0 \in T
    <2>1. Node(g, s, 0) = s /\ Node(f, s, 0) = s
      BY NodeStep
    <2>2. QED
      BY <2>1
  <1>2. ASSUME NEW k \in 0 .. m - 1, k \in T PROVE k + 1 \in T
    <2>1. k \in Nat /\ k + 1 \in 0 .. m /\ Node(g, s, k) = Node(f, s, k) /\ Node(f, s, k) \in Clusters
      BY <1>2
    <2>2. Node(f, s, k + 1) = f[Node(f, s, k)]
      BY <2>1, HopIs
    <2>3. Node(g, s, k + 1) = g[Node(g, s, k)]
      BY <2>1, HopIs
    <2>4. QED
      BY <2>1, <2>2, <2>3
  <1> HIDE DEF T
  <1>3. \A k \in 0 .. m : k \in T
    BY <1>1, <1>2, UpTo
  <1>4. QED
    BY <1>3 DEF T, Same

(* A table that agrees on the clusters of a chain has the same chain.       *)
LEMMA SameChain ==
  ASSUME NEW f, NEW g, NEW s, NEW n \in Nat, Ends(f, s, n),
         \A c \in Run(f, s, n) : g[c] = f[c]
  PROVE  Same(g, f, s, n) /\ Ends(g, s, n) /\ Run(g, s, n) = Run(f, s, n)
  <1>1. \A k \in 0 .. n - 1 : Node(f, s, k) \in Clusters /\ g[Node(f, s, k)] = f[Node(f, s, k)]
    BY DEF Ends, Run
  <1>2. Same(g, f, s, n)
    BY <1>1, SameNodes
  <1>3. \A k \in 0 .. n - 1 : k \in 0 .. n
    OBVIOUS
  <1>4. n \in 0 .. n
    OBVIOUS
  <1>5. \A k \in 0 .. n - 1 : Node(g, s, k) = Node(f, s, k)
    BY <1>2, <1>3 DEF Same
  <1>6. Node(g, s, n) = Node(f, s, n)
    BY <1>2, <1>4 DEF Same
  <1>7. Ends(g, s, n)
    BY <1>5, <1>6 DEF Ends
  <1>8. Run(g, s, n) = Run(f, s, n)
    BY <1>5 DEF Run
  <1>9. QED
    BY <1>2, <1>7, <1>8

LEMMA OneLength ==
  ASSUME NEW f, NEW s, NEW m \in Nat, NEW n \in Nat, Ends(f, s, m), Ends(f, s, n)
  PROVE  m = n
  <1>1. \A k \in 0 .. m - 1 : Node(f, s, k) # EOC
    BY Numbers DEF Ends
  <1>2. \A k \in 0 .. n - 1 : Node(f, s, k) # EOC
    BY Numbers DEF Ends
  <1>3. Node(f, s, n) = EOC /\ Node(f, s, m) = EOC
    BY DEF Ends
  <1>4. n \notin 0 .. m - 1 /\ m \notin 0 .. n - 1
    BY <1>1, <1>2, <1>3
  <1>5. QED
    BY <1>4

LEMMA VisitedIs ==
  ASSUME NEW f, NEW s, NEW n \in Nat, Ends(f, s, n)
  PROVE  Visited(f, s) = Run(f, s, n)
  <1>1. n <= NumClusters /\ NumClusters \in Nat
    BY Short, Numbers
  <1>2. ASSUME NEW c \in Visited(f, s) PROVE c \in Run(f, s, n)
    <2>1. PICK k \in 0 .. NumClusters : c = Node(f, s, k)
      BY DEF Visited
    <2>2. c \in Clusters
      BY DEF Visited
    <2>3. ASSUME k >= n PROVE FALSE
      <3>1. Node(f, s, n) = EOC /\ EOC \notin Clusters /\ k \in Nat
        BY Numbers DEF Ends
      <3>2. Node(f, s, k) = EOC
        BY <2>3, <3>1, Stuck
      <3>3. QED
        BY <2>1, <2>2, <3>1, <3>2
    <2>4. k \in 0 .. n - 1
      BY <1>1, <2>3
    <2>5. QED
      BY <2>1, <2>4 DEF Run
  <1>3. ASSUME NEW c \in Run(f, s, n) PROVE c \in Visited(f, s)
    <2>1. PICK k \in 0 .. n - 1 : c = Node(f, s, k)
      BY DEF Run
    <2>2. k \in 0 .. NumClusters
      BY <1>1
    <2>3. c \in Clusters
      BY <2>1 DEF Ends
    <2>4. QED
      BY <2>1, <2>2, <2>3 DEF Visited
  <1>4. QED
    BY <1>2, <1>3

-----------------------------------------------------------------------------
(* What a table may be made into.                                           *)

(* The entry e has a chain of n clusters, which its size fits into.         *)
Kept(f, e, n) == /\ n \in Nat
                 /\ n = 0 => e.start = 0 /\ e.len = 0
                 /\ n # 0 => e.len \in 1 .. n /\ Ends(f, e.start, n)

(* Each live file has a chain, apart from the others'.                      *)
Sound(f, d, L) ==
  /\ L \in [Slots -> Nat]
  /\ \A s \in Slots : d[s].live => Kept(f, d[s], L[s])
  /\ \A s, t \in Slots : d[s].live /\ d[t].live /\ s # t =>
       Run(f, d[s].start, L[s]) \cap Run(f, d[t].start, L[t]) = {}

(* It is as long as the size says, and no other cluster is in use.          *)
Exact(f, d, L) ==
  /\ \A s \in Slots : d[s].live => L[s] = d[s].len
  /\ \A c \in Clusters : f[c] # FREE =>
       \E s \in Slots : d[s].live /\ c \in Run(f, d[s].start, L[s])

(* What a call for slot s may use: its own chain and the free clusters.     *)
Room(f, d, L, s) ==
  (IF d[s].live THEN Run(f, d[s].start, L[s]) ELSE {}) \cup FreeClusters(f)

(* The table becomes g and the entry of s becomes e within that room.       *)
Within(f, g, d, L, s, e, m) ==
  /\ \A c \in Clusters \ Room(f, d, L, s) : g[c] = f[c]
  /\ e.live => Kept(g, e, m) /\ Run(g, e.start, m) \subseteq Room(f, d, L, s)

(* Of that room nothing but the new chain is left in use.                   *)
Tidily(f, g, d, L, s, e, m) ==
  /\ e.live => m = e.len
  /\ \A c \in Clusters \cap Room(f, d, L, s) : g[c] # FREE => e.live /\ c \in Run(g, e.start, m)

LEMMA RunOfKept ==
  ASSUME NEW f, NEW e, NEW n, Kept(f, e, n), NEW c \in Run(f, e.start, n)
  PROVE  c \in Clusters /\ f[c] # FREE
  <1>1. n \in Nat /\ n # 0
    BY DEF Kept, Run
  <1>2. Ends(f, e.start, n)
    BY <1>1 DEF Kept
  <1>3. QED
    BY <1>1, <1>2, Unfree

(* The chain of t is not touched. *)
Untouched(f, g, d, L, s, t) ==
  /\ Kept(g, d[t], L[t]) /\ Run(g, d[t].start, L[t]) = Run(f, d[t].start, L[t])
  /\ Run(f, d[t].start, L[t]) \cap Room(f, d, L, s) = {}
  /\ Same(g, f, d[t].start, L[t])

LEMMA Others ==
  ASSUME NEW f, NEW g, NEW d, NEW L, NEW s \in Slots, NEW e, NEW m,
         Sound(f, d, L), Within(f, g, d, L, s, e, m),
         NEW t \in Slots, t # s, d[t].live
  PROVE  Untouched(f, g, d, L, s, t)
  <1> DEFINE R == Run(f, d[t].start, L[t])
  <1>1. Kept(f, d[t], L[t]) /\ L[t] \in Nat
    BY DEF Sound
  <1>2. \A c \in R : c \in Clusters /\ f[c] # FREE
    BY <1>1, RunOfKept
  <1>3. R \cap Room(f, d, L, s) = {}
    <2>1. d[s].live => R \cap Run(f, d[s].start, L[s]) = {}
      BY DEF Sound
    <2>2. R \cap FreeClusters(f) = {}
      BY <1>2 DEF FreeClusters
    <2>3. QED
      BY <2>1, <2>2 DEF Room
  <1>4. \A c \in R : g[c] = f[c]
    BY <1>2, <1>3 DEF Within
  <1>5. CASE L[t] = 0
    <2>1. 0 .. L[t] - 1 = {}
      BY <1>5
    <2>2. Run(g, d[t].start, L[t]) = {} /\ R = {}
      BY <2>1 DEF Run
    <2>3. Kept(g, d[t], L[t])
      BY <1>1, <1>5 DEF Kept
    <2>4. Same(g, f, d[t].start, L[t])
      <3>1. Node(g, d[t].start, 0) = d[t].start /\ Node(f, d[t].start, 0) = d[t].start
        BY NodeStep
      <3>2. QED
        BY <1>5, <3>1 DEF Same
    <2>5. QED
      BY <1>3, <2>2, <2>3, <2>4 DEF Untouched
  <1>6. CASE L[t] # 0
    <2>1. Ends(f, d[t].start, L[t]) /\ d[t].len \in 1 .. L[t]
      BY <1>1, <1>6 DEF Kept
    <2>2. /\ Same(g, f, d[t].start, L[t]) /\ Ends(g, d[t].start, L[t])
          /\ Run(g, d[t].start, L[t]) = R
      BY <1>1, <1>4, <2>1, SameChain
    <2>3. Kept(g, d[t], L[t])
      BY <1>1, <1>6, <2>1, <2>2 DEF Kept
    <2>4. QED
      BY <1>3, <2>2, <2>3 DEF Untouched
  <1>7. QED
    BY <1>5, <1>6

LEMMA StaysSound ==
  ASSUME NEW f, NEW g, NEW d \in [Slots -> Entries], NEW L, NEW s \in Slots, NEW e, NEW m \in Nat,
         Sound(f, d, L), Within(f, g, d, L, s, e, m)
  PROVE  Sound(g, [d EXCEPT ![s] = e], [L EXCEPT ![s] = m])
  <1> DEFINE dd == [d EXCEPT ![s] = e]
             M  == [L EXCEPT ![s] = m]
  <1>1. L \in [Slots -> Nat]
    BY DEF Sound
  <1>2. M \in [Slots -> Nat] /\ dd[s] = e /\ M[s] = m
        /\ \A t \in Slots : t # s => dd[t] = d[t] /\ M[t] = L[t]
    BY <1>1
  <1> HIDE DEF dd, M
  <1>3. ASSUME NEW t \in Slots, t # s, dd[t].live
        PROVE  /\ Kept(g, dd[t], M[t]) /\ Run(g, dd[t].start, M[t]) = Run(f, d[t].start, L[t])
               /\ Run(g, dd[t].start, M[t]) \cap Room(f, d, L, s) = {}
    <2>1. dd[t] = d[t] /\ M[t] = L[t] /\ d[t].live
      BY <1>2, <1>3
    <2>2. Untouched(f, g, d, L, s, t)
      BY <1>3, <2>1, Others
    <2>3. QED
      BY <2>1, <2>2 DEF Untouched
  <1>4. e.live => Kept(g, dd[s], M[s]) /\ Run(g, dd[s].start, M[s]) \subseteq Room(f, d, L, s)
    BY <1>2 DEF Within
  <1>5. ASSUME NEW t \in Slots, dd[t].live PROVE Kept(g, dd[t], M[t])
    BY <1>2, <1>3, <1>4, <1>5
  <1>6. ASSUME NEW t \in Slots, NEW u \in Slots, dd[t].live, dd[u].live, t # u
        PROVE  Run(g, dd[t].start, M[t]) \cap Run(g, dd[u].start, M[u]) = {}
    <2>1. CASE t # s /\ u # s
      <3>1. dd[t] = d[t] /\ dd[u] = d[u]
        BY <1>2, <2>1
      <3>2. Run(f, d[t].start, L[t]) \cap Run(f, d[u].start, L[u]) = {}
        BY <1>6, <3>1 DEF Sound
      <3>3. QED
        BY <1>3, <1>6, <2>1, <3>2
    <2>2. CASE t = s
      <3>1. Run(g, dd[u].start, M[u]) \cap Room(f, d, L, s) = {}
        BY <1>3, <1>6, <2>2
      <3>2. QED
        BY <1>2, <1>4, <1>6, <2>2, <3>1
    <2>3. CASE u = s
      <3>1. Run(g, dd[t].start, M[t]) \cap Room(f, d, L, s) = {}
        BY <1>3, <1>6, <2>3
      <3>2. QED
        BY <1>2, <1>4, <1>6, <2>3, <3>1
    <2>4. QED
      BY <2>1, <2>2, <2>3
  <1>7. Sound(g, dd, M)
    BY <1>2, <1>5, <1>6 DEF Sound
  <1>8. QED
    BY <1>7 DEF dd, M

LEMMA StaysExact ==
  ASSUME NEW f, NEW g, NEW d \in [Slots -> Entries], NEW L, NEW s \in Slots, NEW e, NEW m \in Nat,
         Sound(f, d, L), Within(f, g, d, L, s, e, m),
         Exact(f, d, L), Tidily(f, g, d, L, s, e, m)
  PROVE  Exact(g, [d EXCEPT ![s] = e], [L EXCEPT ![s] = m])
  <1> DEFINE dd == [d EXCEPT ![s] = e]
             M  == [L EXCEPT ![s] = m]
  <1>1. L \in [Slots -> Nat]
    BY DEF Sound
  <1>2. dd[s] = e /\ M[s] = m /\ \A t \in Slots : t # s => dd[t] = d[t] /\ M[t] = L[t]
    BY <1>1
  <1> HIDE DEF dd, M
  <1>3. ASSUME NEW t \in Slots, dd[t].live PROVE M[t] = dd[t].len
    <2>1. CASE t = s
      BY <1>2, <1>3, <2>1 DEF Tidily
    <2>2. CASE t # s
      BY <1>2, <1>3, <2>2 DEF Exact
    <2>3. QED
      BY <2>1, <2>2
  <1>4. ASSUME NEW c \in Clusters, g[c] # FREE
        PROVE  \E t \in Slots : dd[t].live /\ c \in Run(g, dd[t].start, M[t])
    <2>1. CASE c \in Room(f, d, L, s)
      <3>1. e.live /\ c \in Run(g, e.start, m)
        BY <1>4, <2>1 DEF Tidily
      <3>2. QED
        BY <1>2, <3>1
    <2>2. CASE c \notin Room(f, d, L, s)
      <3>1. g[c] = f[c]
        BY <2>2 DEF Within
      <3>2. PICK t \in Slots : d[t].live /\ c \in Run(f, d[t].start, L[t])
        BY <1>4, <3>1 DEF Exact
      <3>3. t # s
        BY <2>2, <3>2 DEF Room
      <3>4. Run(g, d[t].start, L[t]) = Run(f, d[t].start, L[t])
        <4>1. Untouched(f, g, d, L, s, t)
          BY <3>2, <3>3, Others
        <4>2. QED
          BY <4>1 DEF Untouched
      <3>5. dd[t] = d[t] /\ M[t] = L[t]
        BY <1>2, <3>3
      <3>6. QED
        BY <3>2, <3>4, <3>5
    <2>3. QED
      BY <2>1, <2>2
  <1>5. Exact(g, dd, M)
    BY <1>3, <1>4 DEF Exact
  <1>6. QED
    BY <1>5 DEF dd, M

-----------------------------------------------------------------------------
(* Allocation. *)

(* A list of free clusters, none of them twice.                             *)
Fresh(f, cs) == /\ cs \in Seq(Clusters)
                /\ \A i \in 1 .. Len(cs) : f[cs[i]] = FREE
                /\ \A i, j \in 1 .. Len(cs) : cs[i] = cs[j] => i = j

Scan(f, tail, k, g) ==
  g = [c \in 0 .. k |-> IF c = 0 THEN <<>>
                        ELSE IF f[c] = FREE /\ c > tail THEN Append(g[c - 1], c) ELSE g[c - 1]]

(* What the search has found in the first k clusters.                       *)
Found(f, k, q) == /\ q \in Seq(Clusters)
                  /\ \A i \in 1 .. Len(q) : f[q[i]] = FREE /\ q[i] <= k
                  /\ \A i, j \in 1 .. Len(q) : i < j => q[i] < q[j]

LEMMA FindMore ==
  ASSUME NEW f, NEW k \in Nat, k + 1 \in Clusters, NEW q, Found(f, k, q)
  PROVE  Found(f, k + 1, q) /\ (f[k + 1] = FREE => Found(f, k + 1, Append(q, k + 1)))
  <1> DEFINE r == Append(q, k + 1)
             n == Len(q)
  <1>1. /\ q \in Seq(Clusters) /\ n \in Nat
        /\ \A i \in 1 .. n : q[i] \in Clusters /\ q[i] \in Nat /\ f[q[i]] = FREE /\ q[i] <= k
        /\ \A i, j \in 1 .. n : i < j => q[i] < q[j]
    <2>1. q \in Seq(Clusters)
      BY DEF Found
    <2>2. \A i \in 1 .. n : q[i] \in Clusters
      BY <2>1, ElementOfSeq
    <2>3. n \in Nat
      BY <2>1, LenProperties
    <2>4. QED
      BY <2>1, <2>2, <2>3, Numbers DEF Found
  <1>2. \A i \in 1 .. n : q[i] <= k + 1
    BY <1>1
  <1>3. Found(f, k + 1, q)
    BY <1>1, <1>2 DEF Found
  <1>4. ASSUME f[k + 1] = FREE PROVE Found(f, k + 1, r)
    <2>1. r \in Seq(Clusters) /\ Len(r) = n + 1 /\ r[n + 1] = k + 1
          /\ \A i \in 1 .. n : r[i] = q[i]
      BY <1>1, AppendProperties
    <2> HIDE DEF r, n
    <2>2. \A i \in 1 .. n + 1 : i \in 1 .. n \/ i = n + 1
      BY <1>1
    <2>3. \A i \in 1 .. n + 1 : f[r[i]] = FREE /\ r[i] <= k + 1
      BY <1>1, <1>2, <1>4, <2>1, <2>2
    <2>4. ASSUME NEW i \in 1 .. n + 1, NEW j \in 1 .. n + 1, i < j PROVE r[i] < r[j]
      <3>1. CASE j \in 1 .. n
        <4>1. i \in 1 .. n
          BY <1>1, <2>4, <3>1
        <4>2. QED
          BY <1>1, <2>1, <2>4, <3>1, <4>1
      <3>2. CASE j = n + 1
        <4>1. i \in 1 .. n
          BY <1>1, <2>4, <3>2
        <4>2. r[i] = q[i] /\ r[j] = k + 1
          BY <2>1, <3>2, <4>1
        <4>3. q[i] <= k /\ q[i] \in Nat
          BY <1>1, <4>1
        <4>4. QED
          BY <4>2, <4>3
      <3>3. QED
        BY <2>2, <3>1, <3>2
    <2>5. QED
      BY <2>1, <2>3, <2>4 DEF Found
  <1>5. QED
    BY <1>3, <1>4

LEMMA ScanExists ==
  ASSUME NEW f, NEW tail, NEW n \in Nat
  PROVE  \E g : Scan(f, tail, n, g)
  <1> DEFINE Rule(g, c) == IF f[c] = FREE /\ c > tail THEN Append(g[c - 1], c) ELSE g[c - 1]
             T == {k \in 0 .. n : \E g : Scan(f, tail, k, g)}
  <1>1. 0 \in T
    <2> DEFINE g == [c \in 0 .. 0 |-> <<>>]
    <2>1. g = [c \in 0 .. 0 |-> IF c = 0 THEN <<>> ELSE Rule(g, c)]
      OBVIOUS
    <2> HIDE DEF g
    <2>2. Scan(f, tail, 0, g) /\ 0 \in 0 .. n
      BY <2>1 DEF Scan
    <2>3. QED
      BY <2>2
  <1>2. ASSUME NEW k \in 0 .. n - 1, k \in T PROVE k + 1 \in T
    <2>1. PICK g : Scan(f, tail, k, g)
      BY <1>2
    <2>2. \A c \in 0 .. k : g[c] = IF c = 0 THEN <<>> ELSE Rule(g, c)
      BY <2>1 DEF Scan
    <2> DEFINE h == [c \in 0 .. k + 1 |-> IF c = k + 1 THEN Rule(g, k + 1) ELSE g[c]]
    <2>3. ASSUME NEW c \in 0 .. k + 1
          PROVE  h[c] = IF c = 0 THEN <<>> ELSE Rule(h, c)
      <3>1. CASE c = k + 1
        <4>1. h[c] = Rule(g, c) /\ h[c - 1] = g[c - 1] /\ c # 0
          BY <3>1
        <4>2. Rule(h, c) = Rule(g, c)
          BY <4>1
        <4>3. QED
          BY <4>1, <4>2
      <3>2. CASE c # k + 1
        <4>1. c \in 0 .. k /\ h[c] = g[c]
          BY <3>2
        <4>2. CASE c = 0
          BY <2>2, <4>1, <4>2
        <4>3. CASE c # 0
          <5>1. h[c - 1] = g[c - 1]
            BY <4>1, <4>3
          <5>2. Rule(h, c) = Rule(g, c)
            BY <5>1
          <5>3. QED
            BY <2>2, <4>1, <4>3, <5>2
        <4>4. QED
          BY <4>2, <4>3
      <3>3. QED
        BY <3>1, <3>2
    <2>4. h = [c \in 0 .. k + 1 |-> h[c]]
      OBVIOUS
    <2> HIDE DEF h
    <2>5. h = [c \in 0 .. k + 1 |-> IF c = 0 THEN <<>> ELSE Rule(h, c)]
      BY <2>3, <2>4
    <2>6. Scan(f, tail, k + 1, h)
      BY <2>5, Zenon DEF Scan
    <2>7. k + 1 \in 0 .. n
      OBVIOUS
    <2>8. QED
      BY <2>6, <2>7
  <1> HIDE DEF T
  <1>3. \A k \in 0 .. n : k \in T
    BY <1>1, <1>2, UpTo
  <1>4. n \in T
    BY <1>3
  <1>5. QED
    BY <1>4 DEF T

(* fat12_find_free finds free clusters, each once.                          *)
LEMMA FindableFresh ==
  ASSUME NEW f, NEW tail
  PROVE  Fresh(f, Findable(f, tail))
  <1> DEFINE g == CHOOSE g : Scan(f, tail, NumClusters, g)
  <1>1. NumClusters \in Nat
    BY Numbers
  <1>2. Scan(f, tail, NumClusters, g)
    BY <1>1, ScanExists
  <1>3. Findable(f, tail) = g[NumClusters]
    BY Zenon DEF Findable, Scan
  <1> HIDE DEF g
  <1>4. /\ g[0] = <<>>
        /\ \A c \in 1 .. NumClusters :
             g[c] = IF f[c] = FREE /\ c > tail THEN Append(g[c - 1], c) ELSE g[c - 1]
    <2> DEFINE Rule(c) == IF f[c] = FREE /\ c > tail THEN Append(g[c - 1], c) ELSE g[c - 1]
    <2>1. g = [c \in 0 .. NumClusters |-> IF c = 0 THEN <<>> ELSE Rule(c)]
      BY <1>2, Zenon DEF Scan
    <2> HIDE DEF Rule
    <2>2. \A c \in 0 .. NumClusters : g[c] = IF c = 0 THEN <<>> ELSE Rule(c)
      BY <2>1
    <2>3. 0 \in 0 .. NumClusters /\ \A c \in 1 .. NumClusters : c \in 0 .. NumClusters /\ c # 0
      BY <1>1
    <2>4. g[0] = <<>> /\ \A c \in 1 .. NumClusters : g[c] = Rule(c)
      BY <2>2, <2>3
    <2>5. QED
      BY <2>4 DEF Rule
  <1> DEFINE T == {k \in 0 .. NumClusters : Found(f, k, g[k])}
  <1>5. 0 \in T
    <2>1. <<>> \in Seq(Clusters) /\ Len(<<>>) = 0
      BY EmptySeq
    <2>2. Found(f, 0, <<>>)
      BY <2>1 DEF Found
    <2>3. QED
      BY <1>1, <1>4, <2>2
  <1>6. ASSUME NEW k \in 0 .. NumClusters - 1, k \in T PROVE k + 1 \in T
    <2>1. k \in Nat /\ k + 1 \in 1 .. NumClusters /\ k + 1 \in 0 .. NumClusters /\ (k + 1) - 1 = k
      BY <1>1
    <2>2. k + 1 \in Clusters
      BY <2>1 DEF Clusters
    <2>3. Found(f, k + 1, g[k]) /\ (f[k + 1] = FREE => Found(f, k + 1, Append(g[k], k + 1)))
      BY <1>6, <2>1, <2>2, FindMore
    <2>4. g[k + 1] = g[k] \/ (f[k + 1] = FREE /\ g[k + 1] = Append(g[k], k + 1))
      BY <1>4, <2>1
    <2>5. QED
      BY <2>1, <2>3, <2>4
  <1>7. NumClusters \in T
    <2> HIDE DEF T
    <2>1. \A k \in 0 .. NumClusters : k \in T
      BY <1>1, <1>5, <1>6, UpTo
    <2>2. QED
      BY <1>1, <2>1
  <1> DEFINE q == g[NumClusters]
  <1>8. Found(f, NumClusters, q)
    BY <1>7
  <1> HIDE DEF q
  <1>9. ASSUME NEW i \in 1 .. Len(q), NEW j \in 1 .. Len(q), q[i] = q[j] PROVE i = j
    <2>1. q[i] \in Nat
      BY <1>8, ElementOfSeq, Numbers DEF Found
    <2>2. ~(q[i] < q[j]) /\ ~(q[j] < q[i])
      BY <1>9, <2>1
    <2>3. ~(i < j) /\ ~(j < i)
      BY <1>8, <2>2 DEF Found
    <2>4. QED
      BY <2>3
  <1>10. Fresh(f, q)
    BY <1>8, <1>9 DEF Found, Fresh
  <1>11. QED
    BY <1>3, <1>10 DEF q

LEMMA FreshPrefix ==
  ASSUME NEW f, NEW q, Fresh(f, q), NEW m \in 0 .. Len(q)
  PROVE  Fresh(f, SubSeq(q, 1, m)) /\ Len(SubSeq(q, 1, m)) = m
  <1> DEFINE r == SubSeq(q, 1, m)
  <1>1. q \in Seq(Clusters) /\ Len(q) \in Nat /\ m \in Nat /\ m <= Len(q)
    BY LenProperties DEF Fresh
  <1>2. r \in Seq(Clusters) /\ Len(r) = m /\ \A i \in 1 .. m : r[i] = q[i]
    <2>1. 1 \in 1 .. Len(q) + 1 /\ m \in 1 - 1 .. Len(q)
      BY <1>1
    <2>2. /\ r \in Seq(Clusters)
          /\ Len(r) = IF 1 <= m THEN m - 1 + 1 ELSE 0
          /\ \A i \in 1 .. m - 1 + 1 : r[i] = q[1 + i - 1]
      BY <1>1, <2>1, SubSeqProperties
    <2> HIDE DEF r
    <2>3. \A i \in 1 .. m : i \in 1 .. m - 1 + 1 /\ 1 + i - 1 = i
      BY <1>1
    <2>4. QED
      BY <1>1, <2>2, <2>3
  <1> HIDE DEF r
  <1>3. \A i \in 1 .. m : i \in 1 .. Len(q)
    BY <1>1
  <1>4. Fresh(f, r)
    BY <1>2, <1>3 DEF Fresh
  <1>5. QED
    BY <1>2, <1>4 DEF r

(* g runs from tail through cs to an end, and is f elsewhere.               *)
Threads(g, f, tail, cs) ==
  /\ \A i \in 1 .. Len(cs) : g[cs[i]] = IF i = Len(cs) THEN EOC ELSE cs[i + 1]
  /\ tail # 0 => g[tail] = cs[1]
  /\ \A c \in Clusters : c # tail /\ (\A i \in 1 .. Len(cs) : c # cs[i]) => g[c] = f[c]

Tail0(f, tail) == tail = 0 \/ (tail \in Clusters /\ f[tail] # FREE)

LEMMA LinkedIs ==
  ASSUME NEW f, NEW tail, Tail0(f, tail), NEW cs, Fresh(f, cs), Len(cs) # 0
  PROVE  Threads(Linked(f, tail, cs), f, tail, cs)
  <1> DEFINE n == Len(cs)
             p == IF tail = 0 THEN 0 ELSE 1
             chain == (IF tail = 0 THEN <<>> ELSE <<tail>>) \o cs
             At(c) == CHOOSE i \in 1 .. Len(chain) : chain[i] = c
             After(c) == IF At(c) = Len(chain) THEN EOC ELSE chain[At(c) + 1]
             g == Linked(f, tail, cs)
  <1>1. /\ cs \in Seq(Clusters) /\ n \in Nat /\ n >= 1
        /\ \A i \in 1 .. n : cs[i] \in Clusters /\ f[cs[i]] = FREE
        /\ \A i, j \in 1 .. n : cs[i] = cs[j] => i = j
    <2>1. cs \in Seq(Clusters)
      BY DEF Fresh
    <2>2. n \in Nat
      BY <2>1, LenProperties
    <2>3. \A i \in 1 .. n : cs[i] \in Clusters
      BY <2>1, ElementOfSeq
    <2>4. QED
      BY <2>1, <2>2, <2>3 DEF Fresh
  <1>2. p \in {0, 1} /\ (p = 1 <=> tail # 0)
    OBVIOUS
  <1>3. /\ Len(chain) = p + n
        /\ \A i \in 1 .. n : chain[p + i] = cs[i]
        /\ tail # 0 => chain[1] = tail
    <2>1. CASE tail = 0
      <3>1. chain = <<>> \o cs
        BY <2>1
      <3>2. <<>> \o cs = cs
        BY <1>1, ConcatEmptySeq
      <3>3. p = 0 /\ \A i \in 1 .. n : p + i = i
        BY <2>1
      <3> HIDE DEF chain, n, p
      <3>4. QED
        BY <1>1, <2>1, <3>1, <3>2, <3>3 DEF n
    <2>2. CASE tail # 0
      <3>1. tail \in Clusters /\ p = 1 /\ chain = <<tail>> \o cs
        BY <2>2 DEF Tail0
      <3>2. <<tail>> \in Seq(Clusters) /\ Len(<<tail>>) = 1 /\ <<tail>>[1] = tail
        BY <3>1
      <3> DEFINE one == <<tail>>
      <3> HIDE DEF one, chain, p
      <3>3. /\ Len(one \o cs) = Len(one) + Len(cs)
            /\ \A i \in 1 .. Len(one) : (one \o cs)[i] = one[i]
            /\ \A i \in Len(one) + 1 .. Len(one) + Len(cs) : (one \o cs)[i] = cs[i - Len(one)]
        BY <1>1, <3>2, ConcatProperties DEF one
      <3>4. \A i \in 1 .. n : 1 + i \in 2 .. 1 + n /\ (1 + i) - 1 = i
        BY <1>1
      <3>5. QED
        BY <1>1, <3>1, <3>2, <3>3, <3>4 DEF one
    <2>3. QED
      BY <2>1, <2>2
  <1>4. \A i \in 1 .. n : cs[i] # tail
    BY <1>1, Numbers DEF Tail0
  <1> HIDE DEF chain, p, n
  <1>5. \A i \in 1 .. Len(chain) : (i = 1 /\ p = 1) \/ (i - p \in 1 .. n /\ i = p + (i - p))
    BY <1>1, <1>2, <1>3
  <1>6. \A i, j \in 1 .. Len(chain) : chain[i] = chain[j] => i = j
    <2> TAKE i, j \in 1 .. Len(chain)
    <2> HAVE chain[i] = chain[j]
    <2>1. /\ (i = 1 /\ p = 1 /\ chain[i] = tail) \/ (i - p \in 1 .. n /\ chain[i] = cs[i - p])
          /\ (j = 1 /\ p = 1 /\ chain[j] = tail) \/ (j - p \in 1 .. n /\ chain[j] = cs[j - p])
      BY <1>2, <1>3, <1>5
    <2>2. CASE i - p \in 1 .. n /\ chain[i] = cs[i - p] /\ j - p \in 1 .. n /\ chain[j] = cs[j - p]
      <3>1. i - p = j - p
        BY <1>1, <2>2
      <3>2. QED
        BY <1>2, <3>1
    <2>3. QED
      BY <1>4, <2>1, <2>2
  <1>7. ASSUME NEW i \in 1 .. Len(chain)
        PROVE  After(chain[i]) = IF i = Len(chain) THEN EOC ELSE chain[i + 1]
    <2>1. At(chain[i]) \in 1 .. Len(chain) /\ chain[At(chain[i])] = chain[i]
      OBVIOUS
    <2> HIDE DEF At
    <2>2. At(chain[i]) = i
      BY <1>6, <2>1
    <2>3. QED
      BY <2>2
  <1>8. g = [c \in Clusters |-> IF c \in ToSet(chain) THEN After(c) ELSE f[c]]
    BY Zenon DEF Linked, chain
  <1>9. ToSet(chain) = {chain[i] : i \in 1 .. Len(chain)}
    <2>1. chain \in Seq(Clusters)
      <3>1. CASE tail = 0
        <4>1. chain = <<>> \o cs /\ <<>> \in Seq(Clusters)
          BY <3>1, EmptySeq DEF chain
        <4>2. QED
          BY <1>1, <4>1, ConcatProperties
      <3>2. CASE tail # 0
        <4>1. chain = <<tail>> \o cs /\ <<tail>> \in Seq(Clusters)
          <5>1. tail \in Clusters
            BY <3>2 DEF Tail0
          <5>2. QED
            BY <3>2, <5>1 DEF chain
        <4>2. QED
          BY <1>1, <4>1, ConcatProperties
      <3>3. QED
        BY <3>1, <3>2
    <2>2. DOMAIN chain = 1 .. Len(chain)
      BY <2>1, LenProperties
    <2>3. QED
      BY <2>2 DEF ToSet
  <1> HIDE DEF After, g
  <1>10. ASSUME NEW i \in 1 .. Len(chain), chain[i] \in Clusters
         PROVE  g[chain[i]] = IF i = Len(chain) THEN EOC ELSE chain[i + 1]
    BY <1>7, <1>8, <1>9, <1>10
  <1>11. ASSUME NEW i \in 1 .. n PROVE g[cs[i]] = IF i = n THEN EOC ELSE cs[i + 1]
    <2>1. p + i \in 1 .. Len(chain) /\ chain[p + i] = cs[i] /\ cs[i] \in Clusters
      BY <1>1, <1>2, <1>3
    <2>2. g[cs[i]] = IF p + i = Len(chain) THEN EOC ELSE chain[(p + i) + 1]
      BY <1>10, <2>1
    <2>3. p + i = Len(chain) <=> i = n
      BY <1>1, <1>2, <1>3
    <2>4. i # n => i + 1 \in 1 .. n /\ (p + i) + 1 = p + (i + 1)
      BY <1>1, <1>2
    <2>5. i # n => chain[(p + i) + 1] = cs[i + 1]
      BY <1>3, <2>4
    <2>6. QED
      BY <2>2, <2>3, <2>5
  <1>12. ASSUME tail # 0 PROVE g[tail] = cs[1]
    <2>1. tail \in Clusters /\ p = 1 /\ chain[1] = tail /\ 1 \in 1 .. Len(chain) /\ Len(chain) # 1
      BY <1>1, <1>2, <1>3, <1>12 DEF Tail0
    <2>2. g[tail] = chain[1 + 1]
      BY <1>10, <2>1
    <2>3. chain[p + 1] = cs[1]
      BY <1>1, <1>3
    <2>4. QED
      BY <2>1, <2>2, <2>3
  <1>13. ASSUME NEW c \in Clusters, c # tail, \A i \in 1 .. n : c # cs[i] PROVE g[c] = f[c]
    <2>1. \A i \in 1 .. Len(chain) : c # chain[i]
      BY <1>2, <1>3, <1>5, <1>13
    <2>2. QED
      BY <1>8, <1>9, <2>1
  <1>14. QED
    BY <1>11, <1>12, <1>13 DEF Threads, n, g

(* The last cluster that the size of e occupies. *)
Reach(f, e) == IF e.start = 0 \/ e.len = 0 THEN 0 ELSE Node(f, e.start, e.len - 1)

LEMMA ReachIs ==
  ASSUME NEW f, NEW e, NEW n, Kept(f, e, n)
  PROVE  /\ Tail0(f, Reach(f, e)) /\ (Reach(f, e) = 0 <=> e.len = 0) /\ (e.start = 0 <=> e.len = 0)
         /\ e.len \in Nat /\ e.len <= n /\ n \in Nat
         /\ e.len # 0 => e.len - 1 \in 0 .. n - 1 /\ Reach(f, e) = Node(f, e.start, e.len - 1)
                         /\ e.start \in Clusters
  <1>1. CASE n = 0
    <2>1. e.start = 0 /\ e.len = 0
      BY <1>1 DEF Kept
    <2>2. Reach(f, e) = 0
      BY <2>1 DEF Reach
    <2>3. QED
      BY <1>1, <2>1, <2>2 DEF Tail0
  <1>2. CASE n # 0
    <2>1. n \in Nat /\ e.len \in 1 .. n /\ Ends(f, e.start, n)
      BY <1>2 DEF Kept
    <2>2. e.len - 1 \in 0 .. n - 1 /\ 0 \in 0 .. n - 1 /\ e.len # 0
      BY <2>1
    <2>3. Node(f, e.start, 0) \in Clusters /\ Node(f, e.start, 0) = e.start
      BY <2>1, <2>2, NodeStep DEF Ends
    <2>4. e.start # 0 /\ Reach(f, e) = Node(f, e.start, e.len - 1)
      BY <2>2, <2>3, Numbers DEF Reach
    <2>5. Reach(f, e) \in Run(f, e.start, n)
      BY <2>2, <2>4 DEF Run
    <2>6. Reach(f, e) \in Clusters /\ f[Reach(f, e)] # FREE
      BY <2>1, <2>5, Unfree
    <2>7. Reach(f, e) # 0
      BY <2>6, Numbers
    <2>8. QED
      BY <2>1, <2>2, <2>3, <2>4, <2>6, <2>7 DEF Tail0
  <1>3. QED
    BY <1>1, <1>2

(* Up to its size e's chain is walked with the links before the tail only.  *)
LEMMA BeforeTail ==
  ASSUME NEW f, NEW e, NEW n, Kept(f, e, n), NEW g,
         \A c \in Clusters : c # Reach(f, e) /\ f[c] # FREE => g[c] = f[c]
  PROVE  e.len # 0 => Same(g, f, e.start, e.len - 1)
  <1> SUFFICES ASSUME e.len # 0 PROVE Same(g, f, e.start, e.len - 1)
    OBVIOUS
  <1>1. /\ n \in Nat /\ n # 0 /\ e.len \in 1 .. n /\ Ends(f, e.start, n)
        /\ Reach(f, e) = Node(f, e.start, e.len - 1)
    BY ReachIs DEF Kept
  <1>2. e.len - 1 \in Nat /\ e.len - 1 \in 0 .. n - 1
    BY <1>1
  <1>3. ASSUME NEW k \in 0 .. (e.len - 1) - 1
        PROVE  Node(f, e.start, k) \in Clusters
               /\ g[Node(f, e.start, k)] = f[Node(f, e.start, k)]
    <2>1. k \in 0 .. n - 1 /\ k # e.len - 1
      BY <1>1
    <2>2. Node(f, e.start, k) # Reach(f, e)
      BY <1>1, <1>2, <2>1, Distinct
    <2>3. Node(f, e.start, k) \in Run(f, e.start, n)
      BY <2>1 DEF Run
    <2>4. Node(f, e.start, k) \in Clusters /\ f[Node(f, e.start, k)] # FREE
      BY <1>1, <2>3, Unfree
    <2>5. QED
      BY <2>2, <2>4
  <1>4. QED
    BY <1>2, <1>3, SameNodes

(* The chain of e, as far as its size goes, and then cs.                    *)
Grown(g, f, e, cs, start) ==
  /\ \A k \in 0 .. e.len - 1 : Node(g, start, k) = Node(f, e.start, k)
  /\ \A i \in 1 .. Len(cs) : Node(g, start, e.len + i - 1) = cs[i]
  /\ Node(g, start, e.len + Len(cs)) = EOC

StartAfter(f, e, cs) == IF Reach(f, e) = 0 THEN cs[1] ELSE e.start

LEMMA LinkGrows ==
  ASSUME NEW f, NEW e, NEW m, Kept(f, e, m), NEW cs, Fresh(f, cs), Len(cs) # 0
  PROVE  Grown(Linked(f, Reach(f, e), cs), f, e, cs, StartAfter(f, e, cs))
  <1> DEFINE tail  == Reach(f, e)
             g     == Linked(f, tail, cs)
             start == StartAfter(f, e, cs)
             n     == Len(cs)
             b     == e.len
  <1>1. /\ Tail0(f, tail) /\ (tail = 0 <=> b = 0) /\ b \in Nat /\ b <= m /\ m \in Nat
        /\ b # 0 => tail = Node(f, e.start, b - 1) /\ tail \in Clusters
    BY ReachIs DEF Tail0
  <1>2. Threads(g, f, tail, cs)
    BY <1>1, LinkedIs
  <1>3. /\ n \in Nat /\ n >= 1 /\ \A i \in 1 .. n : cs[i] \in Clusters /\ f[cs[i]] = FREE
    <2>1. cs \in Seq(Clusters) /\ \A i \in 1 .. n : f[cs[i]] = FREE
      BY DEF Fresh
    <2>2. QED
      BY <2>1, LenProperties, ElementOfSeq
  <1> HIDE DEF g, tail
  <1>4. \A k \in 0 .. b - 1 : Node(g, start, k) = Node(f, e.start, k)
    <2>1. CASE b = 0
      <3>1. 0 .. b - 1 = {}
        BY <2>1
      <3>2. QED
        BY <3>1
    <2>2. CASE b # 0
      <3>1. start = e.start
        BY <1>1, <2>2 DEF StartAfter, tail
      <3>2. \A c \in Clusters : c # tail /\ f[c] # FREE => g[c] = f[c]
        BY <1>2, <1>3 DEF Threads
      <3>3. Same(g, f, e.start, b - 1)
        BY <2>2, <3>2, BeforeTail DEF tail
      <3>4. QED
        BY <3>1, <3>3 DEF Same
    <2>3. QED
      BY <2>1, <2>2
  <1> HIDE DEF n, start
  <1>5. Node(g, start, b) = cs[1]
    <2>1. CASE b = 0
      <3>1. start = cs[1]
        BY <1>1, <2>1 DEF StartAfter, tail, start
      <3>2. Node(g, start, 0) = start
        BY NodeStep
      <3>3. QED
        BY <2>1, <3>1, <3>2
    <2>2. CASE b # 0
      <3>1. b - 1 \in Nat /\ b - 1 \in 0 .. b - 1 /\ (b - 1) + 1 = b
        BY <1>1, <2>2
      <3>2. Node(g, start, b - 1) = tail /\ tail \in Clusters
        BY <1>1, <1>4, <2>2, <3>1
      <3>3. Node(g, start, (b - 1) + 1) = g[tail]
        BY <3>1, <3>2, HopIs
      <3>4. g[tail] = cs[1]
        BY <1>1, <1>2, <2>2 DEF Threads
      <3>5. QED
        BY <3>1, <3>3, <3>4
    <2>3. QED
      BY <2>1, <2>2
  <1>6. \A i \in 1 .. n : g[cs[i]] = IF i = n THEN EOC ELSE cs[i + 1]
    BY <1>2 DEF Threads, n
  <1>7. \A i \in 1 .. n : Node(g, start, b + i - 1) = cs[i]
    <2> DEFINE T == {i \in 0 .. n - 1 : Node(g, start, b + i) = cs[i + 1]}
               p == n - 1
    <2>1. 0 \in T
      <3>1. b + 0 = b /\ 0 + 1 = 1 /\ 0 \in 0 .. n - 1
        BY <1>1, <1>3
      <3>2. QED
        BY <1>5, <3>1
    <2>2. ASSUME NEW i \in 0 .. p - 1, i \in T PROVE i + 1 \in T
      <3>1. /\ b + i \in Nat /\ b + (i + 1) = (b + i) + 1 /\ i + 1 \in 1 .. n /\ i + 1 # n
            /\ i + 1 \in 0 .. n - 1
        BY <1>1, <1>3
      <3>2. Node(g, start, b + i) = cs[i + 1] /\ cs[i + 1] \in Clusters
        BY <1>3, <2>2, <3>1
      <3>3. Node(g, start, (b + i) + 1) = g[cs[i + 1]]
        BY <3>1, <3>2, HopIs
      <3>4. g[cs[i + 1]] = cs[(i + 1) + 1]
        BY <1>6, <3>1
      <3>5. QED
        BY <3>1, <3>3, <3>4
    <2>3. p \in Nat
      BY <1>3
    <2>4. \A i \in 0 .. p : i \in T
      <3> HIDE DEF T, p
      <3>1. QED
        BY <2>1, <2>2, <2>3, UpTo
    <2>5. ASSUME NEW i \in 1 .. n PROVE Node(g, start, b + i - 1) = cs[i]
      <3>1. i - 1 \in 0 .. p /\ b + (i - 1) = b + i - 1 /\ (i - 1) + 1 = i
        BY <1>1, <1>3
      <3>2. i - 1 \in T
        BY <2>4, <3>1
      <3>3. Node(g, start, b + (i - 1)) = cs[(i - 1) + 1]
        BY <3>2
      <3>4. QED
        BY <3>1, <3>3
    <2>6. QED
      BY <2>5
  <1>8. Node(g, start, b + n) = EOC
    <2>1. n \in 1 .. n /\ b + n - 1 \in Nat /\ (b + n - 1) + 1 = b + n
      BY <1>1, <1>3
    <2>2. Node(g, start, b + n - 1) = cs[n] /\ cs[n] \in Clusters
      BY <1>3, <1>7, <2>1
    <2>3. Node(g, start, (b + n - 1) + 1) = g[cs[n]]
      BY <2>1, <2>2, HopIs
    <2>4. g[cs[n]] = EOC
      BY <1>6, <2>1
    <2>5. QED
      BY <2>1, <2>3, <2>4
  <1>9. QED
    BY <1>4, <1>7, <1>8 DEF Grown, g, tail, n, start

(* The files of d occupy the same clusters in g as in f.                    *)
Keeps(g, f, d) == \A t \in Slots : d[t].live =>
                    \A k \in 0 .. d[t].len - 1 : Node(g, d[t].start, k) = Node(f, d[t].start, k)

LEMMA KeepsOthers ==
  ASSUME NEW f, NEW g, NEW d, NEW L, NEW s \in Slots, NEW e, NEW m,
         Sound(f, d, L), Within(f, g, d, L, s, e, m),
         d[s].live => \A k \in 0 .. d[s].len - 1 : Node(g, d[s].start, k) = Node(f, d[s].start, k)
  PROVE  Keeps(g, f, d)
  <1> SUFFICES ASSUME NEW t \in Slots, d[t].live, NEW k \in 0 .. d[t].len - 1
               PROVE  Node(g, d[t].start, k) = Node(f, d[t].start, k)
    BY DEF Keeps
  <1>1. CASE t = s
    BY <1>1
  <1>2. CASE t # s
    <2>1. Same(g, f, d[t].start, L[t])
      <3>1. Untouched(f, g, d, L, s, t)
        BY <1>2, Others
      <3>2. QED
        BY <3>1 DEF Untouched
    <2>2. Kept(f, d[t], L[t])
      BY DEF Sound
    <2>3. d[t].len \in Nat /\ d[t].len <= L[t] /\ L[t] \in Nat
      BY <2>2, ReachIs
    <2>4. k \in 0 .. L[t]
      BY <2>3
    <2>5. QED
      BY <2>1, <2>4 DEF Same
  <1>3. QED
    BY <1>1, <1>2

(* Extending the file of slot s: the entry before or after the new size.    *)
LEMMA LinkFits ==
  ASSUME NEW f, NEW d, NEW L, NEW s \in Slots, Sound(f, d, L), d[s].live,
         NEW cs, Fresh(f, cs), Len(cs) # 0, NEW e,
         e.start = StartAfter(f, d[s], cs), e.len \in 1 .. d[s].len + Len(cs)
  PROVE  LET g == Linked(f, Reach(f, d[s]), cs)
             m == d[s].len + Len(cs)
         IN  /\ Within(f, g, d, L, s, e, m)
             /\ L[s] = d[s].len /\ e.len = m /\ e.live => Tidily(f, g, d, L, s, e, m)
  <1> DEFINE tail  == Reach(f, d[s])
             g     == Linked(f, tail, cs)
             b     == d[s].len
             n     == Len(cs)
             start == StartAfter(f, d[s], cs)
             R     == Room(f, d, L, s)
  <1>1. Kept(f, d[s], L[s])
    BY DEF Sound
  <1>2. /\ Tail0(f, tail) /\ (tail = 0 <=> b = 0) /\ b \in Nat /\ b <= L[s] /\ L[s] \in Nat
        /\ b # 0 => b - 1 \in 0 .. L[s] - 1 /\ tail = Node(f, d[s].start, b - 1)
    BY <1>1, ReachIs
  <1>3. Threads(g, f, tail, cs)
    BY <1>2, LinkedIs
  <1>4. Grown(g, f, d[s], cs, start)
    BY <1>1, LinkGrows
  <1>5. /\ n \in Nat /\ n >= 1 /\ \A i \in 1 .. n : cs[i] \in FreeClusters(f) /\ cs[i] \in Clusters
    <2>1. cs \in Seq(Clusters) /\ \A i \in 1 .. n : f[cs[i]] = FREE
      BY DEF Fresh
    <2>2. \A i \in 1 .. n : cs[i] \in Clusters
      BY <2>1, ElementOfSeq
    <2>3. n \in Nat
      BY <2>1, LenProperties
    <2>4. QED
      BY <2>1, <2>2, <2>3 DEF FreeClusters
  <1>6. \A k \in 0 .. b - 1 : Node(g, start, k) = Node(f, d[s].start, k)
    BY <1>4 DEF Grown
  <1>7. (\A i \in 1 .. n : Node(g, start, b + i - 1) = cs[i]) /\ Node(g, start, b + n) = EOC
    BY <1>4 DEF Grown
  <1>8. e.start = start /\ e.len \in 1 .. b + n
    OBVIOUS
  <1> DEFINE w == b + n
  <1> HIDE DEF g, tail, n, start, b, R
  <1>20. w \in Nat /\ w # 0 /\ w = b + n /\ \A k \in 0 .. b - 1 : k \in 0 .. w - 1
    BY <1>2, <1>5
  <1>21. Node(g, start, w) = EOC /\ e.len \in 1 .. w
    BY <1>7, <1>8
  <1>22. \A i \in 1 .. n : b + i - 1 \in 0 .. w - 1
    BY <1>2, <1>5
  <1>9. \A k \in 0 .. b - 1 : Node(f, d[s].start, k) \in Run(f, d[s].start, L[s])
                              /\ Node(g, start, k) = Node(f, d[s].start, k)
    <2>1. \A k \in 0 .. b - 1 : k \in 0 .. L[s] - 1
      BY <1>2
    <2>2. QED
      BY <1>6, <2>1 DEF Run
  <1>10. \A k \in 0 .. w - 1 : k \in 0 .. b - 1 \/ (k - b + 1 \in 1 .. n /\ b + (k - b + 1) - 1 = k)
    BY <1>2, <1>5
  <1> HIDE DEF w
  <1>11. Run(f, d[s].start, L[s]) \subseteq Clusters
    <2>1. \A c \in Run(f, d[s].start, L[s]) : c \in Clusters
      BY <1>1, RunOfKept
    <2>2. QED
      BY <2>1
  <1>12. \A k \in 0 .. w - 1 : Node(g, start, k) \in R /\ Node(g, start, k) \in Clusters
    <2> TAKE k \in 0 .. w - 1
    <2>1. CASE k \in 0 .. b - 1
      BY <1>9, <1>11, <2>1 DEF Room, R
    <2>2. CASE k \notin 0 .. b - 1
      <3> DEFINE i == k - b + 1
      <3>1. i \in 1 .. n /\ b + i - 1 = k
        BY <1>10, <2>2
      <3> HIDE DEF i
      <3>2. Node(g, start, k) = cs[i]
        BY <1>7, <3>1
      <3>3. QED
        BY <1>5, <3>1, <3>2 DEF Room, R
    <2>3. QED
      BY <2>1, <2>2
  <1>13. Ends(g, start, w)
    BY <1>12, <1>21 DEF Ends
  <1>14. Run(g, start, w) \subseteq R
    BY <1>12 DEF Run
  <1>15. Kept(g, e, w)
    BY <1>13, <1>8, <1>20, <1>21 DEF Kept
  <1>16. ASSUME NEW c \in Clusters \ R PROVE g[c] = f[c]
    <2>1. c # tail
      <3>1. CASE b = 0
        BY <1>2, <3>1, Numbers
      <3>2. CASE b # 0
        <4>1. tail \in Run(f, d[s].start, L[s])
          BY <1>2, <3>2 DEF Run
        <4>2. QED
          BY <1>16, <4>1 DEF Room, R
      <3>3. QED
        BY <3>1, <3>2
    <2>2. \A i \in 1 .. n : c # cs[i]
      BY <1>5, <1>16 DEF Room, R
    <2>3. QED
      BY <1>3, <2>1, <2>2 DEF Threads, n
  <1>17. Within(f, g, d, L, s, e, w)
    BY <1>14, <1>8, <1>15, <1>16 DEF Within, R
  <1>18. ASSUME L[s] = b, e.len = w, e.live PROVE Tidily(f, g, d, L, s, e, w)
    <2>1. SUFFICES ASSUME NEW c \in Clusters, c \in R, g[c] # FREE PROVE c \in Run(g, start, w)
      BY <1>8, <1>18 DEF Tidily, R
    <2>2. CASE c \in Run(f, d[s].start, L[s])
      <3>1. PICK k \in 0 .. b - 1 : c = Node(f, d[s].start, k)
        BY <1>18, <2>2 DEF Run
      <3>2. k \in 0 .. w - 1
        BY <1>20
      <3>3. c = Node(g, start, k)
        BY <1>9, <3>1
      <3>4. QED
        BY <3>2, <3>3 DEF Run
    <2>3. CASE c \notin Run(f, d[s].start, L[s])
      <3>1. f[c] = FREE
        BY <2>1, <2>3 DEF Room, FreeClusters, R
      <3>2. c # tail
        BY <1>2, <2>1, <3>1, Numbers DEF Tail0
      <3>3. PICK i \in 1 .. n : c = cs[i]
        <4>1. (\A i \in 1 .. n : c # cs[i]) => g[c] = f[c]
          BY <1>3, <3>2 DEF Threads, n
        <4>2. QED
          BY <2>1, <3>1, <4>1
      <3>4. c = Node(g, start, b + i - 1) /\ b + i - 1 \in 0 .. w - 1
        BY <1>7, <1>22, <3>3
      <3>5. QED
        BY <3>4 DEF Run
    <2>4. QED
      BY <2>2, <2>3
  <1>19. QED
    BY <1>17, <1>18 DEF g, n, tail, b, w


-----------------------------------------------------------------------------
(* What single calls make of a volume in which all is as it should be.      *)

Lens(d) == [s \in Slots |-> d[s].len]

(* Every chain is as long as its entry says and nothing else is in use.     *)
Consistent(f, d) == Sound(f, d, Lens(d)) /\ Exact(f, d, Lens(d))

(* A call for slot s may make f into g and the entry into e.                *)
Moves(f, g, d, s, e) == /\ Within(f, g, d, Lens(d), s, e, e.len)
                        /\ Tidily(f, g, d, Lens(d), s, e, e.len)

LEMMA EntryIs ==
  ASSUME NEW e \in Entries
  PROVE  /\ e.live \in BOOLEAN /\ e.len \in Nat /\ e.len <= MaxLen /\ e.name \in Names \cup {Nobody}
         /\ e.start \in {0} \cup Clusters
  BY FatAssumption DEF Entries

LEMMA LensIs ==
  ASSUME NEW d \in [Slots -> Entries]
  PROVE  Lens(d) \in [Slots -> Nat] /\ \A s \in Slots : Lens(d)[s] = d[s].len
  <1>1. \A s \in Slots : d[s].len \in Nat
    BY EntryIs
  <1>2. QED
    BY <1>1 DEF Lens

LEMMA Move ==
  ASSUME NEW f, NEW g, NEW d \in [Slots -> Entries], NEW s \in Slots, NEW e \in Entries,
         Consistent(f, d), Moves(f, g, d, s, e)
  PROVE  Consistent(g, [d EXCEPT ![s] = e])
  <1> DEFINE dd == [d EXCEPT ![s] = e]
  <1>1. e.len \in Nat
    BY EntryIs
  <1>2. Lens(dd) = [Lens(d) EXCEPT ![s] = e.len]
    BY DEF Lens
  <1>3. Sound(g, dd, [Lens(d) EXCEPT ![s] = e.len])
    BY <1>1, StaysSound DEF Consistent, Moves
  <1>4. Exact(g, dd, [Lens(d) EXCEPT ![s] = e.len])
    BY <1>1, StaysExact DEF Consistent, Moves
  <1>5. QED
    BY <1>2, <1>3, <1>4 DEF Consistent

LEMMA KeptIn ==
  ASSUME NEW f, NEW d \in [Slots -> Entries], Consistent(f, d), NEW s \in Slots, d[s].live
  PROVE  /\ Kept(f, d[s], d[s].len) /\ Lens(d)[s] = d[s].len /\ d[s].len \in Nat
         /\ Whole(f, d[s])
  <1>1. Lens(d)[s] = d[s].len /\ d[s].len \in Nat
    BY LensIs, EntryIs
  <1>2. Kept(f, d[s], d[s].len)
    BY <1>1 DEF Consistent, Sound
  <1>3. Whole(f, d[s])
    BY <1>2 DEF Kept, Ends, Whole
  <1>4. QED
    BY <1>1, <1>2, <1>3

(* Creating a file in a slot that is free.                                  *)
LEMMA CreateMoves ==
  ASSUME NEW f, NEW d \in [Slots -> Entries], NEW s \in Slots, ~d[s].live, NEW n
  PROVE  Moves(f, f, d, s, NewEntry(n))
  <1> DEFINE e == NewEntry(n)
  <1>1. e.live /\ e.start = 0 /\ e.len = 0
    BY DEF NewEntry
  <1> HIDE DEF e
  <1>2. Kept(f, e, 0)
    BY <1>1 DEF Kept
  <1>3. Run(f, 0, 0) = {}
    BY DEF Run
  <1>4. Within(f, f, d, Lens(d), s, e, 0)
    BY <1>1, <1>2, <1>3 DEF Within
  <1>5. \A c \in Clusters \cap Room(f, d, Lens(d), s) : f[c] = FREE
    BY DEF Room, FreeClusters
  <1>6. Tidily(f, f, d, Lens(d), s, e, 0)
    BY <1>1, <1>5 DEF Tidily
  <1>7. QED
    BY <1>1, <1>4, <1>6 DEF Moves, e

(* Freeing the chain of a slot: truncation and unlink.                      *)
LEMMA FreedIs ==
  ASSUME NEW f, NEW e, NEW n, Kept(f, e, n)
  PROVE  \A c \in Clusters : Freed(f, e.start)[c] = IF c \in Run(f, e.start, n) THEN FREE ELSE f[c]
  <1>1. Visited(f, e.start) = Run(f, e.start, n)
    <2>1. CASE n = 0
      <3>1. e.start = 0
        BY <2>1 DEF Kept
      <3>2. \A k \in Nat : Node(f, 0, k) = 0
        <4>1. Node(f, 0, 0) = 0
          BY NodeStep
        <4>2. \A k \in Nat : Node(f, 0, k) = Node(f, 0, 0)
          BY <4>1, Stuck, Numbers
        <4>3. QED
          BY <4>1, <4>2
      <3>3. Visited(f, 0) = {}
        BY <3>2, Numbers DEF Visited
      <3>4. Run(f, 0, 0) = {}
        BY DEF Run
      <3>5. QED
        BY <2>1, <3>1, <3>3, <3>4
    <2>2. CASE n # 0
      <3>1. n \in Nat /\ Ends(f, e.start, n)
        BY <2>2 DEF Kept
      <3>2. QED
        BY <3>1, VisitedIs
    <2>3. QED
      BY <2>1, <2>2
  <1>2. QED
    BY <1>1 DEF Freed

LEMMA FreeMoves ==
  ASSUME NEW f, NEW d \in [Slots -> Entries], Consistent(f, d), NEW s \in Slots, d[s].live,
         NEW e, e.live => e.start = 0 /\ e.len = 0
  PROVE  Moves(f, Freed(f, d[s].start), d, s, e)
  <1> DEFINE g == Freed(f, d[s].start)
             n == d[s].len
             R == Run(f, d[s].start, n)
             L == Lens(d)
  <1>1. Kept(f, d[s], n) /\ L[s] = n
    BY KeptIn
  <1>2. \A c \in Clusters : g[c] = IF c \in R THEN FREE ELSE f[c]
    BY <1>1, FreedIs
  <1>3. Room(f, d, L, s) = R \cup FreeClusters(f)
    BY <1>1 DEF Room
  <1> HIDE DEF g, R
  <1>4. e.live => Kept(g, e, e.len) /\ Run(g, e.start, e.len) = {}
    BY DEF Kept, Run
  <1>5. Within(f, g, d, L, s, e, e.len)
    BY <1>2, <1>3, <1>4 DEF Within
  <1>6. \A c \in Clusters \cap Room(f, d, L, s) : g[c] = FREE
    BY <1>2, <1>3 DEF FreeClusters
  <1>7. Tidily(f, g, d, L, s, e, e.len)
    BY <1>6 DEF Tidily
  <1>8. QED
    BY <1>5, <1>7 DEF Moves, g

(* The roll-back of a growing call finds the table as it was before.        *)
LEMMA UnlinkedIs ==
  ASSUME NEW f \in Fats, NEW d \in [Slots -> Entries], Consistent(f, d), NEW s \in Slots, d[s].live,
         NEW cs, Fresh(f, cs)
  PROVE  Unlinked(f, Reach(f, d[s]), cs) = f
  <1> DEFINE tail == Reach(f, d[s])
             n    == d[s].len
             S    == ToSet(cs)
  <1>1. Kept(f, d[s], n) /\ n \in Nat
    BY KeptIn
  <1>2. /\ tail = 0 <=> n = 0
        /\ n # 0 => tail = Node(f, d[s].start, n - 1)
    BY <1>1, ReachIs
  <1>3. tail \in Clusters => f[tail] = EOC
    <2>1. SUFFICES ASSUME tail \in Clusters PROVE f[tail] = EOC
      OBVIOUS
    <2>2. n # 0
      BY <1>2, <2>1, Numbers
    <2>3. Ends(f, d[s].start, n)
      BY <1>1, <2>2 DEF Kept
    <2>4. n - 1 \in Nat /\ (n - 1) + 1 = n
      BY <1>1, <2>2
    <2>5. Node(f, d[s].start, n) = f[tail]
      BY <1>2, <2>1, <2>2, <2>4, HopIs
    <2>6. QED
      BY <2>3, <2>5 DEF Ends
  <1>4. \A c \in S : f[c] = FREE
    BY DEF Fresh, ToSet
  <1>5. f = [c \in Clusters |-> f[c]] /\ DOMAIN f = Clusters
    BY DEF Fats
  <1> HIDE DEF tail, S
  <1>6. \A c \in Clusters : f[c] = IF c \in S THEN FREE ELSE IF c = tail THEN EOC ELSE f[c]
    BY <1>3, <1>4
  <1>7. QED
    BY <1>5, <1>6 DEF Unlinked, tail, S

(* Cutting the chain of a slot to its first n clusters.                     *)
LEMMA ShrinkMoves ==
  ASSUME NEW f, NEW d \in [Slots -> Entries], Consistent(f, d), NEW s \in Slots, d[s].live,
         NEW n \in 0 .. d[s].len - 1, NEW e, e.live, e.len = n,
         e.start = (IF n = 0 THEN 0 ELSE d[s].start)
  PROVE  Moves(f, Shrunk(f, d[s], n), d, s, e)
  <1> DEFINE g  == Shrunk(f, d[s], n)
             b  == d[s].len
             h  == d[s].start
             R  == Run(f, h, b)
             K  == Run(f, h, n)
             L  == Lens(d)
             p  == n - 1
             last == Node(f, h, p)
  <1>1. Kept(f, d[s], b) /\ L[s] = b /\ b \in Nat
    BY KeptIn
  <1>2. n \in Nat /\ b # 0 /\ n < b
    BY <1>1
  <1>3. Ends(f, h, b)
    BY <1>1, <1>2 DEF Kept
  <1>4. \A c \in Clusters : g[c] = IF c \in R \ K THEN FREE
                                   ELSE IF n > 0 /\ c = last THEN EOC ELSE f[c]
    BY DEF Shrunk, Run
  <1>5. K \subseteq R
    <2>1. \A k \in 0 .. n - 1 : k \in 0 .. b - 1
      BY <1>1, <1>2
    <2>2. QED
      BY <2>1 DEF Run
  <1>6. n > 0 => /\ p \in Nat /\ p \in 0 .. n - 1 /\ p \in 0 .. b - 1 /\ p + 1 = n
                 /\ \A k \in 0 .. p - 1 : k \in 0 .. n - 1 /\ k \in 0 .. b - 1 /\ k # p
    BY <1>1, <1>2
  <1>7. n > 0 => last \in K /\ last \in Clusters
    BY <1>3, <1>6 DEF Run, Ends
  <1> HIDE DEF g, b, h, R, K, p, L, last
  <1>8. ASSUME n > 0 PROVE Ends(g, h, n) /\ Same(g, f, h, p)
    <2>1. ASSUME NEW k \in 0 .. p - 1
          PROVE  Node(f, h, k) \in Clusters /\ g[Node(f, h, k)] = f[Node(f, h, k)]
      <3>1. Node(f, h, k) \in Clusters
        BY <1>3, <1>6, <1>8, <2>1 DEF Ends
      <3>2. Node(f, h, k) \in K
        BY <1>6, <1>8, <2>1 DEF K, Run
      <3>3. Node(f, h, k) # last
        BY <1>1, <1>3, <1>6, <1>8, <2>1, Distinct DEF last
      <3>4. QED
        BY <1>4, <3>1, <3>2, <3>3
    <2>2. Same(g, f, h, p)
      BY <1>6, <1>8, <2>1, SameNodes
    <2>3. Node(g, h, p) = last
      BY <1>6, <1>8, <2>2 DEF Same, last
    <2>4. g[last] = EOC
      BY <1>4, <1>7, <1>8
    <2>5. Node(g, h, n) = EOC
      BY <1>6, <1>7, <1>8, <2>3, <2>4, HopIs
    <2>6. \A k \in 0 .. n - 1 : k \in 0 .. p /\ k \in 0 .. b - 1
      BY <1>1, <1>2, <1>6, <1>8
    <2>7. \A k \in 0 .. n - 1 : Node(g, h, k) \in Clusters
      BY <1>3, <2>2, <2>6 DEF Same, Ends
    <2>8. QED
      BY <2>2, <2>5, <2>7 DEF Ends
  <1>9. n > 0 => Run(g, h, n) = K
    <2>1. SUFFICES ASSUME n > 0 PROVE Run(g, h, n) = K
      OBVIOUS
    <2>2. \A k \in 0 .. n - 1 : k \in 0 .. p
      BY <1>6, <2>1
    <2>3. \A k \in 0 .. n - 1 : Node(g, h, k) = Node(f, h, k)
      BY <1>8, <2>1, <2>2 DEF Same
    <2>4. QED
      BY <2>3 DEF K, Run
  <1>10. n = 0 => K = {} /\ Run(g, 0, 0) = {}
    BY DEF K, Run
  <1>11. Room(f, d, L, s) = R \cup FreeClusters(f)
    BY <1>1 DEF Room, R, b, h
  <1>12. Kept(g, e, n) /\ Run(g, e.start, n) = K
    <2>1. CASE n = 0
      BY <2>1, <1>10 DEF Kept
    <2>2. CASE n # 0
      <3>1. n > 0 /\ e.start = h /\ n \in 1 .. n
        BY <1>2, <2>2 DEF h
      <3>2. QED
        BY <1>2, <1>8, <1>9, <3>1 DEF Kept
    <2>3. QED
      BY <2>1, <2>2
  <1>13. Within(f, g, d, L, s, e, n)
    BY <1>4, <1>5, <1>7, <1>11, <1>12 DEF Within
  <1>14. ASSUME NEW c \in Clusters, c \in Room(f, d, L, s), g[c] # FREE PROVE c \in K
    <2>1. c \notin R => f[c] = FREE
      BY <1>11, <1>14 DEF FreeClusters
    <2>2. CASE n > 0 /\ c = last
      BY <1>7, <2>2
    <2>3. CASE ~(n > 0 /\ c = last)
      BY <1>4, <1>14, <2>1, <2>3
    <2>4. QED
      BY <2>2, <2>3
  <1>15. Tidily(f, g, d, L, s, e, n)
    BY <1>12, <1>14 DEF Tidily
  <1>16. QED
    BY <1>13, <1>15 DEF Moves, g, b, h, L

HasRoom(f, e) == \A k \in 0 .. e.len - 1 : Node(f, e.start, k) \in Clusters

(* Extending the file of a slot.                                            *)
LEMMA GrowMoves ==
  ASSUME NEW f, NEW d \in [Slots -> Entries], Consistent(f, d), NEW s \in Slots, d[s].live,
         NEW cs, Fresh(f, cs), Len(cs) # 0, NEW e, e.live,
         e.start = StartAfter(f, d[s], cs), e.len = d[s].len + Len(cs)
  PROVE  /\ Moves(f, Linked(f, Reach(f, d[s]), cs), d, s, e)
         /\ HasRoom(Linked(f, Reach(f, d[s]), cs), d[s])
  <1> DEFINE g == Linked(f, Reach(f, d[s]), cs)
             b == d[s].len
             n == Len(cs)
             L == Lens(d)
  <1>1. Kept(f, d[s], b) /\ L[s] = b /\ b \in Nat
    BY KeptIn
  <1>2. n \in Nat
    BY LenProperties DEF Fresh
  <1>3. e.len = b + n /\ e.len \in 1 .. b + n
    BY <1>1, <1>2
  <1>4. Sound(f, d, L)
    BY DEF Consistent
  <1>5. Within(f, g, d, L, s, e, b + n) /\ Tidily(f, g, d, L, s, e, b + n)
    BY <1>1, <1>3, <1>4, LinkFits
  <1>6. Moves(f, g, d, s, e)
    BY <1>3, <1>5 DEF Moves
  <1>7. HasRoom(g, d[s])
    <2>1. CASE b = 0
      BY <2>1 DEF HasRoom
    <2>2. CASE b # 0
      <3>1. StartAfter(f, d[s], cs) = d[s].start
        BY <1>1, <2>2, ReachIs DEF StartAfter
      <3>2. Grown(g, f, d[s], cs, StartAfter(f, d[s], cs))
        BY <1>1, LinkGrows
      <3>3. Ends(f, d[s].start, b)
        BY <1>1, <2>2 DEF Kept
      <3>4. QED
        BY <3>1, <3>2, <3>3 DEF Grown, Ends, HasRoom
    <2>3. QED
      BY <2>1, <2>2
  <1>8. QED
    BY <1>6, <1>7

-----------------------------------------------------------------------------
(* The device writes of a call.                                             *)

FatWrites  == [to : {"fat"}, copy : 1 .. 2, kind : Kinds, new : Fats]
DirWrites  == [to : {"dir"}, slot : Slots, kind : Kinds, new : Entries]
DataWrites == [to : {"data"}, at : Clusters, kind : Kinds, new : Names \cup {Nobody}]
Writes     == FatWrites \cup DirWrites \cup DataWrites

(* What a call may leave to the device: the table f into either copy, and   *)
(* at the end the entry of slot s.                                          *)
Script(q, f, s) ==
  /\ q \in Seq(Writes)
  /\ \A i \in 1 .. Len(q) : /\ q[i].to = "fat" => q[i].new = f
                            /\ q[i].to = "dir" => i = Len(q) /\ q[i].slot = s

NoDir(q)     == \A i \in 1 .. Len(q) : q[i].to # "dir"
Covers(q, c) == \E i \in 1 .. Len(q) : q[i].to = "fat" /\ q[i].copy = c

(* The directory once all is written.                                       *)
Goal(q, d) == IF q # <<>> /\ q[Len(q)].to = "dir"
              THEN [d EXCEPT ![q[Len(q)].slot] = q[Len(q)].new] ELSE d

LEMMA WriteIs ==
  ASSUME NEW w \in Writes
  PROVE  /\ w.to \in {"fat", "dir", "data"} /\ w.kind \in Kinds
         /\ w.to = "fat" => w.copy \in 1 .. 2 /\ w.new \in Fats
         /\ w.to = "dir" => w.slot \in Slots /\ w.new \in Entries
         /\ w.to = "data" => w.at \in Clusters /\ w.new \in Names \cup {Nobody}
  BY DEF Writes, FatWrites, DirWrites, DataWrites

LEMMA NothingIs ==
  ASSUME NEW f, NEW s
  PROVE  Script(<<>>, f, s) /\ NoDir(<<>>) /\ \A d : Goal(<<>>, d) = d
  <1>1. <<>> \in Seq(Writes) /\ Len(<<>>) = 0
    BY EmptySeq
  <1>2. QED
    BY <1>1 DEF Script, NoDir, Goal

LEMMA ToFatIs ==
  ASSUME NEW f \in Fats, NEW kind \in Kinds, NEW s
  PROVE  /\ Script(ToFat(kind, f), f, s) /\ NoDir(ToFat(kind, f))
         /\ Covers(ToFat(kind, f), 1) /\ Covers(ToFat(kind, f), 2)
         /\ Len(ToFat(kind, f)) = 2
  <1> DEFINE q == ToFat(kind, f)
  <1>1. /\ Len(q) = 2 /\ q[1].to = "fat" /\ q[1].copy = 1 /\ q[1].new = f
        /\ q[2].to = "fat" /\ q[2].copy = 2 /\ q[2].new = f
    BY DEF ToFat
  <1>2. q \in Seq(Writes)
    <2>1. \A x, y \in Writes : <<x, y>> \in Seq(Writes)
      OBVIOUS
    <2>2. [to |-> "fat", copy |-> 1, kind |-> kind, new |-> f] \in Writes
      BY DEF Writes, FatWrites
    <2>3. [to |-> "fat", copy |-> 2, kind |-> kind, new |-> f] \in Writes
      BY DEF Writes, FatWrites
    <2>4. QED
      BY <2>1, <2>2, <2>3 DEF ToFat
  <1> HIDE DEF q
  <1>3. \A i \in 1 .. Len(q) : i = 1 \/ i = 2
    BY <1>1
  <1>4. Script(q, f, s) /\ NoDir(q)
    BY <1>1, <1>2, <1>3 DEF Script, NoDir
  <1>5. Covers(q, 1) /\ Covers(q, 2)
    BY <1>1 DEF Covers
  <1>6. QED
    BY <1>1, <1>4, <1>5 DEF q

LEMMA ToDirIs ==
  ASSUME NEW e \in Entries, NEW kind \in Kinds, NEW s \in Slots, NEW f
  PROVE  /\ Script(ToDir(kind, s, e), f, s) /\ Len(ToDir(kind, s, e)) = 1
         /\ \A d : Goal(ToDir(kind, s, e), d) = [d EXCEPT ![s] = e]
  <1> DEFINE q == ToDir(kind, s, e)
  <1>1. Len(q) = 1 /\ q[1].to = "dir" /\ q[1].slot = s /\ q[1].new = e /\ q # <<>>
    BY DEF ToDir
  <1>2. q \in Seq(Writes)
    <2>1. \A x \in Writes : <<x>> \in Seq(Writes)
      OBVIOUS
    <2>2. [to |-> "dir", slot |-> s, kind |-> kind, new |-> e] \in Writes
      BY DEF Writes, DirWrites
    <2>3. QED
      BY <2>1, <2>2 DEF ToDir
  <1> HIDE DEF q
  <1>3. Script(q, f, s)
    BY <1>1, <1>2 DEF Script
  <1>4. ASSUME NEW d PROVE Goal(q, d) = [d EXCEPT ![s] = e]
    BY <1>1 DEF Goal
  <1>5. QED
    BY <1>1, <1>3, <1>4 DEF q

LEMMA ToDataIs ==
  ASSUME NEW cs \in Seq(Clusters), NEW kind \in Kinds, NEW n \in Names \cup {Nobody}, NEW f, NEW s
  PROVE  Script(ToData(kind, cs, n), f, s) /\ NoDir(ToData(kind, cs, n))
  <1> DEFINE q == ToData(kind, cs, n)
             m == Len(cs)
  <1>1. m \in Nat /\ \A i \in 1 .. m : cs[i] \in Clusters
    BY LenProperties, ElementOfSeq
  <1> DEFINE w(c) == [to |-> "data", at |-> c, kind |-> kind, new |-> n]
  <1>2. \A i \in 1 .. m : q[i] = w(cs[i])
    BY DEF ToData
  <1>7. \A c \in Clusters : w(c) \in DataWrites /\ w(c).to = "data"
    BY DEF DataWrites
  <1>3. \A i \in 1 .. m : q[i] \in DataWrites /\ q[i].to = "data"
    <2> HIDE DEF q, m, w
    <2>1. QED
      BY <1>1, <1>2, <1>7
  <1>4. q \in [1 .. m -> Writes]
    <2>1. q = [i \in 1 .. m |-> q[i]]
      BY DEF ToData
    <2>2. QED
      BY <1>3, <2>1 DEF Writes
  <1> HIDE DEF q, m
  <1>5. q \in Seq(Writes) /\ Len(q) = m
    <2>1. q \in Seq(Writes)
      BY <1>1, <1>4, SeqDef
    <2>2. QED
      BY <1>1, <1>4, <2>1, LenProperties
  <1>6. QED
    BY <1>3, <1>5 DEF Script, NoDir, q

(* One list of writes after another.                                        *)
LEMMA JoinIs ==
  ASSUME NEW p, NEW q, NEW f, NEW s, Script(p, f, s), NoDir(p), Script(q, f, s),
         NEW r, r = p \o q
  PROVE  /\ Script(r, f, s) /\ (NoDir(q) => NoDir(r)) /\ Len(r) = Len(p) + Len(q)
         /\ \A d : Goal(r, d) = Goal(q, d)
         /\ \A c : Covers(p, c) \/ Covers(q, c) => Covers(r, c)
  <1> DEFINE m == Len(p)
             n == Len(q)
  <1>1. p \in Seq(Writes) /\ q \in Seq(Writes)
    BY DEF Script
  <1>2. m \in Nat /\ n \in Nat
    BY <1>1, LenProperties
  <1>3. /\ r \in Seq(Writes) /\ Len(r) = m + n
        /\ \A i \in 1 .. m + n : r[i] = IF i <= m THEN p[i] ELSE q[i - m]
    BY <1>1, ConcatProperties
  <1>4. \A i \in 1 .. m : i \in 1 .. m + n /\ r[i] = p[i]
    BY <1>2, <1>3
  <1>5. \A i \in 1 .. n : m + i \in 1 .. m + n /\ r[m + i] = q[i]
    BY <1>2, <1>3
  <1>6. \A i \in 1 .. m + n : i \in 1 .. m \/ (i - m \in 1 .. n /\ m + (i - m) = i)
    BY <1>2
  <1> HIDE DEF m, n
  <1>7. \A i \in 1 .. m : (p[i].to = "fat" => p[i].new = f) /\ p[i].to # "dir"
    BY DEF Script, NoDir, m
  <1>8. \A i \in 1 .. n : /\ q[i].to = "fat" => q[i].new = f
                          /\ q[i].to = "dir" => i = n /\ q[i].slot = s
    BY DEF Script, n
  <1>9. ASSUME NEW i \in 1 .. m + n
        PROVE  /\ r[i].to = "fat" => r[i].new = f
               /\ r[i].to = "dir" => i = m + n /\ r[i].slot = s
    <2>1. CASE i \in 1 .. m
      BY <1>4, <1>7, <2>1
    <2>2. CASE i \notin 1 .. m
      <3> DEFINE j == i - m
      <3>1. j \in 1 .. n /\ m + j = i
        BY <1>6, <2>2
      <3> HIDE DEF j
      <3>2. r[i] = q[j]
        BY <1>5, <3>1
      <3>3. QED
        BY <1>8, <3>1, <3>2
    <2>3. QED
      BY <2>1, <2>2
  <1>10. Script(r, f, s)
    BY <1>3, <1>9 DEF Script
  <1>11. NoDir(q) => NoDir(r)
    <2>1. SUFFICES ASSUME NoDir(q), NEW i \in 1 .. m + n PROVE r[i].to # "dir"
      BY <1>3 DEF NoDir
    <2>2. CASE i \in 1 .. m
      BY <1>4, <1>7, <2>2
    <2>3. CASE i \notin 1 .. m
      <3> DEFINE j == i - m
      <3>1. j \in 1 .. n /\ m + j = i
        BY <1>6, <2>3
      <3> HIDE DEF j
      <3>2. r[i] = q[j]
        BY <1>5, <3>1
      <3>3. QED
        BY <2>1, <3>1, <3>2 DEF NoDir, n
    <2>4. QED
      BY <2>2, <2>3
  <1>12. ASSUME NEW d PROVE Goal(r, d) = Goal(q, d)
    <2>1. CASE n = 0
      <3>1. q = <<>> /\ Len(r) = m
        BY <1>1, <1>2, <1>3, <2>1, EmptySeq DEF n
      <3>2. r # <<>> => m \in 1 .. m /\ Len(r) = m
        BY <1>2, <1>3, <3>1, EmptySeq
      <3>3. r # <<>> => r[Len(r)].to # "dir"
        BY <1>4, <1>7, <3>2
      <3>4. QED
        BY <3>1, <3>3 DEF Goal
    <2>2. CASE n # 0
      <3>1. n \in 1 .. n /\ m + n # 0
        BY <1>2, <2>2
      <3>2. r[Len(r)] = q[n]
        BY <1>3, <1>5, <3>1
      <3>3. r # <<>> /\ q # <<>>
        BY <1>1, <1>3, <3>1, <2>2, EmptySeq DEF n
      <3>4. QED
        BY <3>2, <3>3 DEF Goal, n
    <2>3. QED
      BY <2>1, <2>2
  <1>13. ASSUME NEW c, Covers(p, c) \/ Covers(q, c) PROVE Covers(r, c)
    <2>1. CASE Covers(p, c)
      <3>1. PICK i \in 1 .. m : p[i].to = "fat" /\ p[i].copy = c
        BY <2>1 DEF Covers, m
      <3>2. QED
        BY <1>3, <1>4, <3>1 DEF Covers
    <2>2. CASE Covers(q, c)
      <3>1. PICK i \in 1 .. n : q[i].to = "fat" /\ q[i].copy = c
        BY <2>2 DEF Covers, n
      <3>2. QED
        BY <1>3, <1>5, <3>1 DEF Covers
    <2>3. QED
      BY <1>13, <2>1, <2>2
  <1>14. QED
    BY <1>3, <1>10, <1>11, <1>12, <1>13 DEF m, n

(* The first write and what it leaves.                                      *)
LEMMA HeadIs ==
  ASSUME NEW q, NEW f, NEW s, Script(q, f, s), q # <<>>
  PROVE  /\ Head(q) \in Writes /\ Len(q) \in Nat /\ Len(q) >= 1
         /\ Head(q).to = "fat" => Head(q).new = f
         /\ Head(q).to = "dir" => Len(q) = 1 /\ Head(q).slot = s
         /\ Script(Tail(q), f, s) /\ (Tail(q) = <<>> <=> Len(q) = 1)
         /\ \A d : Goal(q, d) = IF Head(q).to = "dir" THEN [d EXCEPT ![s] = Head(q).new]
                                ELSE Goal(Tail(q), d)
         /\ \A c : Covers(q, c) => Covers(Tail(q), c) \/ (Head(q).to = "fat" /\ Head(q).copy = c)
  <1> DEFINE n == Len(q)
             r == Tail(q)
             m == n - 1
  <1>1. q \in Seq(Writes)
    BY DEF Script
  <1>2. n \in Nat /\ n # 0
    BY <1>1, LenProperties, EmptySeq
  <1>3. /\ Head(q) = q[1] /\ r \in Seq(Writes) /\ Len(r) = m
        /\ \A i \in 1 .. m : r[i] = q[i + 1]
    BY <1>1, HeadTailProperties
  <1>4. 1 \in 1 .. n /\ n >= 1 /\ m \in Nat /\ m + 1 = n /\ (m = 0 <=> n = 1)
        /\ \A i \in 1 .. m : i + 1 \in 1 .. n /\ (i + 1 = n <=> i = m)
    BY <1>2
  <1>5. \A i \in 1 .. n : i = 1 \/ (i - 1 \in 1 .. m /\ (i - 1) + 1 = i)
    BY <1>2
  <1>6. Head(q) \in Writes
    BY <1>1, <1>3, <1>4, ElementOfSeq
  <1>7. \A i \in 1 .. n : /\ q[i].to = "fat" => q[i].new = f
                          /\ q[i].to = "dir" => i = n /\ q[i].slot = s
    BY DEF Script
  <1> HIDE DEF m, n, r
  <1>8. Script(r, f, s)
    <2>1. \A i \in 1 .. m : /\ r[i].to = "fat" => r[i].new = f
                            /\ r[i].to = "dir" => i = m /\ r[i].slot = s
      BY <1>3, <1>4, <1>7
    <2>2. QED
      BY <1>3, <2>1 DEF Script
  <1>9. r = <<>> <=> n = 1
    BY <1>3, <1>4, EmptySeq
  <1>10. ASSUME NEW d
         PROVE  Goal(q, d) = IF Head(q).to = "dir" THEN [d EXCEPT ![s] = Head(q).new]
                             ELSE Goal(r, d)
    <2>1. CASE n = 1
      <3>1. Goal(r, d) = d
        BY <1>9, <2>1 DEF Goal
      <3>2. q[Len(q)] = Head(q)
        BY <1>3, <2>1 DEF n
      <3>3. Head(q).to = "dir" => Head(q).slot = s
        BY <1>3, <1>4, <1>7
      <3>4. QED
        BY <3>1, <3>2, <3>3 DEF Goal
    <2>2. CASE n # 1
      <3>1. Head(q).to # "dir"
        BY <1>3, <1>4, <1>7, <2>2
      <3>2. m \in 1 .. m
        BY <1>4, <2>2
      <3>3. r[Len(r)] = q[Len(q)]
        BY <1>3, <1>4, <3>2 DEF n
      <3>4. r # <<>>
        BY <1>9, <2>2
      <3>5. QED
        BY <3>1, <3>3, <3>4 DEF Goal
    <2>3. QED
      BY <2>1, <2>2
  <1>11. ASSUME NEW c, Covers(q, c)
         PROVE  Covers(r, c) \/ (Head(q).to = "fat" /\ Head(q).copy = c)
    <2>1. PICK i \in 1 .. n : q[i].to = "fat" /\ q[i].copy = c
      BY <1>11 DEF Covers, n
    <2>2. CASE i = 1
      BY <1>3, <2>1, <2>2
    <2>3. CASE i # 1
      <3> DEFINE j == i - 1
      <3>1. j \in 1 .. m /\ j + 1 = i
        BY <1>5, <2>3
      <3> HIDE DEF j
      <3>2. r[j] = q[i]
        BY <1>3, <3>1
      <3>3. QED
        BY <1>3, <2>1, <3>1, <3>2 DEF Covers
    <2>4. QED
      BY <2>2, <2>3
  <1>12. Head(q).to = "dir" => n = 1 /\ Head(q).slot = s
    BY <1>3, <1>4, <1>7
  <1>13. Head(q).to = "fat" => Head(q).new = f
    BY <1>3, <1>4, <1>7
  <1>14. QED
    BY <1>2, <1>4, <1>6, <1>8, <1>9, <1>10, <1>11, <1>12, <1>13 DEF n, r

LEMMA QuietGoal ==
  ASSUME NEW q, NEW f, NEW s, Script(q, f, s), NoDir(q), NEW d
  PROVE  Goal(q, d) = d
  <1>1. q \in Seq(Writes)
    BY DEF Script
  <1>2. q # <<>> => Len(q) \in 1 .. Len(q)
    BY <1>1, LenProperties, EmptySeq
  <1>3. QED
    BY <1>2 DEF Goal, NoDir

-----------------------------------------------------------------------------
(* The invariant of a volume on which every refused write was one that its *)
(* call rolls back.  The cached table fits the directory as the call under *)
(* way will leave it, and what a roll-back would write fits the directory  *)
(* as the roll-back will leave it.                                         *)

Shapes == dir \in [Slots -> Entries] /\ fat \in Fats /\ fats \in [1 .. 2 -> Fats] /\ stale = {}

IsJob(j) == j = [op |-> j.op, slot |-> j.slot, todo |-> j.todo, safe |-> j.safe,
                 back |-> j.back, undo |-> j.undo, want |-> j.want]

Planned == /\ IsJob(job) /\ Script(job.todo, fat, job.slot)
           /\ IF Ready THEN job = Idle ELSE job.slot \in Slots
           /\ Consistent(fat, Goal(job.todo, dir))

(* A copy on the disk is the cache's, or will be.                           *)
Cached == \A c \in 1 .. 2 : fats[c] = fat \/ Covers(job.todo, c)

BystandersWhole == \A t \in Slots : t # job.slot /\ dir[t].live => Whole(fats[1], dir[t])

GrowthSafe == job.op \in {"write", "full"} =>
                HasRoom(fats[1], dir[job.slot]) /\ HasRoom(fat, dir[job.slot])

Undoable(back, undo, s, d) == /\ back \in Fats /\ undo # <<>> /\ Script(undo, back, s)
                              /\ Covers(undo, 1) /\ Covers(undo, 2)
                              /\ Consistent(back, Goal(undo, d))

RollsBack == job.safe \in Nat /\ (job.safe > 0 => Undoable(job.back, job.undo, job.slot, dir))

TidyInv == tidy => Shapes /\ Planned /\ Cached /\ BystandersWhole /\ GrowthSafe /\ RollsBack

LEMMA AtRest ==
  ASSUME TidyInv, tidy, Ready
  PROVE  /\ dir \in [Slots -> Entries] /\ fat \in Fats /\ stale = {} /\ job = Idle
         /\ fats = <<fat, fat>> /\ Consistent(fat, dir)
         /\ \A t \in Slots : dir[t].live => Whole(fats[1], dir[t])
  <1>1. Shapes /\ Planned /\ Cached
    BY DEF TidyInv
  <1>2. job.todo = <<>> /\ job = Idle
    BY <1>1 DEF Planned, Ready
  <1>3. \A c : ~Covers(job.todo, c)
    BY <1>2 DEF Covers
  <1>4. fats[1] = fat /\ fats[2] = fat /\ fats \in [1 .. 2 -> Fats]
    BY <1>1, <1>3 DEF Cached, Shapes
  <1>5. fats = <<fat, fat>>
    BY <1>4
  <1>6. Consistent(fat, dir)
    BY <1>1, <1>2, NothingIs DEF Planned
  <1>7. dir \in [Slots -> Entries] /\ fat \in Fats /\ stale = {}
    BY <1>1 DEF Shapes
  <1>8. \A t \in Slots : dir[t].live => Whole(fats[1], dir[t])
    BY <1>4, <1>6, <1>7, KeptIn
  <1>9. QED
    BY <1>2, <1>5, <1>6, <1>7, <1>8

(* A call that begins.                                                      *)
LEMMA CallKeeps ==
  ASSUME TidyInv, tidy, Ready, stale' = stale,
         NEW op, NEW s \in Slots, NEW cache \in Fats, NEW todo, NEW safe \in Nat,
         NEW back, NEW undo, NEW want, Call(op, s, cache, todo, safe, back, undo, want),
         todo # <<>>, Script(todo, cache, s), Consistent(cache, Goal(todo, dir)),
         cache = fat \/ (Covers(todo, 1) /\ Covers(todo, 2)),
         op \in {"write", "full"} => HasRoom(fat, dir[s]) /\ HasRoom(cache, dir[s]),
         safe > 0 => Undoable(back, undo, s, dir)
  PROVE  TidyInv'
  <1>1. /\ dir \in [Slots -> Entries] /\ fat \in Fats /\ stale = {}
        /\ fats = <<fat, fat>> /\ Consistent(fat, dir)
        /\ \A t \in Slots : dir[t].live => Whole(fats[1], dir[t])
    BY AtRest
  <1>2. /\ fat' = cache /\ fats' = fats /\ dir' = dir /\ tidy' = tidy
        /\ job'.op = op /\ job'.slot = s /\ job'.todo = todo /\ job'.safe = safe
        /\ job'.back = back /\ job'.undo = undo
    BY DEF Call
  <1>3. fats[1] = fat /\ fats[2] = fat /\ fats \in [1 .. 2 -> Fats]
    BY <1>1
  <1>4. Shapes'
    BY <1>1, <1>2, <1>3 DEF Shapes
  <1>11. IsJob(job')
    BY DEF Call, IsJob
  <1>5. Planned'
    BY <1>2, <1>11 DEF Planned, Ready
  <1>6. Cached'
    BY <1>2, <1>3 DEF Cached
  <1>7. BystandersWhole'
    BY <1>1, <1>2 DEF BystandersWhole
  <1>8. GrowthSafe'
    BY <1>2, <1>3 DEF GrowthSafe
  <1>9. RollsBack'
    BY <1>2 DEF RollsBack
  <1>10. QED
    BY <1>4, <1>5, <1>6, <1>7, <1>8, <1>9 DEF TidyInv

LEMMA InitTidy == Init => TidyInv
  <1> SUFFICES ASSUME Init PROVE TidyInv
    OBVIOUS
  <1> DEFINE e == [name |-> Nobody, live |-> FALSE, start |-> 0, len |-> 0]
             es == [s \in Slots |-> e]
  <1>16. dir = es /\ fat = EmptyFat /\ fats = <<EmptyFat, EmptyFat>>
    BY DEF Init
  <1>17. job = Idle /\ stale = {}
    BY DEF Init
  <1>15. ~e.live /\ e.len = 0 /\ e \in Entries
    BY FatAssumption DEF Entries
  <1> HIDE DEF e
  <1>2. \A s \in Slots : ~dir[s].live /\ dir[s].len = 0 /\ dir[s] \in Entries
    BY <1>15, <1>16
  <1>3. EmptyFat \in Fats /\ \A c \in Clusters : EmptyFat[c] = FREE
    BY Numbers DEF EmptyFat, Fats
  <1>4. dir \in [Slots -> Entries]
    BY <1>15, <1>16
  <1>5. fat = EmptyFat /\ fats[1] = EmptyFat /\ fats[2] = EmptyFat /\ fats \in [1 .. 2 -> Fats]
    BY <1>3, <1>16
  <1>6. Shapes
    BY <1>3, <1>4, <1>5, <1>17 DEF Shapes
  <1>7. Consistent(fat, dir)
    <2>1. Lens(dir) \in [Slots -> Nat]
      BY <1>4, LensIs
    <2>2. Sound(fat, dir, Lens(dir))
      BY <1>2, <2>1 DEF Sound
    <2>3. Exact(fat, dir, Lens(dir))
      BY <1>2, <1>3, <1>5 DEF Exact
    <2>4. QED
      BY <2>2, <2>3 DEF Consistent
  <1>8. job = Idle /\ job.todo = <<>> /\ job.op = "none" /\ job.safe = 0 /\ Ready
    BY <1>17 DEF Idle, Ready
  <1>18. IsJob(Idle)
    BY DEF IsJob, Idle
  <1>9. Planned
    BY <1>7, <1>8, <1>18, NothingIs DEF Planned
  <1>10. Cached
    <2>1. \A c \in 1 .. 2 : c = 1 \/ c = 2
      OBVIOUS
    <2>2. QED
      BY <1>5, <2>1 DEF Cached
  <1>11. BystandersWhole
    BY <1>2 DEF BystandersWhole
  <1>12. GrowthSafe
    BY <1>8 DEF GrowthSafe
  <1>13. RollsBack
    BY <1>8 DEF RollsBack
  <1>14. QED
    BY <1>6, <1>9, <1>10, <1>11, <1>12, <1>13 DEF TidyInv

-----------------------------------------------------------------------------
(* Each call keeps it.                                                      *)

LEMMA FreeThenStoreKeeps ==
  ASSUME TidyInv, tidy, Ready, stale' = stale, NEW s \in Slots, dir[s].live,
         NEW e \in Entries, e.live => e.start = 0 /\ e.len = 0, FreeThenStore(s, e)
  PROVE  TidyInv'
  <1> DEFINE h == dir[s].start
             g == Freed(fat, h)
             p == IF h = 0 THEN <<>> ELSE ToFat("free", g)
             q == ToDir("free", s, e)
             todo == p \o q
  <1>1. dir \in [Slots -> Entries] /\ fat \in Fats /\ Consistent(fat, dir)
    BY AtRest
  <1>2. Kept(fat, dir[s], dir[s].len) /\ dir[s].len \in Nat
    BY <1>1, KeptIn
  <1>3. g \in Fats
    BY <1>1, Numbers DEF Freed, Fats
  <1>4. h = 0 => g = fat
    <2>1. SUFFICES ASSUME h = 0 PROVE g = fat
      OBVIOUS
    <2>2. dir[s].len = 0
      BY <1>2, <2>1, ReachIs
    <2>3. Run(fat, h, 0) = {}
      BY DEF Run
    <2>4. \A c \in Clusters : g[c] = fat[c]
      BY <1>2, <2>2, <2>3, FreedIs
    <2>5. QED
      BY <1>1, <1>3, <2>4 DEF Fats
  <1>5. Moves(fat, g, dir, s, e)
    BY <1>1, FreeMoves
  <1>6. Call("free", s, g, todo, 0, EmptyFat, <<>>, 0)
    BY DEF FreeThenStore
  <1> HIDE DEF g
  <1>7. "free" \in Kinds
    BY DEF Kinds
  <1>8. Script(p, g, s) /\ NoDir(p) /\ (h # 0 => Covers(p, 1) /\ Covers(p, 2)) /\ Len(p) \in Nat
    <2>1. CASE h = 0
      BY <2>1, NothingIs
    <2>2. CASE h # 0
      BY <1>3, <1>7, <2>2, ToFatIs
    <2>3. QED
      BY <2>1, <2>2
  <1>9. /\ Script(q, g, s) /\ Len(q) = 1
        /\ Goal(q, dir) = [dir EXCEPT ![s] = e]
    BY <1>7, ToDirIs
  <1> HIDE DEF p, q
  <1>10. /\ Script(todo, g, s) /\ Len(todo) = Len(p) + Len(q) /\ Goal(todo, dir) = Goal(q, dir)
         /\ \A c : Covers(p, c) => Covers(todo, c)
    BY <1>8, <1>9, JoinIs
  <1>11. todo # <<>>
    <2>1. Len(todo) # 0
      BY <1>8, <1>9, <1>10
    <2>2. QED
      BY <2>1, EmptySeq
  <1> HIDE DEF todo
  <1>12. Consistent(g, Goal(todo, dir))
    <2>1. Consistent(g, [dir EXCEPT ![s] = e])
      BY <1>1, <1>5, Move
    <2>2. QED
      BY <1>9, <1>10, <2>1
  <1>13. g = fat \/ (Covers(todo, 1) /\ Covers(todo, 2))
    BY <1>4, <1>8, <1>10
  <1> HIDE DEF h
  <1>14. QED
    BY <1>3, <1>6, <1>10, <1>11, <1>12, <1>13, CallKeeps

LEMMA NewEntryIs ==
  ASSUME NEW n \in Names
  PROVE  /\ NewEntry(n) \in Entries /\ NewEntry(n).live
         /\ NewEntry(n).start = 0 /\ NewEntry(n).len = 0
  BY FatAssumption DEF NewEntry, Entries

LEMMA CreateKeeps ==
  ASSUME TidyInv, tidy, NEW n \in Names, Create(n)
  PROVE  TidyInv'
  <1> DEFINE e == NewEntry(n)
  <1>1. Ready /\ stale' = stale
    BY DEF Create
  <1>2. e \in Entries /\ e.live /\ e.start = 0 /\ e.len = 0
    BY NewEntryIs
  <1>3. CASE \E s \in Slots : Holds(s, n) /\ FreeThenStore(s, NewEntry(n))
    <2>1. PICK s \in Slots : Holds(s, n) /\ FreeThenStore(s, e)
      BY <1>3
    <2>2. dir[s].live
      BY <2>1 DEF Holds
    <2> HIDE DEF e
    <2>3. QED
      BY <1>1, <1>2, <2>1, <2>2, FreeThenStoreKeeps
  <1>4. CASE \E s \in Slots :
               /\ FirstFree(s)
               /\ Call("create", s, fat, ToDir("grow", s, NewEntry(n)), 0, EmptyFat, <<>>, 0)
    <2> DEFINE Todo(s) == ToDir("grow", s, e)
    <2>1. PICK s \in Slots : FirstFree(s) /\ Call("create", s, fat, Todo(s), 0, EmptyFat, <<>>, 0)
      BY <1>4
    <2> DEFINE todo == Todo(s)
    <2>2. ~dir[s].live
      BY <2>1 DEF FirstFree
    <2>3. dir \in [Slots -> Entries] /\ fat \in Fats /\ Consistent(fat, dir)
      BY <1>1, AtRest
    <2>4. Moves(fat, fat, dir, s, e)
      BY <2>2, <2>3, CreateMoves
    <2> HIDE DEF e
    <2>5. "grow" \in Kinds
      BY DEF Kinds
    <2>6. /\ Script(todo, fat, s) /\ Len(todo) = 1
          /\ Goal(todo, dir) = [dir EXCEPT ![s] = e]
      BY <1>2, <2>5, ToDirIs
    <2>7. todo # <<>>
      BY <2>6, EmptySeq
    <2> HIDE DEF Todo
    <2>8. Consistent(fat, Goal(todo, dir))
      <3>1. Consistent(fat, [dir EXCEPT ![s] = e])
        BY <1>2, <2>3, <2>4, Move
      <3>2. QED
        BY <2>6, <3>1
    <2> HIDE DEF todo
    <2>9. Call("create", s, fat, todo, 0, EmptyFat, <<>>, 0)
      BY <2>1 DEF todo
    <2>10. "create" \notin {"write", "full"} /\ 0 \in Nat /\ ~(0 > 0)
      OBVIOUS
    <2>11. QED
      BY <1>1, <2>3, <2>6, <2>7, <2>8, <2>9, <2>10, CallKeeps
  <1>5. QED
    BY <1>3, <1>4 DEF Create

LEMMA UnlinkKeeps ==
  ASSUME ~StaleHandles, TidyInv, tidy, NEW n \in Names, Unlink(n)
  PROVE  TidyInv'
  <1>1. Ready
    BY DEF Unlink
  <1>2. PICK s \in Slots : /\ Holds(s, n)
                           /\ FreeThenStore(s, [dir[s] EXCEPT !.live = FALSE])
                           /\ stale' \in {stale} \cup IF StaleHandles THEN {stale \cup {<<s, n>>}} ELSE {}
    BY DEF Unlink
  <1>3. stale' = stale
    BY <1>2
  <1>4. dir[s].live /\ dir[s] \in Entries
    BY <1>1, <1>2, AtRest DEF Holds
  <1> DEFINE e == [dir[s] EXCEPT !.live = FALSE]
  <1>5. e \in Entries /\ ~e.live
    BY <1>4 DEF Entries
  <1> HIDE DEF e
  <1>6. FreeThenStore(s, e)
    BY <1>2 DEF e
  <1>7. QED
    BY <1>1, <1>3, <1>4, <1>5, <1>6, FreeThenStoreKeeps

LEMMA LinkedInFats ==
  ASSUME NEW f \in Fats, NEW tail, Tail0(f, tail), NEW cs, Fresh(f, cs), Len(cs) # 0
  PROVE  Linked(f, tail, cs) \in Fats
  <1> DEFINE g == Linked(f, tail, cs)
             n == Len(cs)
  <1>1. Threads(g, f, tail, cs)
    BY LinkedIs
  <1>2. cs \in Seq(Clusters) /\ n \in Nat /\ n # 0
    BY LenProperties DEF Fresh
  <1>3. \A i \in 1 .. n : cs[i] \in Clusters
    BY <1>2, ElementOfSeq
  <1>4. 1 \in 1 .. n /\ \A i \in 1 .. n : i # n => i + 1 \in 1 .. n
    BY <1>2
  <1>5. EOC \in 0 .. EOC /\ \A c \in Clusters : c \in 0 .. EOC /\ c # 0
    BY ClustersAssumption DEF EOC, Clusters
  <1>6. \A c \in Clusters : f[c] \in 0 .. EOC
    BY DEF Fats
  <1>7. g = [c \in Clusters |-> g[c]]
    <2> DEFINE chain    == (IF tail = 0 THEN <<>> ELSE <<tail>>) \o cs
               After(c) == LET i == CHOOSE i \in 1 .. Len(chain) : chain[i] = c
                           IN IF i = Len(chain) THEN EOC ELSE chain[i + 1]
               G(c)     == IF c \in ToSet(chain) THEN After(c) ELSE f[c]
    <2>1. g = [c \in Clusters |-> G(c)]
      BY DEF Linked
    <2> HIDE DEF G, g
    <2>2. QED
      BY <2>1
  <1> HIDE DEF g, n
  <1>8. ASSUME NEW c \in Clusters PROVE g[c] \in 0 .. EOC
    <2>1. CASE c = tail
      BY <1>1, <1>3, <1>4, <1>5, <2>1 DEF Threads
    <2>2. CASE \E i \in 1 .. n : c = cs[i]
      <3>1. PICK i \in 1 .. n : c = cs[i]
        BY <2>2
      <3>2. g[c] = IF i = n THEN EOC ELSE cs[i + 1]
        BY <1>1, <3>1 DEF Threads, n
      <3>3. QED
        BY <1>3, <1>4, <1>5, <3>2
    <2>3. CASE c # tail /\ ~ \E i \in 1 .. n : c = cs[i]
      <3>1. g[c] = f[c]
        BY <1>1, <2>3 DEF Threads, n
      <3>2. QED
        BY <1>6, <3>1
    <2>4. QED
      BY <2>1, <2>2, <2>3
  <1>9. QED
    BY <1>7, <1>8 DEF Fats, g

(* A write that finds no room leaves the table as it was.                   *)
LEMMA FullKeeps ==
  ASSUME TidyInv, tidy, Ready, stale' = stale, NEW s \in Slots, dir[s].live,
         NEW cs, Fresh(fat, cs), NEW undone, undone = Unlinked(fat, TailOf(dir[s]), cs), NEW want,
         Call("full", s, undone, ToData("zero", cs, Nobody) \o ToFat("grow", undone),
              Len(cs), undone, ToFat("grow", undone), want)
  PROVE  TidyInv'
  <1> DEFINE z == ToData("zero", cs, Nobody)
             t == ToFat("grow", undone)
             todo == z \o t
  <1>1. dir \in [Slots -> Entries] /\ fat \in Fats /\ Consistent(fat, dir)
    BY AtRest
  <1>2. TailOf(dir[s]) = Reach(fat, dir[s])
    BY DEF TailOf, Reach
  <1>3. undone = fat
    BY <1>1, <1>2, UnlinkedIs
  <1>4. "grow" \in Kinds /\ "zero" \in Kinds
    BY DEF Kinds
  <1>5. cs \in Seq(Clusters) /\ Len(cs) \in Nat
    BY LenProperties DEF Fresh
  <1>6. Script(z, fat, s) /\ NoDir(z)
    BY <1>4, <1>5, ToDataIs
  <1>7. Script(t, fat, s) /\ NoDir(t) /\ Covers(t, 1) /\ Covers(t, 2) /\ Len(t) = 2
    BY <1>1, <1>3, <1>4, ToFatIs
  <1>8. Call("full", s, undone, todo, Len(cs), undone, t, want)
    OBVIOUS
  <1> HIDE DEF z, t
  <1>9. /\ Script(todo, fat, s) /\ Len(todo) = Len(z) + Len(t)
        /\ Goal(todo, dir) = Goal(t, dir) /\ Covers(todo, 1) /\ Covers(todo, 2)
    BY <1>6, <1>7, JoinIs
  <1> HIDE DEF todo
  <1>10. Goal(t, dir) = dir
    BY <1>7, QuietGoal
  <1>11. Len(z) \in Nat
    BY <1>6, LenProperties DEF Script
  <1>12. todo # <<>> /\ t # <<>>
    <2>1. Len(todo) # 0 /\ Len(t) # 0
      BY <1>7, <1>9, <1>11
    <2>2. QED
      BY <2>1, EmptySeq
  <1>13. Undoable(undone, t, s, dir)
    BY <1>1, <1>3, <1>7, <1>10, <1>12 DEF Undoable
  <1>14. HasRoom(fat, dir[s])
    <2>1. Kept(fat, dir[s], dir[s].len)
      BY <1>1, KeptIn
    <2>2. CASE dir[s].len = 0
      BY <2>2 DEF HasRoom
    <2>3. CASE dir[s].len # 0
      BY <2>1, <2>3 DEF Kept, Ends, HasRoom
    <2>4. QED
      BY <2>2, <2>3
  <1>15. Consistent(undone, Goal(todo, dir))
    BY <1>1, <1>3, <1>9, <1>10
  <1>16. undone \in Fats /\ Script(todo, undone, s) /\ HasRoom(undone, dir[s])
    BY <1>1, <1>3, <1>9, <1>14
  <1>17. QED
    BY <1>5, <1>8, <1>9, <1>12, <1>13, <1>14, <1>15, <1>16, CallKeeps

Stored(e, start, len) == [e EXCEPT !.start = start, !.len = len]

(* The table f and the list q lead to the entry e in slot s.                *)
Fits(f, d, s, e)   == Consistent(f, [d EXCEPT ![s] = e])
Stores(q, d, s, e) == Goal(q, d) = [d EXCEPT ![s] = e]

(* The table and the entry that a growing write leads to.                   *)
LEMMA Extended ==
  ASSUME NEW f \in Fats, NEW d \in [Slots -> Entries], Consistent(f, d), NEW s \in Slots, d[s].live,
         NEW cs, Fresh(f, cs), NEW len, len = d[s].len + Len(cs), len <= MaxLen,
         NEW cache, cache = (IF cs = <<>> THEN f ELSE Linked(f, Reach(f, d[s]), cs)),
         NEW start, start = (IF Reach(f, d[s]) = 0 /\ cs # <<>> THEN cs[1] ELSE d[s].start)
  PROVE  /\ cache \in Fats /\ HasRoom(cache, d[s])
         /\ Stored(d[s], start, len) \in Entries
         /\ Fits(cache, d, s, Stored(d[s], start, len))
         /\ len # 0 => Ends(cache, start, len)
  <1> DEFINE e == Stored(d[s], start, len)
             n == Len(cs)
  <1>1. Kept(f, d[s], d[s].len) /\ d[s].len \in Nat /\ d[s] \in Entries
    BY KeptIn
  <1>2. cs \in Seq(Clusters) /\ n \in Nat /\ (n = 0 <=> cs = <<>>)
    BY LenProperties, EmptySeq DEF Fresh
  <1>3. HasRoom(f, d[s])
    <2>1. CASE d[s].len = 0
      BY <2>1 DEF HasRoom
    <2>2. CASE d[s].len # 0
      BY <1>1, <2>2 DEF Kept, Ends, HasRoom
    <2>3. QED
      BY <2>1, <2>2
  <1>4. len \in Nat /\ len \in 0 .. MaxLen
    BY <1>1, <1>2, FatAssumption
  <1>5. start \in {0} \cup Clusters
    <2>1. n # 0 => 1 \in 1 .. n
      BY <1>2
    <2>2. n # 0 => cs[1] \in Clusters
      BY <1>2, <2>1, ElementOfSeq
    <2>3. QED
      BY <1>1, <1>2, <2>2, EntryIs
  <1>6. e \in Entries /\ e.live /\ e.start = start /\ e.len = len
    BY <1>1, <1>4, <1>5 DEF Entries, Stored
  <1>7. CASE n = 0
    <2>1. cache = f /\ start = d[s].start /\ len = d[s].len
      BY <1>1, <1>2, <1>7
    <2>2. e = d[s]
      BY <1>1, <2>1 DEF Entries, Stored
    <2>3. [d EXCEPT ![s] = e] = d
      BY <2>2
    <2>4. len # 0 => Ends(cache, start, len)
      BY <1>1, <2>1 DEF Kept
    <2> HIDE DEF e
    <2>5. QED
      BY <1>3, <1>6, <2>1, <2>3, <2>4 DEF e, Fits
  <1>8. CASE n # 0
    <2>1. start = StartAfter(f, d[s], cs) /\ cache = Linked(f, Reach(f, d[s]), cs)
      BY <1>2, <1>8 DEF StartAfter
    <2> HIDE DEF e
    <2>2. Moves(f, cache, d, s, e) /\ HasRoom(cache, d[s])
      BY <1>6, <1>8, <2>1, GrowMoves
    <2>3. Consistent(cache, [d EXCEPT ![s] = e])
      BY <1>6, <2>2, Move
    <2>4. Tail0(f, Reach(f, d[s]))
      BY <1>1, ReachIs
    <2>5. cache \in Fats
      BY <1>8, <2>1, <2>4, LinkedInFats
    <2>6. len # 0 => Ends(cache, start, len)
      BY <1>6, <2>2 DEF Moves, Within, Kept
    <2>7. QED
      BY <1>6, <2>2, <2>3, <2>5, <2>6 DEF e, Fits
  <1>9. QED
    BY <1>7, <1>8

Meets(f, h, off, k) == [i \in {j \in 1 .. k : Node(f, h, off + j - 1) \in Clusters}
                           |-> Node(f, h, off + i - 1)]

(* A write within a chain meets a cluster of it for each of its own.        *)
LEMMA MeetsIs ==
  ASSUME NEW f, NEW h, NEW len \in Nat, \A i \in 0 .. len - 1 : Node(f, h, i) \in Clusters,
         NEW off \in Nat, NEW k \in Nat, off + k <= len
  PROVE  Meets(f, h, off, k) \in Seq(Clusters) /\ Len(Meets(f, h, off, k)) = k
  <1> DEFINE Spot(i) == Node(f, h, off + i - 1)
             q       == Meets(f, h, off, k)
  <1>1. \A i \in 1 .. k : off + i - 1 \in 0 .. len - 1
    OBVIOUS
  <1>2. \A i \in 1 .. k : Spot(i) \in Clusters
    BY <1>1
  <1>3. q = [i \in {j \in 1 .. k : Spot(j) \in Clusters} |-> Spot(i)]
    BY DEF Meets
  <1> HIDE DEF Spot, q
  <1>4. {j \in 1 .. k : Spot(j) \in Clusters} = 1 .. k
    BY <1>2
  <1>5. q = [i \in 1 .. k |-> Spot(i)]
    BY <1>3, <1>4
  <1>6. q \in [1 .. k -> Clusters]
    BY <1>2, <1>5
  <1>7. q \in Seq(Clusters)
    BY <1>6, SeqDef
  <1>8. QED
    BY <1>6, <1>7, LenProperties DEF q

Table(cs, f) == IF cs = <<>> THEN <<>> ELSE ToFat("grow", f)

(* What a write that finds its clusters leaves to the device.               *)
LEMMA OrderIs ==
  ASSUME NEW f \in Fats, NEW d, NEW s \in Slots, NEW e \in Entries, NEW n \in Names \cup {Nobody},
         NEW cs \in Seq(Clusters), NEW q \in Seq(Clusters), NEW todo,
         todo = InOrder(ToData("zero", cs, Nobody), Table(cs, f),
                        ToData("grow", q, n), ToDir("grow", s, e))
  PROVE  /\ Script(todo, f, s) /\ todo # <<>> /\ Stores(todo, d, s, e)
         /\ cs # <<>> => Covers(todo, 1) /\ Covers(todo, 2)
  <1> DEFINE z == ToData("zero", cs, Nobody)
             t == Table(cs, f)
             b == ToData("grow", q, n)
             r == ToDir("grow", s, e)
             zt == z \o t
             ztb == zt \o b
  <1>1. "grow" \in Kinds /\ "zero" \in Kinds
    BY DEF Kinds
  <1>2. Script(z, f, s) /\ NoDir(z)
    BY <1>1, ToDataIs
  <1>3. Script(t, f, s) /\ NoDir(t) /\ (cs # <<>> => Covers(t, 1) /\ Covers(t, 2))
    <2>1. CASE cs = <<>>
      BY <2>1, NothingIs DEF Table
    <2>2. CASE cs # <<>>
      BY <1>1, <2>2, ToFatIs DEF Table
    <2>3. QED
      BY <2>1, <2>2
  <1>4. Script(b, f, s) /\ NoDir(b)
    BY <1>1, ToDataIs
  <1>5. Script(r, f, s) /\ Len(r) = 1 /\ Goal(r, d) = [d EXCEPT ![s] = e]
    BY <1>1, ToDirIs
  <1>6. todo = ztb \o r
    BY DEF InOrder
  <1> HIDE DEF z, t, b, r
  <1>7. Script(zt, f, s) /\ NoDir(zt) /\ \A c : Covers(t, c) => Covers(zt, c)
    BY <1>2, <1>3, JoinIs
  <1> HIDE DEF zt
  <1>8. Script(ztb, f, s) /\ NoDir(ztb) /\ \A c : Covers(zt, c) => Covers(ztb, c)
    BY <1>4, <1>7, JoinIs
  <1> HIDE DEF ztb
  <1>9. /\ Script(todo, f, s) /\ Len(todo) = Len(ztb) + Len(r) /\ Goal(todo, d) = Goal(r, d)
        /\ \A c : Covers(ztb, c) => Covers(todo, c)
    <2> DEFINE all == ztb \o r
    <2>1. /\ Script(all, f, s) /\ Len(all) = Len(ztb) + Len(r) /\ Goal(all, d) = Goal(r, d)
          /\ \A c : Covers(ztb, c) => Covers(all, c)
      BY <1>5, <1>8, JoinIs
    <2> HIDE DEF all
    <2>2. todo = all
      BY <1>6 DEF all
    <2>3. QED
      BY <2>1, <2>2
  <1>10. todo # <<>>
    <2>1. Len(ztb) \in Nat
      BY <1>8, LenProperties DEF Script
    <2>2. Len(todo) # 0
      BY <1>5, <1>9, <2>1
    <2>3. QED
      BY <2>2, EmptySeq
  <1>11. QED
    BY <1>3, <1>5, <1>7, <1>8, <1>9, <1>10 DEF Stores

(* AH=40h on a live file.                                                   *)
LEMMA WriteKeeps ==
  ASSUME TidyInv, tidy, Ready, stale' = stale, NEW s \in Slots, dir[s].live,
         NEW n \in Names \cup {Nobody}, NEW off \in Nat, NEW k \in Nat, k > 0, off + k <= MaxLen,
         Write(s, n, off, k)
  PROVE  TidyInv'
  <1> DEFINE e      == dir[s]
             tail   == TailOf(e)
             len    == SizeAfter(e, off, k)
             found  == Findable(fat, tail)
             full   == Len(found) < len - e.len
             cs     == IF full THEN found ELSE SubSeq(found, 1, len - e.len)
             undone == Unlinked(fat, tail, cs)
             cache  == IF cs = <<>> THEN fat ELSE Linked(fat, tail, cs)
             start  == IF tail = 0 /\ cs # <<>> THEN cs[1] ELSE e.start
             Spot(i) == Node(cache, start, off + i - 1)
             meets  == [i \in {j \in 1 .. k : Spot(j) \in Clusters} |-> Spot(i)]
             stored == [e EXCEPT !.start = start, !.len = len]
             todo   == InOrder(ToData("zero", cs, Nobody),
                               IF cs = <<>> THEN <<>> ELSE ToFat("grow", cache),
                               ToData("grow", meets, n),
                               IF Len(meets) = k THEN ToDir("grow", s, stored) ELSE <<>>)
             back   == ToFat("grow", undone)
  <1>1. full => Call("full", s, undone, ToData("zero", cs, Nobody) \o back,
                     Len(cs), undone, back, len - e.len)
    BY DEF Write
  <1>2. ~full => Call("write", s, cache, todo, Len(cs), undone, back, len - e.len)
    BY DEF Write
  <1>3. dir \in [Slots -> Entries] /\ fat \in Fats /\ Consistent(fat, dir)
    BY AtRest
  <1>4. e.len \in Nat /\ e.len <= MaxLen
    BY <1>3, EntryIs
  <1>5. len \in Nat /\ len <= MaxLen /\ e.len <= len /\ off + k <= len /\ len # 0
    BY <1>4 DEF SizeAfter
  <1>6. Fresh(fat, found) /\ Len(found) \in Nat
    BY FindableFresh, LenProperties DEF Fresh
  <1>7. tail = Reach(fat, e)
    BY DEF TailOf, Reach
  <1>8. CASE full
    BY <1>1, <1>6, <1>8, FullKeeps
  <1>9. CASE ~full
    <2> DEFINE D == [dir EXCEPT ![s] = stored]
    <2> HIDE DEF len, found
    <2>1. len - e.len \in 0 .. Len(found)
      BY <1>4, <1>5, <1>6, <1>9
    <2>2. Fresh(fat, cs) /\ Len(cs) = len - e.len
      BY <1>6, <1>9, <2>1, FreshPrefix
    <2> HIDE DEF cs, full
    <2>3. len = e.len + Len(cs)
      BY <1>4, <1>5, <2>2
    <2>4. /\ cache = IF cs = <<>> THEN fat ELSE Linked(fat, Reach(fat, e), cs)
          /\ start = IF Reach(fat, e) = 0 /\ cs # <<>> THEN cs[1] ELSE e.start
      BY <1>7
    <2> HIDE DEF cache, start
    <2>17. stored = Stored(e, start, len) /\ meets = Meets(cache, start, off, k)
      BY DEF Stored, Meets
    <2> HIDE DEF stored, meets
    <2>18. /\ cache \in Fats /\ HasRoom(cache, e) /\ Stored(e, start, len) \in Entries
           /\ Fits(cache, dir, s, Stored(e, start, len))
           /\ len # 0 => Ends(cache, start, len)
      BY <1>3, <1>5, <2>2, <2>3, <2>4, Extended
    <2>5. /\ cache \in Fats /\ HasRoom(cache, e) /\ stored \in Entries
          /\ Consistent(cache, D) /\ Ends(cache, start, len)
      BY <1>5, <2>17, <2>18 DEF Fits, D
    <2>6. meets \in Seq(Clusters) /\ Len(meets) = k
      <3>1. \A i \in 0 .. len - 1 : Node(cache, start, i) \in Clusters
        BY <2>5 DEF Ends
      <3>2. QED
        BY <1>5, <2>17, <3>1, MeetsIs
    <2>7. undone = fat
      BY <1>3, <1>7, <2>2, UnlinkedIs
    <2> HIDE DEF undone, stored, meets, D
    <2>8. todo = InOrder(ToData("zero", cs, Nobody), Table(cs, cache),
                         ToData("grow", meets, n), ToDir("grow", s, stored))
      BY <2>6 DEF Table
    <2> HIDE DEF todo
    <2>9. cs \in Seq(Clusters) /\ Len(cs) \in Nat /\ (Len(cs) > 0 => cs # <<>>)
      BY <2>2, LenProperties, EmptySeq DEF Fresh
    <2>10. /\ Script(todo, cache, s) /\ todo # <<>> /\ Goal(todo, dir) = D
           /\ cs # <<>> => Covers(todo, 1) /\ Covers(todo, 2)
      <3>1. /\ Script(todo, cache, s) /\ todo # <<>> /\ Stores(todo, dir, s, stored)
            /\ cs # <<>> => Covers(todo, 1) /\ Covers(todo, 2)
        BY <2>5, <2>6, <2>8, <2>9, OrderIs
      <3>2. QED
        BY <3>1 DEF D, Stores
    <2>11. cache = fat \/ (Covers(todo, 1) /\ Covers(todo, 2))
      BY <2>4, <2>10
    <2>12. Undoable(undone, back, s, dir)
      <3>1. "grow" \in Kinds
        BY DEF Kinds
      <3>2. /\ Script(back, fat, s) /\ NoDir(back) /\ Covers(back, 1) /\ Covers(back, 2)
            /\ Len(back) = 2
        BY <1>3, <2>7, <3>1, ToFatIs
      <3> HIDE DEF back
      <3>3. back # <<>> /\ Goal(back, dir) = dir
        <4>1. Goal(back, dir) = dir
          BY <3>2, QuietGoal
        <4>2. back # <<>>
          BY <3>2
        <4>3. QED
          BY <4>1, <4>2
      <3>4. QED
        BY <1>3, <2>7, <3>2, <3>3 DEF Undoable
    <2>13. HasRoom(fat, e)
      <3>1. Kept(fat, e, e.len)
        BY <1>3, KeptIn
      <3>2. CASE e.len = 0
        BY <3>2 DEF HasRoom
      <3>3. CASE e.len # 0
        BY <3>1, <3>3 DEF Kept, Ends, HasRoom
      <3>4. QED
        BY <3>2, <3>3
    <2> HIDE DEF back
    <2>14. Call("write", s, cache, todo, Len(cs), undone, back, len - e.len)
      BY <1>2, <1>9 DEF full
    <2>15. Consistent(cache, Goal(todo, dir))
      BY <2>5, <2>10
    <2>16. QED
      BY <2>5, <2>9, <2>10, <2>11, <2>12, <2>13, <2>14, <2>15, CallKeeps
  <1>10. QED
    BY <1>8, <1>9

LEMMA WriteAtKeeps ==
  ASSUME TidyInv, tidy, NEW off \in 0 .. MaxLen, NEW k \in 0 .. MaxLen, k > 0, WriteAt(off, k)
  PROVE  TidyInv'
  <1>1. Ready /\ off + k <= MaxLen /\ stale' = stale
    BY DEF WriteAt
  <1>2. PICK s \in Slots, n \in Names : (Holds(s, n) \/ <<s, n>> \in stale) /\ Write(s, n, off, k)
    BY DEF WriteAt
  <1>3. dir[s].live
    BY <1>1, <1>2, AtRest DEF Holds
  <1>4. off \in Nat /\ k \in Nat
    BY FatAssumption
  <1>5. QED
    BY <1>1, <1>2, <1>3, <1>4, WriteKeeps

LEMMA ShrunkInFats ==
  ASSUME NEW f \in Fats, NEW e, NEW n
  PROVE  Shrunk(f, e, n) \in Fats
  BY ClustersAssumption DEF Shrunk, Fats, EOC, FREE, Clusters

(* A table and then an entry.                                               *)
LEMMA TableThenEntry ==
  ASSUME NEW f \in Fats, NEW d, NEW s \in Slots, NEW e \in Entries, NEW kind \in Kinds,
         NEW q, q = ToFat(kind, f) \o ToDir(kind, s, e)
  PROVE  Script(q, f, s) /\ q # <<>> /\ Stores(q, d, s, e) /\ Covers(q, 1) /\ Covers(q, 2)
  <1> DEFINE t == ToFat(kind, f)
             r == ToDir(kind, s, e)
             all == t \o r
  <1>1. Script(t, f, s) /\ NoDir(t) /\ Covers(t, 1) /\ Covers(t, 2) /\ Len(t) = 2
    BY ToFatIs
  <1>2. Script(r, f, s) /\ Len(r) = 1 /\ Goal(r, d) = [d EXCEPT ![s] = e]
    BY ToDirIs
  <1>3. q = all
    OBVIOUS
  <1> HIDE DEF t, r
  <1>4. /\ Script(all, f, s) /\ Len(all) = Len(t) + Len(r) /\ Goal(all, d) = Goal(r, d)
        /\ Covers(all, 1) /\ Covers(all, 2)
    BY <1>1, <1>2, JoinIs
  <1> HIDE DEF all
  <1>5. all # <<>>
    <2>1. Len(all) # 0
      BY <1>1, <1>2, <1>4
    <2>2. QED
      BY <2>1, EmptySeq
  <1>6. QED
    BY <1>2, <1>3, <1>4, <1>5 DEF Stores

CutTo(x, n) == [x EXCEPT !.len = n, !.start = IF n = 0 THEN 0 ELSE @]

LEMMA CutEntry ==
  ASSUME NEW x \in Entries, NEW n \in 0 .. MaxLen
  PROVE  /\ CutTo(x, n) \in Entries /\ CutTo(x, n).live = x.live /\ CutTo(x, n).len = n
         /\ CutTo(x, n).start = IF n = 0 THEN 0 ELSE x.start
  BY DEF Entries, CutTo

LEMMA SetSizeKeeps ==
  ASSUME TidyInv, tidy, NEW s \in Slots, NEW n \in 0 .. MaxLen, SetSize(s, n)
  PROVE  TidyInv'
  <1>1. Ready /\ stale' = stale /\ dir[s].live /\ n # dir[s].len
    BY DEF SetSize
  <1>2. dir \in [Slots -> Entries] /\ fat \in Fats /\ Consistent(fat, dir)
    BY <1>1, AtRest
  <1>3. dir[s] \in Entries /\ dir[s].len \in Nat /\ dir[s].name \in Names \cup {Nobody}
        /\ n \in Nat /\ n <= MaxLen
    BY <1>2, EntryIs, FatAssumption
  <1>4. CASE n > dir[s].len
    <2>1. Write(s, dir[s].name, n - 1, 1)
      BY <1>4 DEF SetSize
    <2>2. n - 1 \in Nat /\ 1 \in Nat /\ 1 > 0 /\ (n - 1) + 1 <= MaxLen
      BY <1>3, <1>4
    <2>3. QED
      BY <1>1, <1>3, <2>1, <2>2, WriteKeeps
  <1>5. CASE ~(n > dir[s].len)
    <2> DEFINE cut == Shrunk(fat, dir[s], n)
               e   == [dir[s] EXCEPT !.len = n, !.start = IF n = 0 THEN 0 ELSE @]
               todo == ToFat("shrink", cut) \o ToDir("shrink", s, e)
               undo == ToFat("shrink", fat) \o ToDir("shrink", s, dir[s])
    <2>1. Call("shrink", s, cut, todo, 3, fat, undo, 0)
      BY <1>5 DEF SetSize
    <2>2. e \in Entries /\ e.live /\ e.len = n /\ e.start = IF n = 0 THEN 0 ELSE dir[s].start
      <3>1. e = CutTo(dir[s], n)
        BY DEF CutTo
      <3> HIDE DEF e
      <3>2. QED
        BY <1>1, <1>3, <3>1, CutEntry
    <2>3. n \in 0 .. dir[s].len - 1
      BY <1>1, <1>3, <1>5
    <2> HIDE DEF e
    <2>4. Moves(fat, cut, dir, s, e)
      BY <1>1, <1>2, <2>2, <2>3, ShrinkMoves
    <2>5. cut \in Fats
      BY <1>2, ShrunkInFats
    <2> HIDE DEF cut
    <2>6. "shrink" \in Kinds
      BY DEF Kinds
    <2>7. Script(todo, cut, s) /\ todo # <<>> /\ Stores(todo, dir, s, e)
          /\ Covers(todo, 1) /\ Covers(todo, 2)
      BY <2>2, <2>5, <2>6, TableThenEntry
    <2>8. Script(undo, fat, s) /\ undo # <<>> /\ Stores(undo, dir, s, dir[s])
          /\ Covers(undo, 1) /\ Covers(undo, 2)
      BY <1>2, <1>3, <2>6, TableThenEntry
    <2> HIDE DEF todo, undo
    <2>9. Consistent(cut, Goal(todo, dir))
      <3>1. Consistent(cut, [dir EXCEPT ![s] = e])
        BY <1>2, <2>2, <2>4, Move
      <3>2. QED
        BY <2>7, <3>1 DEF Stores
    <2>10. Undoable(fat, undo, s, dir)
      <3>1. [dir EXCEPT ![s] = dir[s]] = dir
        BY <1>2
      <3>2. Goal(undo, dir) = dir
        BY <2>8, <3>1 DEF Stores
      <3>3. QED
        BY <1>2, <2>8, <3>2 DEF Undoable
    <2>11. "shrink" \notin {"write", "full"} /\ 3 \in Nat
      OBVIOUS
    <2>12. QED
      BY <1>1, <2>1, <2>5, <2>7, <2>9, <2>10, <2>11, CallKeeps
  <1>6. QED
    BY <1>4, <1>5

LEMMA GoalElsewhere ==
  ASSUME NEW q, NEW f, NEW s, Script(q, f, s), NEW d \in [Slots -> Entries]
  PROVE  \A t \in Slots : t # s => Goal(q, d)[t] = d[t]
  <1>1. q \in Seq(Writes)
    BY DEF Script
  <1>2. q # <<>> => Len(q) \in 1 .. Len(q)
    BY <1>1, LenProperties, EmptySeq
  <1>3. q # <<>> /\ q[Len(q)].to = "dir" => q[Len(q)].slot = s
    BY <1>2 DEF Script
  <1>4. QED
    BY <1>3 DEF Goal

LEMMA GoalType ==
  ASSUME NEW q, NEW f, NEW s, Script(q, f, s), NEW d \in [Slots -> Entries]
  PROVE  Goal(q, d) \in [Slots -> Entries]
  <1>1. q \in Seq(Writes)
    BY DEF Script
  <1>2. q # <<>> => q[Len(q)] \in Writes
    BY <1>1, LenProperties, EmptySeq, ElementOfSeq
  <1>3. q # <<>> /\ q[Len(q)].to = "dir" => q[Len(q)].new \in Entries
    BY <1>2, WriteIs
  <1>4. QED
    BY <1>3 DEF Goal

LEMMA IdleIs ==
  /\ Idle.op = "none" /\ Idle.slot = 0 /\ Idle.todo = <<>> /\ Idle.safe = 0 /\ IsJob(Idle)
  BY DEF Idle, IsJob

LEMMA DeviceWritesKeeps ==
  ASSUME TidyInv, tidy, DeviceWrites
  PROVE  TidyInv'
  <1> DEFINE q == job.todo
             s == job.slot
             w == Head(q)
             r == Tail(q)
             D == Goal(q, dir)
  <1>1. Shapes /\ Planned /\ Cached /\ BystandersWhole /\ GrowthSafe /\ RollsBack
    BY DEF TidyInv
  <1>2. q # <<>> /\ Script(q, fat, s) /\ s \in Slots /\ Consistent(fat, D) /\ IsJob(job)
    BY <1>1 DEF DeviceWrites, Planned, Ready
  <1>3. /\ w \in Writes /\ Len(q) \in Nat /\ Len(q) >= 1
        /\ w.to = "fat" => w.new = fat
        /\ w.to = "dir" => Len(q) = 1 /\ w.slot = s
        /\ Script(r, fat, s) /\ (r = <<>> <=> Len(q) = 1)
        /\ D = IF w.to = "dir" THEN [dir EXCEPT ![s] = w.new] ELSE Goal(r, dir)
        /\ \A c : Covers(q, c) => Covers(r, c) \/ (w.to = "fat" /\ w.copy = c)
    BY <1>2, HeadIs
  <1>4. /\ fats' = IF w.to = "fat" THEN [fats EXCEPT ![w.copy] = w.new] ELSE fats
        /\ dir'  = IF w.to = "dir" THEN [dir EXCEPT ![w.slot] = w.new] ELSE dir
        /\ job'  = IF Len(q) = 1 THEN Idle
                   ELSE [job EXCEPT !.todo = Tail(@), !.safe = IF @ = 0 THEN 0 ELSE @ - 1]
        /\ fat' = fat /\ stale' = stale
    BY DEF DeviceWrites
  <1>5. /\ w.to = "fat" => w.copy \in 1 .. 2
        /\ w.to = "dir" => w.new \in Entries
    BY <1>3, WriteIs
  <1>6. dir \in [Slots -> Entries] /\ fat \in Fats /\ fats \in [1 .. 2 -> Fats] /\ stale = {}
    BY <1>1 DEF Shapes
  <1>7. \A t \in Slots : t # s => D[t] = dir[t]
    BY <1>2, <1>6, GoalElsewhere
  <1> HIDE DEF q, s, w, r, D
  <1>8. Shapes'
    BY <1>2, <1>3, <1>4, <1>5, <1>6 DEF Shapes
  <1>9. \A c \in 1 .. 2 : /\ fats'[c] = fat \/ fats'[c] = fats[c]
                          /\ w.to = "fat" /\ w.copy = c => fats'[c] = fat
    BY <1>3, <1>4, <1>5, <1>6
  <1>10. \A c \in 1 .. 2 : fats'[c] = fat \/ Covers(r, c)
    BY <1>1, <1>3, <1>9 DEF Cached, q
  <1>11. 1 \in 1 .. 2
    OBVIOUS
  <1>12. CASE Len(q) = 1
    <2>1. job' = Idle /\ r = <<>>
      BY <1>3, <1>4, <1>12
    <2>2. D = dir'
      BY <1>3, <1>4, <2>1, NothingIs
    <2>3. Consistent(fat, dir') /\ dir' \in [Slots -> Entries]
      BY <1>2, <1>8, <2>2 DEF Shapes
    <2>4. \A c : ~Covers(r, c)
      BY <2>1 DEF Covers
    <2>5. Planned'
      <3>1. Script(<<>>, fat, 0) /\ Goal(<<>>, dir') = dir'
        BY NothingIs
      <3>2. job'.todo = <<>> /\ job'.slot = 0 /\ IsJob(job')
        BY <2>1, IdleIs
      <3>3. Consistent(fat, Goal(<<>>, dir'))
        BY <2>3, <3>1
      <3>4. QED
        BY <1>4, <2>1, <3>1, <3>2, <3>3 DEF Planned, Ready
    <2>6. Cached'
      BY <1>4, <1>10, <2>4 DEF Cached
    <2>7. BystandersWhole'
      <3>1. \A t \in Slots : dir'[t].live => Whole(fat, dir'[t])
        BY <2>3, KeptIn
      <3>2. fats'[1] = fat
        BY <1>10, <1>11, <2>4
      <3>3. QED
        BY <3>1, <3>2 DEF BystandersWhole
    <2>8. GrowthSafe'
      BY <2>1, IdleIs DEF GrowthSafe
    <2>9. RollsBack'
      BY <2>1, IdleIs DEF RollsBack
    <2>10. QED
      BY <1>8, <2>5, <2>6, <2>7, <2>8, <2>9 DEF TidyInv
  <1>13. CASE Len(q) # 1
    <2>1. dir' = dir /\ w.to # "dir" /\ r # <<>>
      BY <1>3, <1>4, <1>13
    <2>2. /\ job'.todo = r /\ job'.slot = s /\ job'.op = job.op /\ job'.back = job.back
          /\ job'.undo = job.undo /\ job'.safe = (IF job.safe = 0 THEN 0 ELSE job.safe - 1)
          /\ IsJob(job')
      <3>1. job' = [job EXCEPT !.todo = Tail(@), !.safe = IF @ = 0 THEN 0 ELSE @ - 1]
        BY <1>4, <1>13
      <3>2. QED
        BY <1>2, <3>1 DEF IsJob, q, r, s
    <2>3. D = Goal(r, dir)
      BY <1>3, <2>1
    <2>4. Planned'
      BY <1>2, <1>3, <1>4, <2>1, <2>2, <2>3 DEF Planned, Ready
    <2>5. Cached'
      BY <1>4, <1>10, <2>2 DEF Cached
    <2>6. fats'[1] = fat \/ fats'[1] = fats[1]
      BY <1>9, <1>11
    <2>7. BystandersWhole'
      <3>1. SUFFICES ASSUME NEW t \in Slots, t # s, dir[t].live PROVE Whole(fats'[1], dir[t])
        BY <2>1, <2>2 DEF BystandersWhole
      <3>2. Whole(fats[1], dir[t])
        BY <1>1, <3>1 DEF BystandersWhole, s
      <3>3. D \in [Slots -> Entries]
        <4>1. Goal(r, dir) \in [Slots -> Entries]
          BY <1>3, <1>6, GoalType
        <4>2. QED
          BY <2>3, <4>1
      <3>4. Whole(fat, dir[t])
        BY <1>2, <1>7, <3>1, <3>3, KeptIn
      <3>5. QED
        BY <2>6, <3>2, <3>4
    <2>8. GrowthSafe'
      BY <1>1, <1>4, <2>1, <2>2, <2>6 DEF GrowthSafe, s
    <2>9. RollsBack'
      <3>1. job.safe \in Nat /\ job'.safe \in Nat /\ (job'.safe > 0 => job.safe > 0)
        BY <1>1, <2>2 DEF RollsBack
      <3>2. QED
        BY <1>1, <2>1, <2>2, <3>1 DEF RollsBack, s
    <2>10. QED
      BY <1>8, <2>4, <2>5, <2>7, <2>8, <2>9 DEF TidyInv
  <1>14. QED
    BY <1>12, <1>13

LEMMA DeviceFailsKeeps ==
  ASSUME TidyInv, tidy, DeviceFails
  PROVE  TidyInv'
  <1>1. SUFFICES ASSUME tidy' PROVE TidyInv'
    BY DEF TidyInv
  <1>2. Shapes /\ Planned /\ Cached /\ BystandersWhole /\ GrowthSafe /\ RollsBack
    BY DEF TidyInv
  <1>3. job.safe > 0
    BY <1>1 DEF DeviceFails
  <1>4. Undoable(job.back, job.undo, job.slot, dir) /\ job.slot \in Slots
    BY <1>2, <1>3 DEF RollsBack, Planned, DeviceFails
  <1> DEFINE undo == job.undo
  <1>5. undo # <<>>
    BY <1>4 DEF Undoable
  <1>6. /\ job' = [Idle EXCEPT !.op = "undo", !.slot = job.slot, !.todo = undo]
        /\ fat' = job.back /\ fats' = fats /\ dir' = dir /\ stale' = stale
    BY <1>3, <1>5 DEF DeviceFails, CacheAfterFailure
  <1>7. /\ job'.op = "undo" /\ job'.slot = job.slot /\ job'.todo = undo /\ job'.safe = 0
        /\ IsJob(job')
    BY <1>6, IdleIs DEF IsJob
  <1> HIDE DEF undo
  <1>8. Shapes'
    BY <1>2, <1>4, <1>6 DEF Shapes, Undoable
  <1>9. Planned'
    BY <1>4, <1>5, <1>6, <1>7 DEF Planned, Undoable, Ready, undo
  <1>10. Cached'
    <2>1. \A c \in 1 .. 2 : c = 1 \/ c = 2
      OBVIOUS
    <2>2. QED
      BY <1>4, <1>7, <2>1 DEF Cached, Undoable, undo
  <1>11. BystandersWhole'
    BY <1>2, <1>6, <1>7 DEF BystandersWhole
  <1>12. GrowthSafe'
    BY <1>7 DEF GrowthSafe
  <1>13. RollsBack'
    BY <1>7 DEF RollsBack
  <1>14. QED
    BY <1>8, <1>9, <1>10, <1>11, <1>12, <1>13 DEF TidyInv

LEMMA UntidyStays ==
  ASSUME ~tidy, [Next]_vars
  PROVE  ~tidy'
  <1>1. ASSUME NEW n \in Names, Create(n) PROVE ~tidy'
    BY <1>1 DEF Create, FreeThenStore, Call
  <1>2. ASSUME NEW n \in Names, Unlink(n) PROVE ~tidy'
    BY <1>2 DEF Unlink, FreeThenStore, Call
  <1>3. ASSUME NEW s, NEW n, NEW off, NEW k, Write(s, n, off, k) PROVE ~tidy'
    BY <1>3 DEF Write, Call
  <1>4. ASSUME NEW off, NEW k, WriteAt(off, k) PROVE ~tidy'
    BY <1>3, <1>4 DEF WriteAt
  <1>5. ASSUME NEW s, NEW n, SetSize(s, n) PROVE ~tidy'
    <2>1. CASE n > dir[s].len
      BY <1>3, <1>5, <2>1 DEF SetSize
    <2>2. CASE ~(n > dir[s].len)
      BY <1>5, <2>2 DEF SetSize, Call
    <2>3. QED
      BY <2>1, <2>2
  <1>6. CASE DeviceWrites
    BY <1>6 DEF DeviceWrites
  <1>7. CASE DeviceFails
    BY <1>7 DEF DeviceFails
  <1>8. CASE Abort
    BY <1>8 DEF Abort
  <1>9. CASE UNCHANGED vars
    BY <1>9 DEF vars
  <1>10. QED
    BY <1>1, <1>2, <1>4, <1>5, <1>6, <1>7, <1>8, <1>9 DEF Next

LEMMA NextTidy ==
  ASSUME ~StaleHandles, TidyInv, [Next]_vars
  PROVE  TidyInv'
  <1>1. CASE ~tidy
    BY <1>1, UntidyStays DEF TidyInv
  <1>2. CASE tidy
    <2>1. ASSUME NEW n \in Names, Create(n) PROVE TidyInv'
      BY <1>2, <2>1, CreateKeeps
    <2>2. ASSUME NEW n \in Names, Unlink(n) PROVE TidyInv'
      BY <1>2, <2>2, UnlinkKeeps
    <2>3. ASSUME NEW off \in 0 .. MaxLen, NEW k \in 0 .. MaxLen, k > 0, WriteAt(off, k) PROVE TidyInv'
      BY <1>2, <2>3, WriteAtKeeps
    <2>4. ASSUME NEW s \in Slots, NEW n \in 0 .. MaxLen, SetSize(s, n) PROVE TidyInv'
      BY <1>2, <2>4, SetSizeKeeps
    <2>5. CASE DeviceWrites
      BY <1>2, <2>5, DeviceWritesKeeps
    <2>6. CASE DeviceFails
      BY <1>2, <2>6, DeviceFailsKeeps
    <2>7. CASE Abort
      BY <2>7 DEF Abort, TidyInv
    <2>8. CASE UNCHANGED vars
      <3>1. /\ fat' = fat /\ fats' = fats /\ dir' = dir /\ job' = job /\ stale' = stale
            /\ (tidy' <=> tidy)
        BY <2>8 DEF vars
      <3>2. QED
        BY <3>1 DEF TidyInv, Shapes, Planned, Cached, BystandersWhole, GrowthSafe, RollsBack, Ready
    <2>9. QED
      BY <2>1, <2>2, <2>3, <2>4, <2>5, <2>6, <2>7, <2>8 DEF Next
  <1>3. QED
    BY <1>1, <1>2

LEMMA TidyHolds == ~StaleHandles => (Spec => []TidyInv)
  <1>1. SUFFICES ASSUME ~StaleHandles PROVE Spec => []TidyInv
    OBVIOUS
  <1>2. TidyInv /\ [Next]_vars => TidyInv'
    BY <1>1, NextTidy
  <1>3. QED
    BY <1>2, InitTidy, PTL DEF Spec

LEMMA RestIsConsistent ==
  ASSUME TidyInv
  PROVE  VolumeConsistent
  <1>1. SUFFICES ASSUME Ready, tidy
                 PROVE  /\ \A s \in LiveSlots : Whole(fat, dir[s])
                        /\ Disjoint(fat)
                        /\ Clusters \ FreeClusters(fat) = UNION {Extent(fat, s) : s \in LiveSlots}
                        /\ fats = <<fat, fat>>
    BY DEF VolumeConsistent
  <1>2. dir \in [Slots -> Entries] /\ Consistent(fat, dir) /\ fats = <<fat, fat>>
    BY <1>1, AtRest
  <1>3. \A s \in LiveSlots : s \in Slots /\ dir[s].live
    BY DEF LiveSlots
  <1>4. \A s \in LiveSlots : Whole(fat, dir[s])
    BY <1>2, <1>3, KeptIn
  <1>5. \A s \in LiveSlots : Extent(fat, s) = Run(fat, dir[s].start, Lens(dir)[s])
    BY <1>2, <1>3, KeptIn DEF Extent, Run
  <1>6. Disjoint(fat)
    BY <1>2, <1>3, <1>5 DEF Disjoint, Consistent, Sound
  <1>7. ASSUME NEW c \in Clusters, fat[c] # FREE
        PROVE  \E s \in LiveSlots : c \in Extent(fat, s)
    <2>1. PICK s \in Slots : dir[s].live /\ c \in Run(fat, dir[s].start, Lens(dir)[s])
      BY <1>2, <1>7 DEF Consistent, Exact
    <2>2. s \in LiveSlots
      BY <2>1 DEF LiveSlots
    <2>3. QED
      BY <1>5, <2>1, <2>2
  <1>8. ASSUME NEW s \in LiveSlots, NEW c \in Extent(fat, s)
        PROVE  c \in Clusters /\ fat[c] # FREE
    <2>1. Kept(fat, dir[s], Lens(dir)[s])
      BY <1>2, <1>3, KeptIn
    <2>2. QED
      BY <1>5, <1>8, <2>1, RunOfKept
  <1>9. Clusters \ FreeClusters(fat) = UNION {Extent(fat, s) : s \in LiveSlots}
    BY <1>7, <1>8 DEF FreeClusters
  <1>10. QED
    BY <1>2, <1>4, <1>6, <1>9

(* fat12.c, "allocate-then-commit": for a volume of any size, with any      *)
(* writes refused and any answer to INT 24h, after every call each file has *)
(* the chain its size needs, apart from the others', and both copies of the *)
(* FAT are the cached one, unless a refused write was one that no call      *)
(* rolls back.  Programs write through no handle of a deleted file.         *)
THEOREM VolumeStaysConsistent == ~StaleHandles => (Spec => []VolumeConsistent)
  <1>1. TidyInv => VolumeConsistent
    BY RestIsConsistent
  <1>2. QED
    BY <1>1, TidyHolds, PTL

(* fat12_write_partial commits the FAT before the size: whenever the power  *)
(* fails, a file that was growing has a cluster for all of its size, for a  *)
(* volume and a file of any size.                                           *)
THEOREM GrowingFileIsSafe == ~StaleHandles => (Spec => []GrowthSurvivesACut)
  <1>1. TidyInv => GrowthSurvivesACut
    BY DEF TidyInv, GrowthSafe, HasRoom, GrowthSurvivesACut
  <1>2. QED
    BY <1>1, TidyHolds, PTL

-----------------------------------------------------------------------------
(* What no failure takes from a file: the states that a refused write or an  *)
(* aborted program leaves behind as well.                                    *)

(* Chains that may be longer than their files.                               *)

(* Each live file has a chain of its own, at least as long as its size.      *)
Sturdy(f, d) == \E L : Sound(f, d, L)

(* The clusters that the size of e covers.                                   *)
Held(f, e) == Run(f, e.start, e.len)

(* No file holds what it did not hold before.                                *)
Inside(g, f, d) ==
  \A s \in Slots : d[s].live => \A c \in Held(g, d[s]) : c \in Clusters => c \in Held(f, d[s])

(* What a file holds by one table no other one holds by the other.           *)
Apart(f, g, d) ==
  \A s, t \in Slots : d[s].live /\ d[t].live /\ s # t =>
    \A c \in Clusters : ~(c \in Held(f, d[s]) /\ c \in Held(g, d[t]))

(* Walks of different files never meet, not even outside the volume.         *)
Disjointly(f, d) ==
  \A s, t \in Slots : d[s].live /\ d[t].live /\ s # t => Held(f, d[s]) \cap Held(f, d[t]) = {}

(* What a file holds are its bytes, or nobody's.                             *)
Own(f, d, x) ==
  \A s \in Slots : d[s].live =>
    \A c \in Held(f, d[s]) : c \in Clusters => x[c] \in {Nobody, d[s].name}

LEMMA HeldIs ==
  ASSUME NEW f, NEW d, Sturdy(f, d), NEW s \in Slots, d[s].live
  PROVE  /\ d[s].len \in Nat
         /\ \A k \in 0 .. d[s].len - 1 : Node(f, d[s].start, k) \in Clusters
         /\ \A c \in Held(f, d[s]) : c \in Clusters
         /\ \A j, k \in 0 .. d[s].len - 1 : Node(f, d[s].start, j) = Node(f, d[s].start, k) => j = k
  <1>1. PICK L : Sound(f, d, L)
    BY DEF Sturdy
  <1> DEFINE n == L[s]
  <1>2. Kept(f, d[s], n)
    BY <1>1 DEF Sound
  <1>3. d[s].len \in Nat /\ d[s].len <= n /\ n \in Nat
    BY <1>2, ReachIs
  <1> HIDE DEF n
  <1>4. CASE d[s].len = 0
    BY <1>4 DEF Held, Run
  <1>5. CASE d[s].len # 0
    <2>1. n # 0 /\ Ends(f, d[s].start, n)
      BY <1>2, <1>3, <1>5 DEF Kept
    <2>2. \A k \in 0 .. d[s].len - 1 : k \in 0 .. n - 1
      BY <1>3
    <2>3. \A k \in 0 .. d[s].len - 1 : Node(f, d[s].start, k) \in Clusters
      BY <2>1, <2>2 DEF Ends
    <2>4. ASSUME NEW j \in 0 .. d[s].len - 1, NEW k \in 0 .. d[s].len - 1,
                 Node(f, d[s].start, j) = Node(f, d[s].start, k)
          PROVE  j = k
      BY <1>3, <2>1, <2>2, <2>4, Distinct
    <2>5. QED
      BY <1>3, <2>3, <2>4 DEF Held, Run
  <1>6. QED
    BY <1>4, <1>5

LEMMA SturdyApart ==
  ASSUME NEW f, NEW d, Sturdy(f, d)
  PROVE  Disjointly(f, d)
  <1>1. PICK L : Sound(f, d, L)
    BY DEF Sturdy
  <1>2. ASSUME NEW s \in Slots, d[s].live
        PROVE  \A c \in Held(f, d[s]) : c \in Run(f, d[s].start, L[s])
    <2>1. Kept(f, d[s], L[s])
      BY <1>1, <1>2 DEF Sound
    <2>2. d[s].len \in Nat /\ d[s].len <= L[s] /\ L[s] \in Nat
      BY <2>1, ReachIs
    <2>3. \A k \in 0 .. d[s].len - 1 : k \in 0 .. L[s] - 1
      BY <2>2
    <2>4. QED
      BY <2>3 DEF Held, Run
  <1>3. \A s, t \in Slots : d[s].live /\ d[t].live /\ s # t =>
          Run(f, d[s].start, L[s]) \cap Run(f, d[t].start, L[t]) = {}
    BY <1>1 DEF Sound
  <1>4. ASSUME NEW s \in Slots, NEW t \in Slots, d[s].live, d[t].live, s # t,
               NEW c \in Held(f, d[s]) \cap Held(f, d[t])
        PROVE  FALSE
    BY <1>2, <1>3, <1>4
  <1>5. QED
    BY <1>4 DEF Disjointly

LEMMA DisjointlyApart ==
  ASSUME NEW f, NEW d, Disjointly(f, d)
  PROVE  Apart(f, f, d)
  BY DEF Disjointly, Apart

(* Cutting chains anywhere adds no cluster to any.                           *)
LEMMA CutChain ==
  ASSUME NEW f, NEW g, \A c \in Clusters : g[c] \in {f[c], FREE, EOC}, NEW h, NEW n \in Nat
  PROVE  \A k \in 0 .. n : Node(g, h, k) \in Clusters => Node(g, h, k) = Node(f, h, k)
  <1> DEFINE T == {k \in 0 .. n : Node(g, h, k) \in Clusters => Node(g, h, k) = Node(f, h, k)}
  <1>1. 0 \in T
    <2>1. Node(g, h, 0) = h /\ Node(f, h, 0) = h
      BY NodeStep
    <2>2. 0 \in 0 .. n
      OBVIOUS
    <2>3. QED
      BY <2>1, <2>2
  <1>2. ASSUME NEW k \in 0 .. n - 1, k \in T PROVE k + 1 \in T
    <2>1. k \in Nat /\ k + 1 \in 0 .. n
      OBVIOUS
    <2>2. SUFFICES ASSUME Node(g, h, k + 1) \in Clusters
                   PROVE  Node(g, h, k + 1) = Node(f, h, k + 1)
      BY <2>1
    <2>3. Node(g, h, k) \in Clusters
      BY <2>1, <2>2, HopIs
    <2>4. Node(g, h, k) = Node(f, h, k)
      BY <1>2, <2>3
    <2>5. Node(g, h, k + 1) = g[Node(g, h, k)] /\ Node(f, h, k + 1) = f[Node(f, h, k)]
      BY <2>1, <2>3, <2>4, HopIs
    <2>6. g[Node(g, h, k)] = f[Node(g, h, k)]
      BY <2>2, <2>3, <2>5, Numbers
    <2>7. QED
      BY <2>4, <2>5, <2>6
  <1>3. \A k \in 0 .. n : k \in T
    <2> HIDE DEF T
    <2>1. QED
      BY <1>1, <1>2, UpTo
  <1>4. QED
    BY <1>3

LEMMA InsideCut ==
  ASSUME NEW f, NEW g, \A c \in Clusters : g[c] \in {f[c], FREE, EOC}, NEW d \in [Slots -> Entries]
  PROVE  Inside(g, f, d)
  <1> SUFFICES ASSUME NEW s \in Slots, NEW c \in Held(g, d[s]), c \in Clusters
               PROVE  c \in Held(f, d[s])
    BY DEF Inside
  <1>1. PICK k \in 0 .. d[s].len - 1 : c = Node(g, d[s].start, k)
    BY DEF Held, Run
  <1>2. d[s].len \in Nat
    BY EntryIs
  <1>3. k \in 0 .. d[s].len
    BY <1>2
  <1>4. Node(g, d[s].start, k) = Node(f, d[s].start, k)
    BY <1>1, <1>2, <1>3, CutChain
  <1>5. QED
    BY <1>1, <1>4 DEF Held, Run

LEMMA InsideKept ==
  ASSUME NEW f, NEW g, NEW d, Keeps(g, f, d)
  PROVE  Inside(g, f, d)
  BY DEF Keeps, Inside, Held, Run

LEMMA InsideSame ==
  ASSUME NEW f, NEW d
  PROVE  Inside(f, f, d)
  BY DEF Inside

(* A table that suits all but one file as it suits another directory.        *)
LEMMA ApartAfter ==
  ASSUME NEW f, NEW g, NEW d, NEW dd, NEW s \in Slots, Sturdy(f, d), Sturdy(g, dd),
         Inside(g, f, d), \A t \in Slots : t # s => dd[t] = d[t]
  PROVE  Disjointly(g, d)
  <1>1. Disjointly(f, d) /\ Disjointly(g, dd)
    BY SturdyApart
  <1>2. ASSUME NEW t \in Slots, t # s, d[t].live PROVE \A c \in Held(g, d[t]) : c \in Clusters
    <2>1. dd[t] = d[t]
      BY <1>2
    <2>2. \A c \in Held(g, dd[t]) : c \in Clusters
      BY <1>2, <2>1, HeldIs
    <2>3. QED
      BY <2>1, <2>2
  <1>3. ASSUME NEW t \in Slots, NEW u \in Slots, d[t].live, d[u].live, t # u,
               NEW c \in Held(g, d[t]) \cap Held(g, d[u])
        PROVE  FALSE
    <2>1. c \in Clusters
      BY <1>2, <1>3
    <2>2. c \in Held(f, d[t]) /\ c \in Held(f, d[u])
      BY <1>3, <2>1 DEF Inside
    <2>3. QED
      BY <1>1, <1>3, <2>2 DEF Disjointly
  <1>4. QED
    BY <1>3 DEF Disjointly

LEMMA ApartInside ==
  ASSUME NEW f, NEW g, NEW h, NEW d, Inside(g, f, d), Apart(f, h, d)
  PROVE  Apart(g, h, d)
  BY DEF Inside, Apart

LEMMA OwnInside ==
  ASSUME NEW f, NEW g, NEW d, NEW x, Inside(g, f, d), Own(f, d, x)
  PROVE  Own(g, d, x)
  BY DEF Inside, Own

-----------------------------------------------------------------------------
(* What single calls make of sturdy tables.                                  *)

LEMMA SturdyMove ==
  ASSUME NEW f, NEW g, NEW d \in [Slots -> Entries], NEW L, NEW s \in Slots, NEW e, NEW m \in Nat,
         Sound(f, d, L), Within(f, g, d, L, s, e, m)
  PROVE  Sturdy(g, [d EXCEPT ![s] = e])
  <1>1. Sound(g, [d EXCEPT ![s] = e], [L EXCEPT ![s] = m])
    BY StaysSound
  <1>2. QED
    BY <1>1 DEF Sturdy

LEMMA StayPut ==
  ASSUME NEW d \in [Slots -> Entries], NEW s \in Slots
  PROVE  [d EXCEPT ![s] = d[s]] = d
  OBVIOUS

(* What else is in the directory stays.                                      *)
Replaces(dd, d, s, e) == dd = [d EXCEPT ![s] = e]

LEMMA FreedSturdy ==
  ASSUME NEW f, NEW d \in [Slots -> Entries], Sturdy(f, d), NEW s \in Slots, d[s].live,
         NEW e, e.live => e.start = 0 /\ e.len = 0, NEW dd, Replaces(dd, d, s, e)
  PROVE  Sturdy(Freed(f, d[s].start), dd) /\ Inside(Freed(f, d[s].start), f, d)
  <1>1. PICK L : Sound(f, d, L)
    BY DEF Sturdy
  <1> DEFINE g == Freed(f, d[s].start)
             n == L[s]
             R == Run(f, d[s].start, n)
  <1>2. Kept(f, d[s], n)
    BY <1>1 DEF Sound
  <1>3. \A c \in Clusters : g[c] = IF c \in R THEN FREE ELSE f[c]
    BY <1>2, FreedIs
  <1>4. R \subseteq Room(f, d, L, s)
    BY DEF Room
  <1> HIDE DEF g, R
  <1>5. e.live => Kept(g, e, 0) /\ Run(g, e.start, 0) = {}
    BY DEF Kept, Run
  <1>6. Within(f, g, d, L, s, e, 0)
    BY <1>3, <1>4, <1>5 DEF Within
  <1>7. Sturdy(g, dd)
    BY <1>1, <1>6, SturdyMove DEF Replaces
  <1>8. Inside(g, f, d)
    BY <1>3, InsideCut
  <1>9. QED
    BY <1>7, <1>8 DEF g

(* A chain cut behind its first n clusters, by whatever means.               *)
Cuts(g, f, h, n) ==
  /\ n = 0 \/ g[Node(f, h, n - 1)] = EOC
  /\ \A k \in 0 .. n - 2 : g[Node(f, h, k)] = f[Node(f, h, k)]

LEMMA CutEnds ==
  ASSUME NEW f, NEW g, NEW h, NEW b \in Nat, Ends(f, h, b), NEW n \in 1 .. b, Cuts(g, f, h, n)
  PROVE  Ends(g, h, n) /\ Run(g, h, n) = Run(f, h, n)
  <1> DEFINE p == n - 1
  <1>1. /\ p \in Nat /\ p + 1 = n /\ n \in Nat /\ n # 0 /\ p \in 0 .. b - 1
        /\ \A k \in 0 .. p - 1 : k \in 0 .. n - 2 /\ k \in 0 .. b - 1
        /\ \A k \in 0 .. n - 1 : k \in 0 .. p /\ k \in 0 .. b - 1
        /\ p \in 0 .. p
    OBVIOUS
  <1>2. g[Node(f, h, p)] = EOC
    BY <1>1 DEF Cuts
  <1>8. \A k \in 0 .. b - 1 : Node(f, h, k) \in Clusters
    BY DEF Ends
  <1> HIDE DEF p
  <1>3. \A k \in 0 .. p - 1 : Node(f, h, k) \in Clusters /\ g[Node(f, h, k)] = f[Node(f, h, k)]
    BY <1>1, <1>8 DEF Cuts
  <1>4. Same(g, f, h, p)
    BY <1>1, <1>3, SameNodes
  <1>5. \A k \in 0 .. n - 1 : Node(g, h, k) = Node(f, h, k) /\ Node(g, h, k) \in Clusters
    BY <1>1, <1>4, <1>8 DEF Same
  <1>6. Node(g, h, p) \in Clusters /\ Node(g, h, p) = Node(f, h, p)
    BY <1>1, <1>4, <1>8 DEF Same
  <1>7. Node(g, h, n) = EOC
    BY <1>1, <1>2, <1>6, HopIs
  <1>9. QED
    BY <1>5, <1>7 DEF Ends, Run

LEMMA CutSturdy ==
  ASSUME NEW f, NEW g, NEW d \in [Slots -> Entries], NEW L, Sound(f, d, L), NEW s \in Slots, d[s].live,
         NEW n \in 0 .. d[s].len, Cuts(g, f, d[s].start, n),
         \A c \in Clusters : g[c] = f[c] \/ c \in Room(f, d, L, s),
         NEW e, e.live => e.len = n /\ e.start = (IF n = 0 THEN 0 ELSE d[s].start),
         NEW dd, Replaces(dd, d, s, e)
  PROVE  Sturdy(g, dd)
  <1> DEFINE b == L[s]
             h == d[s].start
  <1>1. Kept(f, d[s], b)
    BY DEF Sound
  <1>2. b \in Nat /\ d[s].len \in Nat /\ d[s].len <= b
    BY <1>1, ReachIs
  <1>3. n \in Nat /\ n <= b /\ (n # 0 => n \in 1 .. b /\ b # 0 /\ n \in 1 .. n)
    BY <1>2
  <1>4. e.live => Kept(g, e, n) /\ Run(g, e.start, n) \subseteq Room(f, d, L, s)
    <2>1. CASE n = 0
      BY <2>1 DEF Kept, Run
    <2>2. CASE n # 0
      <3>1. Ends(f, h, b)
        BY <1>1, <1>3, <2>2 DEF Kept
      <3>2. Ends(g, h, n) /\ Run(g, h, n) = Run(f, h, n)
        BY <1>2, <1>3, <2>2, <3>1, CutEnds
      <3>3. \A k \in 0 .. n - 1 : k \in 0 .. b - 1
        BY <1>2, <1>3
      <3>4. Run(f, h, n) \subseteq Run(f, h, b)
        BY <3>3 DEF Run
      <3>5. Run(f, h, b) \subseteq Room(f, d, L, s)
        BY DEF Room
      <3>6. QED
        BY <1>3, <2>2, <3>2, <3>4, <3>5 DEF Kept
    <2>3. QED
      BY <2>1, <2>2
  <1>5. Within(f, g, d, L, s, e, n)
    BY <1>4 DEF Within
  <1>6. QED
    BY <1>3, <1>5, SturdyMove DEF Replaces

(* fat12_set_size cuts the chain of a file that is whole.                    *)
LEMMA ShrunkSturdy ==
  ASSUME NEW f, NEW d \in [Slots -> Entries], Sturdy(f, d), NEW s \in Slots, d[s].live,
         Whole(f, d[s]), NEW n \in 0 .. d[s].len - 1, NEW e, e.live => e.len = n /\ e.start = (IF n = 0 THEN 0 ELSE d[s].start),
         NEW dd, Replaces(dd, d, s, e)
  PROVE  Sturdy(Shrunk(f, d[s], n), dd) /\ Inside(Shrunk(f, d[s], n), f, d)
  <1>1. PICK L : Sound(f, d, L)
    BY DEF Sturdy
  <1> DEFINE g == Shrunk(f, d[s], n)
             b == d[s].len
             h == d[s].start
             R == Run(f, h, b)
             K == Run(f, h, n)
             last == Node(f, h, n - 1)
  <1>2. Kept(f, d[s], L[s]) /\ b \in Nat
    BY <1>1, EntryIs DEF Sound
  <1>3. b # 0 /\ n \in Nat /\ n \in 0 .. b /\ n <= b
    BY <1>2
  <1>4. Ends(f, h, b)
    BY <1>3 DEF Whole, Ends
  <1>5. L[s] = b
    <2>1. L[s] # 0 /\ L[s] \in Nat
      BY <1>2, <1>3 DEF Kept
    <2>2. Ends(f, h, L[s])
      BY <1>2, <2>1 DEF Kept
    <2>3. QED
      BY <1>2, <1>4, <2>1, <2>2, OneLength
  <1>6. \A c \in Clusters : g[c] = IF c \in R \ K THEN FREE
                                   ELSE IF n > 0 /\ c = last THEN EOC ELSE f[c]
    BY DEF Shrunk, Run
  <1>7. \A k \in 0 .. n - 1 : Node(f, h, k) \in K /\ Node(f, h, k) \in R /\ Node(f, h, k) \in Clusters
    <2>1. \A k \in 0 .. n - 1 : k \in 0 .. b - 1
      BY <1>2, <1>3
    <2>2. QED
      BY <1>4, <2>1 DEF Run, Ends
  <1>8. n > 0 => n - 1 \in 0 .. n - 1 /\ n - 1 \in 0 .. b - 1 /\ last \in R
    <2>1. n > 0 => n - 1 \in 0 .. n - 1 /\ n - 1 \in 0 .. b - 1
      BY <1>2, <1>3
    <2>2. QED
      BY <1>7, <2>1
  <1> HIDE DEF g, R, K
  <1>9. Cuts(g, f, h, n)
    <2>1. n = 0 \/ g[last] = EOC
      BY <1>3, <1>6, <1>7, <1>8
    <2>2. ASSUME NEW k \in 0 .. n - 2
          PROVE  g[Node(f, h, k)] = f[Node(f, h, k)]
      <3>1. k \in 0 .. n - 1 /\ k \in 0 .. b - 1 /\ n - 1 \in 0 .. b - 1 /\ k # n - 1
        BY <1>2, <1>3
      <3>2. Node(f, h, k) # last
        BY <1>2, <1>4, <3>1, Distinct
      <3>3. QED
        BY <1>6, <1>7, <3>1, <3>2
    <2>3. QED
      BY <2>1, <2>2 DEF Cuts
  <1>10. R \subseteq Room(f, d, L, s)
    BY <1>5 DEF Room, R
  <1>11. \A c \in Clusters : g[c] = f[c] \/ c \in Room(f, d, L, s)
    BY <1>6, <1>8, <1>10
  <1>12. Sturdy(g, dd)
    BY <1>1, <1>3, <1>9, <1>11, CutSturdy
  <1>13. Inside(g, f, d)
    BY <1>6, InsideCut
  <1>14. QED
    BY <1>12, <1>13 DEF g

(* A roll-back ends the chain where the file's size does.                    *)
LEMMA UnlinkedSturdy ==
  ASSUME NEW f, NEW d \in [Slots -> Entries], Sturdy(f, d), NEW s \in Slots, d[s].live,
         NEW cs, Fresh(f, cs)
  PROVE  /\ Sturdy(Unlinked(f, Reach(f, d[s]), cs), d)
         /\ Inside(Unlinked(f, Reach(f, d[s]), cs), f, d)
  <1>1. PICK L : Sound(f, d, L)
    BY DEF Sturdy
  <1> DEFINE tail == Reach(f, d[s])
             g == Unlinked(f, tail, cs)
             b == d[s].len
             h == d[s].start
             S == ToSet(cs)
  <1>2. Kept(f, d[s], L[s])
    BY <1>1 DEF Sound
  <1>3. /\ tail = 0 <=> b = 0
        /\ b # 0 => tail = Node(f, h, b - 1) /\ b - 1 \in 0 .. L[s] - 1
        /\ h = 0 <=> b = 0
        /\ b \in Nat /\ L[s] \in Nat /\ b <= L[s]
    BY <1>2, ReachIs
  <1>4. \A c \in S : f[c] = FREE
    BY DEF Fresh, ToSet
  <1> HIDE DEF tail, S
  <1>5. \A c \in Clusters : g[c] = IF c \in S THEN FREE ELSE IF c = tail THEN EOC ELSE f[c]
    BY DEF Unlinked, S
  <1> HIDE DEF g
  <1>6. b # 0 => tail \in Run(f, h, L[s]) /\ Ends(f, h, L[s]) /\ L[s] # 0
    BY <1>2, <1>3 DEF Run, Kept
  <1>7. \A c \in Run(f, h, L[s]) : c \in Clusters /\ f[c] # FREE
    BY <1>2, RunOfKept
  <1>8. Cuts(g, f, h, b)
    <2>1. CASE b = 0
      BY <2>1 DEF Cuts
    <2>2. CASE b # 0
      <3>1. g[tail] = EOC
        BY <1>4, <1>5, <1>6, <1>7, <2>2
      <3>2. ASSUME NEW k \in 0 .. b - 2
            PROVE  g[Node(f, h, k)] = f[Node(f, h, k)]
        <4>1. k \in 0 .. L[s] - 1 /\ k # b - 1 /\ b - 1 \in 0 .. L[s] - 1
          BY <1>3, <2>2
        <4>2. Node(f, h, k) # tail
          BY <1>3, <1>6, <2>2, <4>1, Distinct
        <4>3. Node(f, h, k) \in Run(f, h, L[s])
          BY <4>1 DEF Run
        <4>4. QED
          BY <1>4, <1>5, <1>7, <4>2, <4>3
      <3>3. QED
        BY <1>3, <2>2, <3>1, <3>2 DEF Cuts
    <2>3. QED
      BY <2>1, <2>2
  <1>9. \A c \in Clusters : g[c] = f[c] \/ c \in Room(f, d, L, s)
    <2>1. \A c \in Clusters : c \in S => c \in Room(f, d, L, s)
      BY <1>4 DEF Room, FreeClusters
    <2>2. \A c \in Clusters : c = tail => c \in Room(f, d, L, s)
      BY <1>3, <1>6, Numbers DEF Room
    <2>3. QED
      BY <1>5, <2>1, <2>2
  <1>10. b \in 0 .. b /\ d[s].start = (IF b = 0 THEN 0 ELSE h)
    BY <1>3
  <1>11. Replaces(d, d, s, d[s])
    BY DEF Replaces
  <1>12. Sturdy(g, d)
    BY <1>1, <1>8, <1>9, <1>10, <1>11, CutSturdy
  <1>13. Inside(g, f, d)
    BY <1>5, InsideCut
  <1>14. QED
    BY <1>12, <1>13 DEF g, tail

(* Growing: the entry before and after it is stored.                         *)
LEMMA LinkedSturdy ==
  ASSUME NEW f, NEW d \in [Slots -> Entries], Sturdy(f, d), NEW s \in Slots, d[s].live,
         NEW cs, Fresh(f, cs), Len(cs) # 0,
         NEW e, e.start = StartAfter(f, d[s], cs), e.len = d[s].len + Len(cs),
         NEW dd, Replaces(dd, d, s, e),
         NEW g, g = Linked(f, Reach(f, d[s]), cs)
  PROVE  Sturdy(g, dd) /\ Sturdy(g, d) /\ Inside(g, f, d)
  <1>1. PICK L : Sound(f, d, L)
    BY DEF Sturdy
  <1> DEFINE b == d[s].len
             n == Len(cs)
  <1>2. Kept(f, d[s], L[s])
    BY <1>1 DEF Sound
  <1>3. b \in Nat /\ n \in Nat /\ n # 0 /\ (Reach(f, d[s]) = 0 <=> b = 0) /\ (d[s].start = 0 <=> b = 0)
    BY <1>2, ReachIs, LenProperties DEF Fresh
  <1>4. e.len \in 1 .. b + n /\ b + n \in Nat
    BY <1>3
  <1>5. Within(f, g, d, L, s, e, b + n)
    BY <1>1, <1>4, LinkFits
  <1>6. Sturdy(g, dd)
    BY <1>1, <1>4, <1>5, SturdyMove DEF Replaces
  <1>7. Grown(g, f, d[s], cs, StartAfter(f, d[s], cs))
    BY <1>2, LinkGrows
  <1>8. \A k \in 0 .. b - 1 : Node(g, d[s].start, k) = Node(f, d[s].start, k)
    <2>1. CASE b = 0
      BY <2>1
    <2>2. CASE b # 0
      <3>1. StartAfter(f, d[s], cs) = d[s].start
        BY <1>3, <2>2 DEF StartAfter
      <3>2. QED
        BY <1>7, <3>1 DEF Grown
    <2>3. QED
      BY <2>1, <2>2
  <1>9. Keeps(g, f, d)
    BY <1>1, <1>5, <1>8, KeepsOthers
  <1>10. Sturdy(g, d)
    <2>1. PICK m \in Nat : Within(f, g, d, L, s, d[s], m)
      <3>1. CASE b = 0
        <4>1. Kept(g, d[s], 0) /\ Run(g, d[s].start, 0) = {}
          BY <1>3, <3>1 DEF Kept, Run
        <4>2. Within(f, g, d, L, s, d[s], 0)
          BY <1>5, <4>1 DEF Within
        <4>3. QED
          BY <4>2
      <3>2. CASE b # 0
        <4>1. StartAfter(f, d[s], cs) = d[s].start /\ b \in 1 .. b + n
          BY <1>3, <3>2 DEF StartAfter
        <4>2. Within(f, g, d, L, s, d[s], b + n)
          BY <1>1, <4>1, LinkFits
        <4>3. QED
          BY <1>4, <4>2
      <3>3. QED
        BY <3>1, <3>2
    <2>2. Sturdy(g, [d EXCEPT ![s] = d[s]])
      BY <1>1, <2>1, SturdyMove
    <2>3. QED
      BY <2>2, StayPut
  <1>11. QED
    BY <1>6, <1>9, <1>10, InsideKept

-----------------------------------------------------------------------------
(* Writes in their order.                                                    *)

AllOf(q, kind) == \A i \in 1 .. Len(q) : q[i].kind = kind
NoData(q)      == \A i \in 1 .. Len(q) : q[i].to # "data"
NoFat(q)       == \A i \in 1 .. Len(q) : q[i].to # "fat"

(* The first copy of a table is never the last write.                        *)
PairsUp(q) == \A i \in 1 .. Len(q) : q[i].to = "fat" /\ q[i].copy = 1 => i # Len(q)

(* The cluster c is zeroed before any table is written.                      *)
Zeroes(q, i, c) == q[i].to = "data" /\ q[i].at = c /\ q[i].new = Nobody
Zeroing(q, c)   == \E i \in 1 .. Len(q) : Zeroes(q, i, c) /\ \A j \in 1 .. i : q[j].to # "fat"

(* Bytes of a program.                                                       *)
IsBytes(w) == w.to = "data" /\ w.new # Nobody
NoBytes(q) == \A i \in 1 .. Len(q) : ~IsBytes(q[i])

(* They go into clusters of the file whose entry was "was" and becomes e.    *)
Fills(w, f, was, e) ==
  was.live /\ e.live /\ w.new = was.name /\ w.new = e.name /\ w.at \in Held(f, e)

(* Bytes come after the writes that can be taken back, and after the tables. *)
FillsOwn(q, safe, f, was, e) ==
  \A i \in 1 .. Len(q) : IsBytes(q[i]) =>
    i > safe /\ Fills(q[i], f, was, e) /\ \A j \in i .. Len(q) : q[j].to # "fat"

(* What e will hold is clean, or is zeroed before it is linked.              *)
Cleared(q, f, e, x) ==
  e.live => \A c \in Held(f, e) : c \in Clusters => x[c] \in {Nobody, e.name} \/ Zeroing(q, c)

(* The writes that are left after the first.                                 *)
LEMMA TailIs ==
  ASSUME NEW q, q \in Seq(Writes), q # <<>>, NEW r, r = Tail(q), NEW w, w = Head(q)
  PROVE  /\ Len(q) \in Nat /\ Len(q) >= 1 /\ Len(r) = Len(q) - 1
         /\ \A kind : AllOf(q, kind) => w.kind = kind /\ AllOf(r, kind)
         /\ NoData(q) => w.to # "data" /\ NoData(r)
         /\ PairsUp(q) => (w.to = "fat" /\ w.copy = 1 => r # <<>>) /\ PairsUp(r)
         /\ \A c : Zeroing(q, c) => /\ w.to # "fat"
                                    /\ (w.to = "data" /\ w.at = c /\ w.new = Nobody) \/ Zeroing(r, c)
  <1> DEFINE m == Len(q)
             n == Len(r)
  <1>1. /\ m \in Nat /\ m # 0 /\ n = m - 1 /\ r \in Seq(Writes)
        /\ q[1] = w /\ \A i \in 1 .. n : r[i] = q[i + 1]
    BY HeadTailProperties, EmptySeq, LenProperties
  <1>2. m >= 1 /\ n \in Nat /\ 1 \in 1 .. m /\ n + 1 = m
    BY <1>1
  <1>3. /\ \A i \in 1 .. n : i + 1 \in 1 .. m /\ (i + 1 = m <=> i = n)
        /\ \A i \in 1 .. m : i = 1 \/ (i - 1 \in 1 .. n /\ (i - 1) + 1 = i)
        /\ \A i \in 1 .. m : 1 \in 1 .. i
        /\ \A i \in 1 .. n : \A j \in 1 .. i : j + 1 \in 1 .. i + 1 /\ j \in 1 .. n
    BY <1>2
  <1> HIDE DEF m, n
  <1>4. ASSUME NEW kind, AllOf(q, kind) PROVE w.kind = kind /\ AllOf(r, kind)
    <2>1. \A i \in 1 .. m : q[i].kind = kind
      BY <1>4 DEF AllOf, m
    <2>2. QED
      BY <1>1, <1>2, <1>3, <2>1 DEF AllOf, n
  <1>5. ASSUME NoData(q) PROVE w.to # "data" /\ NoData(r)
    <2>1. \A i \in 1 .. m : q[i].to # "data"
      BY <1>5 DEF NoData, m
    <2>2. QED
      BY <1>1, <1>2, <1>3, <2>1 DEF NoData, n
  <1>6. ASSUME PairsUp(q) PROVE (w.to = "fat" /\ w.copy = 1 => r # <<>>) /\ PairsUp(r)
    <2>1. \A i \in 1 .. m : q[i].to = "fat" /\ q[i].copy = 1 => i # m
      BY <1>6 DEF PairsUp, m
    <2>2. w.to = "fat" /\ w.copy = 1 => n # 0
      BY <1>1, <1>2, <2>1
    <2>3. r = <<>> => n = 0
      BY <1>1, EmptySeq DEF n
    <2>4. PairsUp(r)
      BY <1>1, <1>2, <1>3, <2>1 DEF PairsUp, n
    <2>5. QED
      BY <2>2, <2>3, <2>4
  <1>7. ASSUME NEW c, Zeroing(q, c)
        PROVE  w.to # "fat" /\ ((w.to = "data" /\ w.at = c /\ w.new = Nobody) \/ Zeroing(r, c))
    <2>1. PICK i \in 1 .. m : Zeroes(q, i, c) /\ \A j \in 1 .. i : q[j].to # "fat"
      BY <1>7 DEF Zeroing, m
    <2>2. w.to # "fat"
      BY <1>1, <1>3, <2>1
    <2>3. CASE i = 1
      BY <1>1, <2>1, <2>2, <2>3 DEF Zeroes
    <2>4. CASE i # 1
      <3> DEFINE k == i - 1
      <3>1. k \in 1 .. n /\ k + 1 = i
        BY <1>3, <2>4
      <3> HIDE DEF k
      <3>2. \A j \in 1 .. k : r[j].to # "fat"
        BY <1>1, <1>3, <2>1, <3>1
      <3>3. Zeroes(r, k, c)
        BY <1>1, <2>1, <3>1 DEF Zeroes
      <3>4. Zeroing(r, c)
        BY <3>1, <3>2, <3>3 DEF Zeroing, n
      <3>5. QED
        BY <2>2, <3>4
    <2>5. QED
      BY <2>3, <2>4
  <1>8. QED
    BY <1>1, <1>2, <1>4, <1>5, <1>6, <1>7 DEF m, n

LEMMA TailFills ==
  ASSUME NEW q, q \in Seq(Writes), q # <<>>, NEW r, r = Tail(q), NEW w, w = Head(q),
         NEW safe \in Nat, NEW f, NEW was, NEW e, FillsOwn(q, safe, f, was, e),
         NEW less, less = (IF safe = 0 THEN 0 ELSE safe - 1)
  PROVE  /\ FillsOwn(r, less, f, was, e) /\ FillsOwn(r, 0, f, was, e)
         /\ IsBytes(w) => /\ safe = 0 /\ Fills(w, f, was, e)
                          /\ \A c : ~Covers(q, c)
  <1> DEFINE m == Len(q)
             n == Len(r)
  <1>1. /\ m \in Nat /\ m # 0 /\ n = m - 1 /\ r \in Seq(Writes)
        /\ q[1] = w /\ \A i \in 1 .. n : r[i] = q[i + 1]
    BY HeadTailProperties, EmptySeq, LenProperties
  <1>2. n \in Nat /\ 1 \in 1 .. m /\ n + 1 = m
    BY <1>1
  <1>3. /\ \A i \in 1 .. n : i + 1 \in 1 .. m /\ (i + 1 > safe => i > less) /\ i > 0
        /\ \A i \in 1 .. n : \A j \in i .. n : j \in 1 .. n /\ j + 1 \in i + 1 .. m
        /\ \A i \in 1 .. m : i \in 1 .. m
        /\ 1 > safe => safe = 0
    BY <1>2
  <1>4. \A i \in 1 .. m : IsBytes(q[i]) =>
          i > safe /\ Fills(q[i], f, was, e) /\ \A j \in i .. m : q[j].to # "fat"
    BY DEF FillsOwn
  <1> HIDE DEF m, n
  <1>5. ASSUME NEW i \in 1 .. n, IsBytes(r[i])
        PROVE  i > less /\ Fills(r[i], f, was, e) /\ \A j \in i .. n : r[j].to # "fat"
    <2>1. IsBytes(q[i + 1]) /\ i + 1 \in 1 .. m /\ r[i] = q[i + 1]
      BY <1>1, <1>3, <1>5
    <2>2. i + 1 > safe /\ Fills(q[i + 1], f, was, e) /\ \A j \in i + 1 .. m : q[j].to # "fat"
      BY <1>4, <2>1
    <2>3. \A j \in i .. n : r[j].to # "fat"
      BY <1>1, <1>3, <2>2
    <2>4. QED
      BY <1>3, <2>1, <2>2, <2>3
  <1>6. FillsOwn(r, less, f, was, e) /\ FillsOwn(r, 0, f, was, e)
    BY <1>3, <1>5 DEF FillsOwn, n
  <1>7. ASSUME IsBytes(w) PROVE safe = 0 /\ Fills(w, f, was, e) /\ \A c : ~Covers(q, c)
    <2>1. 1 > safe /\ Fills(w, f, was, e) /\ \A j \in 1 .. m : q[j].to # "fat"
      BY <1>1, <1>2, <1>4, <1>7
    <2>2. QED
      BY <1>3, <2>1 DEF Covers, m
  <1>8. QED
    BY <1>6, <1>7

(* One list of writes after the other.                                       *)
LEMMA JoinFills ==
  ASSUME NEW p \in Seq(Writes), NEW q \in Seq(Writes), NEW r, r = p \o q,
         NEW safe \in Nat, NEW f, NEW was, NEW e,
         FillsOwn(p, safe, f, was, e), FillsOwn(q, 0, f, was, e),
         NoBytes(p) \/ NoFat(q), NoBytes(q) \/ Len(p) >= safe
  PROVE  /\ FillsOwn(r, safe, f, was, e) /\ (NoBytes(p) /\ NoBytes(q) => NoBytes(r))
         /\ \A c : Zeroing(p, c) => Zeroing(r, c)
         /\ r \in Seq(Writes) /\ Len(r) = Len(p) + Len(q) /\ Len(p) \in Nat /\ Len(q) \in Nat
         /\ \A kind : AllOf(p, kind) /\ AllOf(q, kind) => AllOf(r, kind)
         /\ NoData(p) /\ NoData(q) => NoData(r)
         /\ PairsUp(p) /\ PairsUp(q) => PairsUp(r)
  <1> DEFINE m == Len(p)
             n == Len(q)
  <1>1. m \in Nat /\ n \in Nat
    BY LenProperties
  <1>2. /\ r \in Seq(Writes) /\ Len(r) = m + n
        /\ \A i \in 1 .. m + n : r[i] = IF i <= m THEN p[i] ELSE q[i - m]
    BY ConcatProperties
  <1>3. \A i \in 1 .. m : i \in 1 .. m + n /\ r[i] = p[i] /\ (i = m + n => i = m)
    BY <1>1, <1>2
  <1>4. \A i \in 1 .. n : m + i \in 1 .. m + n /\ r[m + i] = q[i] /\ (m + i = m + n => i = n) /\ i > 0
                          /\ (m >= safe => m + i > safe)
    BY <1>1, <1>2
  <1>5. \A i \in 1 .. m + n : i \in 1 .. m \/ (i - m \in 1 .. n /\ m + (i - m) = i)
    BY <1>1
  <1>6. /\ \A i \in 1 .. m : \A j \in i .. m + n : j \in i .. m \/ (j - m \in 1 .. n /\ m + (j - m) = j)
        /\ \A i \in 1 .. n : \A j \in m + i .. m + n : j - m \in i .. n /\ m + (j - m) = j /\ j - m \in 1 .. n
        /\ \A i \in 1 .. m : \A j \in 1 .. i : j \in 1 .. m
        /\ \A i \in 1 .. m : \A j \in i .. m : j \in 1 .. m
    BY <1>1
  <1>7. \A i \in 1 .. m : IsBytes(p[i]) =>
          i > safe /\ Fills(p[i], f, was, e) /\ \A j \in i .. m : p[j].to # "fat"
    BY DEF FillsOwn
  <1>8. \A i \in 1 .. n : IsBytes(q[i]) =>
          Fills(q[i], f, was, e) /\ \A j \in i .. n : q[j].to # "fat"
    BY DEF FillsOwn
  <1>20. NoBytes(q) => \A i \in 1 .. n : ~IsBytes(q[i])
    BY DEF NoBytes
  <1>21. NoBytes(p) => \A i \in 1 .. m : ~IsBytes(p[i])
    BY DEF NoBytes
  <1>22. NoFat(q) => \A i \in 1 .. n : q[i].to # "fat"
    BY DEF NoFat
  <1>23. NoBytes(q) \/ m >= safe
    OBVIOUS
  <1> HIDE DEF m, n
  <1>9. ASSUME NEW i \in 1 .. m + n, IsBytes(r[i])
        PROVE  i > safe /\ Fills(r[i], f, was, e) /\ \A j \in i .. m + n : r[j].to # "fat"
    <2>1. CASE i \in 1 .. m
      <3>1. IsBytes(p[i]) /\ r[i] = p[i]
        BY <1>3, <1>9, <2>1
      <3>2. i > safe /\ Fills(p[i], f, was, e) /\ \A j \in i .. m : p[j].to # "fat"
        BY <1>7, <2>1, <3>1
      <3>3. \A j \in 1 .. n : q[j].to # "fat"
        BY <1>21, <1>22, <2>1, <3>1
      <3>4. ASSUME NEW j \in i .. m + n PROVE r[j].to # "fat"
        <4>1. CASE j \in i .. m
          BY <1>3, <1>6, <2>1, <3>2, <4>1
        <4>2. CASE j \notin i .. m
          <5> DEFINE k == j - m
          <5>1. k \in 1 .. n /\ m + k = j
            BY <1>6, <2>1, <3>4, <4>2
          <5> HIDE DEF k
          <5>2. QED
            BY <1>4, <3>3, <5>1
        <4>3. QED
          BY <4>1, <4>2
      <3>5. QED
        BY <3>1, <3>2, <3>4
    <2>2. CASE i \notin 1 .. m
      <3> DEFINE k == i - m
      <3>1. k \in 1 .. n /\ m + k = i
        BY <1>5, <2>2
      <3> HIDE DEF k
      <3>2. IsBytes(q[k]) /\ r[i] = q[k]
        BY <1>4, <1>9, <3>1
      <3>3. Fills(q[k], f, was, e) /\ \A j \in k .. n : q[j].to # "fat"
        BY <1>8, <3>1, <3>2
      <3>4. i > safe
        BY <1>4, <1>20, <1>23, <3>1, <3>2
      <3>5. ASSUME NEW j \in i .. m + n PROVE r[j].to # "fat"
        <4> DEFINE l == j - m
        <4>1. l \in k .. n /\ m + l = j /\ l \in 1 .. n
          BY <1>6, <3>1, <3>5
        <4> HIDE DEF l
        <4>2. QED
          BY <1>4, <3>3, <4>1
      <3>6. QED
        BY <3>2, <3>3, <3>4, <3>5
    <2>3. QED
      BY <2>1, <2>2
  <1>10. FillsOwn(r, safe, f, was, e)
    BY <1>2, <1>9 DEF FillsOwn
  <1>11. ASSUME NEW c, Zeroing(p, c) PROVE Zeroing(r, c)
    <2>1. PICK i \in 1 .. m : Zeroes(p, i, c) /\ \A j \in 1 .. i : p[j].to # "fat"
      BY <1>11 DEF Zeroing, m
    <2>2. Zeroes(r, i, c) /\ \A j \in 1 .. i : r[j].to # "fat"
      BY <1>3, <1>6, <2>1 DEF Zeroes
    <2>3. QED
      BY <1>2, <1>3, <2>2 DEF Zeroing
  <1>24. ASSUME NEW i \in 1 .. m + n
         PROVE  \/ i \in 1 .. m /\ r[i] = p[i] /\ (i = m + n => i = m)
                \/ \E k \in 1 .. n : r[i] = q[k] /\ (i = m + n => k = n)
    <2>1. CASE i \in 1 .. m
      BY <1>3, <2>1
    <2>2. CASE i \notin 1 .. m
      <3> DEFINE k == i - m
      <3>1. k \in 1 .. n /\ m + k = i
        BY <1>5, <2>2
      <3> HIDE DEF k
      <3>2. QED
        BY <1>4, <3>1
    <2>3. QED
      BY <2>1, <2>2
  <1>25. NoBytes(p) /\ NoBytes(q) => NoBytes(r)
    <2>1. NoBytes(r) <=> \A i \in 1 .. m + n : ~IsBytes(r[i])
      BY <1>2 DEF NoBytes
    <2>2. QED
      BY <1>20, <1>21, <1>24, <2>1
  <1>26. ASSUME NEW kind, AllOf(p, kind), AllOf(q, kind) PROVE AllOf(r, kind)
    <2>1. (\A i \in 1 .. m : p[i].kind = kind) /\ (\A i \in 1 .. n : q[i].kind = kind)
      BY <1>26 DEF AllOf, m, n
    <2>2. \A i \in 1 .. m + n : r[i].kind = kind
      BY <1>24, <2>1
    <2>3. QED
      BY <1>2, <2>2 DEF AllOf
  <1>27. ASSUME NoData(p), NoData(q) PROVE NoData(r)
    <2>1. (\A i \in 1 .. m : p[i].to # "data") /\ (\A i \in 1 .. n : q[i].to # "data")
      BY <1>27 DEF NoData, m, n
    <2>2. \A i \in 1 .. m + n : r[i].to # "data"
      BY <1>24, <2>1
    <2>3. QED
      BY <1>2, <2>2 DEF NoData
  <1>28. ASSUME PairsUp(p), PairsUp(q) PROVE PairsUp(r)
    <2>1. /\ \A i \in 1 .. m : p[i].to = "fat" /\ p[i].copy = 1 => i # m
          /\ \A i \in 1 .. n : q[i].to = "fat" /\ q[i].copy = 1 => i # n
      BY <1>28 DEF PairsUp, m, n
    <2>2. \A i \in 1 .. m + n : r[i].to = "fat" /\ r[i].copy = 1 => i # m + n
      BY <1>24, <2>1
    <2>3. QED
      BY <1>2, <2>2 DEF PairsUp
  <1>30. QED
    BY <1>1, <1>2, <1>10, <1>11, <1>25, <1>26, <1>27, <1>28 DEF m, n

LEMMA NoneTraits ==
  /\ AllOf(<<>>, "grow") /\ NoData(<<>>) /\ NoFat(<<>>) /\ NoBytes(<<>>) /\ PairsUp(<<>>)
  /\ <<>> \in Seq(Writes) /\ Len(<<>>) = 0
  /\ \A safe, f, was, e : FillsOwn(<<>>, safe, f, was, e)
  BY EmptySeq DEF AllOf, NoData, NoFat, NoBytes, PairsUp, FillsOwn

LEMMA NoBytesFill ==
  ASSUME NEW q, NoBytes(q), NEW safe, NEW f, NEW was, NEW e
  PROVE  FillsOwn(q, safe, f, was, e)
  BY DEF NoBytes, FillsOwn

LEMMA NoDataNoBytes ==
  ASSUME NEW q, NoData(q)
  PROVE  NoBytes(q)
  BY DEF NoData, NoBytes, IsBytes

LEMMA FatTraits ==
  ASSUME NEW f \in Fats, NEW kind \in Kinds
  PROVE  /\ AllOf(ToFat(kind, f), kind) /\ NoData(ToFat(kind, f)) /\ NoBytes(ToFat(kind, f))
         /\ PairsUp(ToFat(kind, f)) /\ ToFat(kind, f) \in Seq(Writes) /\ Len(ToFat(kind, f)) = 2
  <1> DEFINE w(c) == [to |-> "fat", copy |-> c, kind |-> kind, new |-> f]
             q == ToFat(kind, f)
  <1>1. q \in Seq(Writes) /\ Len(q) = 2
    BY ToFatIs DEF Script
  <1>2. q[1] = w(1) /\ q[2] = w(2)
    BY DEF ToFat
  <1>3. \A c \in 1 .. 2 : w(c).to = "fat" /\ w(c).kind = kind /\ w(c).copy = c
    OBVIOUS
  <1> HIDE DEF w, q
  <1>4. \A i \in 1 .. 2 : q[i].to = "fat" /\ q[i].kind = kind /\ q[i].copy = i
    BY <1>2, <1>3
  <1>5. AllOf(q, kind) /\ NoData(q)
    BY <1>1, <1>4 DEF AllOf, NoData
  <1>6. PairsUp(q)
    <2>1. \A i \in 1 .. 2 : q[i].copy = 1 => i # 2
      BY <1>4
    <2>2. QED
      BY <1>1, <2>1 DEF PairsUp
  <1>7. QED
    BY <1>1, <1>5, <1>6, NoDataNoBytes DEF q

LEMMA DirTraits ==
  ASSUME NEW e \in Entries, NEW kind \in Kinds, NEW s \in Slots
  PROVE  /\ AllOf(ToDir(kind, s, e), kind) /\ NoData(ToDir(kind, s, e)) /\ NoBytes(ToDir(kind, s, e))
         /\ NoFat(ToDir(kind, s, e)) /\ PairsUp(ToDir(kind, s, e)) /\ ToDir(kind, s, e) \in Seq(Writes)
         /\ Len(ToDir(kind, s, e)) = 1
  <1> DEFINE w == [to |-> "dir", slot |-> s, kind |-> kind, new |-> e]
             q == ToDir(kind, s, e)
  <1>1. q \in Seq(Writes) /\ Len(q) = 1
    BY ToDirIs DEF Script
  <1>2. q[1] = w
    BY DEF ToDir
  <1>3. w.to = "dir" /\ w.kind = kind
    OBVIOUS
  <1> HIDE DEF w, q
  <1>4. \A i \in 1 .. 1 : q[i].to = "dir" /\ q[i].kind = kind
    BY <1>2, <1>3
  <1>5. AllOf(q, kind) /\ NoData(q) /\ NoFat(q) /\ PairsUp(q)
    BY <1>1, <1>4 DEF AllOf, NoData, NoFat, PairsUp
  <1>6. QED
    BY <1>1, <1>5, NoDataNoBytes DEF q

LEMMA DataTraits ==
  ASSUME NEW cs \in Seq(Clusters), NEW kind \in Kinds, NEW n \in Names \cup {Nobody}
  PROVE  /\ ToData(kind, cs, n) \in Seq(Writes) /\ Len(ToData(kind, cs, n)) = Len(cs)
         /\ NoFat(ToData(kind, cs, n))
         /\ n = Nobody => NoBytes(ToData(kind, cs, n))
                          /\ \A i \in 1 .. Len(cs) : Zeroing(ToData(kind, cs, n), cs[i])
         /\ \A f, was, e :
              was.live /\ e.live /\ n = was.name /\ n = e.name
              /\ (\A i \in 1 .. Len(cs) : cs[i] \in Held(f, e))
                => FillsOwn(ToData(kind, cs, n), 0, f, was, e)
  <1> DEFINE w(c) == [to |-> "data", at |-> c, kind |-> kind, new |-> n]
             q == ToData(kind, cs, n)
             m == Len(cs)
  <1>1. q \in Seq(Writes)
    BY ToDataIs DEF Script
  <1>2. q = [i \in 1 .. m |-> w(cs[i])] /\ m \in Nat
    BY LenProperties DEF ToData
  <1>3. \A c : w(c).to = "data" /\ w(c).at = c /\ w(c).new = n
    OBVIOUS
  <1> HIDE DEF w, q
  <1>4. Len(q) = m
    BY <1>1, <1>2, LenProperties
  <1> HIDE DEF m
  <1>5. \A i \in 1 .. m : q[i].to = "data" /\ q[i].at = cs[i] /\ q[i].new = n /\ i > 0
    BY <1>2, <1>3
  <1>6. NoFat(q)
    BY <1>4, <1>5 DEF NoFat
  <1>7. ASSUME n = Nobody PROVE NoBytes(q) /\ \A i \in 1 .. m : Zeroing(q, cs[i])
    <2>1. NoBytes(q)
      BY <1>4, <1>5, <1>7 DEF NoBytes, IsBytes
    <2>2. ASSUME NEW i \in 1 .. m PROVE Zeroing(q, cs[i])
      <3>1. Zeroes(q, i, cs[i])
        BY <1>5, <1>7 DEF Zeroes
      <3>2. \A j \in 1 .. i : j \in 1 .. m
        BY <1>2
      <3>3. \A j \in 1 .. i : q[j].to # "fat"
        BY <1>5, <3>2
      <3>4. QED
        BY <1>4, <3>1, <3>3 DEF Zeroing
    <2>3. QED
      BY <2>1, <2>2
  <1>8. ASSUME NEW f, NEW was, NEW e, was.live, e.live, n = was.name, n = e.name,
               \A i \in 1 .. m : cs[i] \in Held(f, e)
        PROVE  FillsOwn(q, 0, f, was, e)
    <2>1. ASSUME NEW i \in 1 .. m
          PROVE  i > 0 /\ Fills(q[i], f, was, e) /\ \A j \in i .. m : q[j].to # "fat"
      <3>1. Fills(q[i], f, was, e)
        BY <1>5, <1>8 DEF Fills
      <3>2. \A j \in i .. m : j \in 1 .. m
        BY <1>2
      <3>3. QED
        BY <1>5, <3>1, <3>2
    <2>2. QED
      BY <1>4, <2>1 DEF FillsOwn
  <1>9. QED
    BY <1>1, <1>4, <1>6, <1>7, <1>8 DEF q, m

-----------------------------------------------------------------------------
(* What holds whatever fails.                                                *)

Laid == IsJob(job) /\ Script(job.todo, fat, job.slot) /\ (~Ready => job.slot \in Slots)

(* The cache will suit the directory when the call is through; unless the    *)
(* call frees or shrinks, it does already.                                   *)
Standing == /\ Sturdy(fat, Goal(job.todo, dir))
            /\ job.op \notin {"free", "shrink"} => Sturdy(fat, dir)

(* Files are apart in the cache, in copy 1, and between the two.             *)
Separate == Disjointly(fat, dir) /\ Disjointly(fats[1], dir) /\ Apart(fat, fats[1], dir)

Private == /\ data \in [Clusters -> Names \cup {Nobody}]
           /\ Own(fat, dir, data) /\ Own(fats[1], dir, data)

(* Copy 1 is the cache when the entry that needs it is stored.               *)
Backs(q, f, f1, d, s) == \/ Covers(q, 1) \/ f1 = f \/ Goal(q, d) = d
                         \/ ~Goal(q, d)[s].live \/ Goal(q, d)[s].len = 0

Due == ~Ready =>
  LET s == job.slot
      e == Goal(job.todo, dir)[s]
  IN  /\ Cleared(job.todo, fat, e, data)
      /\ FillsOwn(job.todo, job.safe, fat, dir[s], e)
      /\ Backs(job.todo, fat, fats[1], dir, s)

(* A roll-back changes no entry and writes no bytes.                         *)
Restoring(q, d) == Goal(q, d) = d /\ PairsUp(q) /\ NoData(q)

Kinded == ~Ready =>
  /\ job.op = "undo" => Restoring(job.todo, dir)
  /\ job.op = "shrink" => job.safe = Len(job.todo) /\ AllOf(job.todo, "shrink")
  /\ job.op = "free" => AllOf(job.todo, "free")

(* What a refused write will bring back.                                     *)
Restores(back, undo, s, d) ==
  back \in Fats /\ undo # <<>> /\ Script(undo, back, s) /\ Restoring(undo, d) /\ Sturdy(back, d)

Reversible ==
  /\ job.safe \in Nat
  /\ job.safe > 0 =>
       /\ Restores(job.back, job.undo, job.slot, dir)
       /\ Apart(job.back, fat, dir) /\ Apart(job.back, fats[1], dir)
       /\ Own(job.back, dir, data)

FailInv == Shapes /\ Laid /\ Standing /\ Separate /\ Private /\ Due /\ Kinded /\ Reversible

LEMMA Resting ==
  ASSUME FailInv, Ready
  PROVE  Sturdy(fat, dir)
  <1>1. Goal(job.todo, dir) = dir
    BY NothingIs DEF Ready
  <1>2. QED
    BY <1>1 DEF FailInv, Standing

LEMMA ApartSwaps ==
  ASSUME NEW f, NEW g, NEW d, Apart(f, g, d)
  PROVE  Apart(g, f, d)
  BY DEF Apart

(* Nothing left to write.                                                    *)
LEMMA IdleStands ==
  ASSUME Shapes', Separate', Private', job' = Idle, Sturdy(fat, dir)'
  PROVE  FailInv'
  <1>1. job'.op = "none" /\ job'.todo = <<>> /\ job'.safe = 0 /\ IsJob(job')
    BY IdleIs
  <1>2. Ready'
    BY <1>1 DEF Ready
  <1>3. Laid'
    BY <1>1, <1>2, NothingIs DEF Laid
  <1>4. Goal(job'.todo, dir') = dir'
    BY <1>1, NothingIs
  <1>5. Standing'
    BY <1>4 DEF Standing
  <1>6. Due' /\ Kinded' /\ Reversible'
    BY <1>1, <1>2 DEF Due, Kinded, Reversible
  <1>7. QED
    BY <1>3, <1>5, <1>6 DEF FailInv

(* A call that sets out well.                                                *)
LEMMA CallStands ==
  ASSUME FailInv, Ready, stale' = stale,
         NEW op, op # "undo", NEW s \in Slots, NEW cache \in Fats, NEW todo, NEW safe \in Nat,
         NEW back, NEW undo, NEW want, Call(op, s, cache, todo, safe, back, undo, want),
         Script(todo, cache, s), NEW dd, dd = Goal(todo, dir),
         Sturdy(cache, dd), op \notin {"free", "shrink"} => Sturdy(cache, dir),
         Inside(cache, fat, dir),
         Cleared(todo, cache, dd[s], data), FillsOwn(todo, safe, cache, dir[s], dd[s]),
         Covers(todo, 1) \/ dd = dir \/ ~dd[s].live \/ dd[s].len = 0,
         op = "shrink" => safe = Len(todo) /\ AllOf(todo, "shrink"),
         op = "free" => AllOf(todo, "free"),
         safe > 0 => Restores(back, undo, s, dir) /\ Inside(back, fat, dir)
  PROVE  FailInv'
  <1>1. /\ fat' = cache /\ fats' = fats /\ dir' = dir /\ data' = data
        /\ job'.op = op /\ job'.slot = s /\ job'.todo = todo /\ job'.safe = safe
        /\ job'.back = back /\ job'.undo = undo /\ IsJob(job')
    BY DEF Call, IsJob
  <1>2. /\ dir \in [Slots -> Entries] /\ Sturdy(fat, dir) /\ Separate /\ Private
    BY Resting DEF FailInv, Shapes
  <1>3. Shapes'
    BY <1>1 DEF FailInv, Shapes
  <1>4. Laid'
    BY <1>1 DEF Laid
  <1>5. Standing'
    BY <1>1 DEF Standing
  <1>6. Disjointly(cache, dir)
    <2>1. \A t \in Slots : t # s => dd[t] = dir[t]
      BY <1>2, GoalElsewhere
    <2>2. QED
      BY <1>2, <2>1, ApartAfter
  <1>7. Apart(cache, fats[1], dir)
    BY <1>2, ApartInside DEF Separate
  <1>8. Separate'
    BY <1>1, <1>2, <1>6, <1>7 DEF Separate
  <1>9. Own(cache, dir, data)
    BY <1>2, OwnInside DEF Private
  <1>10. Private'
    BY <1>1, <1>2, <1>9 DEF Private
  <1>11. Due'
    BY <1>1 DEF Due, Backs
  <1>12. Kinded'
    BY <1>1 DEF Kinded
  <1>13. ASSUME safe > 0
         PROVE  Apart(back, cache, dir) /\ Apart(back, fats[1], dir) /\ Own(back, dir, data)
    <2>1. Inside(back, fat, dir)
      BY <1>13
    <2>2. Apart(fat, fat, dir)
      BY <1>2, DisjointlyApart DEF Separate
    <2>3. Apart(cache, fat, dir)
      BY <2>2, ApartInside
    <2>4. Apart(fat, cache, dir)
      BY <2>3, ApartSwaps
    <2>5. Apart(back, cache, dir)
      BY <2>1, <2>4, ApartInside
    <2>6. Apart(back, fats[1], dir)
      BY <1>2, <2>1, ApartInside DEF Separate
    <2>7. QED
      BY <1>2, <2>1, <2>5, <2>6, OwnInside DEF Private
  <1>14. Reversible'
    BY <1>1, <1>13 DEF Reversible
  <1>15. QED
    BY <1>3, <1>4, <1>5, <1>8, <1>10, <1>11, <1>12, <1>14 DEF FailInv

LEMMA InitStands == Init => FailInv
  <1> SUFFICES ASSUME Init PROVE FailInv
    OBVIOUS
  <1>1. TidyInv /\ tidy
    BY InitTidy DEF Init
  <1>2. job = Idle
    BY DEF Init
  <1>3. job.op = "none" /\ job.todo = <<>> /\ job.safe = 0 /\ IsJob(job) /\ Ready
    BY <1>2, IdleIs DEF Ready
  <1>4. Shapes /\ fats = <<fat, fat>> /\ Consistent(fat, dir)
    BY <1>1, <1>3, AtRest DEF TidyInv
  <1>5. Sturdy(fat, dir)
    BY <1>4 DEF Consistent, Sturdy
  <1>6. fats[1] = fat
    BY <1>4
  <1>7. Goal(job.todo, dir) = dir
    BY <1>3, NothingIs
  <1>8. Laid /\ Standing
    BY <1>3, <1>5, <1>7, NothingIs DEF Laid, Standing
  <1>9. Separate
    BY <1>5, <1>6, SturdyApart, DisjointlyApart DEF Separate
  <1>10. Private
    <2>1. (\A s \in Slots : ~dir[s].live) /\ data \in [Clusters -> Names \cup {Nobody}]
      BY DEF Init
    <2>2. QED
      BY <2>1 DEF Private, Own
  <1>11. Due /\ Kinded /\ Reversible
    BY <1>3 DEF Due, Kinded, Reversible
  <1>12. QED
    BY <1>4, <1>8, <1>9, <1>10, <1>11 DEF FailInv

-----------------------------------------------------------------------------
(* The device.                                                               *)

LEMMA OwnZeroed ==
  ASSUME NEW f, NEW d, NEW x, Own(f, d, x), NEW c, NEW y, y = [x EXCEPT ![c] = Nobody],
         x \in [Clusters -> Names \cup {Nobody}]
  PROVE  Own(f, d, y)
  BY DEF Own

(* What the next write leaves of a call under way.                           *)
LEMMA AfterHead ==
  ASSUME FailInv, ~Ready
  PROVE  /\ Head(job.todo) \in Writes /\ Script(Tail(job.todo), fat, job.slot)
         /\ Len(job.todo) \in Nat /\ Len(job.todo) >= 1 /\ Len(Tail(job.todo)) = Len(job.todo) - 1
         /\ Tail(job.todo) = <<>> <=> Len(job.todo) = 1
         /\ Head(job.todo).to = "fat" => Head(job.todo).new = fat
         /\ Head(job.todo).to = "dir" =>
              /\ Tail(job.todo) = <<>> /\ Head(job.todo).slot = job.slot
              /\ Replaces(Goal(job.todo, dir), dir, job.slot, Head(job.todo).new)
         /\ Head(job.todo).to # "dir" => Goal(Tail(job.todo), dir) = Goal(job.todo, dir)
         /\ Covers(job.todo, 1) =>
              Covers(Tail(job.todo), 1) \/ (Head(job.todo).to = "fat" /\ Head(job.todo).copy = 1)
         /\ job.todo \in Seq(Writes) /\ job.todo # <<>> /\ job.slot \in Slots
  <1> DEFINE q == job.todo
             s == job.slot
             w == Head(q)
             r == Tail(q)
             D == Goal(q, dir)
  <1>1. q # <<>> /\ Script(q, fat, s) /\ s \in Slots
    BY DEF FailInv, Laid, Ready
  <1>2. q \in Seq(Writes)
    BY <1>1 DEF Script
  <1>3. Len(r) = Len(q) - 1
    BY <1>1, <1>2, TailIs
  <1>4. /\ w \in Writes /\ Len(q) \in Nat /\ Len(q) >= 1
        /\ w.to = "fat" => w.new = fat
        /\ w.to = "dir" => Len(q) = 1 /\ w.slot = s
        /\ Script(r, fat, s) /\ (r = <<>> <=> Len(q) = 1)
        /\ D = IF w.to = "dir" THEN [dir EXCEPT ![s] = w.new] ELSE Goal(r, dir)
        /\ \A c : Covers(q, c) => Covers(r, c) \/ (w.to = "fat" /\ w.copy = c)
    BY <1>1, HeadIs
  <1> HIDE DEF q, s, w, r, D
  <1>5. /\ w.to = "dir" => Replaces(D, dir, s, w.new)
        /\ w.to # "dir" => Goal(r, dir) = D
        /\ Covers(q, 1) => Covers(r, 1) \/ (w.to = "fat" /\ w.copy = 1)
    BY <1>4 DEF Replaces
  <1>6. QED
    BY <1>1, <1>2, <1>3, <1>4, <1>5 DEF q, s, w, r, D

(* The job after a write that the device took.                               *)
LEMMA NextJob ==
  ASSUME FailInv, DeviceWrites
  PROVE  /\ IsJob(job') /\ job'.todo = Tail(job.todo)
         /\ job'.safe = (IF Len(job.todo) = 1 THEN 0 ELSE IF job.safe = 0 THEN 0 ELSE job.safe - 1)
         /\ Len(job.todo) # 1 => /\ job'.op = job.op /\ job'.slot = job.slot
                                 /\ job'.back = job.back /\ job'.undo = job.undo
         /\ Len(job.todo) = 1 => job'.op = "none" /\ job' = Idle
  <1> DEFINE q == job.todo
  <1>1. ~Ready /\ IsJob(job) /\ job.safe \in Nat
    BY DEF DeviceWrites, FailInv, Laid, Reversible
  <1>2. Len(q) = 1 <=> Tail(q) = <<>>
    BY <1>1, AfterHead
  <1>3. CASE Len(q) = 1
    <2>1. job' = Idle
      BY <1>3 DEF DeviceWrites
    <2>2. QED
      BY <1>2, <1>3, <2>1, IdleIs
  <1>4. CASE Len(q) # 1
    <2>1. job' = [job EXCEPT !.todo = Tail(@), !.safe = IF @ = 0 THEN 0 ELSE @ - 1]
      BY <1>4 DEF DeviceWrites
    <2>2. QED
      BY <1>1, <1>4, <2>1 DEF IsJob
  <1>5. QED
    BY <1>3, <1>4

LEMMA DirWritten ==
  ASSUME FailInv, DeviceWrites, Head(job.todo).to = "dir"
  PROVE  FailInv'
  <1> DEFINE q == job.todo
             w == Head(q)
             s == job.slot
             e == w.new
             dd == [dir EXCEPT ![s] = e]
  <1>1. ~Ready /\ Shapes /\ Separate /\ Private /\ Standing /\ Due
    BY DEF DeviceWrites, FailInv
  <1>2. /\ w \in Writes /\ Tail(q) = <<>> /\ Len(q) = 1 /\ Goal(q, dir) = dd /\ w.slot = s
        /\ s \in Slots
    BY <1>1, AfterHead DEF Replaces
  <1>3. e \in Entries
    BY <1>2, WriteIs
  <1>4. dir' = dd /\ job' = Idle /\ fat' = fat /\ fats' = fats /\ data' = data /\ stale' = stale
    BY <1>2 DEF DeviceWrites
  <1>5. dir \in [Slots -> Entries]
    BY <1>1 DEF Shapes
  <1>6. dd \in [Slots -> Entries] /\ dd[s] = e /\ \A t \in Slots : t # s => dd[t] = dir[t]
    BY <1>2, <1>3, <1>5
  <1>7. Shapes'
    BY <1>1, <1>4, <1>6 DEF Shapes
  <1>8. Sturdy(fat, dd)
    BY <1>1, <1>2 DEF Standing
  <1>9. ~Covers(q, 1)
    <2>1. \A i \in 1 .. Len(q) : i = 1
      BY <1>2
    <2>2. q[1] = w
      BY <1>1, AfterHead, HeadTailProperties
    <2>3. QED
      BY <2>1, <2>2 DEF Covers
  <1>10. \A c : ~Zeroing(q, c)
    <2>1. \A i \in 1 .. Len(q) : i = 1
      BY <1>2
    <2>2. q[1] = w
      BY <1>1, AfterHead, HeadTailProperties
    <2>3. QED
      BY <2>1, <2>2 DEF Zeroing, Zeroes
  <1>11. fats[1] = fat \/ dd = dir \/ ~e.live \/ e.len = 0
    BY <1>1, <1>2, <1>6, <1>9 DEF Due, Backs
  <1>12. Own(fat, dd, data)
    <2>1. e.live => \A c \in Held(fat, e) : c \in Clusters => data[c] \in {Nobody, e.name}
      BY <1>1, <1>2, <1>6, <1>10 DEF Due, Cleared
    <2>2. Own(fat, dir, data)
      BY <1>1 DEF Private
    <2> HIDE DEF dd
    <2>3. QED
      BY <1>6, <2>1, <2>2 DEF Own
  <1>13. Disjointly(fat, dd) /\ Apart(fat, fat, dd)
    BY <1>8, SturdyApart, DisjointlyApart
  <1>14. Disjointly(fats[1], dd) /\ Apart(fat, fats[1], dd) /\ Own(fats[1], dd, data)
    <2>1. CASE fats[1] = fat
      BY <1>12, <1>13, <2>1
    <2>2. CASE dd = dir
      BY <1>1, <2>2 DEF Separate, Private
    <2>3. CASE ~e.live \/ e.len = 0
      <3> HIDE DEF dd
      <3>1. \A f : e.live => Held(f, e) = {}
        <4>1. SUFFICES ASSUME e.len = 0 PROVE \A f : Held(f, e) = {}
          BY <2>3
        <4>2. 0 .. e.len - 1 = {}
          BY <4>1
        <4>3. QED
          BY <4>2 DEF Held, Run
      <3>2. Disjointly(fats[1], dd)
        BY <1>1, <1>6, <3>1 DEF Separate, Disjointly
      <3>3. Apart(fat, fats[1], dd)
        BY <1>1, <1>6, <3>1 DEF Separate, Apart
      <3>4. Own(fats[1], dd, data)
        BY <1>1, <1>6, <3>1 DEF Private, Own
      <3>5. QED
        BY <3>2, <3>3, <3>4
    <2>4. QED
      BY <1>11, <2>1, <2>2, <2>3
  <1> HIDE DEF dd
  <1>15. Separate' /\ Private'
    BY <1>1, <1>4, <1>12, <1>13, <1>14 DEF Separate, Private
  <1>16. QED
    BY <1>4, <1>7, <1>8, <1>15, IdleStands

LEMMA FatWritten ==
  ASSUME FailInv, DeviceWrites, Head(job.todo).to = "fat"
  PROVE  FailInv'
  <1> DEFINE q == job.todo
             r == Tail(q)
             w == Head(q)
             s == job.slot
             gd == Goal(q, dir)
  <1>1. ~Ready /\ Shapes /\ Separate /\ Private /\ Standing /\ Due /\ Kinded /\ Reversible
    BY DEF DeviceWrites, FailInv
  <1>2. /\ w \in Writes /\ Goal(r, dir) = gd /\ w.new = fat /\ s \in Slots /\ Script(r, fat, s)
        /\ Covers(q, 1) => Covers(r, 1) \/ w.copy = 1
        /\ q \in Seq(Writes) /\ q # <<>> /\ Len(q) \in Nat /\ Len(r) = Len(q) - 1
        /\ r = <<>> <=> Len(q) = 1
    BY <1>1, AfterHead
  <1>3. w.copy \in 1 .. 2 /\ w.copy \in {1, 2}
    BY <1>2, WriteIs
  <1>4. /\ dir' = dir /\ fat' = fat /\ data' = data /\ stale' = stale
        /\ fats' = [fats EXCEPT ![w.copy] = fat]
    BY <1>2 DEF DeviceWrites
  <1>5. Shapes'
    BY <1>1, <1>2, <1>3, <1>4 DEF Shapes
  <1>6. fats'[1] = IF w.copy = 1 THEN fat ELSE fats[1]
    BY <1>1, <1>3, <1>4 DEF Shapes
  <1>7. Separate'
    <2>1. Apart(fat, fat, dir)
      BY <1>1, DisjointlyApart DEF Separate
    <2>2. QED
      BY <1>1, <1>4, <1>6, <2>1 DEF Separate
  <1>8. Private'
    BY <1>1, <1>4, <1>6 DEF Private
  <1>9. /\ \A kind : AllOf(q, kind) => AllOf(r, kind)
        /\ NoData(q) => NoData(r)
        /\ PairsUp(q) => PairsUp(r)
        /\ \A c : ~Zeroing(q, c)
    BY <1>2, TailIs
  <1>10. CASE Len(q) = 1
    <2>1. job' = Idle /\ r = <<>>
      BY <1>2, <1>10 DEF DeviceWrites
    <2>2. Sturdy(fat, dir)
      BY <1>1, <1>2, <2>1, NothingIs DEF Standing
    <2>3. Sturdy(fat, dir)'
      BY <1>4, <2>2
    <2>4. QED
      BY <1>5, <1>7, <1>8, <2>1, <2>3, IdleStands
  <1>11. CASE Len(q) # 1
    <2>1. /\ IsJob(job') /\ job'.todo = r /\ job'.op = job.op /\ job'.slot = s
          /\ job'.back = job.back /\ job'.undo = job.undo
          /\ job'.safe = IF job.safe = 0 THEN 0 ELSE job.safe - 1
      BY <1>11, NextJob
    <2>2. job.safe \in Nat
      BY <1>1 DEF Reversible
    <2>3. job'.safe \in Nat /\ (job'.safe > 0 => job.safe > 0)
          /\ (job.safe = Len(q) => job'.safe = Len(r))
      BY <1>2, <2>1, <2>2
    <2>4. Laid'
      BY <1>2, <1>4, <2>1 DEF Laid
    <2>5. Standing'
      BY <1>1, <1>2, <1>4, <2>1 DEF Standing
    <2>6. Kinded'
      BY <1>1, <1>2, <1>4, <1>9, <2>1, <2>3 DEF Kinded, Restoring
    <2>7. Reversible'
      <3>1. SUFFICES ASSUME job'.safe > 0
                     PROVE  /\ Restores(job.back, job.undo, s, dir)
                            /\ Apart(job.back, fat, dir) /\ Apart(job.back, fats'[1], dir)
                            /\ Own(job.back, dir, data)
        BY <1>4, <2>1, <2>3 DEF Reversible
      <3>2. QED
        BY <1>1, <1>6, <2>3, <3>1 DEF Reversible
    <2>8. Due'
      <3> DEFINE e == gd[s]
      <3>1. /\ Cleared(q, fat, e, data) /\ FillsOwn(q, job.safe, fat, dir[s], e)
            /\ Backs(q, fat, fats[1], dir, s)
        BY <1>1 DEF Due
      <3>2. Cleared(r, fat, e, data)
        BY <1>9, <3>1 DEF Cleared
      <3>3. FillsOwn(r, job'.safe, fat, dir[s], e)
        <4> DEFINE was == dir[s]
                   safe == job.safe
                   less == job'.safe
        <4>1. /\ q \in Seq(Writes) /\ q # <<>> /\ safe \in Nat
              /\ FillsOwn(q, safe, fat, was, e) /\ less = IF safe = 0 THEN 0 ELSE safe - 1
          BY <1>2, <2>1, <2>2, <3>1
        <4> HIDE DEF was, safe, less, e, q
        <4>2. FillsOwn(Tail(q), less, fat, was, e)
          BY <4>1, TailFills
        <4>3. QED
          BY <4>2 DEF was, safe, less, q
      <3>4. Backs(r, fat, fats'[1], dir, s)
        BY <1>2, <1>6, <3>1 DEF Backs
      <3>5. QED
        BY <1>2, <1>4, <2>1, <3>2, <3>3, <3>4 DEF Due
    <2>9. QED
      BY <1>5, <1>7, <1>8, <2>4, <2>5, <2>6, <2>7, <2>8 DEF FailInv
  <1>12. QED
    BY <1>10, <1>11

LEMMA DataWritten ==
  ASSUME FailInv, DeviceWrites, Head(job.todo).to = "data"
  PROVE  FailInv'
  <1> DEFINE q == job.todo
             r == Tail(q)
             w == Head(q)
             s == job.slot
             gd == Goal(q, dir)
             e == gd[s]
  <1>1. ~Ready /\ Shapes /\ Separate /\ Private /\ Standing /\ Due /\ Kinded /\ Reversible
    BY DEF DeviceWrites, FailInv
  <1>2. /\ w \in Writes /\ Goal(r, dir) = gd /\ s \in Slots /\ Script(r, fat, s)
        /\ Covers(q, 1) => Covers(r, 1)
        /\ q \in Seq(Writes) /\ q # <<>> /\ Len(q) \in Nat /\ Len(r) = Len(q) - 1
        /\ r = <<>> <=> Len(q) = 1
    BY <1>1, AfterHead
  <1>3. w.at \in Clusters
    BY <1>2, WriteIs
  <1>4. /\ dir' = dir /\ fat' = fat /\ fats' = fats /\ stale' = stale
        /\ data' = [data EXCEPT ![w.at] = w.new]
    BY DEF DeviceWrites
  <1>13. /\ data'[w.at] = w.new
         /\ \A c \in Clusters : c # w.at => data'[c] = data[c]
    <2>1. data \in [Clusters -> Names \cup {Nobody}]
      BY <1>1 DEF Private
    <2> HIDE DEF w
    <2>2. QED
      BY <1>3, <1>4, <2>1
  <1>5. Shapes' /\ Separate'
    BY <1>1, <1>4 DEF Shapes, Separate
  <1>9. /\ \A kind : AllOf(q, kind) => AllOf(r, kind)
        /\ NoData(q) => NoData(r)
        /\ PairsUp(q) => PairsUp(r)
        /\ \A c : Zeroing(q, c) => (w.at = c /\ w.new = Nobody) \/ Zeroing(r, c)
    BY <1>2, TailIs
  <1>14. /\ Cleared(q, fat, e, data) /\ FillsOwn(q, job.safe, fat, dir[s], e)
         /\ Backs(q, fat, fats[1], dir, s)
    BY <1>1 DEF Due
  <1>15. job.safe \in Nat
    BY <1>1 DEF Reversible
  <1>16. IsBytes(w) => job.safe = 0 /\ Fills(w, fat, dir[s], e) /\ ~Covers(q, 1)
    <2> DEFINE was == dir[s]
               safe == job.safe
               less == IF safe = 0 THEN 0 ELSE safe - 1
    <2>1. /\ q \in Seq(Writes) /\ q # <<>> /\ safe \in Nat
          /\ FillsOwn(q, safe, fat, was, e) /\ less = IF safe = 0 THEN 0 ELSE safe - 1
      BY <1>2, <1>14, <1>15
    <2> HIDE DEF was, safe, less, e, q
    <2>2. IsBytes(Head(q)) => safe = 0 /\ Fills(Head(q), fat, was, e) /\ \A c : ~Covers(q, c)
      BY <2>1, TailFills
    <2>3. QED
      BY <2>2 DEF was, safe, q
  <1>17. dir \in [Slots -> Entries] /\ \A t \in Slots : t # s => gd[t] = dir[t]
    <2>1. Script(q, fat, s) /\ dir \in [Slots -> Entries]
      BY <1>1 DEF FailInv, Laid, Shapes
    <2>2. QED
      BY <2>1, GoalElsewhere
  (* Bytes go where no other file has anything. *)
  <1>18. ASSUME NEW f \in {fat, fats[1]}, IsBytes(w), NEW t \in Slots, dir[t].live, w.at \in Held(f, dir[t])
         PROVE  w.new = dir[t].name
    <2>1. Fills(w, fat, dir[s], e) /\ w.at \in Held(fat, e) /\ e.live /\ dir[s].live
      BY <1>16, <1>18 DEF Fills
    <2>2. CASE t = s
      BY <2>1, <2>2 DEF Fills
    <2>3. CASE t # s
      <3>1. gd[t] = dir[t]
        BY <1>17, <2>3
      <3>2. Disjointly(fat, gd)
        BY <1>1, SturdyApart DEF Standing
      <3>3. w.at \notin Held(fat, dir[t])
        BY <1>2, <2>1, <2>3, <3>1, <3>2, <1>18 DEF Disjointly
      <3>4. f = fats[1]
        BY <1>18, <3>3
      <3>5. fats[1] # fat
        BY <1>18, <3>3, <3>4
      <3>6. gd = dir
        <4>1. e.len # 0
          <5>1. SUFFICES ASSUME e.len = 0 PROVE FALSE
            OBVIOUS
          <5>2. 0 .. e.len - 1 = {}
            BY <5>1
          <5>3. QED
            BY <2>1, <5>2 DEF Held, Run
        <4>2. QED
          BY <1>14, <1>16, <1>18, <2>1, <3>5, <4>1 DEF Backs
      <3>7. w.at \in Held(fat, dir[s])
        BY <2>1, <3>6
      <3>8. QED
        BY <1>1, <1>2, <1>3, <1>18, <2>1, <2>3, <3>4, <3>7 DEF Separate, Apart
    <2>4. QED
      BY <2>2, <2>3
  <1>19. ~IsBytes(w) => w.new = Nobody
    BY DEF IsBytes
  <1>20. ASSUME NEW f \in {fat, fats[1]}, Own(f, dir, data) PROVE Own(f, dir, data')
    <2>1. SUFFICES ASSUME NEW t \in Slots, dir[t].live, NEW c \in Held(f, dir[t]), c \in Clusters
                   PROVE  data'[c] \in {Nobody, dir[t].name}
      BY DEF Own
    <2>2. data[c] \in {Nobody, dir[t].name}
      BY <1>20, <2>1 DEF Own
    <2>3. CASE c # w.at
      BY <1>13, <2>1, <2>2, <2>3
    <2>4. CASE c = w.at
      BY <1>13, <1>18, <1>19, <2>1, <2>4
    <2>5. QED
      BY <2>3, <2>4
  <1>6. Private'
    <2>1. data' \in [Clusters -> Names \cup {Nobody}]
      BY <1>1, <1>2, <1>4, WriteIs DEF Private
    <2>2. Own(fat, dir, data') /\ Own(fats[1], dir, data')
      BY <1>1, <1>20 DEF Private
    <2>3. QED
      BY <1>4, <2>1, <2>2 DEF Private
  <1>10. CASE Len(q) = 1
    <2>1. job' = Idle /\ r = <<>>
      BY <1>2, <1>10 DEF DeviceWrites
    <2>2. Sturdy(fat, dir)
      BY <1>1, <1>2, <2>1, NothingIs DEF Standing
    <2>3. Sturdy(fat, dir)'
      BY <1>4, <2>2
    <2>4. QED
      BY <1>5, <1>6, <2>1, <2>3, IdleStands
  <1>11. CASE Len(q) # 1
    <2>1. /\ IsJob(job') /\ job'.todo = r /\ job'.op = job.op /\ job'.slot = s
          /\ job'.back = job.back /\ job'.undo = job.undo
          /\ job'.safe = IF job.safe = 0 THEN 0 ELSE job.safe - 1
      BY <1>11, NextJob
    <2>3. job'.safe \in Nat /\ (job'.safe > 0 => job.safe > 0)
          /\ (job.safe = Len(q) => job'.safe = Len(r))
      BY <1>2, <1>15, <2>1
    <2>4. Laid'
      BY <1>2, <1>4, <2>1 DEF Laid
    <2>5. Standing'
      BY <1>1, <1>2, <1>4, <2>1 DEF Standing
    <2>6. Kinded'
      BY <1>1, <1>2, <1>4, <1>9, <2>1, <2>3 DEF Kinded, Restoring
    <2>7. Reversible'
      <3>1. SUFFICES ASSUME job'.safe > 0
                     PROVE  /\ Restores(job.back, job.undo, s, dir)
                            /\ Apart(job.back, fat, dir) /\ Apart(job.back, fats[1], dir)
                            /\ Own(job.back, dir, data')
        BY <1>4, <2>1, <2>3 DEF Reversible
      <3>2. /\ Restores(job.back, job.undo, s, dir)
            /\ Apart(job.back, fat, dir) /\ Apart(job.back, fats[1], dir)
            /\ Own(job.back, dir, data)
        BY <1>1, <2>3, <3>1 DEF Reversible
      <3>3. w.new = Nobody
        BY <1>15, <1>16, <1>19, <2>3, <3>1
      <3>4. Own(job.back, dir, data')
        BY <1>1, <1>4, <3>2, <3>3, OwnZeroed DEF Private
      <3>5. QED
        BY <3>2, <3>4
    <2>8. Due'
      <3>1. Cleared(r, fat, e, data')
        <4>1. SUFFICES ASSUME e.live, NEW c \in Held(fat, e), c \in Clusters
                       PROVE  data'[c] \in {Nobody, e.name} \/ Zeroing(r, c)
          BY DEF Cleared
        <4>2. data[c] \in {Nobody, e.name} \/ Zeroing(q, c)
          BY <1>14, <4>1 DEF Cleared
        <4>3. IsBytes(w) => w.new = e.name
          BY <1>16 DEF Fills
        <4>4. QED
          BY <1>9, <1>13, <1>19, <4>1, <4>2, <4>3
      <3>3. FillsOwn(r, job'.safe, fat, dir[s], e)
        <4> DEFINE was == dir[s]
                   safe == job.safe
                   less == job'.safe
        <4>1. /\ q \in Seq(Writes) /\ q # <<>> /\ safe \in Nat
              /\ FillsOwn(q, safe, fat, was, e) /\ less = IF safe = 0 THEN 0 ELSE safe - 1
          BY <1>2, <1>14, <1>15, <2>1
        <4> HIDE DEF was, safe, less, e, q
        <4>2. FillsOwn(Tail(q), less, fat, was, e)
          BY <4>1, TailFills
        <4>3. QED
          BY <4>2 DEF was, safe, less, q
      <3>4. Backs(r, fat, fats[1], dir, s)
        BY <1>2, <1>14 DEF Backs
      <3>5. QED
        BY <1>2, <1>4, <2>1, <3>1, <3>3, <3>4 DEF Due
    <2>9. QED
      BY <1>5, <1>6, <2>4, <2>5, <2>6, <2>7, <2>8 DEF FailInv
  <1>12. QED
    BY <1>10, <1>11

(* What may fail, and what may be left as it is: a table to which a refused  *)
(* or aborted write leaves no way back is neither freed nor shrunk.          *)
Spared == "free" \notin Failing /\ "free" \notin Aborted /\ "shrink" \notin Aborted

(* A roll-back that goes on.                                                 *)
UndoStands(todo) ==
  /\ todo # <<>> /\ todo \in Seq(Writes)
  /\ Script(todo, fat', job.slot) /\ Restoring(todo, dir)

LEMMA UndoBegins ==
  ASSUME NEW todo, todo # <<>>, job' = [Idle EXCEPT !.op = "undo", !.slot = job.slot, !.todo = todo]
  PROVE  /\ job'.op = "undo" /\ job'.slot = job.slot /\ job'.todo = todo /\ job'.safe = 0
         /\ IsJob(job')
  BY IdleIs DEF IsJob

LEMMA UndoGoesOn ==
  ASSUME Shapes', Separate', Private', UNCHANGED <<fats, dir, data>>, job.slot \in Slots,
         NEW todo, UndoStands(todo),
         job' = [Idle EXCEPT !.op = "undo", !.slot = job.slot, !.todo = todo],
         Sturdy(fat', dir)
  PROVE  FailInv'
  <1>1. /\ todo # <<>> /\ todo \in Seq(Writes) /\ Script(todo, fat', job.slot) /\ Restoring(todo, dir)
        /\ dir' = dir /\ fats' = fats /\ data' = data
    BY DEF UndoStands
  <1>2. /\ job'.op = "undo" /\ job'.slot = job.slot /\ job'.todo = todo /\ job'.safe = 0
        /\ IsJob(job')
    BY <1>1, UndoBegins
  <1>3. Goal(todo, dir) = dir /\ NoData(todo)
    BY <1>1 DEF Restoring
  <1>4. Laid'
    BY <1>1, <1>2 DEF Laid
  <1>5. Standing'
    BY <1>1, <1>2, <1>3 DEF Standing
  <1>6. Due'
    <2>1. NoBytes(todo)
      BY <1>3, NoDataNoBytes
    <2>2. FillsOwn(todo, 0, fat', dir[job.slot], dir[job.slot])
      BY <2>1, NoBytesFill
    <2>3. Cleared(todo, fat', dir[job.slot], data)
      BY <1>1 DEF Private, Own, Cleared
    <2>4. QED
      BY <1>1, <1>2, <1>3, <2>2, <2>3 DEF Due, Backs
  <1>7. Kinded'
    BY <1>1, <1>2 DEF Kinded
  <1>8. Reversible'
    BY <1>2 DEF Reversible
  <1>9. QED
    BY <1>4, <1>5, <1>6, <1>7, <1>8 DEF FailInv

LEMMA TailRestores ==
  ASSUME NEW q, NEW f, NEW s, Script(q, f, s), q # <<>>, NEW d, Restoring(q, d)
  PROVE  /\ Script(Tail(q), f, s) /\ Restoring(Tail(q), d)
         /\ Head(q).to = "fat" /\ Head(q).copy = 1 => Tail(q) # <<>>
  <1> DEFINE r == Tail(q)
             w == Head(q)
  <1>1. q \in Seq(Writes) /\ Goal(q, d) = d /\ PairsUp(q) /\ NoData(q)
    BY DEF Script, Restoring
  <1>2. NoData(r) /\ PairsUp(r) /\ (w.to = "fat" /\ w.copy = 1 => r # <<>>)
    BY <1>1, TailIs
  <1>3. /\ Script(r, f, s) /\ (r = <<>> <=> Len(q) = 1)
        /\ w.to = "dir" => Len(q) = 1
        /\ w.to # "dir" => Goal(q, d) = Goal(r, d)
    BY HeadIs
  <1>4. Goal(r, d) = d
    <2>1. CASE w.to = "dir"
      BY <1>3, <2>1, NothingIs
    <2>2. CASE w.to # "dir"
      BY <1>1, <1>3, <2>2
    <2>3. QED
      BY <2>1, <2>2
  <1>5. QED
    BY <1>2, <1>3, <1>4 DEF Restoring

(* A refused write that the call takes back.                                 *)
LEMMA TakenBack ==
  ASSUME FailInv, DeviceFails, job.safe > 0
  PROVE  FailInv'
  <1> DEFINE undo == job.undo
             back == job.back
  <1>1. Shapes /\ Separate /\ Private /\ job.slot \in Slots
    BY DEF DeviceFails, FailInv, Laid
  <1>2. /\ Restores(back, undo, job.slot, dir) /\ Apart(back, fats[1], dir)
        /\ Own(back, dir, data)
    BY DEF FailInv, Reversible
  <1>3. back \in Fats /\ undo # <<>> /\ Script(undo, back, job.slot) /\ Restoring(undo, dir)
        /\ Sturdy(back, dir) /\ undo \in Seq(Writes)
    BY <1>2 DEF Restores, Script
  <1>4. /\ job' = [Idle EXCEPT !.op = "undo", !.slot = job.slot, !.todo = undo]
        /\ fat' = back /\ fats' = fats /\ dir' = dir /\ data' = data /\ stale' = stale
    BY <1>3 DEF DeviceFails, CacheAfterFailure
  <1> HIDE DEF undo, back
  <1>5. Shapes'
    BY <1>1, <1>3, <1>4 DEF Shapes
  <1>6. Disjointly(back, dir)
    BY <1>3, SturdyApart
  <1>7. Separate'
    BY <1>1, <1>2, <1>4, <1>6 DEF Separate
  <1>8. Private'
    BY <1>1, <1>2, <1>4 DEF Private
  <1>9. UndoStands(undo)
    BY <1>3, <1>4 DEF UndoStands
  <1>10. Sturdy(fat', dir) /\ UNCHANGED <<fats, dir, data>>
    BY <1>3, <1>4
  <1>11. QED
    BY <1>1, <1>4, <1>5, <1>7, <1>8, <1>9, <1>10, UndoGoesOn

(* A call that ends where it is.                                             *)
LEMMA CutShort ==
  ASSUME FailInv, UNCHANGED <<fat, fats, dir, data, stale>>, job' = Idle, Sturdy(fat, dir)
  PROVE  FailInv'
  <1>1. Shapes' /\ Separate' /\ Private'
    BY DEF FailInv, Shapes, Separate, Private
  <1>2. Sturdy(fat, dir)'
    OBVIOUS
  <1>3. QED
    BY <1>1, <1>2, IdleStands

(* The kinds of the writes that are left say which call is under way.        *)
LEMMA NotShortened ==
  ASSUME FailInv, ~Ready, job.op = "free" => Head(job.todo).kind # "free",
         job.op = "shrink" => Head(job.todo).kind # "shrink"
  PROVE  Sturdy(fat, dir)
  <1> DEFINE q == job.todo
  <1>1. q \in Seq(Writes) /\ q # <<>>
    BY AfterHead
  <1>2. \A kind : AllOf(q, kind) => Head(q).kind = kind
    BY <1>1, TailIs
  <1>3. job.op \notin {"free", "shrink"}
    BY <1>2 DEF FailInv, Kinded
  <1>4. QED
    BY <1>3 DEF FailInv, Standing

LEMMA AbortStands ==
  ASSUME FailInv, Spared, Abort
  PROVE  FailInv'
  <1>1. ~Ready /\ Head(job.todo).kind \in Aborted
    BY DEF Abort
  <1>2. Head(job.todo).kind \notin {"free", "shrink"}
    BY <1>1 DEF Spared
  <1>3. Sturdy(fat, dir)
    BY <1>1, <1>2, NotShortened
  <1>4. UNCHANGED <<fat, fats, dir, data, stale>> /\ job' = Idle
    BY DEF Abort
  <1>5. QED
    BY <1>3, <1>4, CutShort

LEMMA FailureStands ==
  ASSUME FailInv, Spared, DeviceFails
  PROVE  FailInv'
  <1> DEFINE q == job.todo
             r == Tail(q)
             s == job.slot
  <1>1. /\ ~Ready /\ Head(q).kind \in Failing /\ q # <<>> /\ Script(q, fat, s) /\ s \in Slots
        /\ UNCHANGED <<fats, dir, data, stale>> /\ job.safe \in Nat
    BY DEF DeviceFails, Ready, FailInv, Laid, Reversible
  <1>2. CASE job.safe > 0
    BY <1>2, TakenBack
  <1>3. CASE ~(job.safe > 0) /\ job.op = "undo"
    <2> DEFINE todo == Remaining(q)
    <2>1. fat' = fat /\ job' = IF todo = <<>> THEN Idle
                               ELSE [Idle EXCEPT !.op = "undo", !.slot = job.slot, !.todo = todo]
      BY <1>3 DEF DeviceFails, CacheAfterFailure
    <2>2. Restoring(q, dir) /\ Sturdy(fat, dir)
      BY <1>1, <1>3 DEF FailInv, Kinded, Standing
    <2>3. Script(r, fat, s) /\ Restoring(r, dir) /\ (Head(q).to = "fat" /\ Head(q).copy = 1 => r # <<>>)
      BY <1>1, <2>2, TailRestores
    <2>4. Script(todo, fat, s) /\ Restoring(todo, dir)
      <3>1. CASE Head(q).to = "fat" /\ Head(q).copy = 1
        <4> HIDE DEF r
        <4>1. Script(Tail(r), fat, s) /\ Restoring(Tail(r), dir)
          BY <2>3, <3>1, TailRestores
        <4>2. todo = Tail(r)
          BY <3>1 DEF Remaining, r
        <4>3. QED
          BY <4>1, <4>2
      <3>2. CASE ~(Head(q).to = "fat" /\ Head(q).copy = 1)
        BY <2>3, <3>2 DEF Remaining
      <3>3. QED
        BY <3>1, <3>2
    <2> HIDE DEF todo
    <2>5. CASE todo = <<>>
      BY <1>1, <2>1, <2>2, <2>5, CutShort
    <2>6. CASE todo # <<>>
      <3>1. UndoStands(todo)
        BY <1>1, <2>1, <2>4, <2>6 DEF UndoStands, Script
      <3>2. Shapes' /\ Separate' /\ Private'
        BY <1>1, <2>1 DEF FailInv, Shapes, Separate, Private
      <3>3. QED
        BY <1>1, <2>1, <2>2, <2>6, <3>1, <3>2, UndoGoesOn
    <2>7. QED
      BY <2>5, <2>6
  <1>4. CASE ~(job.safe > 0) /\ job.op # "undo"
    <2>1. fat' = fat /\ job' = Idle
      BY <1>4 DEF DeviceFails, CacheAfterFailure
    <2>2. Head(q).kind # "free"
      BY <1>1 DEF Spared
    <2>3. job.op # "shrink"
      <3>1. job.op = "shrink" => job.safe = Len(q)
        BY <1>1 DEF FailInv, Kinded
      <3>2. Len(q) \in Nat /\ Len(q) >= 1
        BY <1>1, AfterHead
      <3>3. QED
        BY <1>4, <3>1, <3>2
    <2>4. Sturdy(fat, dir)
      BY <1>1, <2>2, <2>3, NotShortened
    <2>5. QED
      BY <1>1, <2>1, <2>4, CutShort
  <1>5. QED
    BY <1>2, <1>3, <1>4

-----------------------------------------------------------------------------
(* The calls.                                                                *)

LEMMA HoldsNothing ==
  ASSUME NEW f, NEW e, e.len = 0
  PROVE  Held(f, e) = {}
  <1>1. 0 .. e.len - 1 = {}
    OBVIOUS
  <1>2. QED
    BY <1>1 DEF Held, Run

LEMMA NothingToClear ==
  ASSUME NEW q, NEW f, NEW e, NEW x, e.live => e.len = 0
  PROVE  Cleared(q, f, e, x)
  BY HoldsNothing DEF Cleared

LEMMA FreeThenStoreStands ==
  ASSUME FailInv, Ready, stale' = stale, NEW s \in Slots, dir[s].live,
         NEW e \in Entries, e.live => e.start = 0 /\ e.len = 0, FreeThenStore(s, e)
  PROVE  FailInv'
  <1> DEFINE h == dir[s].start
             g == Freed(fat, h)
             p == IF h = 0 THEN <<>> ELSE ToFat("free", g)
             q == ToDir("free", s, e)
             todo == p \o q
             dd == [dir EXCEPT ![s] = e]
  <1>1. dir \in [Slots -> Entries] /\ fat \in Fats /\ Sturdy(fat, dir)
    BY Resting DEF FailInv, Shapes
  <1>2. g \in Fats
    BY <1>1, Numbers DEF Freed, Fats
  <1>3. Call("free", s, g, todo, 0, EmptyFat, <<>>, 0)
    BY DEF FreeThenStore
  <1>4. Sturdy(g, dd) /\ Inside(g, fat, dir)
    <2>1. Replaces(dd, dir, s, e)
      BY DEF Replaces
    <2> HIDE DEF dd
    <2>2. QED
      BY <1>1, <2>1, FreedSturdy
  <1> HIDE DEF g
  <1>5. "free" \in Kinds
    BY DEF Kinds
  <1>6. /\ Script(p, g, s) /\ NoDir(p) /\ p \in Seq(Writes)
        /\ AllOf(p, "free") /\ NoBytes(p)
    <2>1. CASE h = 0
      <3>1. p = <<>>
        BY <2>1
      <3>2. AllOf(<<>>, "free")
        BY NoneTraits DEF AllOf
      <3>3. QED
        BY <3>1, <3>2, NothingIs, NoneTraits
    <2>2. CASE h # 0
      BY <1>2, <1>5, <2>2, ToFatIs, FatTraits
    <2>3. QED
      BY <2>1, <2>2
  <1>7. /\ Script(q, g, s) /\ Goal(q, dir) = dd /\ q \in Seq(Writes)
        /\ AllOf(q, "free") /\ NoBytes(q)
    BY <1>5, ToDirIs, DirTraits
  <1>8. h # 0 => Covers(p, 1)
    BY <1>2, <1>5, ToFatIs
  <1>9. h = 0 => dir[s].len = 0
    <2>1. PICK L : Sound(fat, dir, L)
      BY <1>1 DEF Sturdy
    <2>2. Kept(fat, dir[s], L[s])
      BY <2>1 DEF Sound
    <2>3. QED
      BY <2>2, ReachIs
  <1> HIDE DEF p, q
  <1>10. /\ Script(todo, g, s) /\ Goal(todo, dir) = dd
         /\ Covers(p, 1) => Covers(todo, 1)
    <2>1. Script(p, g, s) /\ NoDir(p) /\ Script(q, g, s)
      BY <1>6, <1>7
    <2>2. /\ Script(todo, g, s) /\ \A d : Goal(todo, d) = Goal(q, d)
          /\ \A c : Covers(p, c) \/ Covers(q, c) => Covers(todo, c)
      BY <2>1, JoinIs
    <2> HIDE DEF todo
    <2>3. QED
      BY <1>7, <2>2
  <1>11. FillsOwn(todo, 0, g, dir[s], e) /\ AllOf(todo, "free")
    <2> DEFINE was == dir[s]
    <2> HIDE DEF was
    <2>1. FillsOwn(p, 0, g, was, e) /\ FillsOwn(q, 0, g, was, e)
      BY <1>6, <1>7, NoBytesFill
    <2>2. FillsOwn(todo, 0, g, was, e) /\ AllOf(todo, "free")
      BY <1>6, <1>7, <2>1, JoinFills
    <2>3. QED
      BY <2>2 DEF was
  <1> HIDE DEF todo
  <1>12. dd[s] = e
    BY <1>1
  <1> HIDE DEF dd
  <1>13. Cleared(todo, g, dd[s], data)
    BY <1>12, NothingToClear
  <1>14. ~dd[s].live \/ dd[s].len = 0
    BY <1>12, EntryIs
  <1>15. "free" # "undo" /\ "free" # "shrink" /\ 0 \in Nat /\ ~(0 > 0)
    OBVIOUS
  <1>16. QED
    BY <1>2, <1>3, <1>4, <1>10, <1>11, <1>12, <1>13, <1>14, <1>15, CallStands

LEMMA CreateStands ==
  ASSUME FailInv, NEW n \in Names, Create(n)
  PROVE  FailInv'
  <1> DEFINE e == NewEntry(n)
  <1>1. Ready /\ stale' = stale
    BY DEF Create
  <1>2. e \in Entries /\ e.live /\ e.start = 0 /\ e.len = 0
    BY NewEntryIs
  <1>3. CASE \E s \in Slots : Holds(s, n) /\ FreeThenStore(s, NewEntry(n))
    <2>1. PICK s \in Slots : Holds(s, n) /\ FreeThenStore(s, e)
      BY <1>3
    <2>2. dir[s].live
      BY <2>1 DEF Holds
    <2> HIDE DEF e
    <2>3. QED
      BY <1>1, <1>2, <2>1, <2>2, FreeThenStoreStands
  <1>4. CASE \E s \in Slots :
               /\ FirstFree(s)
               /\ Call("create", s, fat, ToDir("grow", s, NewEntry(n)), 0, EmptyFat, <<>>, 0)
    <2> DEFINE Todo(s) == ToDir("grow", s, e)
    <2>1. PICK s \in Slots : FirstFree(s) /\ Call("create", s, fat, Todo(s), 0, EmptyFat, <<>>, 0)
      BY <1>4
    <2> DEFINE todo == Todo(s)
               dd == [dir EXCEPT ![s] = e]
    <2>2. ~dir[s].live
      BY <2>1 DEF FirstFree
    <2>3. dir \in [Slots -> Entries] /\ fat \in Fats /\ Sturdy(fat, dir)
      BY <1>1, Resting DEF FailInv, Shapes
    <2> HIDE DEF e
    <2>4. Sturdy(fat, dd)
      <3>1. PICK L : Sound(fat, dir, L)
        BY <2>3 DEF Sturdy
      <3>2. Kept(fat, e, 0) /\ Run(fat, e.start, 0) = {}
        BY <1>2 DEF Kept, Run
      <3>3. Within(fat, fat, dir, L, s, e, 0)
        BY <3>2 DEF Within
      <3>4. QED
        BY <2>3, <3>1, <3>3, SturdyMove
    <2>5. "grow" \in Kinds
      BY DEF Kinds
    <2>6. Script(todo, fat, s) /\ Goal(todo, dir) = dd /\ NoBytes(todo)
      BY <1>2, <2>5, ToDirIs, DirTraits
    <2> HIDE DEF Todo
    <2>7. Call("create", s, fat, todo, 0, EmptyFat, <<>>, 0)
      BY <2>1 DEF todo
    <2> HIDE DEF todo
    <2>8. dd[s] = e
      BY <2>3
    <2> HIDE DEF dd
    <2>9. Cleared(todo, fat, dd[s], data)
      BY <1>2, <2>8, NothingToClear
    <2>10. FillsOwn(todo, 0, fat, dir[s], dd[s])
      BY <2>6, NoBytesFill
    <2>11. "create" \notin {"undo", "free", "shrink"} /\ 0 \in Nat /\ ~(0 > 0)
      OBVIOUS
    <2>12. Inside(fat, fat, dir) /\ dd[s].len = 0
      BY <1>2, <2>8, InsideSame
    <2>13. QED
      BY <1>1, <2>3, <2>4, <2>6, <2>7, <2>9, <2>10, <2>11, <2>12, CallStands
  <1>5. QED
    BY <1>3, <1>4 DEF Create

LEMMA UnlinkStands ==
  ASSUME ~StaleHandles, FailInv, NEW n \in Names, Unlink(n)
  PROVE  FailInv'
  <1>1. Ready
    BY DEF Unlink
  <1>2. PICK s \in Slots : /\ Holds(s, n)
                           /\ FreeThenStore(s, [dir[s] EXCEPT !.live = FALSE])
                           /\ stale' \in {stale} \cup IF StaleHandles THEN {stale \cup {<<s, n>>}} ELSE {}
    BY DEF Unlink
  <1>3. stale' = stale
    BY <1>2
  <1>4. dir[s].live /\ dir[s] \in Entries
    BY <1>2 DEF Holds, FailInv, Shapes
  <1> DEFINE e == [dir[s] EXCEPT !.live = FALSE]
  <1>5. e \in Entries /\ ~e.live
    BY <1>4 DEF Entries
  <1> HIDE DEF e
  <1>6. FreeThenStore(s, e)
    BY <1>2 DEF e
  <1>7. QED
    BY <1>1, <1>3, <1>4, <1>5, <1>6, FreeThenStoreStands

(* What a roll-back of a growing write makes of the cache and of the disk.   *)
LEMMA BackStands ==
  ASSUME NEW f \in Fats, NEW d \in [Slots -> Entries], Sturdy(f, d), NEW s \in Slots, d[s].live,
         NEW cs, Fresh(f, cs), NEW undone, undone = Unlinked(f, Reach(f, d[s]), cs)
  PROVE  /\ undone \in Fats /\ Sturdy(undone, d) /\ Inside(undone, f, d)
         /\ Restores(undone, ToFat("grow", undone), s, d)
  <1> DEFINE t == ToFat("grow", undone)
  <1>1. undone \in Fats
    BY Numbers DEF Unlinked, Fats
  <1>2. Sturdy(undone, d) /\ Inside(undone, f, d)
    BY UnlinkedSturdy
  <1>3. "grow" \in Kinds
    BY DEF Kinds
  <1>4. Script(t, undone, s) /\ NoDir(t) /\ Len(t) = 2 /\ PairsUp(t) /\ NoData(t)
    BY <1>1, <1>3, ToFatIs, FatTraits
  <1> HIDE DEF t
  <1>5. Goal(t, d) = d
    BY <1>4, QuietGoal
  <1>6. t # <<>>
    <2>1. Len(t) # 0
      BY <1>4
    <2>2. QED
      BY <2>1, EmptySeq
  <1>7. Restores(undone, t, s, d)
    BY <1>1, <1>2, <1>4, <1>5, <1>6 DEF Restores, Restoring
  <1>8. QED
    BY <1>1, <1>2, <1>7 DEF t

(* Clusters zeroed, and then a table.                                        *)
LEMMA ZeroesThenTable ==
  ASSUME NEW cs \in Seq(Clusters), NEW f \in Fats, NEW s \in Slots, NEW safe \in Nat,
         NEW q, q = ToData("zero", cs, Nobody) \o ToFat("grow", f)
  PROVE  /\ Script(q, f, s) /\ NoDir(q) /\ Covers(q, 1)
         /\ \A was, e : FillsOwn(q, safe, f, was, e)
  <1> DEFINE z == ToData("zero", cs, Nobody)
             t == ToFat("grow", f)
             all == z \o t
  <1>1. "grow" \in Kinds /\ "zero" \in Kinds /\ Nobody \in Names \cup {Nobody}
    BY DEF Kinds
  <1>2. Script(z, f, s) /\ NoDir(z)
    BY <1>1, ToDataIs
  <1>3. z \in Seq(Writes) /\ NoBytes(z)
    BY <1>1, DataTraits
  <1>4. Script(t, f, s) /\ NoDir(t) /\ Covers(t, 1)
    BY <1>1, ToFatIs
  <1>5. t \in Seq(Writes) /\ NoBytes(t)
    BY <1>1, FatTraits
  <1>6. q = all
    OBVIOUS
  <1> HIDE DEF z, t
  <1>7. Script(all, f, s) /\ NoDir(all) /\ Covers(all, 1)
    BY <1>2, <1>4, JoinIs
  <1>8. ASSUME NEW was, NEW e PROVE FillsOwn(all, safe, f, was, e)
    <2>1. FillsOwn(z, safe, f, was, e) /\ FillsOwn(t, 0, f, was, e)
      BY <1>3, <1>5, NoBytesFill
    <2>2. QED
      BY <1>3, <1>5, <2>1, JoinFills
  <1> HIDE DEF all
  <1>9. QED
    BY <1>6, <1>7, <1>8

(* A write that finds no room.                                               *)
LEMMA FullStands ==
  ASSUME FailInv, Ready, stale' = stale, NEW s \in Slots, dir[s].live,
         NEW cs, Fresh(fat, cs), NEW undone, undone = Unlinked(fat, TailOf(dir[s]), cs), NEW want,
         Call("full", s, undone, ToData("zero", cs, Nobody) \o ToFat("grow", undone),
              Len(cs), undone, ToFat("grow", undone), want)
  PROVE  FailInv'
  <1> DEFINE t == ToFat("grow", undone)
             todo == ToData("zero", cs, Nobody) \o t
             safe == Len(cs)
  <1>1. dir \in [Slots -> Entries] /\ fat \in Fats /\ Sturdy(fat, dir) /\ Own(fat, dir, data)
    BY Resting DEF FailInv, Shapes, Private
  <1>2. undone = Unlinked(fat, Reach(fat, dir[s]), cs)
    BY DEF TailOf, Reach
  <1>3. undone \in Fats /\ Sturdy(undone, dir) /\ Inside(undone, fat, dir) /\ Restores(undone, t, s, dir)
    BY <1>1, <1>2, BackStands
  <1>4. cs \in Seq(Clusters) /\ safe \in Nat
    BY LenProperties DEF Fresh
  <1>5. Call("full", s, undone, todo, safe, undone, t, want)
    OBVIOUS
  <1> HIDE DEF safe
  <1>6. /\ Script(todo, undone, s) /\ NoDir(todo) /\ Covers(todo, 1)
        /\ \A was, e : FillsOwn(todo, safe, undone, was, e)
    BY <1>3, <1>4, ZeroesThenTable
  <1> HIDE DEF todo, t
  <1>7. Goal(todo, dir) = dir
    BY <1>6, QuietGoal
  <1>8. Own(undone, dir, data)
    BY <1>1, <1>3, OwnInside
  <1>9. Cleared(todo, undone, dir[s], data)
    BY <1>8 DEF Own, Cleared
  <1>10. "full" \notin {"undo", "free", "shrink"}
    OBVIOUS
  <1>11. FillsOwn(todo, safe, undone, dir[s], dir[s])
    BY <1>6
  <1>12. QED
    BY <1>3, <1>4, <1>5, <1>6, <1>7, <1>9, <1>10, <1>11, CallStands

(* Where the file x starts when it grows by cs.                              *)
StartOf(f, x, cs) == IF Reach(f, x) = 0 /\ cs # <<>> THEN cs[1] ELSE x.start

(* What a write makes of the table and of the entry x.                       *)
Grows(f, x, cs, cache, e) ==
  /\ cache = IF cs = <<>> THEN f ELSE Linked(f, Reach(f, x), cs)
  /\ e = Stored(x, StartOf(f, x, cs), x.len + Len(cs))

(* The file x becomes e and gains no cluster but those of cs.                *)
Gains(cache, e, f, x, cs) ==
  \A c \in Held(cache, e) : c \in Held(f, x) \/ \E i \in 1 .. Len(cs) : c = cs[i]

(* The file x with another start and size.                                   *)
Resized(e, x, start, len) ==
  e \in Entries /\ e.live /\ e.name = x.name /\ e.start = start /\ e.len = len

(* A write that needs no cluster leaves the table and the directory alone.   *)
Spares(cs, cache, f, dd, d) == cs = <<>> => cache = f /\ dd = d

(* The table and the entry that a growing write leads to.                    *)
LEMMA GrowStands ==
  ASSUME NEW f \in Fats, NEW d \in [Slots -> Entries], Sturdy(f, d), NEW s \in Slots, d[s].live,
         NEW cs, Fresh(f, cs), d[s].len + Len(cs) <= MaxLen,
         NEW cache, NEW e, Grows(f, d[s], cs, cache, e), NEW dd, Replaces(dd, d, s, e)
  PROVE  /\ cache \in Fats /\ Resized(e, d[s], StartOf(f, d[s], cs), d[s].len + Len(cs))
         /\ Sturdy(cache, dd) /\ Sturdy(cache, d) /\ Inside(cache, f, d)
         /\ HasRoom(cache, e) /\ Gains(cache, e, f, d[s], cs)
         /\ Spares(cs, cache, f, dd, d)
  <1> DEFINE n == Len(cs)
             b == d[s].len
             h == d[s].start
             len == b + n
             start == StartOf(f, d[s], cs)
  <1>1. PICK L : Sound(f, d, L)
    BY DEF Sturdy
  <1>2. Kept(f, d[s], L[s]) /\ b \in Nat /\ d[s] \in Entries
    BY <1>1, EntryIs DEF Sound
  <1>3. cs \in Seq(Clusters) /\ n \in Nat /\ (n = 0 <=> cs = <<>>)
    BY LenProperties, EmptySeq DEF Fresh
  <1>4. /\ cache = IF cs = <<>> THEN f ELSE Linked(f, Reach(f, d[s]), cs)
        /\ start = IF Reach(f, d[s]) = 0 /\ cs # <<>> THEN cs[1] ELSE d[s].start
        /\ e = Stored(d[s], start, len)
    BY DEF Grows, StartOf
  <1>5. len \in Nat /\ len \in 0 .. MaxLen /\ len = b + n
    BY <1>2, <1>3, FatAssumption
  <1>6. start \in {0} \cup Clusters
    <2>1. n # 0 => 1 \in 1 .. n
      BY <1>3
    <2>2. n # 0 => cs[1] \in Clusters
      BY <1>3, <2>1, ElementOfSeq
    <2>3. QED
      BY <1>2, <1>3, <2>2, EntryIs DEF StartOf
  <1> HIDE DEF start, Resized, Spares
  <1>7. e \in Entries /\ e.live /\ e.start = start /\ e.len = len /\ e.name = d[s].name
    BY <1>2, <1>5, <1>6, <1>4 DEF Entries, Stored
  <1>8. CASE n = 0
    <2>1. cache = f /\ start = h /\ len = b
      BY <1>2, <1>3, <1>5, <1>4, <1>8
    <2>2. e = d[s]
      BY <1>2, <1>4, <2>1 DEF Entries, Stored
    <2>3. dd = d
      BY <2>2, StayPut DEF Replaces
    <2>4. Inside(cache, f, d)
      BY <2>1, InsideSame
    <2>5. HasRoom(cache, e) /\ Gains(cache, e, f, d[s], cs)
      BY <2>1, <2>2, HeldIs DEF HasRoom, Gains
    <2>6. QED
      BY <1>7, <2>1, <2>2, <2>3, <2>4, <2>5 DEF start, Resized, Spares
  <1>9. CASE n # 0
    <2>1. start = StartAfter(f, d[s], cs) /\ cache = Linked(f, Reach(f, d[s]), cs)
      BY <1>3, <1>4, <1>9 DEF StartAfter
    <2>2. Sturdy(cache, dd) /\ Sturdy(cache, d) /\ Inside(cache, f, d)
      BY <1>5, <1>7, <1>9, <2>1, LinkedSturdy
    <2>3. Tail0(f, Reach(f, d[s]))
      BY <1>2, ReachIs
    <2>4. cache \in Fats
      BY <1>9, <2>1, <2>3, LinkedInFats
    <2>5. Grown(cache, f, d[s], cs, start)
      BY <1>2, <1>9, <2>1, LinkGrows
    <2>6. ASSUME NEW k \in 0 .. len - 1
          PROVE  /\ Node(cache, start, k) \in Clusters
                 /\ Node(cache, start, k) \in Held(f, d[s]) \/ \E i \in 1 .. n : Node(cache, start, k) = cs[i]
      <3>1. CASE k < b
        <4>1. k \in 0 .. b - 1
          BY <1>2, <1>5, <3>1
        <4>2. Node(cache, start, k) = Node(f, h, k)
          BY <2>5, <4>1 DEF Grown
        <4>3. Node(f, h, k) \in Clusters /\ Node(f, h, k) \in Held(f, d[s])
          BY <4>1, HeldIs DEF Held, Run
        <4>4. QED
          BY <4>2, <4>3
      <3>2. CASE ~(k < b)
        <4> DEFINE i == k - b + 1
        <4>1. i \in 1 .. n /\ b + i - 1 = k
          BY <1>2, <1>3, <1>5, <3>2
        <4> HIDE DEF i
        <4>2. Node(cache, start, k) = cs[i]
          BY <2>5, <4>1 DEF Grown
        <4>3. cs[i] \in Clusters
          BY <1>3, <4>1, ElementOfSeq
        <4>4. QED
          BY <4>1, <4>2, <4>3
      <3>3. QED
        BY <3>1, <3>2
    <2>7. ASSUME NEW c \in Held(cache, e)
          PROVE  c \in Held(f, d[s]) \/ \E i \in 1 .. n : c = cs[i]
      <3>1. PICK k \in 0 .. len - 1 : c = Node(cache, start, k)
        BY <1>7 DEF Held, Run
      <3>2. QED
        BY <2>6, <3>1
    <2>8. HasRoom(cache, e) /\ Gains(cache, e, f, d[s], cs)
      BY <1>7, <2>6, <2>7 DEF HasRoom, Gains
    <2>9. QED
      BY <1>3, <1>7, <1>9, <2>2, <2>4, <2>8 DEF start, Resized, Spares
  <1>10. QED
    BY <1>8, <1>9

(* A write fills clusters of its own file.                                   *)
LEMMA MeetsHeld ==
  ASSUME NEW f, NEW e, e.len \in Nat, HasRoom(f, e),
         NEW off \in Nat, NEW k \in Nat, off + k <= e.len,
         NEW q, q = Meets(f, e.start, off, k)
  PROVE  q \in Seq(Clusters) /\ Len(q) = k /\ \A i \in 1 .. k : q[i] \in Held(f, e)
  <1> DEFINE len == e.len
             h == e.start
             Spot(i) == Node(f, h, off + i - 1)
  <1>1. q \in Seq(Clusters) /\ Len(q) = k
    BY MeetsIs DEF HasRoom
  <1>2. \A i \in 1 .. k : off + i - 1 \in 0 .. len - 1
    OBVIOUS
  <1>3. \A i \in 1 .. k : Spot(i) \in Clusters /\ Spot(i) \in Held(f, e)
    BY <1>2 DEF Held, Run, HasRoom
  <1>4. q = [i \in {j \in 1 .. k : Spot(j) \in Clusters} |-> Spot(i)]
    BY DEF Meets
  <1> HIDE DEF Spot
  <1>5. \A i \in 1 .. k : q[i] = Spot(i)
    BY <1>3, <1>4
  <1>6. QED
    BY <1>1, <1>3, <1>5

(* The order of fat12_write_partial: zeroes, table, bytes, entry.            *)
LEMMA OrderFills ==
  ASSUME NEW f \in Fats, NEW s \in Slots, NEW e \in Entries, NEW was,
         NEW n \in Names \cup {Nobody}, was.live, e.live, n = was.name, n = e.name,
         NEW cs \in Seq(Clusters), NEW q \in Seq(Clusters), \A i \in 1 .. Len(q) : q[i] \in Held(f, e),
         NEW todo, todo = InOrder(ToData("zero", cs, Nobody), Table(cs, f),
                                  ToData("grow", q, n), ToDir("grow", s, e))
  PROVE  /\ FillsOwn(todo, Len(cs), f, was, e)
         /\ \A i \in 1 .. Len(cs) : Zeroing(todo, cs[i])
  <1> DEFINE z == ToData("zero", cs, Nobody)
             t == Table(cs, f)
             b == ToData("grow", q, n)
             r == ToDir("grow", s, e)
             zt == z \o t
             ztb == zt \o b
             all == ztb \o r
             safe == Len(cs)
  <1>1. "grow" \in Kinds /\ "zero" \in Kinds /\ Nobody \in Names \cup {Nobody} /\ safe \in Nat
    BY LenProperties DEF Kinds
  <1>2. /\ z \in Seq(Writes) /\ Len(z) = safe /\ NoBytes(z)
        /\ \A i \in 1 .. safe : Zeroing(z, cs[i])
    BY <1>1, DataTraits
  <1>3. t \in Seq(Writes) /\ NoBytes(t)
    <2>1. CASE cs = <<>>
      BY <2>1, NoneTraits DEF Table
    <2>2. CASE cs # <<>>
      BY <1>1, <2>2, FatTraits DEF Table
    <2>3. QED
      BY <2>1, <2>2
  <1>4. b \in Seq(Writes) /\ FillsOwn(b, 0, f, was, e) /\ NoFat(b)
    BY <1>1, DataTraits
  <1>5. r \in Seq(Writes) /\ NoBytes(r) /\ NoFat(r)
    BY <1>1, DirTraits
  <1>6. todo = all
    BY DEF InOrder
  <1> HIDE DEF z, t, b, r, safe
  <1>7. FillsOwn(z, safe, f, was, e) /\ FillsOwn(t, 0, f, was, e) /\ FillsOwn(r, 0, f, was, e)
    BY <1>2, <1>3, <1>5, NoBytesFill
  <1>8. /\ zt \in Seq(Writes) /\ NoBytes(zt) /\ FillsOwn(zt, safe, f, was, e)
        /\ Len(zt) = Len(z) + Len(t) /\ Len(t) \in Nat
        /\ \A c : Zeroing(z, c) => Zeroing(zt, c)
    <2>1. /\ z \in Seq(Writes) /\ t \in Seq(Writes) /\ NoBytes(z) /\ NoBytes(t) /\ safe \in Nat
          /\ FillsOwn(z, safe, f, was, e) /\ FillsOwn(t, 0, f, was, e)
      BY <1>1, <1>2, <1>3, <1>7
    <2>2. QED
      BY <2>1, JoinFills
  <1>9. Len(zt) >= safe
    BY <1>1, <1>2, <1>8
  <1> HIDE DEF zt
  <1>10. /\ ztb \in Seq(Writes) /\ FillsOwn(ztb, safe, f, was, e)
         /\ \A c : Zeroing(zt, c) => Zeroing(ztb, c)
    BY <1>1, <1>4, <1>8, <1>9, JoinFills
  <1> HIDE DEF ztb
  <1>11. /\ FillsOwn(all, safe, f, was, e)
         /\ \A c : Zeroing(ztb, c) => Zeroing(all, c)
    <2>1. /\ ztb \in Seq(Writes) /\ r \in Seq(Writes) /\ NoBytes(r) /\ NoFat(r) /\ safe \in Nat
          /\ FillsOwn(ztb, safe, f, was, e) /\ FillsOwn(r, 0, f, was, e)
      BY <1>1, <1>5, <1>7, <1>10
    <2>2. QED
      BY <2>1, JoinFills
  <1> HIDE DEF all
  <1>12. \A i \in 1 .. safe : Zeroing(todo, cs[i])
    BY <1>2, <1>6, <1>8, <1>10, <1>11
  <1>13. QED
    BY <1>6, <1>11, <1>12 DEF safe

(* AH=40h on a live file.                                                    *)
LEMMA WriteStands ==
  ASSUME FailInv, Ready, stale' = stale, NEW s \in Slots, dir[s].live,
         NEW n, n = dir[s].name, NEW off \in Nat, NEW k \in Nat, k > 0, off + k <= MaxLen,
         Write(s, n, off, k)
  PROVE  FailInv'
  <1> DEFINE e      == dir[s]
             tail   == TailOf(e)
             len    == SizeAfter(e, off, k)
             found  == Findable(fat, tail)
             full   == Len(found) < len - e.len
             cs     == IF full THEN found ELSE SubSeq(found, 1, len - e.len)
             undone == Unlinked(fat, tail, cs)
             cache  == IF cs = <<>> THEN fat ELSE Linked(fat, tail, cs)
             start  == IF tail = 0 /\ cs # <<>> THEN cs[1] ELSE e.start
             Spot(i) == Node(cache, start, off + i - 1)
             meets  == [i \in {j \in 1 .. k : Spot(j) \in Clusters} |-> Spot(i)]
             stored == [e EXCEPT !.start = start, !.len = len]
             todo   == InOrder(ToData("zero", cs, Nobody),
                               IF cs = <<>> THEN <<>> ELSE ToFat("grow", cache),
                               ToData("grow", meets, n),
                               IF Len(meets) = k THEN ToDir("grow", s, stored) ELSE <<>>)
             back   == ToFat("grow", undone)
  <1>1. full => Call("full", s, undone, ToData("zero", cs, Nobody) \o back,
                     Len(cs), undone, back, len - e.len)
    BY DEF Write
  <1>2. ~full => Call("write", s, cache, todo, Len(cs), undone, back, len - e.len)
    BY DEF Write
  <1>3. dir \in [Slots -> Entries] /\ fat \in Fats /\ Sturdy(fat, dir) /\ Own(fat, dir, data)
    BY Resting DEF FailInv, Shapes, Private
  <1>4. e.len \in Nat /\ e.len <= MaxLen /\ n \in Names \cup {Nobody}
    BY <1>3, EntryIs
  <1>5. len \in Nat /\ len <= MaxLen /\ e.len <= len /\ off + k <= len
    BY <1>4 DEF SizeAfter
  <1>6. Fresh(fat, found) /\ Len(found) \in Nat
    BY FindableFresh, LenProperties DEF Fresh
  <1>7. tail = Reach(fat, e)
    BY DEF TailOf, Reach
  <1>8. CASE full
    BY <1>1, <1>6, <1>8, FullStands
  <1>9. CASE ~full
    <2> DEFINE dd == [dir EXCEPT ![s] = stored]
               safe == Len(cs)
    <2> HIDE DEF len, found
    <2>1. len - e.len \in 0 .. Len(found)
      BY <1>4, <1>5, <1>6, <1>9
    <2>2. Fresh(fat, cs) /\ Len(cs) = len - e.len
      BY <1>6, <1>9, <2>1, FreshPrefix
    <2> HIDE DEF cs, full
    <2>3. len = e.len + Len(cs)
      BY <1>4, <1>5, <2>2
    <2>4. start = StartOf(fat, e, cs)
      BY <1>7 DEF StartOf
    <2>5. /\ undone = Unlinked(fat, Reach(fat, e), cs)
          /\ stored = Stored(e, start, len) /\ meets = Meets(cache, start, off, k)
      BY <1>7 DEF Stored, Meets
    <2>6. cache = IF cs = <<>> THEN fat ELSE Linked(fat, Reach(fat, e), cs)
      BY <1>7
    <2> HIDE DEF cache, start, undone, stored, meets
    <2>7. Grows(fat, e, cs, cache, stored)
      BY <2>3, <2>4, <2>5, <2>6 DEF Grows
    <2>8. Replaces(dd, dir, s, stored)
      BY DEF Replaces
    <2> HIDE DEF dd
    <2>9. e.len + Len(cs) <= MaxLen
      BY <1>5, <2>3
    <2>10. /\ cache \in Fats /\ stored \in Entries /\ stored.live /\ stored.name = n
           /\ stored.start = start /\ stored.len = len
           /\ Sturdy(cache, dd) /\ Sturdy(cache, dir) /\ Inside(cache, fat, dir)
           /\ HasRoom(cache, stored) /\ Gains(cache, stored, fat, e, cs)
           /\ cs = <<>> => cache = fat /\ dd = dir
      <3>1. /\ dir \in [Slots -> Entries] /\ fat \in Fats /\ Sturdy(fat, dir) /\ Fresh(fat, cs)
            /\ dir[s].len + Len(cs) <= MaxLen
        BY <1>3, <2>2, <2>9
      <3>2. Grows(fat, dir[s], cs, cache, stored) /\ Replaces(dd, dir, s, stored)
        BY <2>8, <2>7
      <3>3. /\ cache \in Fats /\ Resized(stored, dir[s], StartOf(fat, dir[s], cs), dir[s].len + Len(cs))
            /\ Sturdy(cache, dd) /\ Sturdy(cache, dir) /\ Inside(cache, fat, dir)
            /\ HasRoom(cache, stored) /\ Gains(cache, stored, fat, dir[s], cs)
            /\ Spares(cs, cache, fat, dd, dir)
        BY <3>1, <3>2, GrowStands
      <3>4. /\ stored \in Entries /\ stored.live /\ stored.name = dir[s].name
            /\ stored.start = StartOf(fat, dir[s], cs) /\ stored.len = dir[s].len + Len(cs)
            /\ cs = <<>> => cache = fat /\ dd = dir
        BY <3>3 DEF Resized, Spares
      <3>5. QED
        BY <2>3, <2>4, <3>3, <3>4
    <2>11. meets \in Seq(Clusters) /\ Len(meets) = k /\ \A i \in 1 .. k : meets[i] \in Held(cache, stored)
      BY <1>5, <2>5, <2>10, MeetsHeld
    <2>12. todo = InOrder(ToData("zero", cs, Nobody), Table(cs, cache),
                         ToData("grow", meets, n), ToDir("grow", s, stored))
      BY <2>11 DEF Table
    <2> HIDE DEF todo
    <2>13. cs \in Seq(Clusters) /\ safe \in Nat /\ (safe > 0 => cs # <<>>)
      BY <2>2, LenProperties, EmptySeq DEF Fresh
    <2>14. /\ Script(todo, cache, s) /\ Stores(todo, dir, s, stored)
           /\ cs # <<>> => Covers(todo, 1) /\ Covers(todo, 2)
      <3>1. /\ cache \in Fats /\ stored \in Entries /\ n \in Names \cup {Nobody}
            /\ cs \in Seq(Clusters) /\ meets \in Seq(Clusters)
        BY <1>4, <2>10, <2>11, <2>13
      <3>2. QED
        BY <2>12, <3>1, OrderIs
    <2>15. dd = Goal(todo, dir) /\ dd[s] = stored
      BY <1>3, <2>8, <2>14 DEF Stores, Replaces
    <2>16. FillsOwn(todo, safe, cache, e, stored) /\ \A i \in 1 .. safe : Zeroing(todo, cs[i])
      <3>1. /\ cache \in Fats /\ stored \in Entries /\ n \in Names \cup {Nobody}
            /\ cs \in Seq(Clusters) /\ meets \in Seq(Clusters)
            /\ \A i \in 1 .. Len(meets) : meets[i] \in Held(cache, stored)
            /\ e.live /\ stored.live /\ n = e.name /\ n = stored.name
        BY <1>4, <2>10, <2>11, <2>13
      <3>2. QED
        BY <2>12, <3>1, OrderFills
    <2>17. Cleared(todo, cache, stored, data)
      <3>1. SUFFICES ASSUME NEW c \in Held(cache, stored), c \in Clusters
                     PROVE  data[c] \in {Nobody, stored.name} \/ Zeroing(todo, c)
        BY DEF Cleared
      <3>2. CASE c \in Held(fat, e)
        BY <1>3, <2>10, <3>1, <3>2 DEF Own
      <3>3. CASE \E i \in 1 .. Len(cs) : c = cs[i]
        BY <2>16, <3>3
      <3>4. QED
        BY <2>10, <3>1, <3>2, <3>3 DEF Gains
    <2>18. Restores(undone, back, s, dir) /\ Inside(undone, fat, dir)
      BY <1>3, <2>2, <2>5, BackStands
    <2> HIDE DEF back
    <2>19. Call("write", s, cache, todo, safe, undone, back, len - e.len)
      BY <1>2, <1>9 DEF full
    <2> HIDE DEF safe
    <2>20. "write" \notin {"undo", "free", "shrink"}
      OBVIOUS
    <2>21. /\ Cleared(todo, cache, dd[s], data) /\ FillsOwn(todo, safe, cache, dir[s], dd[s])
           /\ Covers(todo, 1) \/ dd = dir
      BY <2>10, <2>14, <2>15, <2>16, <2>17
    <2>22. QED
      BY <2>10, <2>13, <2>14, <2>15, <2>18, <2>19, <2>20, <2>21, CallStands
  <1>10. QED
    BY <1>8, <1>9

LEMMA WriteAtStands ==
  ASSUME FailInv, NEW off \in 0 .. MaxLen, NEW k \in 0 .. MaxLen, k > 0, WriteAt(off, k)
  PROVE  FailInv'
  <1>1. Ready /\ off + k <= MaxLen /\ stale' = stale
    BY DEF WriteAt
  <1>2. PICK s \in Slots, n \in Names : (Holds(s, n) \/ <<s, n>> \in stale) /\ Write(s, n, off, k)
    BY DEF WriteAt
  <1>3. dir[s].live /\ n = dir[s].name
    BY <1>2 DEF Holds, FailInv, Shapes
  <1>4. off \in Nat /\ k \in Nat
    BY FatAssumption
  <1>5. QED
    BY <1>1, <1>2, <1>3, <1>4, WriteStands

(* A table and then an entry, of one kind.                                   *)
LEMMA TableThenEntryTraits ==
  ASSUME NEW f \in Fats, NEW s \in Slots, NEW e \in Entries, NEW kind \in Kinds,
         NEW q, q = ToFat(kind, f) \o ToDir(kind, s, e)
  PROVE  AllOf(q, kind) /\ NoData(q) /\ PairsUp(q) /\ Len(q) = 3
  <1> DEFINE t == ToFat(kind, f)
             r == ToDir(kind, s, e)
             all == t \o r
  <1>1. /\ t \in Seq(Writes) /\ AllOf(t, kind) /\ NoData(t) /\ NoBytes(t) /\ PairsUp(t) /\ Len(t) = 2
    BY FatTraits
  <1>2. /\ r \in Seq(Writes) /\ AllOf(r, kind) /\ NoData(r) /\ NoBytes(r) /\ PairsUp(r) /\ Len(r) = 1
    BY DirTraits
  <1>3. q = all
    OBVIOUS
  <1> HIDE DEF t, r
  <1>4. FillsOwn(t, 0, f, e, e) /\ FillsOwn(r, 0, f, e, e) /\ 0 \in Nat
    BY <1>1, <1>2, NoBytesFill
  <1>5. /\ Len(all) = Len(t) + Len(r) /\ AllOf(all, kind) /\ NoData(all) /\ PairsUp(all)
    BY <1>1, <1>2, <1>4, JoinFills
  <1> HIDE DEF all
  <1>6. QED
    BY <1>1, <1>2, <1>3, <1>5

LEMMA SetSizeStands ==
  ASSUME FailInv, NEW s \in Slots, NEW n \in 0 .. MaxLen, SetSize(s, n)
  PROVE  FailInv'
  <1>1. Ready /\ stale' = stale /\ dir[s].live /\ n # dir[s].len /\ Whole(fat, dir[s])
    BY DEF SetSize
  <1>2. dir \in [Slots -> Entries] /\ fat \in Fats /\ Sturdy(fat, dir) /\ Own(fat, dir, data)
    BY <1>1, Resting DEF FailInv, Shapes, Private
  <1>3. dir[s] \in Entries /\ dir[s].len \in Nat /\ n \in Nat /\ n <= MaxLen
    BY <1>2, EntryIs, FatAssumption
  <1>4. CASE n > dir[s].len
    <2>1. Write(s, dir[s].name, n - 1, 1)
      BY <1>4 DEF SetSize
    <2>2. n - 1 \in Nat /\ 1 \in Nat /\ 1 > 0 /\ (n - 1) + 1 <= MaxLen
      BY <1>3, <1>4
    <2>3. QED
      BY <1>1, <2>1, <2>2, WriteStands
  <1>5. CASE ~(n > dir[s].len)
    <2> DEFINE cut == Shrunk(fat, dir[s], n)
               e   == [dir[s] EXCEPT !.len = n, !.start = IF n = 0 THEN 0 ELSE @]
               todo == ToFat("shrink", cut) \o ToDir("shrink", s, e)
               undo == ToFat("shrink", fat) \o ToDir("shrink", s, dir[s])
               dd == [dir EXCEPT ![s] = e]
    <2>1. Call("shrink", s, cut, todo, 3, fat, undo, 0)
      BY <1>5 DEF SetSize
    <2>2. /\ e \in Entries /\ e.live /\ e.len = n /\ e.start = (IF n = 0 THEN 0 ELSE dir[s].start)
          /\ e.name = dir[s].name
      <3>1. e = CutTo(dir[s], n)
        BY DEF CutTo
      <3>2. e.name = dir[s].name
        BY <1>3 DEF Entries
      <3> HIDE DEF e
      <3>3. QED
        BY <1>1, <1>3, <3>1, <3>2, CutEntry
    <2>3. n \in 0 .. dir[s].len - 1
      BY <1>1, <1>3, <1>5
    <2>4. Replaces(dd, dir, s, e) /\ dd[s] = e
      BY <1>2 DEF Replaces
    <2> HIDE DEF e, dd
    <2>5. Sturdy(cut, dd) /\ Inside(cut, fat, dir)
      BY <1>1, <1>2, <2>2, <2>3, <2>4, ShrunkSturdy
    <2>6. cut \in Fats
      BY <1>2, ShrunkInFats
    <2> HIDE DEF cut
    <2>7. "shrink" \in Kinds
      BY DEF Kinds
    <2>8. Script(todo, cut, s) /\ Stores(todo, dir, s, e) /\ Covers(todo, 1)
      BY <2>2, <2>6, <2>7, TableThenEntry
    <2>9. AllOf(todo, "shrink") /\ NoData(todo) /\ Len(todo) = 3
      BY <2>2, <2>6, <2>7, TableThenEntryTraits
    <2>10. Script(undo, fat, s) /\ undo # <<>> /\ Stores(undo, dir, s, dir[s])
      BY <1>2, <1>3, <2>7, TableThenEntry
    <2>11. NoData(undo) /\ PairsUp(undo)
      BY <1>2, <1>3, <2>7, TableThenEntryTraits
    <2> HIDE DEF todo, undo
    <2>12. dd = Goal(todo, dir)
      BY <2>4, <2>8 DEF Stores, Replaces
    <2>13. Goal(undo, dir) = dir
      BY <1>2, <2>10, StayPut DEF Stores
    <2>14. Restores(fat, undo, s, dir) /\ Inside(fat, fat, dir)
      BY <1>2, <2>10, <2>11, <2>13, InsideSame DEF Restores, Restoring
    <2>15. FillsOwn(todo, 3, cut, dir[s], dd[s])
      BY <2>9, NoDataNoBytes, NoBytesFill
    <2>16. Cleared(todo, cut, dd[s], data)
      <3>1. SUFFICES ASSUME NEW c \in Held(cut, e), c \in Clusters
                     PROVE  data[c] \in {Nobody, e.name}
        BY <2>4 DEF Cleared
      <3>2. PICK k \in 0 .. n - 1 : c = Node(cut, e.start, k)
        BY <2>2, <3>1 DEF Held, Run
      <3>3. n # 0 /\ k \in 0 .. dir[s].len - 1
        BY <1>3, <2>3, <3>2
      <3>4. c \in Held(cut, dir[s])
        BY <2>2, <3>2, <3>3 DEF Held, Run
      <3>5. c \in Held(fat, dir[s])
        BY <1>1, <2>5, <3>1, <3>4 DEF Inside
      <3>6. QED
        BY <1>1, <1>2, <2>2, <3>1, <3>5 DEF Own
    <2>17. "shrink" # "undo" /\ 3 \in Nat /\ "shrink" # "free"
      OBVIOUS
    <2>18. QED
      BY <1>1, <2>1, <2>5, <2>6, <2>8, <2>9, <2>12, <2>14, <2>15, <2>16, <2>17, CallStands
  <1>6. QED
    BY <1>4, <1>5

-----------------------------------------------------------------------------
(* Every step.                                                               *)

LEMMA NextStands ==
  ASSUME ~StaleHandles, Spared, FailInv, [Next]_vars
  PROVE  FailInv'
  <1>1. ASSUME NEW n \in Names, Create(n) PROVE FailInv'
    BY <1>1, CreateStands
  <1>2. ASSUME NEW n \in Names, Unlink(n) PROVE FailInv'
    BY <1>2, UnlinkStands
  <1>3. ASSUME NEW off \in 0 .. MaxLen, NEW k \in 0 .. MaxLen, k > 0, WriteAt(off, k) PROVE FailInv'
    BY <1>3, WriteAtStands
  <1>4. ASSUME NEW s \in Slots, NEW n \in 0 .. MaxLen, SetSize(s, n) PROVE FailInv'
    BY <1>4, SetSizeStands
  <1>5. CASE DeviceWrites
    <2>1. ~Ready
      BY <1>5 DEF DeviceWrites
    <2>2. Head(job.todo).to \in {"fat", "dir", "data"}
      BY <2>1, AfterHead, WriteIs
    <2>3. QED
      BY <1>5, <2>2, FatWritten, DirWritten, DataWritten
  <1>6. CASE DeviceFails
    BY <1>6, FailureStands
  <1>7. CASE Abort
    BY <1>7, AbortStands
  <1>8. CASE UNCHANGED vars
    <2>1. /\ fat' = fat /\ fats' = fats /\ dir' = dir /\ data' = data /\ job' = job
          /\ stale' = stale
      BY <1>8 DEF vars
    <2>2. Shapes' /\ Laid' /\ Standing' /\ Separate' /\ Private'
      BY <2>1 DEF FailInv, Shapes, Laid, Standing, Separate, Private, Ready
    <2>3. Due' /\ Kinded' /\ Reversible'
      BY <2>1 DEF FailInv, Due, Kinded, Reversible, Ready
    <2>4. QED
      BY <2>2, <2>3 DEF FailInv
  <1>9. QED
    BY <1>1, <1>2, <1>3, <1>4, <1>5, <1>6, <1>7, <1>8 DEF Next

LEMMA FailHolds == ~StaleHandles /\ Spared => (Spec => []FailInv)
  <1>1. SUFFICES ASSUME ~StaleHandles, Spared PROVE Spec => []FailInv
    OBVIOUS
  <1>2. FailInv /\ [Next]_vars => FailInv'
    BY <1>1, NextStands
  <1>3. QED
    BY <1>2, InitStands, PTL DEF Spec

-----------------------------------------------------------------------------
(* What it says of the files.                                                *)

LEMMA ExtentIs ==
  ASSUME NEW f, NEW s
  PROVE  Extent(f, s) = Held(f, dir[s])
  BY DEF Extent, Held, Run

(* A walk that meets no cluster twice meets as many as it has steps.         *)
LEMMA RunSize ==
  ASSUME NEW f, NEW h, NEW n \in Nat,
         \A j, k \in 0 .. n - 1 : Node(f, h, j) = Node(f, h, k) => j = k
  PROVE  Cardinality(Run(f, h, n)) = n
  <1> DEFINE S == 0 .. n - 1
             T == Run(f, h, n)
             g == [k \in S |-> Node(f, h, k)]
  <1>1. IsFiniteSet(S) /\ Cardinality(S) = n
    BY FS_Interval
  <1>2. T = {Node(f, h, k) : k \in S}
    BY DEF Run
  <1>3. g \in [S -> T] /\ \A k \in S : g[k] = Node(f, h, k)
    BY <1>2
  <1>4. \A t \in T : \E k \in S : g[k] = t
    BY <1>2, <1>3
  <1>5. \A j, k \in S : g[j] = g[k] => j = k
    BY <1>3
  <1> HIDE DEF g, S, T
  <1>6. g \in Surjection(S, T)
    BY <1>3, <1>4 DEF Surjection
  <1>7. g \in Injection(S, T)
    BY <1>3, <1>5 DEF Injection, IsInjective
  <1>8. Cardinality(T) = Cardinality(S)
    BY <1>1, <1>6, <1>7, FS_Surjection
  <1>9. QED
    BY <1>1, <1>8 DEF T

LEMMA HeldByAll ==
  ASSUME FailInv
  PROVE  FailuresHarmNoFile
  <1> SUFFICES ASSUME Ready
               PROVE  /\ \A s \in LiveSlots : Extent(fat, s) \subseteq Clusters
                      /\ \A s \in LiveSlots : Cardinality(Extent(fat, s)) = dir[s].len
                      /\ Disjoint(fat)
    BY DEF FailuresHarmNoFile
  <1>1. Sturdy(fat, dir)
    BY Resting
  <1>2. \A s \in LiveSlots : s \in Slots /\ dir[s].live /\ Extent(fat, s) = Held(fat, dir[s])
    BY ExtentIs DEF LiveSlots
  <1>3. ASSUME NEW s \in LiveSlots
        PROVE  Extent(fat, s) \subseteq Clusters /\ Cardinality(Extent(fat, s)) = dir[s].len
    <2>1. /\ dir[s].len \in Nat /\ \A c \in Held(fat, dir[s]) : c \in Clusters
          /\ \A j, k \in 0 .. dir[s].len - 1 :
               Node(fat, dir[s].start, j) = Node(fat, dir[s].start, k) => j = k
      BY <1>1, <1>2, HeldIs
    <2>2. Cardinality(Run(fat, dir[s].start, dir[s].len)) = dir[s].len
      BY <2>1, RunSize
    <2>3. QED
      BY <1>2, <2>1, <2>2 DEF Held
  <1>4. Disjoint(fat)
    BY <1>2 DEF Disjoint, FailInv, Separate, Disjointly
  <1>5. QED
    BY <1>3, <1>4

(* fat12.c, "The mutation layer": whatever allocating and shrinking calls    *)
(* are refused by the device, however often, and wherever an allocating one  *)
(* is aborted from INT 24h, after every call the cache has a cluster of its  *)
(* own for every cluster of every file, on a volume of any size.             *)
THEOREM NoFailureHarms == ~StaleHandles /\ Spared => (Spec => []FailuresHarmNoFile)
  <1>1. FailInv => FailuresHarmNoFile
    BY HeldByAll
  <1>2. QED
    BY <1>1, FailHolds, PTL

(* fat12_read_fat mounts copy 1: whenever the power fails, also after        *)
(* refused writes, no two files share a cluster of it; and while every       *)
(* refused write was rolled back, every file but the one being changed is    *)
(* whole in it.                                                              *)
THEOREM BystandersSurvive == ~StaleHandles /\ Spared => (Spec => []BystandersSurviveACut)
  <1>1. SUFFICES ASSUME ~StaleHandles, Spared PROVE Spec => []BystandersSurviveACut
    OBVIOUS
  <1>2. TidyInv /\ FailInv => BystandersSurviveACut
    <2>1. SUFFICES ASSUME TidyInv, FailInv PROVE BystandersSurviveACut
      OBVIOUS
    <2>2. \A s \in LiveSlots : s \in Slots /\ dir[s].live /\ Extent(fats[1], s) = Held(fats[1], dir[s])
      BY ExtentIs DEF LiveSlots
    <2>3. Disjoint(fats[1])
      BY <2>1, <2>2 DEF Disjoint, FailInv, Separate, Disjointly
    <2>4. tidy => \A s \in LiveSlots \ {job.slot} : Whole(fats[1], dir[s])
      BY <2>1, <2>2 DEF TidyInv, BystandersWhole
    <2>5. QED
      BY <2>3, <2>4 DEF BystandersSurviveACut
  <1>3. Spec => []TidyInv
    BY <1>1, TidyHolds
  <1>4. Spec => []FailInv
    BY <1>1, FailHolds
  <1>5. QED
    BY <1>2, <1>3, <1>4, PTL

(* fat12_write_partial zeroes a cluster before it links it: whenever the     *)
(* power fails, also after refused writes, the volume that is mounted next   *)
(* shows no file the bytes of another, whatever the size of either.          *)
THEOREM NoBytesOfOthers == ~StaleHandles /\ Spared => (Spec => []NoForeignBytes)
  <1>1. FailInv => NoForeignBytes
    <2>1. SUFFICES ASSUME FailInv, NEW s \in LiveSlots, NEW c \in Extent(fats[1], s) \cap Clusters
                   PROVE  data[c] \in {Nobody, dir[s].name}
      BY DEF NoForeignBytes
    <2>2. s \in Slots /\ dir[s].live /\ Extent(fats[1], s) = Held(fats[1], dir[s])
      BY ExtentIs DEF LiveSlots
    <2>3. QED
      BY <2>1, <2>2 DEF FailInv, Private, Own
  <1>2. QED
    BY <1>1, FailHolds, PTL
=============================================================================
