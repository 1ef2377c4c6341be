--------------------------- MODULE DesktopProofs ----------------------------
(* Proofs about Desktop and the Window Manager under it, for any number of   *)
(* applications, windows and pixels.                                         *)
EXTENDS Desktop, SequenceTheorems, WellFoundedInduction, TLAPS

-----------------------------------------------------------------------------
(* Lists without repetition: the windows, front first, and the processes.    *)

Listed(z, S) == z \in Seq(S) /\ IsInjective(z)

(* v is somewhere in front of w.                                             *)
Before(z, v, w) == \E i, j \in DOMAIN z : i < j /\ z[i] = v /\ z[j] = w

IsFront(z, w) == w \in ToSet(z) /\ \A v : ~Before(z, v, w)

(* Induction up to a number.                                                 *)
LEMMA UpTo ==
  ASSUME NEW n \in Nat, NEW T, 0 \in T, \A k \in 0 .. n - 1 : k \in T => k + 1 \in T
  PROVE  \A k \in 0 .. n : k \in T
  <1> DEFINE S == {k \in 0 .. n : k \notin T}
  <1>1. SUFFICES ASSUME S # {} PROVE FALSE
    OBVIOUS
  <1>2. S \subseteq Nat
    OBVIOUS
  <1>3. PICK m \in S : \A k \in S : <<k, m>> \notin OpToRel(<, Nat)
    BY <1>1, <1>2, NatLessThanWellFounded, WFMin
  <1>4. m \in 0 .. n /\ m # 0
    OBVIOUS
  <1>5. m - 1 \in 0 .. n - 1 /\ m - 1 \in Nat /\ m \in Nat /\ m - 1 < m /\ (m - 1) + 1 = m
    BY <1>4
  <1>6. m - 1 \notin S
    BY <1>3, <1>5 DEF OpToRel
  <1>7. QED
    BY <1>5, <1>6

(* The order of a list.                                                      *)
LEMMA ListIs ==
  ASSUME NEW S, NEW z, Listed(z, S)
  PROVE  /\ ToSet(z) \subseteq S
         /\ \A v, w : Before(z, v, w) => v \in ToSet(z) /\ w \in ToSet(z) /\ v # w /\ ~Before(z, w, v)
         /\ \A u, v, w : Before(z, u, v) /\ Before(z, v, w) => Before(z, u, w)
         /\ \A v, w \in ToSet(z) : v = w \/ Before(z, v, w) \/ Before(z, w, v)
  <1>1. z \in Seq(S) /\ Len(z) \in Nat /\ DOMAIN z = 1 .. Len(z)
    BY LenProperties DEF Listed
  <1>2. \A i \in DOMAIN z : z[i] \in S
    BY <1>1, ElementOfSeq
  <1>3. \A i, j \in DOMAIN z : z[i] = z[j] => i = j
    BY DEF Listed, IsInjective
  <1>4. ToSet(z) \subseteq S
    BY <1>2 DEF ToSet
  <1>5. \A v, w : Before(z, v, w) => v \in ToSet(z) /\ w \in ToSet(z) /\ v # w /\ ~Before(z, w, v)
    BY <1>1, <1>3 DEF Before, ToSet
  <1>6. \A u, v, w : Before(z, u, v) /\ Before(z, v, w) => Before(z, u, w)
    BY <1>1, <1>3 DEF Before
  <1>7. \A v, w \in ToSet(z) : v = w \/ Before(z, v, w) \/ Before(z, w, v)
    BY <1>1 DEF Before, ToSet
  <1>8. QED
    BY <1>4, <1>5, <1>6, <1>7

(* The front of a list is its head.                                          *)
LEMMA FrontIs ==
  ASSUME NEW S, NEW z, Listed(z, S)
  PROVE  /\ z = <<>> <=> ToSet(z) = {}
         /\ \A w : IsFront(z, w) <=> z # <<>> /\ w = Head(z)
         /\ z # <<>> => Head(z) \in ToSet(z) /\ IsFront(z, Head(z))
  <1>1. z \in Seq(S) /\ Len(z) \in Nat /\ DOMAIN z = 1 .. Len(z)
    BY LenProperties DEF Listed
  <1>2. z # <<>> => Len(z) \in Nat \ {0}
    BY <1>1, EmptySeq
  <1>3. z = <<>> => DOMAIN z = {}
    BY <1>1, EmptySeq
  <1>4. z # <<>> => 1 \in DOMAIN z /\ Head(z) = z[1]
    BY <1>1, <1>2
  <1>5. z = <<>> <=> ToSet(z) = {}
    BY <1>3, <1>4 DEF ToSet
  <1>6. \A i, j \in DOMAIN z : z[i] = z[j] => i = j
    BY DEF Listed, IsInjective
  <1>7. z # <<>> => Head(z) \in ToSet(z) /\ \A v : ~Before(z, v, Head(z))
    BY <1>1, <1>4, <1>6 DEF ToSet, Before
  <1>8. ASSUME NEW w, IsFront(z, w) PROVE z # <<>> /\ w = Head(z)
    <2>1. PICK i \in DOMAIN z : z[i] = w
      BY <1>8 DEF IsFront, ToSet
    <2>2. z # <<>>
      BY <1>3, <2>1
    <2>3. i = 1
      <3>1. SUFFICES ASSUME i # 1 PROVE FALSE
        OBVIOUS
      <3>2. 1 \in DOMAIN z /\ 1 < i
        BY <1>1, <2>1, <3>1
      <3>3. Before(z, z[1], w)
        BY <2>1, <3>2 DEF Before
      <3>4. QED
        BY <1>8, <3>3 DEF IsFront
    <2>4. QED
      BY <1>4, <2>1, <2>2, <2>3
  <1>9. QED
    BY <1>5, <1>7, <1>8 DEF IsFront

(* list_unlink.                                                              *)
LEMMA UnlinkIs ==
  ASSUME NEW S, NEW z, Listed(z, S), NEW w \in ToSet(z), NEW u, u = Unlink(z, w)
  PROVE  /\ Listed(u, S) /\ ToSet(u) = ToSet(z) \ {w}
         /\ \A a, b : Before(u, a, b) <=> Before(z, a, b) /\ a # w /\ b # w
  <1> DEFINE at == CHOOSE i \in DOMAIN z : z[i] = w
             n == Len(z)
             p == SubSeq(z, 1, at - 1)
             q == SubSeq(z, at + 1, n)
  <1>1. z \in Seq(S) /\ n \in Nat /\ DOMAIN z = 1 .. n
    BY LenProperties DEF Listed
  <1>2. at \in 1 .. n /\ z[at] = w
    BY <1>1 DEF ToSet
  <1>3. u = p \o q
    BY DEF Unlink, RemoveAt
  <1>4. \A i \in 1 .. n : z[i] \in S
    BY <1>1, ElementOfSeq
  <1>5. \A i, j \in 1 .. n : z[i] = z[j] => i = j
    BY <1>1 DEF Listed, IsInjective
  <1> HIDE DEF at, n
  <1>6. p \in Seq(S) /\ Len(p) = at - 1 /\ \A i \in 1 .. at - 1 : p[i] = z[i]
    <2>1. 1 \in Int /\ at - 1 \in Int /\ \A i \in 1 .. at - 1 : z[i] \in S
      BY <1>1, <1>2, <1>4
    <2>2. /\ p \in Seq(S) /\ Len(p) = IF 1 <= at - 1 THEN at - 1 - 1 + 1 ELSE 0
          /\ \A i \in 1 .. at - 1 - 1 + 1 : p[i] = z[1 + i - 1]
      BY <2>1, SubSeqProperties
    <2>3. QED
      BY <1>2, <2>2
  <1>7. q \in Seq(S) /\ Len(q) = n - at /\ \A i \in 1 .. n - at : q[i] = z[at + i]
    <2>1. at + 1 \in Int /\ n \in Int /\ \A i \in at + 1 .. n : z[i] \in S
      BY <1>1, <1>2, <1>4
    <2>2. /\ q \in Seq(S) /\ Len(q) = IF at + 1 <= n THEN n - (at + 1) + 1 ELSE 0
          /\ \A i \in 1 .. n - (at + 1) + 1 : q[i] = z[at + 1 + i - 1]
      BY <2>1, SubSeqProperties
    <2>3. QED
      BY <1>1, <1>2, <2>2
  <1> HIDE DEF p, q
  <1>8. /\ u \in Seq(S) /\ Len(u) = n - 1
        /\ \A i \in 1 .. n - 1 : u[i] = IF i <= at - 1 THEN p[i] ELSE q[i - (at - 1)]
    <2>1. p \in Seq(S) /\ q \in Seq(S)
      BY <1>6, <1>7
    <2>2. /\ u \in Seq(S) /\ Len(u) = Len(p) + Len(q)
          /\ \A i \in 1 .. Len(p) + Len(q) : u[i] = IF i <= Len(p) THEN p[i] ELSE q[i - Len(p)]
      BY <1>3, <2>1, ConcatProperties
    <2>3. Len(p) = at - 1 /\ Len(p) + Len(q) = n - 1
      BY <1>1, <1>2, <1>6, <1>7
    <2>4. QED
      BY <2>2, <2>3
  <1>9. \A i \in 1 .. n - 1 : u[i] = IF i < at THEN z[i] ELSE z[i + 1]
    BY <1>1, <1>2, <1>6, <1>7, <1>8
  <1>10. DOMAIN u = 1 .. n - 1
    BY <1>8, LenProperties
  <1>11. Listed(u, S)
    BY <1>1, <1>2, <1>5, <1>8, <1>9, <1>10 DEF Listed, IsInjective
  <1> DEFINE To(i) == IF i < at THEN i ELSE i - 1
  <1>12. \A i \in 1 .. n : i # at => To(i) \in 1 .. n - 1 /\ u[To(i)] = z[i]
    BY <1>1, <1>2, <1>9
  <1>13. ToSet(u) = ToSet(z) \ {w}
    <2>1. \A i \in 1 .. n - 1 : \E j \in 1 .. n : j # at /\ u[i] = z[j]
      BY <1>1, <1>2, <1>9
    <2>2. ASSUME NEW v \in ToSet(u) PROVE v \in ToSet(z) /\ v # w
      <3>1. PICK i \in 1 .. n - 1 : v = u[i]
        BY <1>10 DEF ToSet
      <3>2. PICK j \in 1 .. n : j # at /\ u[i] = z[j]
        BY <2>1
      <3>3. QED
        BY <1>1, <1>2, <1>5, <3>1, <3>2 DEF ToSet
    <2>3. ASSUME NEW v \in ToSet(z), v # w PROVE v \in ToSet(u)
      <3>1. PICK i \in 1 .. n : v = z[i]
        BY <1>1 DEF ToSet
      <3>2. QED
        BY <1>2, <1>10, <1>12, <2>3, <3>1 DEF ToSet
    <2>4. QED
      BY <2>2, <2>3
  <1>14. ASSUME NEW a, NEW b, Before(u, a, b)
         PROVE  Before(z, a, b) /\ a # w /\ b # w
    <2>1. PICK i, j \in 1 .. n - 1 : i < j /\ u[i] = a /\ u[j] = b
      BY <1>10, <1>14 DEF Before
    <2> DEFINE k == IF i < at THEN i ELSE i + 1
               l == IF j < at THEN j ELSE j + 1
    <2>2. k \in 1 .. n /\ l \in 1 .. n /\ k < l /\ k # at /\ l # at
      BY <1>1, <1>2, <2>1
    <2>3. z[k] = a /\ z[l] = b
      BY <1>9, <2>1
    <2>4. QED
      BY <1>1, <1>2, <1>5, <2>2, <2>3 DEF Before
  <1>15. ASSUME NEW a, NEW b, Before(z, a, b), a # w, b # w
         PROVE  Before(u, a, b)
    <2>1. PICK i, j \in 1 .. n : i < j /\ z[i] = a /\ z[j] = b
      BY <1>1, <1>15 DEF Before
    <2>2. i # at /\ j # at
      BY <1>2, <1>15, <2>1
    <2>3. To(i) < To(j)
      BY <1>1, <1>2, <2>1, <2>2
    <2>4. QED
      BY <1>10, <1>12, <2>1, <2>2, <2>3 DEF Before
  <1>16. QED
    BY <1>11, <1>13, <1>14, <1>15

(* list_push_front.                                                          *)
Pushed(z, w) == <<w>> \o z

Pushes(q, z, w) ==
  /\ ToSet(q) = ToSet(z) \cup {w} /\ q # <<>> /\ Head(q) = w
  /\ \A a, b : Before(q, a, b) <=> Before(z, a, b) \/ (a = w /\ b \in ToSet(z))

LEMMA PushIs ==
  ASSUME NEW S, NEW z, Listed(z, S), NEW w \in S, w \notin ToSet(z), NEW q, q = Pushed(z, w)
  PROVE  Listed(q, S) /\ Pushes(q, z, w)
  <1> DEFINE n == Len(z)
             o == <<w>>
  <1>1. z \in Seq(S) /\ n \in Nat /\ DOMAIN z = 1 .. n
    BY LenProperties DEF Listed
  <1>2. o \in Seq(S) /\ Len(o) = 1 /\ o[1] = w
    OBVIOUS
  <1>3. \A i, j \in 1 .. n : z[i] = z[j] => i = j
    BY <1>1 DEF Listed, IsInjective
  <1> HIDE DEF o, n
  <1>4. q = o \o z
    BY DEF o, Pushed
  <1>5. /\ q \in Seq(S) /\ Len(q) = 1 + n
        /\ \A i \in 1 .. 1 + n : q[i] = IF i <= 1 THEN o[i] ELSE z[i - 1]
    <2>1. z \in Seq(S) /\ o \in Seq(S)
      BY <1>1, <1>2
    <2>2. /\ o \o z \in Seq(S) /\ Len(o \o z) = Len(o) + Len(z)
          /\ \A i \in 1 .. Len(o) + Len(z) : (o \o z)[i] = IF i <= Len(o) THEN o[i] ELSE z[i - Len(o)]
      BY <2>1, ConcatProperties
    <2>3. QED
      BY <1>2, <1>4, <2>2 DEF n
  <1>6. q[1] = w /\ \A i \in 1 .. n : i + 1 \in 1 .. n + 1 /\ q[i + 1] = z[i]
    BY <1>1, <1>2, <1>5
  <1>7. DOMAIN q = 1 .. n + 1
    BY <1>1, <1>5, LenProperties
  <1>8. \A i \in 1 .. n + 1 : i = 1 \/ (i - 1 \in 1 .. n /\ q[i] = z[i - 1])
    BY <1>1, <1>5
  <1>9. w \notin {z[i] : i \in 1 .. n}
    BY <1>1 DEF ToSet
  <1>10. Listed(q, S)
    BY <1>1, <1>3, <1>5, <1>6, <1>7, <1>8, <1>9 DEF Listed, IsInjective
  <1>11. ToSet(q) = ToSet(z) \cup {w}
    <2>1. \A i \in 1 .. n + 1 : q[i] = w \/ q[i] \in ToSet(z)
      BY <1>1, <1>6, <1>8 DEF ToSet
    <2>2. w \in ToSet(q)
      BY <1>1, <1>6, <1>7 DEF ToSet
    <2>3. \A i \in 1 .. n : z[i] \in ToSet(q)
      BY <1>6, <1>7 DEF ToSet
    <2>4. \A v \in ToSet(z) : v \in ToSet(q)
      BY <1>1, <2>3 DEF ToSet
    <2>5. \A v \in ToSet(q) : v = w \/ v \in ToSet(z)
      BY <1>7, <2>1 DEF ToSet
    <2>6. QED
      BY <2>2, <2>4, <2>5
  <1>12. q # <<>> /\ Head(q) = w
    <2>1. q # <<>>
      BY <1>1, <1>5, EmptySeq
    <2>2. QED
      BY <1>1, <1>5, <1>6, <2>1
  <1>13. ASSUME NEW a, NEW b, Before(q, a, b)
         PROVE  Before(z, a, b) \/ (a = w /\ b \in ToSet(z))
    <2>1. PICK i, j \in 1 .. n + 1 : i < j /\ q[i] = a /\ q[j] = b
      BY <1>7, <1>13 DEF Before
    <2>2. j - 1 \in 1 .. n /\ z[j - 1] = b
      BY <1>1, <1>8, <2>1
    <2>3. CASE i = 1
      BY <1>1, <1>6, <2>1, <2>2, <2>3 DEF ToSet
    <2>4. CASE i # 1
      <3>1. i - 1 \in 1 .. n /\ z[i - 1] = a /\ i - 1 < j - 1
        BY <1>1, <1>8, <2>1, <2>4
      <3>2. QED
        BY <1>1, <2>2, <3>1 DEF Before
    <2>5. QED
      BY <2>3, <2>4
  <1>14. ASSUME NEW a, NEW b, Before(z, a, b)
         PROVE  Before(q, a, b)
    <2>1. PICK i, j \in 1 .. n : i < j /\ z[i] = a /\ z[j] = b
      BY <1>1, <1>14 DEF Before
    <2>2. i + 1 \in 1 .. n + 1 /\ j + 1 \in 1 .. n + 1 /\ i + 1 < j + 1
      BY <1>1, <2>1
    <2>3. QED
      BY <1>6, <1>7, <2>1, <2>2 DEF Before
  <1>15. ASSUME NEW b \in ToSet(z) PROVE Before(q, w, b)
    <2>1. PICK j \in 1 .. n : z[j] = b
      BY <1>1 DEF ToSet
    <2>2. 1 \in 1 .. n + 1 /\ 1 < j + 1
      BY <1>1, <2>1
    <2>3. QED
      BY <1>6, <1>7, <2>1, <2>2 DEF Before
  <1>16. QED
    BY <1>10, <1>11, <1>12, <1>13, <1>14, <1>15 DEF Pushes

(* A window brought to the front.                                            *)
Raised(z, w) == <<w>> \o Unlink(z, w)

Raises(q, z, w) ==
  /\ ToSet(q) = ToSet(z) /\ q # <<>> /\ Head(q) = w
  /\ \A a, b : Before(q, a, b) <=> \/ a # w /\ b # w /\ Before(z, a, b)
                                   \/ a = w /\ b # w /\ b \in ToSet(z)

LEMMA RaiseIs ==
  ASSUME NEW S, NEW z, Listed(z, S), NEW w \in ToSet(z), NEW q, q = Raised(z, w)
  PROVE  Listed(q, S) /\ Raises(q, z, w)
  <1> DEFINE u == Unlink(z, w)
  <1>1. /\ Listed(u, S) /\ ToSet(u) = ToSet(z) \ {w}
        /\ \A a, b : Before(u, a, b) <=> Before(z, a, b) /\ a # w /\ b # w
    BY UnlinkIs
  <1>2. w \in S /\ w \notin ToSet(u)
    BY <1>1, ListIs
  <1>3. q = Pushed(u, w)
    BY DEF Pushed, Raised
  <1> HIDE DEF u
  <1>4. Listed(q, S) /\ Pushes(q, u, w)
    <2>1. Listed(u, S) /\ w \in S /\ w \notin ToSet(u)
      BY <1>1, <1>2
    <2>2. QED
      BY <1>3, <2>1, PushIs
  <1>5. ToSet(q) = ToSet(z)
    <2>1. w \in ToSet(z) /\ ToSet(u) = ToSet(z) \ {w} /\ ToSet(q) = ToSet(u) \cup {w}
      BY <1>1, <1>4 DEF Pushes
    <2>2. QED
      BY <2>1
  <1>6. QED
    BY <1>1, <1>4, <1>5 DEF Pushes, Raises

-----------------------------------------------------------------------------
(* The Window Manager between two of its operations.                         *)

IsManager(m) == m = [z |-> m.z, frame |-> m.frame, rolled |-> m.rolled, lit |-> m.lit,
                     update |-> m.update, desk |-> m.desk]

(* The desktop owes nothing under a menu bar.                                *)
Formed(m) ==
  /\ IsManager(m) /\ Listed(m.z, Windows)
  /\ m.frame \in [Windows -> Frames] /\ m.rolled \in [Windows -> Frames \cup {Open}]
  /\ m.update \in [Windows -> SUBSET Pixels] /\ m.desk \subseteq Pixels \ Overlay

(* Only the front window may be lit.                                         *)
Managed(m) == Formed(m) /\ \A w \in m.lit : IsFront(m.z, w)

FrontLit(m) == \A w : IsFront(m.z, w) => w \in m.lit

(* w is the front-most window at the pixel p.                                *)
Top(m, p, w) == w \in Shown(m) /\ p \in Struct(m, w) /\ \A v : Before(m.z, v, w) => p \notin Struct(m, v)

Uncovered(m, p) == \A w \in Shown(m) : p \notin Struct(m, w)

LEMMA TopIs ==
  ASSUME NEW m, Listed(m.z, Windows), NEW p
  PROVE  /\ Over(m, p) = {} <=> Uncovered(m, p)
         /\ ~Uncovered(m, p) => Top(m, p, FrontAt(m, p))
         /\ \A v, w : Top(m, p, v) /\ Top(m, p, w) => v = w
         /\ \A w : Top(m, p, w) => ~Uncovered(m, p) /\ FrontAt(m, p) = w
  <1> DEFINE z == m.z
             O == Over(m, p)
  <1>1. z \in Seq(Windows) /\ Len(z) \in Nat /\ DOMAIN z = 1 .. Len(z)
    BY LenProperties DEF Listed
  <1>2. O = {i \in 1 .. Len(z) : p \in Struct(m, z[i])}
    BY <1>1 DEF Over
  <1>3. O = {} <=> Uncovered(m, p)
    BY <1>1, <1>2 DEF Uncovered, Shown, ToSet
  <1>4. O # {} => Top(m, p, FrontAt(m, p))
    <2>1. SUFFICES ASSUME O # {} PROVE Top(m, p, FrontAt(m, p))
      OBVIOUS
    <2>2. O \subseteq Nat
      BY <1>1, <1>2
    <2>3. PICK i \in O : \A j \in O : <<j, i>> \notin OpToRel(<, Nat)
      BY <2>1, <2>2, NatLessThanWellFounded, WFMin
    <2>4. ASSUME NEW j \in O PROVE i <= j
      <3>1. i \in Nat /\ j \in Nat
        BY <2>2
      <3>2. ASSUME j < i PROVE FALSE
        BY <2>3, <3>1, <3>2 DEF OpToRel
      <3>3. QED
        BY <3>1, <3>2
    <2> DEFINE k == Min(O)
    <2>5. k \in O /\ \A j \in O : k <= j
      BY <2>4 DEF Min
    <2>6. FrontAt(m, p) = z[k]
      BY DEF FrontAt
    <2> HIDE DEF k, O
    <2>7. k \in 1 .. Len(z) /\ p \in Struct(m, z[k])
      BY <1>2, <2>5
    <2>8. z[k] \in Shown(m)
      BY <1>1, <2>7 DEF Shown, ToSet
    <2>9. ASSUME NEW v, Before(z, v, z[k]), p \in Struct(m, v) PROVE FALSE
      <3>1. PICK a, b \in 1 .. Len(z) : a < b /\ z[a] = v /\ z[b] = z[k]
        BY <1>1, <2>9 DEF Before
      <3>2. b = k
        BY <1>1, <2>7, <3>1 DEF Listed, IsInjective
      <3>3. a \in O
        BY <1>2, <2>9, <3>1
      <3>4. QED
        BY <1>1, <2>5, <2>7, <3>1, <3>2, <3>3
    <2>10. QED
      BY <2>6, <2>7, <2>8, <2>9 DEF Top
  <1>5. ASSUME NEW v, NEW w, Top(m, p, v), Top(m, p, w) PROVE v = w
    BY <1>5, ListIs DEF Top, Shown
  <1>6. ASSUME NEW w, Top(m, p, w) PROVE ~Uncovered(m, p)
    BY <1>6 DEF Top, Uncovered
  <1>7. QED
    BY <1>3, <1>4, <1>5, <1>6

(* visible_into: what shows of a window is where it is front-most.           *)
LEMMA VisibleIs ==
  ASSUME NEW m, Listed(m.z, Windows), NEW w \in Shown(m)
  PROVE  \A p : p \in Visible(m, w) <=> p \notin Overlay /\ Top(m, p, w)
  <1> DEFINE z == m.z
             at == Place(m, w)
  <1>1. z \in Seq(Windows) /\ Len(z) \in Nat /\ DOMAIN z = 1 .. Len(z)
    BY LenProperties DEF Listed
  <1>2. at \in 1 .. Len(z) /\ z[at] = w
    BY <1>1 DEF Place, Shown, ToSet
  <1>3. \A i \in 1 .. Len(z) : z[i] = w => i = at
    BY <1>1, <1>2 DEF Listed, IsInjective
  <1>4. \A p : p \in Visible(m, w) <=> p \notin Overlay /\ p \in Struct(m, w)
                                       /\ \A i \in 1 .. at - 1 : p \notin Struct(m, z[i])
    BY DEF Visible
  <1> HIDE DEF at
  <1>5. \A v : Before(z, v, w) <=> \E i \in 1 .. at - 1 : v = z[i]
    <2>1. ASSUME NEW v, Before(z, v, w) PROVE \E i \in 1 .. at - 1 : v = z[i]
      BY <1>1, <1>2, <1>3, <2>1 DEF Before
    <2>2. ASSUME NEW i \in 1 .. at - 1 PROVE Before(z, z[i], w)
      <3>1. i \in DOMAIN z /\ at \in DOMAIN z /\ i < at
        BY <1>1, <1>2
      <3>2. QED
        BY <1>2, <3>1 DEF Before
    <2>3. QED
      BY <2>1, <2>2
  <1>6. QED
    BY <1>4, <1>5 DEF Top

(* Nothing that does not show what it should is forgotten: at p, x shows it, *)
(* or the window that is front-most there, or the desktop, owes it.          *)
OwesAt(m, x, p) ==
  /\ p \in Overlay => x[p] = Bar
  /\ p \notin Overlay /\ Uncovered(m, p) => x[p] = Bare \/ p \in m.desk
  /\ p \notin Overlay => \A w : Top(m, p, w) =>
        p \in m.update[w] \/ (x[p] = Drawn(m, w, TRUE) /\ p \notin m.desk)

Owes(m, x) == \A p \in Pixels : OwesAt(m, x, p)

LEMMA OwesIs ==
  ASSUME NEW m, Listed(m.z, Windows), NEW x
  PROVE  Owes(m, x) <=>
           \A p \in Pixels :
             IF p \in Overlay \/ Over(m, p) = {}
             THEN x[p] = Picture(m, p) \/ (p \notin Overlay /\ p \in m.desk)
             ELSE x[p] # Picture(m, p) \/ p \in m.desk => p \in m.update[FrontAt(m, p)]
  <1>1. ASSUME NEW p \in Pixels
        PROVE  OwesAt(m, x, p) <=>
                 IF p \in Overlay \/ Over(m, p) = {}
                 THEN x[p] = Picture(m, p) \/ (p \notin Overlay /\ p \in m.desk)
                 ELSE x[p] # Picture(m, p) \/ p \in m.desk => p \in m.update[FrontAt(m, p)]
    <2>1. /\ Over(m, p) = {} <=> Uncovered(m, p)
          /\ ~Uncovered(m, p) => Top(m, p, FrontAt(m, p))
          /\ \A w : Top(m, p, w) => ~Uncovered(m, p) /\ FrontAt(m, p) = w
      BY TopIs
    <2>2. CASE p \in Overlay
      BY <2>2 DEF OwesAt, Picture
    <2>3. CASE p \notin Overlay /\ Over(m, p) = {}
      BY <2>1, <2>3 DEF OwesAt, Picture
    <2>4. CASE p \notin Overlay /\ Over(m, p) # {}
      BY <2>1, <2>4 DEF OwesAt, Picture
    <2>5. QED
      BY <2>2, <2>3, <2>4
  <1>2. QED
    BY <1>1 DEF Owes

(* How an operation that leads from m to n keeps account of the pixel p.     *)
Accounts(m, n, p) ==
  /\ Uncovered(n, p) => p \in n.desk \/ (Uncovered(m, p) /\ p \notin m.desk)
  /\ \A w : Top(n, p, w) =>
        \/ p \in n.update[w]
        \/ Top(m, p, w) /\ p \notin m.update[w] /\ (w \in m.lit <=> w \in n.lit)
           /\ (p \in n.desk => p \in m.desk)

LEMMA Accounted ==
  ASSUME NEW m, NEW n, NEW x, Owes(m, x), \A p \in Pixels \ Overlay : Accounts(m, n, p)
  PROVE  Owes(n, x)
  <1>1. SUFFICES ASSUME NEW p \in Pixels PROVE OwesAt(n, x, p)
    BY DEF Owes
  <1>2. OwesAt(m, x, p)
    BY DEF Owes
  <1>3. CASE p \in Overlay
    BY <1>2, <1>3 DEF OwesAt
  <1>4. CASE p \notin Overlay
    <2>1. Accounts(m, n, p)
      BY <1>4
    <2>2. ASSUME NEW w, w \in m.lit <=> w \in n.lit PROVE Drawn(m, w, TRUE) = Drawn(n, w, TRUE)
      <3>1. (w \in m.lit) = (w \in n.lit)
        BY <2>2
      <3>2. QED
        BY <3>1 DEF Drawn
    <2>3. QED
      BY <1>2, <1>4, <2>1, <2>2 DEF OwesAt, Accounts
  <1>5. QED
    BY <1>3, <1>4

(* What a window covers depends on its own frame only.                       *)
LEMMA StructIs ==
  ASSUME NEW m, Formed(m), NEW w \in Windows
  PROVE  Struct(m, w) \subseteq Pixels
  <1>1. m.frame[w] \in Frames
    BY DEF Formed
  <1>2. m.frame[w].lo \in m.frame[w].lo .. m.frame[w].hi
    BY <1>1, FramesAssumption
  <1>3. QED
    BY <1>1, <1>2, FramesAssumption DEF Struct

(* Two states of the manager with the same windows in the same places.       *)
Alike(m, n) == n.z = m.z /\ n.frame = m.frame /\ n.rolled = m.rolled

LEMMA AlikeIs ==
  ASSUME NEW m, NEW n, Alike(m, n)
  PROVE  /\ Shown(n) = Shown(m)
         /\ \A p, w : Top(n, p, w) <=> Top(m, p, w)
         /\ \A p : Uncovered(n, p) <=> Uncovered(m, p)
         /\ \A w : Struct(n, w) = Struct(m, w)
  <1>1. \A w : Struct(n, w) = Struct(m, w)
    BY DEF Struct, Alike
  <1>2. Shown(n) = Shown(m) /\ n.z = m.z
    BY DEF Shown, Alike
  <1>3. QED
    BY <1>1, <1>2 DEF Top, Uncovered

(* reaffirm_active: who gains or loses the hilite owes all that shows of it. *)
LEMMA ReaffirmIs ==
  ASSUME NEW k, Formed(k), NEW n, n = ReaffirmActive(k)
  PROVE  /\ Managed(n) /\ FrontLit(n) /\ Alike(k, n) /\ n.desk = k.desk
         /\ \A w \in Windows : k.update[w] \subseteq n.update[w]
         /\ \A w \in Shown(k) : ~(w \in k.lit <=> w \in n.lit) =>
               \A p : p \notin Overlay /\ Top(k, p, w) => p \in n.update[w]
  <1> DEFINE lit     == IF k.z = <<>> THEN {} ELSE {Head(k.z)}
             changed == {w \in Shown(k) : (w \in k.lit) # (w \in lit)}
             owed    == [w \in Windows |->
                           IF w \in changed THEN k.update[w] \cup Visible(k, w) ELSE k.update[w]]
  <1>1. n = [k EXCEPT !.lit = lit, !.update = owed]
    BY DEF ReaffirmActive
  <1>2. IsManager(k) /\ Listed(k.z, Windows)
    BY DEF Formed
  <1>3. \A w : w \in lit <=> IsFront(k.z, w)
    BY <1>2, FrontIs
  <1>4. Shown(k) \subseteq Windows
    BY <1>2, ListIs DEF Shown
  <1> HIDE DEF lit, owed
  <1>5. n = [z |-> k.z, frame |-> k.frame, rolled |-> k.rolled, lit |-> lit,
             update |-> owed, desk |-> k.desk]
    BY <1>1, <1>2 DEF IsManager
  <1>6. Alike(k, n) /\ n.desk = k.desk /\ n.lit = lit /\ n.update = owed /\ IsManager(n)
    BY <1>5 DEF Alike, IsManager
  <1>7. \A w \in Shown(k) : \A p : p \in Visible(k, w) <=> p \notin Overlay /\ Top(k, p, w)
    BY <1>2, VisibleIs
  <1>8. \A w \in Shown(k) : Visible(k, w) \subseteq Pixels
    <2>1. \A w \in Shown(k) : Struct(k, w) \subseteq Pixels
      BY <1>4, StructIs
    <2>2. QED
      BY <1>7, <2>1 DEF Top
  <1>9. /\ owed \in [Windows -> SUBSET Pixels]
        /\ \A w \in Windows : owed[w] = IF w \in changed THEN k.update[w] \cup Visible(k, w) ELSE k.update[w]
    BY <1>8 DEF owed, Formed
  <1>10. Formed(n)
    BY <1>6, <1>9 DEF Formed, Alike
  <1>11. Managed(n) /\ FrontLit(n)
    BY <1>3, <1>6, <1>10 DEF Managed, FrontLit, Alike
  <1>12. \A w \in Windows : k.update[w] \subseteq n.update[w]
    BY <1>6, <1>9
  <1>13. ASSUME NEW w \in Shown(k), ~(w \in k.lit <=> w \in n.lit), NEW p, p \notin Overlay, Top(k, p, w)
         PROVE  p \in n.update[w]
    <2>1. w \in changed
      BY <1>6, <1>13
    <2>2. p \in Visible(k, w)
      BY <1>7, <1>13
    <2>3. QED
      BY <1>4, <1>6, <1>9, <2>1, <2>2
  <1>14. QED
    BY <1>6, <1>11, <1>12, <1>13

(* An account that the new hilite completes.                                 *)
WillAccount(m, k, p) ==
  /\ Uncovered(k, p) => p \in k.desk \/ (Uncovered(m, p) /\ p \notin m.desk)
  /\ \A w : Top(k, p, w) =>
        \/ p \in k.update[w]
        \/ IsFront(k.z, w) /\ w \notin k.lit
        \/ Top(m, p, w) /\ p \notin m.update[w] /\ (w \in m.lit <=> w \in k.lit)
           /\ (p \in k.desk => p \in m.desk)

LEMMA Reaffirmed ==
  ASSUME NEW m, NEW x, Owes(m, x), NEW k, Formed(k), NEW n, n = ReaffirmActive(k),
         \A p \in Pixels \ Overlay : WillAccount(m, k, p)
  PROVE  Owes(n, x) /\ Managed(n) /\ FrontLit(n) /\ Alike(k, n)
  <1>1. /\ Managed(n) /\ FrontLit(n) /\ Alike(k, n) /\ n.desk = k.desk
        /\ \A w \in Windows : k.update[w] \subseteq n.update[w]
        /\ \A w \in Shown(k) : ~(w \in k.lit <=> w \in n.lit) =>
              \A p : p \notin Overlay /\ Top(k, p, w) => p \in n.update[w]
    BY ReaffirmIs
  <1>2. \A p : (Uncovered(n, p) <=> Uncovered(k, p)) /\ \A w : Top(n, p, w) <=> Top(k, p, w)
    BY <1>1, AlikeIs
  <1>3. ASSUME NEW p \in Pixels \ Overlay PROVE Accounts(m, n, p)
    <2>1. WillAccount(m, k, p)
      BY <1>3
    <2>2. Uncovered(n, p) => p \in n.desk \/ (Uncovered(m, p) /\ p \notin m.desk)
      BY <1>1, <1>2, <2>1 DEF WillAccount
    <2>3. ASSUME NEW w, Top(n, p, w)
          PROVE  \/ p \in n.update[w]
                 \/ Top(m, p, w) /\ p \notin m.update[w] /\ (w \in m.lit <=> w \in n.lit)
                    /\ (p \in n.desk => p \in m.desk)
      <3>1. Top(k, p, w) /\ w \in Shown(k)
        BY <1>2, <2>3 DEF Top
      <3>2. w \in Windows
        BY <3>1, ListIs DEF Formed, Shown
      <3>3. CASE ~(w \in k.lit <=> w \in n.lit)
        BY <1>1, <1>3, <3>1, <3>3
      <3>4. CASE w \in k.lit <=> w \in n.lit
        <4>1. ~(IsFront(k.z, w) /\ w \notin k.lit)
          BY <1>1, <3>4 DEF FrontLit, Alike
        <4>2. QED
          BY <1>1, <2>1, <3>1, <3>2, <3>4, <4>1 DEF WillAccount
      <3>5. QED
        BY <3>3, <3>4
    <2>4. QED
      BY <2>2, <2>3 DEF Accounts
  <1>4. Owes(n, x)
    BY <1>3, Accounted
  <1>5. QED
    BY <1>1, <1>4

-----------------------------------------------------------------------------
(* The operations of the Window Manager.                                     *)

(* What an operation makes of the order and the places of the others.        *)
Fronts(n, m, w) ==
  /\ IsFront(n.z, w) /\ Shown(n) = Shown(m) /\ n.frame = m.frame /\ n.rolled = m.rolled
  /\ \A a, b : Before(n.z, a, b) <=> \/ a # w /\ b # w /\ Before(m.z, a, b)
                                     \/ a = w /\ b # w /\ b \in Shown(m)

Adds(n, m, w) ==
  /\ IsFront(n.z, w) /\ Shown(n) = Shown(m) \cup {w}
  /\ \A v \in Shown(m) : Struct(n, v) = Struct(m, v)
  /\ \A a, b : Before(n.z, a, b) <=> Before(m.z, a, b) \/ (a = w /\ b \in Shown(m))

Leaves(n, m, w) ==
  /\ Shown(n) = Shown(m) \ {w} /\ \A v \in Shown(n) : Struct(n, v) = Struct(m, v)
  /\ \A a, b : Before(n.z, a, b) <=> Before(m.z, a, b) /\ a # w /\ b # w

LEMMA SelectIs ==
  ASSUME NEW m, Managed(m), NEW x, Owes(m, x), NEW w \in Shown(m), NEW n, n = SelectWindow(m, w)
  PROVE  Managed(n) /\ Owes(n, x) /\ FrontLit(n) /\ Fronts(n, m, w)
  <1> DEFINE q == Raised(m.z, w)
             k == [m EXCEPT !.z = q]
  <1>1. IsManager(m) /\ Listed(m.z, Windows)
    BY DEF Managed, Formed
  <1>2. w \in ToSet(m.z)
    BY DEF Shown
  <1>3. Listed(q, Windows) /\ Raises(q, m.z, w)
    <2>1. Listed(m.z, Windows) /\ w \in ToSet(m.z) /\ q = Raised(m.z, w)
      BY <1>1, <1>2
    <2> HIDE DEF q
    <2>2. QED
      BY <2>1, RaiseIs
  <1>4. n = ReaffirmActive(k)
    BY DEF SelectWindow, Raised
  <1> HIDE DEF q
  <1>5. /\ k = [z |-> q, frame |-> m.frame, rolled |-> m.rolled, lit |-> m.lit,
                update |-> m.update, desk |-> m.desk]
    BY <1>1 DEF IsManager
  <1> HIDE DEF k
  <1>6. /\ k.z = q /\ k.frame = m.frame /\ k.rolled = m.rolled /\ k.lit = m.lit
        /\ k.update = m.update /\ k.desk = m.desk /\ IsManager(k)
    BY <1>5 DEF IsManager
  <1>7. Formed(k)
    BY <1>3, <1>6 DEF Managed, Formed
  <1>8. Shown(k) = Shown(m) /\ \A v : Struct(k, v) = Struct(m, v)
    BY <1>3, <1>6 DEF Shown, Struct, Raises
  <1>9. IsFront(k.z, w)
    BY <1>3, <1>6, FrontIs DEF Raises
  <1>10. ASSUME NEW p \in Pixels \ Overlay PROVE WillAccount(m, k, p)
    <2>1. OwesAt(m, x, p)
      BY DEF Owes
    <2>2. Uncovered(k, p) <=> Uncovered(m, p)
      BY <1>8 DEF Uncovered
    <2>3. ASSUME NEW v, Top(k, p, v)
          PROVE  \/ p \in k.update[v]
                 \/ IsFront(k.z, v) /\ v \notin k.lit
                 \/ Top(m, p, v) /\ p \notin m.update[v] /\ (v \in m.lit <=> v \in k.lit)
                    /\ (p \in k.desk => p \in m.desk)
      <3>1. v \in Shown(m) /\ p \in Struct(m, v) /\ \A u : Before(k.z, u, v) => p \notin Struct(m, u)
        BY <1>8, <2>3 DEF Top
      <3>2. CASE v = w /\ w \notin k.lit
        BY <1>9, <3>2
      <3>3. CASE v = w /\ w \in k.lit
        <4>1. IsFront(m.z, w)
          BY <1>6, <3>3 DEF Managed
        <4>2. Top(m, p, v)
          BY <3>1, <3>3, <4>1 DEF Top, IsFront
        <4>3. QED
          BY <1>6, <4>2
      <3>4. CASE v # w
        <4>1. p \notin Struct(m, w)
          BY <1>3, <1>6, <3>1, <3>4 DEF Shown, Raises
        <4>2. \A u : Before(m.z, u, v) => p \notin Struct(m, u)
          BY <1>3, <1>6, <3>1, <3>4, <4>1 DEF Raises
        <4>3. Top(m, p, v)
          BY <3>1, <4>2 DEF Top
        <4>4. QED
          BY <1>6, <4>3
      <3>5. QED
        BY <3>2, <3>3, <3>4
    <2>4. Uncovered(k, p) => p \in k.desk \/ (Uncovered(m, p) /\ p \notin m.desk)
      BY <1>6, <2>2
    <2>5. QED
      BY <2>3, <2>4 DEF WillAccount
  <1>11. Owes(n, x) /\ Managed(n) /\ FrontLit(n) /\ Alike(k, n)
    BY <1>4, <1>7, <1>10, Reaffirmed
  <1>12. n.z = q /\ n.frame = m.frame /\ n.rolled = m.rolled
    BY <1>6, <1>11 DEF Alike
  <1>13. QED
    BY <1>3, <1>6, <1>9, <1>11, <1>12 DEF Shown, Raises, Fronts

LEMMA NewIs ==
  ASSUME NEW m, Managed(m), NEW x, Owes(m, x), NEW w \in Windows, w \notin Shown(m),
         NEW f \in Frames, NEW n, n = NewWindow(m, w, f)
  PROVE  Managed(n) /\ Owes(n, x) /\ FrontLit(n) /\ Adds(n, m, w)
  <1> DEFINE q == Pushed(m.z, w)
             g == [m.frame EXCEPT ![w] = f]
             k == [m EXCEPT !.z = q, !.frame = g]
  <1>1. IsManager(m) /\ Listed(m.z, Windows)
    BY DEF Managed, Formed
  <1>2. w \notin ToSet(m.z)
    BY DEF Shown
  <1>3. Listed(q, Windows) /\ Pushes(q, m.z, w)
    <2>1. Listed(m.z, Windows) /\ w \in Windows /\ w \notin ToSet(m.z) /\ q = Pushed(m.z, w)
      BY <1>1, <1>2
    <2> HIDE DEF q
    <2>2. QED
      BY <2>1, PushIs
  <1>4. n = ReaffirmActive(k)
    BY DEF NewWindow, Pushed
  <1>5. g \in [Windows -> Frames] /\ \A v \in Windows : v # w => g[v] = m.frame[v]
    BY DEF Managed, Formed
  <1> HIDE DEF q, g
  <1>6. k \in [z : {q}, frame : {g}, rolled : {m.rolled}, lit : {m.lit},
               update : {m.update}, desk : {m.desk}]
    <2>1. m \in [z : {m.z}, frame : {m.frame}, rolled : {m.rolled}, lit : {m.lit},
                 update : {m.update}, desk : {m.desk}]
      BY <1>1 DEF IsManager
    <2>2. QED
      BY <2>1
  <1> HIDE DEF k
  <1>7. /\ k.z = q /\ k.frame = g /\ k.rolled = m.rolled /\ k.lit = m.lit
        /\ k.update = m.update /\ k.desk = m.desk /\ IsManager(k)
    BY <1>6 DEF IsManager
  <1>8. Formed(k)
    BY <1>3, <1>5, <1>7 DEF Managed, Formed
  <1>9. Shown(m) \subseteq Windows
    BY <1>1, ListIs DEF Shown
  <1>10. Shown(k) = Shown(m) \cup {w} /\ \A v \in Shown(m) : Struct(k, v) = Struct(m, v)
    <2>1. \A v \in Shown(m) : k.frame[v] = m.frame[v]
      BY <1>5, <1>7, <1>9
    <2>2. QED
      BY <1>3, <1>7, <2>1 DEF Shown, Struct, Pushes
  <1>11. IsFront(k.z, w)
    BY <1>3, <1>7, FrontIs DEF Pushes
  <1>12. w \notin k.lit
    BY <1>2, <1>7 DEF Managed, IsFront
  <1>13. ASSUME NEW p \in Pixels \ Overlay PROVE WillAccount(m, k, p)
    <2>1. Uncovered(k, p) => Uncovered(m, p)
      BY <1>10 DEF Uncovered
    <2>2. ASSUME NEW v, Top(k, p, v)
          PROVE  \/ p \in k.update[v]
                 \/ IsFront(k.z, v) /\ v \notin k.lit
                 \/ Top(m, p, v) /\ p \notin m.update[v] /\ (v \in m.lit <=> v \in k.lit)
                    /\ (p \in k.desk => p \in m.desk)
      <3>1. CASE v = w
        BY <1>11, <1>12, <3>1
      <3>2. CASE v # w
        <4>1. v \in Shown(m) /\ p \in Struct(m, v)
          BY <1>10, <2>2, <3>2 DEF Top
        <4>2. ASSUME NEW u, Before(m.z, u, v) PROVE p \notin Struct(m, u)
          <5>1. u \in Shown(m)
            BY <1>1, <4>2, ListIs DEF Shown
          <5>2. Before(k.z, u, v)
            BY <1>3, <1>7, <4>2 DEF Pushes
          <5>3. QED
            BY <1>10, <2>2, <5>1, <5>2 DEF Top
        <4>3. Top(m, p, v)
          BY <4>1, <4>2 DEF Top
        <4>4. QED
          BY <1>7, <4>3
      <3>3. QED
        BY <3>1, <3>2
    <2>3. Uncovered(k, p) => p \in k.desk \/ (Uncovered(m, p) /\ p \notin m.desk)
      BY <1>7, <2>1
    <2>4. QED
      BY <2>2, <2>3 DEF WillAccount
  <1>14. Owes(n, x) /\ Managed(n) /\ FrontLit(n) /\ Alike(k, n)
    BY <1>4, <1>8, <1>13, Reaffirmed
  <1>15. n.z = q /\ Shown(n) = Shown(k) /\ \A v : Struct(n, v) = Struct(k, v)
    BY <1>7, <1>14, AlikeIs DEF Alike
  <1>16. QED
    BY <1>3, <1>7, <1>10, <1>11, <1>14, <1>15 DEF Shown, Pushes, Adds

(* distribute_exposure: what is exposed is owed by who is front-most there.  *)
LEMMA DistributeIs ==
  ASSUME NEW g, Formed(g), NEW out, out \subseteq Pixels \ Overlay,
         NEW k, k = DistributeExposure(g, out)
  PROVE  /\ Formed(k) /\ Alike(g, k) /\ k.lit = g.lit
         /\ \A w \in Windows : g.update[w] \subseteq k.update[w]
         /\ \A p \in out : (Uncovered(g, p) => p \in k.desk) /\ \A w : Top(g, p, w) => p \in k.update[w]
         /\ g.desk \subseteq k.desk /\ \A p \in k.desk : p \in g.desk \/ Uncovered(g, p)
  <1> DEFINE bare == {p \in out : Over(g, p) = {}}
             owed == [w \in Windows |-> g.update[w] \cup {p \in out \ bare : FrontAt(g, p) = w}]
             desk == g.desk \cup bare
  <1>1. k = [g EXCEPT !.update = owed, !.desk = desk]
    BY DEF DistributeExposure
  <1>2. IsManager(g) /\ Listed(g.z, Windows)
    BY DEF Formed
  <1>3. \A p : /\ Over(g, p) = {} <=> Uncovered(g, p)
               /\ \A w : Top(g, p, w) => ~Uncovered(g, p) /\ FrontAt(g, p) = w
    BY <1>2, TopIs
  <1>4. /\ owed \in [Windows -> SUBSET Pixels]
        /\ \A w \in Windows : /\ g.update[w] \subseteq owed[w]
                              /\ \A p \in out \ bare : FrontAt(g, p) = w => p \in owed[w]
    BY DEF Formed
  <1>5. bare \subseteq out /\ \A p \in out : p \in bare <=> Uncovered(g, p)
    BY <1>3
  <1> HIDE DEF owed, bare
  <1>6. desk \subseteq Pixels \ Overlay /\ g.desk \subseteq desk /\ \A p \in desk : p \in g.desk \/ Uncovered(g, p)
    BY <1>5 DEF Formed
  <1>7. \A p \in out : p \in bare => p \in desk
    OBVIOUS
  <1> HIDE DEF desk
  <1>8. k \in [z : {g.z}, frame : {g.frame}, rolled : {g.rolled}, lit : {g.lit},
               update : {owed}, desk : {desk}]
    <2>1. g \in [z : {g.z}, frame : {g.frame}, rolled : {g.rolled}, lit : {g.lit},
                 update : {g.update}, desk : {g.desk}]
      BY <1>2 DEF IsManager
    <2>2. QED
      BY <1>1, <2>1
  <1>9. /\ k.z = g.z /\ k.frame = g.frame /\ k.rolled = g.rolled /\ k.lit = g.lit
        /\ k.update = owed /\ k.desk = desk /\ IsManager(k)
    BY <1>8 DEF IsManager
  <1>10. Formed(k) /\ Alike(g, k)
    BY <1>4, <1>6, <1>9 DEF Formed, Alike
  <1>11. ASSUME NEW p \in out, NEW w, Top(g, p, w) PROVE p \in k.update[w]
    <2>1. w \in Windows
      BY <1>2, <1>11, ListIs DEF Top, Shown
    <2>2. p \notin bare /\ FrontAt(g, p) = w
      BY <1>3, <1>5, <1>11
    <2>3. QED
      BY <1>4, <1>9, <2>1, <2>2
  <1>12. QED
    BY <1>4, <1>5, <1>6, <1>7, <1>9, <1>10, <1>11

LEMMA DisposeIs ==
  ASSUME NEW m, Managed(m), NEW x, Owes(m, x), NEW w \in Shown(m), NEW n, n = DisposeWindow(m, w)
  PROVE  Managed(n) /\ Owes(n, x) /\ FrontLit(n) /\ Leaves(n, m, w)
  <1> DEFINE q   == Unlink(m.z, w)
             fr  == [m.frame EXCEPT ![w] = NoFrame]
             ro  == [m.rolled EXCEPT ![w] = Open]
             lit == m.lit \ {w}
             up  == [m.update EXCEPT ![w] = {}]
             g   == [m EXCEPT !.z = q, !.frame = fr, !.rolled = ro, !.lit = lit, !.update = up]
             out == Visible(m, w)
             k   == DistributeExposure(g, out)
  <1>1. IsManager(m) /\ Listed(m.z, Windows)
    BY DEF Managed, Formed
  <1>2. w \in ToSet(m.z) /\ w \in Windows
    BY <1>1, ListIs DEF Shown
  <1>3. /\ Listed(q, Windows) /\ ToSet(q) = ToSet(m.z) \ {w}
        /\ \A a, b : Before(q, a, b) <=> Before(m.z, a, b) /\ a # w /\ b # w
    BY <1>1, <1>2, UnlinkIs
  <1>4. n = ReaffirmActive(k)
    BY DEF DisposeWindow
  <1>5. NoFrame \in Frames
    BY FramesAssumption DEF NoFrame
  <1>6. /\ fr \in [Windows -> Frames] /\ ro \in [Windows -> Frames \cup {Open}]
        /\ up \in [Windows -> SUBSET Pixels]
        /\ \A v \in Windows : v # w => fr[v] = m.frame[v] /\ ro[v] = m.rolled[v] /\ up[v] = m.update[v]
    BY <1>5 DEF Managed, Formed
  <1> HIDE DEF q, fr, ro, lit, up
  <1>7. g \in [z : {q}, frame : {fr}, rolled : {ro}, lit : {lit}, update : {up}, desk : {m.desk}]
    <2>1. m \in [z : {m.z}, frame : {m.frame}, rolled : {m.rolled}, lit : {m.lit},
                 update : {m.update}, desk : {m.desk}]
      BY <1>1 DEF IsManager
    <2>2. QED
      BY <2>1
  <1> HIDE DEF g
  <1>8. /\ g.z = q /\ g.frame = fr /\ g.rolled = ro /\ g.lit = lit /\ g.update = up
        /\ g.desk = m.desk /\ IsManager(g)
    BY <1>7 DEF IsManager
  <1>9. Formed(g)
    BY <1>3, <1>6, <1>8 DEF Managed, Formed
  <1>10. Shown(m) \subseteq Windows
    BY <1>1, ListIs DEF Shown
  <1>11. Shown(g) = Shown(m) \ {w} /\ \A v \in Shown(g) : Struct(g, v) = Struct(m, v)
    <2>1. Shown(g) = Shown(m) \ {w}
      BY <1>3, <1>8 DEF Shown
    <2>2. ASSUME NEW v \in Shown(g) PROVE Struct(g, v) = Struct(m, v)
      <3>1. v \in Windows /\ v # w
        BY <1>10, <2>1
      <3>2. g.frame[v] = m.frame[v] /\ g.rolled[v] = m.rolled[v]
        BY <1>6, <1>8, <3>1
      <3>3. QED
        BY <3>2 DEF Struct
    <2>3. QED
      BY <2>1, <2>2
  <1>12. \A p : p \in out <=> p \notin Overlay /\ Top(m, p, w)
    BY <1>1, VisibleIs
  <1>13. out \subseteq Pixels \ Overlay
    <2>1. Struct(m, w) \subseteq Pixels
      BY <1>2, StructIs DEF Managed
    <2>2. QED
      BY <1>12, <2>1 DEF Top
  <1> HIDE DEF out
  <1>14. /\ Formed(k) /\ Alike(g, k) /\ k.lit = g.lit
         /\ \A v \in Windows : g.update[v] \subseteq k.update[v]
         /\ \A p \in out : (Uncovered(g, p) => p \in k.desk) /\ \A v : Top(g, p, v) => p \in k.update[v]
         /\ g.desk \subseteq k.desk /\ \A p \in k.desk : p \in g.desk \/ Uncovered(g, p)
    BY <1>9, <1>13, DistributeIs
  <1> HIDE DEF k
  <1>15. \A p : (Uncovered(k, p) <=> Uncovered(g, p)) /\ \A v : Top(k, p, v) <=> Top(g, p, v)
    BY <1>14, AlikeIs
  <1>16. ASSUME NEW p \in Pixels \ Overlay PROVE WillAccount(m, k, p)
    <2>1. CASE p \in out
      BY <1>14, <1>15, <2>1 DEF WillAccount
    <2>2. CASE p \notin out
      <3>1. ~Top(m, p, w)
        BY <1>12, <2>2
      <3>2. ASSUME NEW v, Top(g, p, v) PROVE Top(m, p, v) /\ v \in Windows /\ v # w
        <4>1. v \in Shown(m) /\ v # w /\ p \in Struct(m, v)
          BY <1>11, <3>2 DEF Top
        <4>2. ASSUME NEW u, Before(m.z, u, v), u # w PROVE p \notin Struct(m, u)
          <5>1. Before(g.z, u, v) /\ u \in Shown(m)
            BY <1>1, <1>3, <1>8, <4>1, <4>2, ListIs DEF Shown
          <5>2. u \in Shown(g)
            BY <1>11, <4>2, <5>1
          <5>3. QED
            BY <1>11, <3>2, <5>1, <5>2 DEF Top
        <4>3. ASSUME Before(m.z, w, v), p \in Struct(m, w) PROVE FALSE
          <5>1. \A u : Before(m.z, u, w) => Before(m.z, u, v) /\ u # w
            BY <1>1, <4>3, ListIs
          <5>2. Top(m, p, w)
            BY <4>2, <4>3, <5>1 DEF Top
          <5>3. QED
            BY <3>1, <5>2
        <4>4. QED
          BY <1>10, <4>1, <4>2, <4>3 DEF Top
      <3>3. Uncovered(g, p) => Uncovered(m, p)
        <4>1. SUFFICES ASSUME Uncovered(g, p), ~Uncovered(m, p) PROVE FALSE
          OBVIOUS
        <4>2. PICK v : Top(m, p, v)
          BY <1>1, <4>1, TopIs
        <4>3. v # w /\ v \in Shown(m) /\ p \in Struct(m, v)
          BY <3>1, <4>2 DEF Top
        <4>4. QED
          BY <1>11, <4>1, <4>3 DEF Uncovered
      <3>4. ASSUME NEW v, Top(k, p, v)
            PROVE  \/ p \in k.update[v]
                   \/ Top(m, p, v) /\ p \notin m.update[v] /\ (v \in m.lit <=> v \in k.lit)
                      /\ (p \in k.desk => p \in m.desk)
        <4>1. Top(g, p, v) /\ Top(m, p, v) /\ v \in Windows /\ v # w
          BY <1>15, <3>2, <3>4
        <4>2. ~Uncovered(g, p)
          BY <4>1 DEF Top, Uncovered
        <4>3. p \in m.update[v] => p \in k.update[v]
          BY <1>6, <1>8, <1>14, <4>1
        <4>4. p \in k.desk => p \in m.desk
          BY <1>8, <1>14, <4>2
        <4>5. v \in m.lit <=> v \in k.lit
          BY <1>8, <1>14, <4>1 DEF lit
        <4>6. QED
          BY <4>1, <4>3, <4>4, <4>5
      <3>5. Uncovered(k, p) => p \in k.desk \/ (Uncovered(m, p) /\ p \notin m.desk)
        BY <1>8, <1>14, <1>15, <3>3
      <3>6. QED
        BY <3>4, <3>5 DEF WillAccount
    <2>3. QED
      BY <2>1, <2>2
  <1>17. Owes(n, x) /\ Managed(n) /\ FrontLit(n) /\ Alike(k, n)
    BY <1>4, <1>14, <1>16, Reaffirmed
  <1>18. n.z = q /\ Shown(n) = Shown(g) /\ \A v : Struct(n, v) = Struct(g, v)
    <2>1. Shown(n) = Shown(k) /\ Shown(k) = Shown(g)
      BY <1>14, <1>17, AlikeIs
    <2>2. \A v : Struct(n, v) = Struct(k, v) /\ Struct(k, v) = Struct(g, v)
      BY <1>14, <1>17, AlikeIs
    <2>3. n.z = q
      BY <1>8, <1>14, <1>17 DEF Alike
    <2>4. QED
      BY <2>1, <2>2, <2>3
  <1>19. Leaves(n, m, w)
    BY <1>3, <1>11, <1>18 DEF Leaves
  <1>20. QED
    BY <1>17, <1>19

(* WindowMgr_invalidate, of all a window covers, after its own damage has    *)
(* been dropped or its hilite put out.                                       *)
LEMMA InvalidateIs ==
  ASSUME NEW k, Formed(k), NEW w \in Shown(k), NEW n, n = Invalidate(k, w, Struct(k, w))
  PROVE  /\ Formed(n) /\ Alike(k, n) /\ n.lit = k.lit /\ n.desk = k.desk
         /\ \A v \in Windows : v # w => n.update[v] = k.update[v]
         /\ k.update[w] \subseteq n.update[w]
         /\ \A p : p \notin Overlay /\ Top(k, p, w) => p \in n.update[w]
  <1> DEFINE up == [k.update EXCEPT ![w] = k.update[w] \cup (Struct(k, w) \cap Visible(k, w))]
  <1>1. n = [k EXCEPT !.update = up]
    BY DEF Invalidate
  <1>2. IsManager(k) /\ Listed(k.z, Windows)
    BY DEF Formed
  <1>3. w \in Windows
    BY <1>2, ListIs DEF Shown
  <1>4. Struct(k, w) \subseteq Pixels
    BY <1>3, StructIs
  <1>5. \A p : p \in Visible(k, w) <=> p \notin Overlay /\ Top(k, p, w)
    BY <1>2, VisibleIs
  <1>6. /\ up \in [Windows -> SUBSET Pixels]
        /\ \A v \in Windows : v # w => up[v] = k.update[v]
        /\ up[w] = k.update[w] \cup (Struct(k, w) \cap Visible(k, w))
    BY <1>3, <1>4 DEF Formed
  <1> HIDE DEF up
  <1>7. n = [z |-> k.z, frame |-> k.frame, rolled |-> k.rolled, lit |-> k.lit,
             update |-> up, desk |-> k.desk]
    BY <1>1, <1>2 DEF IsManager
  <1>8. Alike(k, n) /\ n.lit = k.lit /\ n.desk = k.desk /\ n.update = up /\ IsManager(n)
    BY <1>7 DEF Alike, IsManager
  <1>9. Formed(n)
    BY <1>6, <1>8 DEF Formed, Alike
  <1>10. \A p : p \notin Overlay /\ Top(k, p, w) => p \in n.update[w]
    BY <1>5, <1>6, <1>8 DEF Top
  <1>11. QED
    BY <1>6, <1>8, <1>9, <1>10

(* set_document_frame; and MoveWindow, after which its caller invalidates    *)
(* the window as set_document_frame does.                                    *)
LEMMA SetDocumentFrameIs ==
  ASSUME NEW m, Managed(m), NEW x, Owes(m, x), NEW w \in Shown(m), NEW f \in Frames,
         NEW r \in Frames \cup {Open}, NEW n, n = SetDocumentFrame(m, w, f, r)
  PROVE  Managed(n) /\ Owes(n, x) /\ n.z = m.z /\ n.lit = m.lit
  <1> DEFINE fr   == [m.frame EXCEPT ![w] = f]
             ro   == [m.rolled EXCEPT ![w] = r]
             next == [m EXCEPT !.frame = fr, !.rolled = ro]
             left == Visible(m, w) \ Struct(next, w)
             g    == DistributeExposure(next, left)
             up   == [g.update EXCEPT ![w] = {}]
             k    == [g EXCEPT !.update = up]
  <1>1. n = Invalidate(k, w, Struct(k, w))
    BY DEF SetDocumentFrame, Reframed
  <1>2. IsManager(m) /\ Listed(m.z, Windows) /\ Formed(m)
    BY DEF Managed, Formed
  <1>3. Shown(m) \subseteq Windows /\ w \in Windows
    BY <1>2, ListIs DEF Shown
  <1>4. /\ fr \in [Windows -> Frames] /\ ro \in [Windows -> Frames \cup {Open}]
        /\ \A v \in Windows : v # w => fr[v] = m.frame[v] /\ ro[v] = m.rolled[v]
    BY DEF Managed, Formed
  <1> HIDE DEF fr, ro
  <1>5. next \in [z : {m.z}, frame : {fr}, rolled : {ro}, lit : {m.lit},
                  update : {m.update}, desk : {m.desk}]
    <2>1. m \in [z : {m.z}, frame : {m.frame}, rolled : {m.rolled}, lit : {m.lit},
                 update : {m.update}, desk : {m.desk}]
      BY <1>2 DEF IsManager
    <2>2. QED
      BY <2>1
  <1> HIDE DEF next
  <1>6. /\ next.z = m.z /\ next.frame = fr /\ next.rolled = ro /\ next.lit = m.lit
        /\ next.update = m.update /\ next.desk = m.desk /\ IsManager(next)
    BY <1>5 DEF IsManager
  <1>7. Formed(next)
    BY <1>4, <1>6 DEF Managed, Formed
  <1>8. Shown(next) = Shown(m) /\ \A v \in Shown(m) : v # w => Struct(next, v) = Struct(m, v)
    <2>1. \A v \in Shown(m) : v # w => next.frame[v] = m.frame[v] /\ next.rolled[v] = m.rolled[v]
      BY <1>3, <1>4, <1>6
    <2>2. QED
      BY <1>6, <2>1 DEF Shown, Struct
  <1>9. \A p : p \in Visible(m, w) <=> p \notin Overlay /\ Top(m, p, w)
    BY <1>2, VisibleIs
  <1>10. left \subseteq Pixels \ Overlay /\ \A p : p \in left <=> p \in Visible(m, w) /\ p \notin Struct(next, w)
    <2>1. Struct(m, w) \subseteq Pixels
      BY <1>2, <1>3, StructIs
    <2>2. QED
      BY <1>9, <2>1 DEF Top
  <1> HIDE DEF left
  <1>11. /\ Formed(g) /\ Alike(next, g) /\ g.lit = next.lit
         /\ \A v \in Windows : next.update[v] \subseteq g.update[v]
         /\ \A p \in left : (Uncovered(next, p) => p \in g.desk) /\ \A v : Top(next, p, v) => p \in g.update[v]
         /\ next.desk \subseteq g.desk /\ \A p \in g.desk : p \in next.desk \/ Uncovered(next, p)
    BY <1>7, <1>10, DistributeIs
  <1> HIDE DEF g
  <1>12. up \in [Windows -> SUBSET Pixels] /\ \A v \in Windows : v # w => up[v] = g.update[v]
    BY <1>11 DEF Formed
  <1> HIDE DEF up
  <1>13. IsManager(g)
    BY <1>11 DEF Formed
  <1>14. k = [z |-> g.z, frame |-> g.frame, rolled |-> g.rolled, lit |-> g.lit,
              update |-> up, desk |-> g.desk]
    BY <1>13 DEF IsManager
  <1> HIDE DEF k
  <1>15. Alike(g, k) /\ k.lit = g.lit /\ k.desk = g.desk /\ k.update = up /\ IsManager(k)
    BY <1>14 DEF Alike, IsManager
  <1>16. Formed(k)
    BY <1>11, <1>12, <1>15 DEF Formed, Alike
  <1>17. w \in Shown(k)
    BY <1>6, <1>11, <1>15 DEF Alike, Shown
  <1>18. /\ Formed(n) /\ Alike(k, n) /\ n.lit = k.lit /\ n.desk = k.desk
         /\ \A v \in Windows : v # w => n.update[v] = k.update[v]
         /\ \A p : p \notin Overlay /\ Top(k, p, w) => p \in n.update[w]
    BY <1>1, <1>16, <1>17, InvalidateIs
  <1>19. Alike(next, k) /\ Alike(next, n)
    BY <1>11, <1>15, <1>18 DEF Alike
  <1>20. /\ \A p, v : Top(n, p, v) <=> Top(next, p, v)
         /\ \A p : Uncovered(n, p) <=> Uncovered(next, p)
         /\ \A p, v : Top(k, p, v) <=> Top(next, p, v)
    BY <1>19, AlikeIs
  <1>21. n.z = m.z /\ n.lit = m.lit
    BY <1>6, <1>11, <1>15, <1>18, <1>19 DEF Alike
  <1>22. ASSUME NEW p \in Pixels \ Overlay PROVE Accounts(m, n, p)
    <2>1. ASSUME NEW v, Top(next, p, v), v # w, ~Top(m, p, w) PROVE Top(m, p, v)
      <3>1. v \in Shown(m) /\ p \in Struct(m, v)
        BY <1>8, <2>1 DEF Top
      <3>2. ASSUME NEW u, Before(m.z, u, v), u # w PROVE p \notin Struct(m, u)
        <4>1. Before(next.z, u, v) /\ u \in Shown(m)
          BY <1>2, <1>6, <3>2, ListIs DEF Shown
        <4>2. QED
          BY <1>8, <2>1, <3>2, <4>1 DEF Top
      <3>3. ASSUME Before(m.z, w, v), p \in Struct(m, w) PROVE FALSE
        <4>1. \A u : Before(m.z, u, w) => Before(m.z, u, v) /\ u # w
          BY <1>2, <3>3, ListIs
        <4>2. Top(m, p, w)
          BY <3>2, <3>3, <4>1 DEF Top
        <4>3. QED
          BY <2>1, <4>2
      <3>4. QED
        BY <3>1, <3>2, <3>3 DEF Top
    <2>2. ASSUME NEW v, Top(next, p, v), v # w, Top(m, p, w) PROVE p \in left
      <3>1. ASSUME p \in Struct(next, w) PROVE FALSE
        <4>1. v \in Shown(m) /\ p \in Struct(m, v) /\ w \in Shown(next)
          BY <1>8, <2>2 DEF Top
        <4>2. Before(m.z, v, w) \/ Before(m.z, w, v)
          BY <1>2, <2>2, <4>1, ListIs DEF Shown
        <4>3. ~Before(m.z, v, w)
          BY <2>2, <4>1 DEF Top
        <4>4. ~Before(m.z, w, v)
          BY <1>6, <2>2, <3>1 DEF Top
        <4>5. QED
          BY <4>2, <4>3, <4>4
      <3>2. QED
        BY <1>9, <1>10, <1>22, <2>2, <3>1
    <2>3. ASSUME NEW v, Top(n, p, v)
          PROVE  \/ p \in n.update[v]
                 \/ Top(m, p, v) /\ p \notin m.update[v] /\ (v \in m.lit <=> v \in n.lit)
                    /\ (p \in n.desk => p \in m.desk)
      <3>1. Top(next, p, v) /\ Top(k, p, v) /\ v \in Windows
        BY <1>3, <1>8, <1>20, <2>3 DEF Top
      <3>2. CASE v = w
        BY <1>18, <1>22, <3>1, <3>2
      <3>3. CASE v # w /\ Top(m, p, w)
        <4>1. p \in g.update[v]
          BY <1>11, <2>2, <3>1, <3>3
        <4>2. QED
          BY <1>12, <1>15, <1>18, <3>1, <3>3, <4>1
      <3>4. CASE v # w /\ ~Top(m, p, w)
        <4>1. Top(m, p, v)
          BY <2>1, <3>1, <3>4
        <4>2. p \in m.update[v] => p \in n.update[v]
          BY <1>6, <1>11, <1>12, <1>15, <1>18, <3>1, <3>4
        <4>3. ~Uncovered(next, p)
          BY <3>1 DEF Top, Uncovered
        <4>4. p \in n.desk => p \in m.desk
          BY <1>6, <1>11, <1>15, <1>18, <4>3
        <4>5. QED
          BY <1>21, <4>1, <4>2, <4>4
      <3>5. QED
        BY <3>2, <3>3, <3>4
    <2>4. Uncovered(n, p) => p \in n.desk \/ (Uncovered(m, p) /\ p \notin m.desk)
      <3>1. SUFFICES ASSUME Uncovered(next, p) PROVE p \in n.desk \/ (Uncovered(m, p) /\ p \notin m.desk)
        BY <1>20
      <3>2. CASE p \in left
        BY <1>11, <1>15, <1>18, <3>1, <3>2
      <3>3. CASE p \notin left
        <4>1. p \notin Struct(next, w)
          BY <1>8, <3>1 DEF Uncovered
        <4>2. ~Top(m, p, w)
          BY <1>9, <1>10, <1>22, <3>3, <4>1
        <4>3. ASSUME ~Uncovered(m, p) PROVE FALSE
          <5>1. PICK v : Top(m, p, v)
            BY <1>2, <4>3, TopIs
          <5>2. v # w /\ v \in Shown(m) /\ p \in Struct(m, v)
            BY <4>2, <5>1 DEF Top
          <5>3. QED
            BY <1>8, <3>1, <5>2 DEF Uncovered
        <4>4. p \in m.desk => p \in n.desk
          BY <1>6, <1>11, <1>15, <1>18
        <4>5. QED
          BY <4>3, <4>4
      <3>4. QED
        BY <3>2, <3>3
    <2>5. QED
      BY <2>3, <2>4 DEF Accounts
  <1>23. Owes(n, x)
    BY <1>22, Accounted
  <1>24. Managed(n)
    BY <1>18, <1>21 DEF Managed
  <1>25. QED
    BY <1>21, <1>23, <1>24

(* What FlairProcess_sync_active does to a front window that is not the      *)
(* foreground's.                                                             *)
Unlit(m, w) == Invalidate([m EXCEPT !.lit = m.lit \ {w}], w, Struct(m, w))

LEMMA UnlitIs ==
  ASSUME NEW m, Managed(m), NEW x, Owes(m, x), NEW w, IsFront(m.z, w), NEW n, n = Unlit(m, w)
  PROVE  Managed(n) /\ Owes(n, x) /\ Alike(m, n) /\ n.lit = {}
  <1> DEFINE lit == m.lit \ {w}
             k   == [m EXCEPT !.lit = lit]
  <1>1. IsManager(m) /\ Listed(m.z, Windows) /\ Formed(m)
    BY DEF Managed, Formed
  <1>2. w \in Shown(m)
    BY DEF IsFront, Shown
  <1>3. lit = {}
    BY <1>1, FrontIs DEF Managed
  <1>4. k = [z |-> m.z, frame |-> m.frame, rolled |-> m.rolled, lit |-> lit,
             update |-> m.update, desk |-> m.desk]
    BY <1>1 DEF IsManager
  <1>5. n = Invalidate(k, w, Struct(m, w))
    BY DEF Unlit
  <1> HIDE DEF lit, k
  <1>6. /\ Alike(m, k) /\ k.lit = {} /\ k.update = m.update /\ k.desk = m.desk /\ IsManager(k)
    BY <1>3, <1>4 DEF Alike, IsManager
  <1>7. Formed(k)
    BY <1>1, <1>6 DEF Formed, Alike
  <1>8. Shown(k) = Shown(m) /\ \A v : Struct(k, v) = Struct(m, v)
    BY <1>6, AlikeIs
  <1>9. n = Invalidate(k, w, Struct(k, w)) /\ w \in Shown(k)
    BY <1>2, <1>5, <1>8
  <1>10. /\ Formed(n) /\ Alike(k, n) /\ n.lit = k.lit /\ n.desk = k.desk
         /\ \A v \in Windows : v # w => n.update[v] = k.update[v]
         /\ \A p : p \notin Overlay /\ Top(k, p, w) => p \in n.update[w]
    BY <1>7, <1>9, InvalidateIs
  <1>11. Alike(m, n)
    BY <1>6, <1>10 DEF Alike
  <1>12. /\ \A p, v : (Top(n, p, v) <=> Top(m, p, v)) /\ (Top(k, p, v) <=> Top(m, p, v))
         /\ \A p : Uncovered(n, p) <=> Uncovered(m, p)
    BY <1>6, <1>11, AlikeIs
  <1>13. ASSUME NEW p \in Pixels \ Overlay PROVE Accounts(m, n, p)
    <2>1. Uncovered(n, p) => p \in n.desk \/ (Uncovered(m, p) /\ p \notin m.desk)
      BY <1>6, <1>10, <1>12
    <2>2. ASSUME NEW v, Top(n, p, v)
          PROVE  \/ p \in n.update[v]
                 \/ Top(m, p, v) /\ p \notin m.update[v] /\ (v \in m.lit <=> v \in n.lit)
                    /\ (p \in n.desk => p \in m.desk)
      <3>1. Top(m, p, v) /\ v \in Windows
        BY <1>1, <1>12, <2>2, ListIs DEF Top, Shown
      <3>2. CASE v = w
        BY <1>10, <1>12, <1>13, <3>1, <3>2
      <3>3. CASE v # w
        <4>1. v \notin m.lit /\ v \notin n.lit
          BY <1>3, <1>6, <1>10, <3>3 DEF lit
        <4>2. QED
          BY <1>6, <1>10, <3>1, <3>3, <4>1
      <3>4. QED
        BY <3>2, <3>3
    <2>3. QED
      BY <2>1, <2>2 DEF Accounts
  <1>14. Owes(n, x)
    BY <1>13, Accounted
  <1>15. Managed(n)
    BY <1>6, <1>10 DEF Managed
  <1>16. QED
    BY <1>6, <1>10, <1>11, <1>14, <1>15

(* The frame, the grow, zoom and roll-up boxes change neither the order nor  *)
(* the hilite.                                                               *)
LEMMA CollapseIs ==
  ASSUME NEW m, Managed(m), NEW x, Owes(m, x), NEW w \in Shown(m), NEW n, n = CollapseWindow(m, w)
  PROVE  Managed(n) /\ Owes(n, x) /\ n.z = m.z /\ n.lit = m.lit
  <1>1. w \in Windows
    BY ListIs DEF Managed, Formed, Shown
  <1>2. m.frame[w] \in Frames /\ m.rolled[w] \in Frames \cup {Open}
    BY <1>1 DEF Managed, Formed
  <1>3. CASE m.rolled[w] = Open
    <2>1. m.frame[w] \in Frames /\ m.frame[w] \in Frames \cup {Open}
          /\ n = SetDocumentFrame(m, w, m.frame[w], m.frame[w])
      BY <1>2, <1>3 DEF CollapseWindow
    <2>2. QED
      BY <2>1, SetDocumentFrameIs
  <1>4. CASE m.rolled[w] # Open
    <2>1. m.rolled[w] \in Frames /\ Open \in Frames \cup {Open}
          /\ n = SetDocumentFrame(m, w, m.rolled[w], Open)
      BY <1>2, <1>4 DEF CollapseWindow
    <2>2. QED
      BY <2>1, SetDocumentFrameIs
  <1>5. QED
    BY <1>3, <1>4

LEMMA ZoomIs ==
  ASSUME NEW m, Managed(m), NEW x, Owes(m, x), NEW w \in Shown(m), NEW f \in Frames,
         NEW n, n = ZoomWindow(m, w, f)
  PROVE  Managed(n) /\ Owes(n, x) /\ n.z = m.z /\ n.lit = m.lit
  <1> DEFINE k == IF m.rolled[w] = Open THEN m ELSE CollapseWindow(m, w)
  <1>1. Managed(k) /\ Owes(k, x) /\ k.z = m.z /\ k.lit = m.lit
    BY CollapseIs
  <1>2. n = SetDocumentFrame(k, w, f, Open)
    BY DEF ZoomWindow
  <1> HIDE DEF k
  <1>3. w \in Shown(k) /\ Open \in Frames \cup {Open}
    BY <1>1 DEF Shown
  <1>4. Managed(n) /\ Owes(n, x) /\ n.z = k.z /\ n.lit = k.lit
    BY <1>1, <1>2, <1>3, SetDocumentFrameIs
  <1>5. QED
    BY <1>1, <1>4

(* DragGrayRgn's end: MoveWindow, then the whole window is invalidated.      *)
Dropped(m, w, f) == Invalidate(MoveWindow(m, w, f), w, Struct(MoveWindow(m, w, f), w))

LEMMA DroppedIs ==
  ASSUME NEW m, Managed(m), NEW x, Owes(m, x), NEW w \in Shown(m), NEW f \in Frames,
         NEW n, n = Dropped(m, w, f)
  PROVE  Managed(n) /\ Owes(n, x) /\ n.z = m.z /\ n.lit = m.lit
  <1>1. w \in Windows
    BY ListIs DEF Managed, Formed, Shown
  <1>2. m.rolled[w] \in Frames \cup {Open} /\ n = SetDocumentFrame(m, w, f, m.rolled[w])
    BY <1>1 DEF Managed, Formed, Dropped, MoveWindow, SetDocumentFrame
  <1>3. QED
    BY <1>2, SetDocumentFrameIs

-----------------------------------------------------------------------------
(* The screen.                                                               *)
LEMMA PictureIs ==
  ASSUME NEW m, Listed(m.z, Windows), NEW p
  PROVE  /\ p \in Overlay => Picture(m, p) = Bar
         /\ p \notin Overlay /\ Uncovered(m, p) => Picture(m, p) = Bare
         /\ \A w : p \notin Overlay /\ Top(m, p, w) => Picture(m, p) = Drawn(m, w, TRUE)
  BY TopIs DEF Picture

Shows(m, x) == \A p \in Pixels : x[p] = Picture(m, p)

Settled(m) == m.desk = {} /\ \A w \in Windows : m.update[w] = {}

(* A screen that shows what it should owes nothing.                          *)
LEMMA ShowsIs ==
  ASSUME NEW m, Formed(m), Settled(m), NEW x, Shows(m, x)
  PROVE  Owes(m, x)
  <1>1. SUFFICES ASSUME NEW p \in Pixels PROVE OwesAt(m, x, p)
    BY DEF Owes
  <1>2. x[p] = Picture(m, p)
    BY DEF Shows
  <1>3. /\ p \in Overlay => Picture(m, p) = Bar
        /\ p \notin Overlay /\ Uncovered(m, p) => Picture(m, p) = Bare
        /\ \A w : p \notin Overlay /\ Top(m, p, w) => Picture(m, p) = Drawn(m, w, TRUE)
    BY PictureIs DEF Formed
  <1>4. p \notin m.desk
    BY DEF Settled
  <1>5. QED
    BY <1>2, <1>3, <1>4 DEF OwesAt

(* flair_live_repaint: what is owed is painted, and then nothing is owed.    *)
Drawing(m, x) == ContentDrawn(m, ChromeDrawn(m, x))

LEMMA ValidatedIs ==
  ASSUME NEW m, Managed(m), NEW n, n = Validated(m)
  PROVE  /\ Managed(n) /\ Settled(n) /\ Alike(m, n) /\ n.lit = m.lit
         /\ \A p : Picture(n, p) = Picture(m, p)
  <1> DEFINE up == [w \in Windows |-> {}]
  <1>1. IsManager(m) /\ Formed(m)
    BY DEF Managed, Formed
  <1>2. up \in [Windows -> SUBSET Pixels] /\ \A w \in Windows : up[w] = {}
    OBVIOUS
  <1>3. n = [m EXCEPT !.update = up, !.desk = {}]
    BY DEF Validated
  <1> HIDE DEF up
  <1>4. n \in [z : {m.z}, frame : {m.frame}, rolled : {m.rolled}, lit : {m.lit},
               update : {up}, desk : {{}}]
    <2>1. m \in [z : {m.z}, frame : {m.frame}, rolled : {m.rolled}, lit : {m.lit},
                 update : {m.update}, desk : {m.desk}]
      BY <1>1 DEF IsManager
    <2>2. QED
      BY <1>3, <2>1
  <1>5. /\ n.z = m.z /\ n.frame = m.frame /\ n.rolled = m.rolled /\ n.lit = m.lit
        /\ n.update = up /\ n.desk = {} /\ IsManager(n)
    BY <1>4 DEF IsManager
  <1>6. Managed(n) /\ Settled(n) /\ Alike(m, n)
    BY <1>1, <1>2, <1>5 DEF Managed, Formed, Settled, Alike
  <1>7. \A p : Picture(n, p) = Picture(m, p)
    <2>1. \A p : Over(n, p) = Over(m, p)
      BY <1>5 DEF Over, Struct
    <2>2. \A p : FrontAt(n, p) = FrontAt(m, p)
      BY <1>5, <2>1 DEF FrontAt
    <2>3. QED
      BY <1>5, <2>1, <2>2 DEF Picture, Drawn
  <1>8. QED
    BY <1>5, <1>6, <1>7

LEMMA DrawingIs ==
  ASSUME NEW m, Managed(m), NEW x, Owes(m, x), NEW n, n = Validated(m), NEW y, y = Drawing(m, x)
  PROVE  /\ Managed(n) /\ Owes(n, y) /\ Alike(m, n) /\ n.lit = m.lit /\ Shows(n, y)
  <1>1. /\ Managed(n) /\ Settled(n) /\ Alike(m, n) /\ n.lit = m.lit
        /\ \A p : Picture(n, p) = Picture(m, p)
    BY ValidatedIs
  <1>2. Listed(m.z, Windows) /\ m.desk \subseteq Pixels \ Overlay
    BY DEF Managed, Formed
  <1>3. ASSUME NEW p \in Pixels PROVE y[p] = Picture(m, p)
    <2>1. y[p] = IF Damaged(m, p) THEN Drawn(m, FrontAt(m, p), TRUE)
                 ELSE IF p \in m.desk THEN Bare ELSE x[p]
      BY DEF Drawing, ContentDrawn, ChromeDrawn
    <2>2. OwesAt(m, x, p)
      BY DEF Owes
    <2>3. /\ Over(m, p) = {} <=> Uncovered(m, p)
          /\ ~Uncovered(m, p) => Top(m, p, FrontAt(m, p))
      BY <1>2, TopIs
    <2>4. CASE p \in Overlay
      BY <1>2, <2>1, <2>2, <2>4 DEF OwesAt, Damaged, Picture
    <2>5. CASE p \notin Overlay /\ Over(m, p) = {}
      BY <2>1, <2>2, <2>3, <2>5 DEF OwesAt, Damaged, Picture
    <2>6. CASE p \notin Overlay /\ Over(m, p) # {}
      BY <2>1, <2>2, <2>3, <2>6 DEF OwesAt, Damaged, Picture
    <2>7. QED
      BY <2>4, <2>5, <2>6
  <1>4. Shows(n, y)
    BY <1>1, <1>3 DEF Shows
  <1>5. Owes(n, y)
    BY <1>1, <1>4, ShowsIs DEF Managed
  <1>6. QED
    BY <1>1, <1>4, <1>5

-----------------------------------------------------------------------------
(* raise_group.                                                              *)
GroupOf(m, app) == {w \in Shown(m) : Owner[w] = app}

(* The windows of P come first, and each part of the list keeps its order.   *)
Gathers(q, z, P) ==
  \A a, b : Before(q, a, b) <=> /\ a \in ToSet(z) /\ b \in ToSet(z)
                                /\ \/ a \in P /\ b \notin P
                                   \/ (a \in P <=> b \in P) /\ Before(z, a, b)

Regrouped(m, x, n, P) ==
  /\ Managed(n) /\ Owes(n, x) /\ Shown(n) = Shown(m) /\ n.frame = m.frame /\ n.rolled = m.rolled
  /\ Gathers(n.z, m.z, P) /\ (P # {} => FrontLit(n)) /\ (P = {} => n = m)

LEMMA RaiseStep ==
  ASSUME NEW m, Managed(m), NEW x, NEW k, NEW P, Regrouped(m, x, k, P), NEW w \in Shown(m),
         w \notin P, \A b \in P : Before(m.z, w, b), NEW n, n = SelectWindow(k, w),
         NEW Q, \A v : v \in Q <=> v \in P \/ v = w
  PROVE  Regrouped(m, x, n, Q)
  <1>1. Managed(k) /\ Owes(k, x) /\ w \in Shown(k) /\ Gathers(k.z, m.z, P)
    BY DEF Regrouped
  <1>2. /\ Managed(n) /\ Owes(n, x) /\ FrontLit(n)
        /\ Shown(n) = Shown(k) /\ n.frame = k.frame /\ n.rolled = k.rolled
        /\ \A a, b : Before(n.z, a, b) <=> \/ a # w /\ b # w /\ Before(k.z, a, b)
                                           \/ a = w /\ b # w /\ b \in Shown(k)
    <2>1. Managed(k) /\ Owes(k, x) /\ w \in Shown(k) /\ n = SelectWindow(k, w)
      BY <1>1
    <2>2. Managed(n) /\ Owes(n, x) /\ FrontLit(n) /\ Fronts(n, k, w)
      BY <2>1, SelectIs
    <2>3. QED
      BY <2>2 DEF Fronts
  <1>3. Shown(n) = Shown(m) /\ n.frame = m.frame /\ n.rolled = m.rolled /\ Shown(k) = Shown(m)
    BY <1>2 DEF Regrouped
  <1>4. w \in Q
    OBVIOUS
  <1>5. Listed(m.z, Windows) /\ Shown(m) = ToSet(m.z)
    BY DEF Managed, Formed, Shown
  <1>6. \A a, b : Before(m.z, a, b) => a \in Shown(m) /\ b \in Shown(m) /\ a # b /\ ~Before(m.z, b, a)
    BY <1>5, ListIs
  <1>7. ASSUME NEW a, NEW b
        PROVE  Before(n.z, a, b) <=> /\ a \in Shown(m) /\ b \in Shown(m)
                                     /\ \/ a \in Q /\ b \notin Q
                                        \/ (a \in Q <=> b \in Q) /\ Before(m.z, a, b)
    <2>1. Before(k.z, a, b) <=> /\ a \in Shown(m) /\ b \in Shown(m)
                                /\ \/ a \in P /\ b \notin P
                                   \/ (a \in P <=> b \in P) /\ Before(m.z, a, b)
      BY <1>1, <1>5 DEF Gathers
    <2>2. CASE a # w /\ b # w
      <3>1. (a \in Q <=> a \in P) /\ (b \in Q <=> b \in P)
        BY <2>2
      <3>2. QED
        BY <1>2, <2>1, <2>2, <3>1
    <2>3. CASE a = w /\ b # w
      <3>1. b \in Q => Before(m.z, w, b)
        BY <2>3
      <3>2. QED
        BY <1>2, <1>3, <1>4, <2>3, <3>1
    <2>4. CASE b = w
      <3>1. ~Before(n.z, a, b)
        BY <1>2, <2>4
      <3>2. a \in Q => ~Before(m.z, a, w)
        BY <1>6
      <3>3. QED
        BY <1>4, <2>4, <3>1, <3>2
    <2>5. QED
      BY <2>2, <2>3, <2>4
  <1>8. Gathers(n.z, m.z, Q)
    BY <1>5, <1>7 DEF Gathers
  <1>9. QED
    BY <1>2, <1>3, <1>4, <1>8 DEF Regrouped

(* The loop of raise_group, from the back of the list.                       *)
LEMMA RaiseLoop ==
  ASSUME NEW m, Len(m.z) \in Nat, NEW app
  PROVE  \E r : /\ r[0] = m /\ RaiseGroup(m, app) = r[Len(m.z)]
                /\ \A i \in 1 .. Len(m.z) : r[i] = RaiseOwn(r[i - 1], m.z[Len(m.z) + 1 - i], app)
  <1> DEFINE n        == Len(m.z)
             Loop(k, r) == r = [i \in 0 .. k |-> IF i = 0 THEN m ELSE RaiseOwn(r[i - 1], m.z[n + 1 - i], app)]
             T        == {k \in 0 .. n : \E r : Loop(k, r)}
             raised   == CHOOSE r : Loop(n, r)
  <1>1. 0 \in T
    <2>1. Loop(0, [i \in 0 .. 0 |-> m])
      OBVIOUS
    <2>2. 0 \in 0 .. n
      OBVIOUS
    <2> HIDE DEF Loop
    <2>3. QED
      BY <2>1, <2>2
  <1>2. ASSUME NEW k \in 0 .. n - 1, k \in T PROVE k + 1 \in T
    <2>1. PICK r : Loop(k, r)
      BY <1>2
    <2> DEFINE q == [i \in 0 .. k + 1 |-> IF i <= k THEN r[i] ELSE RaiseOwn(r[k], m.z[n + 1 - i], app)]
    <2>2. \A i \in 0 .. k : q[i] = r[i] /\ r[i] = IF i = 0 THEN m ELSE RaiseOwn(r[i - 1], m.z[n + 1 - i], app)
      BY <2>1
    <2>3. ASSUME NEW i \in 0 .. k + 1
          PROVE  q[i] = IF i = 0 THEN m ELSE RaiseOwn(q[i - 1], m.z[n + 1 - i], app)
      <3>1. CASE i = 0
        <4>1. 0 \in 0 .. k
          OBVIOUS
        <4>2. QED
          BY <2>2, <3>1, <4>1
      <3>2. CASE i # 0 /\ i <= k
        <4>1. i \in 0 .. k /\ i - 1 \in 0 .. k
          BY <3>2
        <4>2. QED
          BY <2>2, <3>2, <4>1
      <3>3. CASE i = k + 1
        <4>1. k \in 0 .. k /\ i - 1 = k /\ i # 0 /\ ~(i <= k)
          BY <3>3
        <4>2. q[i] = RaiseOwn(r[k], m.z[n + 1 - i], app)
          BY <4>1
        <4>3. q[i - 1] = r[k]
          BY <2>2, <4>1
        <4>4. QED
          BY <4>1, <4>2, <4>3
      <3>4. QED
        BY <3>1, <3>2, <3>3
    <2> HIDE DEF q
    <2>4. Loop(k + 1, [i \in 0 .. k + 1 |-> q[i]])
      BY <2>3
    <2>5. k + 1 \in 0 .. n
      OBVIOUS
    <2> HIDE DEF Loop
    <2>6. QED
      BY <2>4, <2>5
  <1>3. n \in T
    <2>1. n \in Nat /\ 0 \in T /\ \A k \in 0 .. n - 1 : k \in T => k + 1 \in T
      BY <1>1, <1>2
    <2> HIDE DEF n, T
    <2>2. \A k \in 0 .. n : k \in T
      BY <2>1, UpTo
    <2>3. QED
      BY <2>1, <2>2
  <1>4. Loop(n, raised)
    BY <1>3
  <1>5. RaiseGroup(m, app) = raised[n]
    BY DEF RaiseGroup
  <1> HIDE DEF raised
  <1>6. raised[0] = m /\ \A i \in 1 .. n : raised[i] = RaiseOwn(raised[i - 1], m.z[n + 1 - i], app)
    <2>1. \A i \in 0 .. n : raised[i] = IF i = 0 THEN m ELSE RaiseOwn(raised[i - 1], m.z[n + 1 - i], app)
      BY <1>4
    <2>2. 0 \in 0 .. n /\ \A i \in 1 .. n : i \in 0 .. n /\ i # 0
      OBVIOUS
    <2> HIDE DEF Loop, n
    <2>3. QED
      BY <2>1, <2>2
  <1>7. QED
    BY <1>5, <1>6

(* The windows of an application among the last k of the list.               *)
Back(m, app, k) ==
  {w \in GroupOf(m, app) : \E i \in DOMAIN m.z : i > Len(m.z) - k /\ m.z[i] = w}

LEMMA RaiseGroupIs ==
  ASSUME NEW m, Managed(m), NEW x, Owes(m, x), NEW app, NEW n, n = RaiseGroup(m, app)
  PROVE  Regrouped(m, x, n, GroupOf(m, app))
  <1> DEFINE z == m.z
             l == Len(z)
  <1>1. Listed(z, Windows) /\ z \in Seq(Windows) /\ l \in Nat /\ DOMAIN z = 1 .. l
    BY LenProperties DEF Managed, Formed, Listed
  <1>2. PICK r : /\ r[0] = m /\ RaiseGroup(m, app) = r[l]
                 /\ \A i \in 1 .. l : r[i] = RaiseOwn(r[i - 1], z[l + 1 - i], app)
    <2>1. Len(m.z) \in Nat
      BY <1>1
    <2>2. QED
      BY <2>1, RaiseLoop
  <1> DEFINE T == {k \in 0 .. l : Regrouped(m, x, r[k], Back(m, app, k))}
  <1>3. 0 \in T
    <2>1. Back(m, app, 0) = {}
      BY <1>1 DEF Back
    <2>2. Gathers(z, z, {})
      BY <1>1, ListIs DEF Gathers
    <2>3. Regrouped(m, x, m, {})
      BY <2>2 DEF Regrouped
    <2>4. Regrouped(m, x, r[0], Back(m, app, 0))
      BY <1>2, <2>1, <2>3
    <2>5. QED
      BY <1>1, <2>4
  <1>4. ASSUME NEW k \in 0 .. l - 1, k \in T PROVE k + 1 \in T
    <2> DEFINE w == z[l - k]
               P == Back(m, app, k)
               Q == Back(m, app, k + 1)
    <2>1. /\ k + 1 \in 1 .. l /\ (k + 1) - 1 = k /\ l + 1 - (k + 1) = l - k
          /\ l - k \in DOMAIN z /\ k \in Int /\ k + 1 \in 0 .. l
      <3>1. l \in Nat /\ DOMAIN z = 1 .. l /\ k \in 0 .. l - 1
        BY <1>1
      <3> HIDE DEF l, z, T
      <3>2. QED
        BY <3>1
    <2>2. r[k + 1] = RaiseOwn(r[k], w, app)
      BY <1>2, <2>1
    <2>3. Regrouped(m, x, r[k], P)
      BY <1>4
    <2>4. w \in Shown(m)
      BY <1>1, <2>1 DEF Shown, ToSet
    <2>5. \A i, j \in DOMAIN z : z[i] = z[j] => i = j
      BY <1>1 DEF Listed, IsInjective
    <2>6. \A v : v \in P <=> v \in GroupOf(m, app) /\ \E i \in DOMAIN z : i > l - k /\ z[i] = v
      BY DEF Back
    <2>7. \A v : v \in Q <=> v \in GroupOf(m, app) /\ \E i \in DOMAIN z : i > l - (k + 1) /\ z[i] = v
      BY DEF Back
    <2>8. \A i \in DOMAIN z : i > l - (k + 1) <=> i > l - k \/ i = l - k
      BY <1>1
    <2>9. \A v : v \in Q <=> v \in P \/ (v = w /\ w \in GroupOf(m, app))
      <3> HIDE DEF P, Q
      <3>1. \A v : v \in Q <=> v \in GroupOf(m, app) /\ ((\E i \in DOMAIN z : i > l - k /\ z[i] = v) \/ z[l - k] = v)
        BY <2>1, <2>7, <2>8
      <3>2. QED
        BY <2>6, <3>1
    <2>10. CASE Owner[w] = app
      <3>1. w \in GroupOf(m, app)
        BY <2>4, <2>10 DEF GroupOf
      <3>2. w \notin P
        <4>1. \A i \in DOMAIN z : z[i] = w => ~(i > l - k)
          BY <1>1, <2>1, <2>5
        <4>2. QED
          BY <2>6, <4>1
      <3>3. ASSUME NEW b \in P PROVE Before(z, w, b)
        <4>1. PICK i \in DOMAIN z : i > l - k /\ z[i] = b
          BY <2>6
        <4>2. l - k < i
          BY <1>1, <4>1
        <4>3. QED
          BY <2>1, <4>1, <4>2 DEF Before
      <3>4. \A v : v \in Q <=> v \in P \/ v = w
        BY <2>9, <3>1
      <3>5. r[k + 1] = SelectWindow(r[k], w)
        BY <2>2, <2>10 DEF RaiseOwn
      <3>6. Regrouped(m, x, r[k + 1], Q)
        <4> HIDE DEF P, Q, w
        <4>1. /\ Managed(m) /\ Regrouped(m, x, r[k], P) /\ w \in Shown(m) /\ w \notin P
              /\ (\A b \in P : Before(m.z, w, b)) /\ r[k + 1] = SelectWindow(r[k], w)
              /\ \A v : v \in Q <=> v \in P \/ v = w
          BY <2>3, <2>4, <3>2, <3>3, <3>4, <3>5
        <4>2. QED
          BY <4>1, RaiseStep
      <3>7. QED
        BY <2>1, <3>6
    <2>11. CASE Owner[w] # app
      <3>1. w \notin GroupOf(m, app)
        BY <2>11 DEF GroupOf
      <3>2. Q = P
        <4> HIDE DEF P, Q, w
        <4>1. \A v : v \in Q <=> v \in P
          BY <2>9, <3>1
        <4>2. QED
          BY <4>1
      <3>3. r[k + 1] = r[k]
        BY <2>2, <2>11 DEF RaiseOwn
      <3>4. QED
        BY <2>1, <2>3, <3>2, <3>3
    <2>12. QED
      BY <2>10, <2>11
  <1>5. l \in T
    <2>1. l \in Nat /\ 0 \in T /\ \A k \in 0 .. l - 1 : k \in T => k + 1 \in T
      BY <1>1, <1>3, <1>4
    <2> HIDE DEF l, T
    <2>2. \A k \in 0 .. l : k \in T
      BY <2>1, UpTo
    <2>3. QED
      BY <2>1, <2>2
  <1>6. Back(m, app, l) = GroupOf(m, app)
    <2>1. \A i \in DOMAIN z : i > l - l
      BY <1>1
    <2>2. \A w \in GroupOf(m, app) : \E i \in DOMAIN z : z[i] = w
      BY DEF GroupOf, Shown, ToSet
    <2>3. QED
      BY <2>1, <2>2 DEF Back
  <1>7. QED
    BY <1>2, <1>5, <1>6

-----------------------------------------------------------------------------
(* teardown_common: the windows of an application go.                        *)
Closed(m, x, n, P) ==
  /\ Managed(n) /\ Owes(n, x)
  /\ Shown(n) = Shown(m) \ P /\ \A v \in Shown(n) : Struct(n, v) = Struct(m, v)
  /\ \A a, b : Before(n.z, a, b) <=> Before(m.z, a, b) /\ a \notin P /\ b \notin P
  /\ (P # {} => FrontLit(n)) /\ (P = {} => n = m)

LEMMA CloseStep ==
  ASSUME NEW m, Managed(m), NEW x, NEW k, NEW P, Closed(m, x, k, P), NEW w \in Shown(m),
         w \notin P, NEW n, n = DisposeWindow(k, w),
         NEW Q, \A v : v \in Q <=> v \in P \/ v = w
  PROVE  Closed(m, x, n, Q)
  <1>1. Managed(k) /\ Owes(k, x) /\ w \in Shown(k)
    BY DEF Closed
  <1>2. Managed(n) /\ Owes(n, x) /\ FrontLit(n) /\ Leaves(n, k, w)
    BY <1>1, DisposeIs
  <1>3. Shown(n) = Shown(m) \ Q
    <2>1. Shown(n) = Shown(k) \ {w} /\ Shown(k) = Shown(m) \ P
      BY <1>2 DEF Leaves, Closed
    <2>2. \A v : v \in Shown(n) <=> v \in Shown(m) /\ v \notin Q
      BY <2>1
    <2>3. QED
      BY <2>2
  <1>4. \A v \in Shown(n) : Struct(n, v) = Struct(m, v)
    BY <1>2 DEF Leaves, Closed
  <1>5. \A a, b : Before(n.z, a, b) <=> Before(m.z, a, b) /\ a \notin Q /\ b \notin Q
    <2>1. \A a, b : Before(n.z, a, b) <=> Before(k.z, a, b) /\ a # w /\ b # w
      BY <1>2 DEF Leaves
    <2>2. \A a, b : Before(k.z, a, b) <=> Before(m.z, a, b) /\ a \notin P /\ b \notin P
      BY DEF Closed
    <2>3. QED
      BY <2>1, <2>2
  <1>6. Q # {}
    OBVIOUS
  <1>7. QED
    BY <1>2, <1>3, <1>4, <1>5, <1>6 DEF Closed

(* The loop of teardown_common, from the front of the list.                  *)
LEMMA DisposeLoop ==
  ASSUME NEW m, Len(m.z) \in Nat, NEW app
  PROVE  \E r : /\ r[0] = m /\ DisposeGroup(m, app) = r[Len(m.z)]
                /\ \A i \in 1 .. Len(m.z) : r[i] = DisposeOwn(r[i - 1], m.z[i], app)
  <1> DEFINE n        == Len(m.z)
             Loop(k, r) == r = [i \in 0 .. k |-> IF i = 0 THEN m ELSE DisposeOwn(r[i - 1], m.z[i], app)]
             T        == {k \in 0 .. n : \E r : Loop(k, r)}
             left   == CHOOSE r : Loop(n, r)
  <1>1. 0 \in T
    <2>1. Loop(0, [i \in 0 .. 0 |-> m])
      OBVIOUS
    <2>2. 0 \in 0 .. n
      OBVIOUS
    <2> HIDE DEF Loop
    <2>3. QED
      BY <2>1, <2>2
  <1>2. ASSUME NEW k \in 0 .. n - 1, k \in T PROVE k + 1 \in T
    <2>1. PICK r : Loop(k, r)
      BY <1>2
    <2> DEFINE q == [i \in 0 .. k + 1 |-> IF i <= k THEN r[i] ELSE DisposeOwn(r[k], m.z[i], app)]
    <2>2. \A i \in 0 .. k : q[i] = r[i] /\ r[i] = IF i = 0 THEN m ELSE DisposeOwn(r[i - 1], m.z[i], app)
      BY <2>1
    <2>3. ASSUME NEW i \in 0 .. k + 1
          PROVE  q[i] = IF i = 0 THEN m ELSE DisposeOwn(q[i - 1], m.z[i], app)
      <3>1. CASE i = 0
        <4>1. 0 \in 0 .. k
          OBVIOUS
        <4>2. QED
          BY <2>2, <3>1, <4>1
      <3>2. CASE i # 0 /\ i <= k
        <4>1. i \in 0 .. k /\ i - 1 \in 0 .. k
          BY <3>2
        <4>2. QED
          BY <2>2, <3>2, <4>1
      <3>3. CASE i = k + 1
        <4>1. k \in 0 .. k /\ i - 1 = k /\ i # 0 /\ ~(i <= k)
          BY <3>3
        <4>2. q[i] = DisposeOwn(r[k], m.z[i], app)
          BY <4>1
        <4>3. q[i - 1] = r[k]
          BY <2>2, <4>1
        <4>4. QED
          BY <4>1, <4>2, <4>3
      <3>4. QED
        BY <3>1, <3>2, <3>3
    <2> HIDE DEF q
    <2>4. Loop(k + 1, [i \in 0 .. k + 1 |-> q[i]])
      BY <2>3
    <2>5. k + 1 \in 0 .. n
      OBVIOUS
    <2> HIDE DEF Loop
    <2>6. QED
      BY <2>4, <2>5
  <1>3. n \in T
    <2>1. n \in Nat /\ 0 \in T /\ \A k \in 0 .. n - 1 : k \in T => k + 1 \in T
      BY <1>1, <1>2
    <2> HIDE DEF n, T
    <2>2. \A k \in 0 .. n : k \in T
      BY <2>1, UpTo
    <2>3. QED
      BY <2>1, <2>2
  <1>4. Loop(n, left)
    BY <1>3
  <1>5. DisposeGroup(m, app) = left[n]
    BY DEF DisposeGroup
  <1> HIDE DEF left
  <1>6. left[0] = m /\ \A i \in 1 .. n : left[i] = DisposeOwn(left[i - 1], m.z[i], app)
    <2>1. \A i \in 0 .. n : left[i] = IF i = 0 THEN m ELSE DisposeOwn(left[i - 1], m.z[i], app)
      BY <1>4
    <2>2. 0 \in 0 .. n /\ \A i \in 1 .. n : i \in 0 .. n /\ i # 0
      OBVIOUS
    <2> HIDE DEF Loop, n
    <2>3. QED
      BY <2>1, <2>2
  <1>7. QED
    BY <1>5, <1>6

(* The windows of an application among the first k of the list.              *)
Fore(m, app, k) ==
  {w \in GroupOf(m, app) : \E i \in DOMAIN m.z : i <= k /\ m.z[i] = w}

LEMMA DisposeGroupIs ==
  ASSUME NEW m, Managed(m), NEW x, Owes(m, x), NEW app, NEW n, n = DisposeGroup(m, app)
  PROVE  Closed(m, x, n, GroupOf(m, app))
  <1> DEFINE z == m.z
             l == Len(z)
  <1>1. Listed(z, Windows) /\ z \in Seq(Windows) /\ l \in Nat /\ DOMAIN z = 1 .. l
    BY LenProperties DEF Managed, Formed, Listed
  <1>2. PICK r : /\ r[0] = m /\ DisposeGroup(m, app) = r[l]
                 /\ \A i \in 1 .. l : r[i] = DisposeOwn(r[i - 1], z[i], app)
    <2>1. Len(m.z) \in Nat
      BY <1>1
    <2>2. QED
      BY <2>1, DisposeLoop
  <1> DEFINE T == {k \in 0 .. l : Closed(m, x, r[k], Fore(m, app, k))}
  <1>3. 0 \in T
    <2>1. Fore(m, app, 0) = {}
      BY <1>1 DEF Fore
    <2>2. Closed(m, x, m, {})
      BY DEF Closed
    <2>3. Closed(m, x, r[0], Fore(m, app, 0))
      BY <1>2, <2>1, <2>2
    <2>4. QED
      BY <1>1, <2>3
  <1>4. ASSUME NEW k \in 0 .. l - 1, k \in T PROVE k + 1 \in T
    <2> DEFINE w == z[k + 1]
               P == Fore(m, app, k)
               Q == Fore(m, app, k + 1)
    <2>1. k + 1 \in 1 .. l /\ (k + 1) - 1 = k /\ k + 1 \in DOMAIN z /\ k \in Int /\ k + 1 \in 0 .. l
      <3>1. l \in Nat /\ DOMAIN z = 1 .. l /\ k \in 0 .. l - 1
        BY <1>1
      <3> HIDE DEF l, z, T
      <3>2. QED
        BY <3>1
    <2>2. r[k + 1] = DisposeOwn(r[k], w, app)
      BY <1>2, <2>1
    <2>3. Closed(m, x, r[k], P)
      BY <1>4
    <2>4. w \in Shown(m)
      BY <1>1, <2>1 DEF Shown, ToSet
    <2>5. \A i, j \in DOMAIN z : z[i] = z[j] => i = j
      BY <1>1 DEF Listed, IsInjective
    <2>6. \A v : v \in P <=> v \in GroupOf(m, app) /\ \E i \in DOMAIN z : i <= k /\ z[i] = v
      BY DEF Fore
    <2>7. \A v : v \in Q <=> v \in GroupOf(m, app) /\ \E i \in DOMAIN z : i <= k + 1 /\ z[i] = v
      BY DEF Fore
    <2>8. \A i \in DOMAIN z : i <= k + 1 <=> i <= k \/ i = k + 1
      BY <1>1
    <2>9. \A v : v \in Q <=> v \in P \/ (v = w /\ w \in GroupOf(m, app))
      <3> HIDE DEF P, Q
      <3>1. \A v : v \in Q <=> v \in GroupOf(m, app) /\ ((\E i \in DOMAIN z : i <= k /\ z[i] = v) \/ z[k + 1] = v)
        BY <2>1, <2>7, <2>8
      <3>2. QED
        BY <2>6, <3>1
    <2>10. CASE Owner[w] = app
      <3>1. w \in GroupOf(m, app)
        BY <2>4, <2>10 DEF GroupOf
      <3>2. w \notin P
        <4>1. \A i \in DOMAIN z : z[i] = w => ~(i <= k)
          BY <1>1, <2>1, <2>5
        <4>2. QED
          BY <2>6, <4>1
      <3>3. \A v : v \in Q <=> v \in P \/ v = w
        BY <2>9, <3>1
      <3>4. r[k + 1] = DisposeWindow(r[k], w)
        BY <2>2, <2>10 DEF DisposeOwn
      <3>5. Closed(m, x, r[k + 1], Q)
        <4> HIDE DEF P, Q, w
        <4>1. /\ Managed(m) /\ Closed(m, x, r[k], P) /\ w \in Shown(m) /\ w \notin P
              /\ r[k + 1] = DisposeWindow(r[k], w) /\ \A v : v \in Q <=> v \in P \/ v = w
          BY <2>3, <2>4, <3>2, <3>3, <3>4
        <4>2. QED
          BY <4>1, CloseStep
      <3>6. QED
        BY <2>1, <3>5
    <2>11. CASE Owner[w] # app
      <3>1. w \notin GroupOf(m, app)
        BY <2>11 DEF GroupOf
      <3>2. Q = P
        <4> HIDE DEF P, Q, w
        <4>1. \A v : v \in Q <=> v \in P
          BY <2>9, <3>1
        <4>2. QED
          BY <4>1
      <3>3. r[k + 1] = r[k]
        BY <2>2, <2>11 DEF DisposeOwn
      <3>4. QED
        BY <2>1, <2>3, <3>2, <3>3
    <2>12. QED
      BY <2>10, <2>11
  <1>5. l \in T
    <2>1. l \in Nat /\ 0 \in T /\ \A k \in 0 .. l - 1 : k \in T => k + 1 \in T
      BY <1>1, <1>3, <1>4
    <2> HIDE DEF l, T
    <2>2. \A k \in 0 .. l : k \in T
      BY <2>1, UpTo
    <2>3. QED
      BY <2>1, <2>2
  <1>6. Fore(m, app, l) = GroupOf(m, app)
    <2>1. \A i \in DOMAIN z : i <= l
      BY <1>1
    <2>2. \A w \in GroupOf(m, app) : \E i \in DOMAIN z : z[i] = w
      BY DEF GroupOf, Shown, ToSet
    <2>3. QED
      BY <2>1, <2>2 DEF Fore
  <1>7. QED
    BY <1>2, <1>5, <1>6

-----------------------------------------------------------------------------
(* The windows opened at boot.                                               *)
(* The launches of the boot, one after the other.                            *)
LEMMA OpenLoop ==
  ASSUME Len(BootWindows) \in Nat, NEW f
  PROVE  \E r : /\ r[0] = NoWindows /\ Opened(f) = r[Len(BootWindows)]
                /\ \A i \in 1 .. Len(BootWindows) : r[i] = NewWindow(r[i - 1], BootWindows[i], f[BootWindows[i]])
  <1> DEFINE n        == Len(BootWindows)
             Loop(k, r) == r = [i \in 0 .. k |-> IF i = 0 THEN NoWindows ELSE NewWindow(r[i - 1], BootWindows[i], f[BootWindows[i]])]
             T        == {k \in 0 .. n : \E r : Loop(k, r)}
             open   == CHOOSE r : Loop(n, r)
  <1>1. 0 \in T
    <2>1. Loop(0, [i \in 0 .. 0 |-> NoWindows])
      OBVIOUS
    <2>2. 0 \in 0 .. n
      OBVIOUS
    <2> HIDE DEF Loop
    <2>3. QED
      BY <2>1, <2>2
  <1>2. ASSUME NEW k \in 0 .. n - 1, k \in T PROVE k + 1 \in T
    <2>1. PICK r : Loop(k, r)
      BY <1>2
    <2> DEFINE q == [i \in 0 .. k + 1 |-> IF i <= k THEN r[i] ELSE NewWindow(r[k], BootWindows[i], f[BootWindows[i]])]
    <2>2. \A i \in 0 .. k : q[i] = r[i] /\ r[i] = IF i = 0 THEN NoWindows ELSE NewWindow(r[i - 1], BootWindows[i], f[BootWindows[i]])
      BY <2>1
    <2>3. ASSUME NEW i \in 0 .. k + 1
          PROVE  q[i] = IF i = 0 THEN NoWindows ELSE NewWindow(q[i - 1], BootWindows[i], f[BootWindows[i]])
      <3>1. CASE i = 0
        <4>1. 0 \in 0 .. k
          OBVIOUS
        <4>2. QED
          BY <2>2, <3>1, <4>1
      <3>2. CASE i # 0 /\ i <= k
        <4>1. i \in 0 .. k /\ i - 1 \in 0 .. k
          BY <3>2
        <4>2. QED
          BY <2>2, <3>2, <4>1
      <3>3. CASE i = k + 1
        <4>1. k \in 0 .. k /\ i - 1 = k /\ i # 0 /\ ~(i <= k)
          BY <3>3
        <4>2. q[i] = NewWindow(r[k], BootWindows[i], f[BootWindows[i]])
          BY <4>1
        <4>3. q[i - 1] = r[k]
          BY <2>2, <4>1
        <4>4. QED
          BY <4>1, <4>2, <4>3
      <3>4. QED
        BY <3>1, <3>2, <3>3
    <2> HIDE DEF q
    <2>4. Loop(k + 1, [i \in 0 .. k + 1 |-> q[i]])
      BY <2>3
    <2>5. k + 1 \in 0 .. n
      OBVIOUS
    <2> HIDE DEF Loop
    <2>6. QED
      BY <2>4, <2>5
  <1>3. n \in T
    <2>1. n \in Nat /\ 0 \in T /\ \A k \in 0 .. n - 1 : k \in T => k + 1 \in T
      BY <1>1, <1>2
    <2> HIDE DEF n, T
    <2>2. \A k \in 0 .. n : k \in T
      BY <2>1, UpTo
    <2>3. QED
      BY <2>1, <2>2
  <1>4. Loop(n, open)
    BY <1>3
  <1>5. Opened(f) = open[n]
    BY DEF Opened
  <1> HIDE DEF open
  <1>6. open[0] = NoWindows /\ \A i \in 1 .. n : open[i] = NewWindow(open[i - 1], BootWindows[i], f[BootWindows[i]])
    <2>1. \A i \in 0 .. n : open[i] = IF i = 0 THEN NoWindows ELSE NewWindow(open[i - 1], BootWindows[i], f[BootWindows[i]])
      BY <1>4
    <2>2. 0 \in 0 .. n /\ \A i \in 1 .. n : i \in 0 .. n /\ i # 0
      OBVIOUS
    <2> HIDE DEF Loop, n
    <2>3. QED
      BY <2>1, <2>2
  <1>7. QED
    BY <1>5, <1>6

LEMMA NoWindowsIs ==
  Managed(NoWindows) /\ Settled(NoWindows) /\ Shown(NoWindows) = {}
  <1>1. NoFrame \in Frames
    BY FramesAssumption DEF NoFrame
  <1>2. /\ NoWindows.z = <<>> /\ NoWindows.lit = {} /\ NoWindows.desk = {}
        /\ NoWindows.frame = [w \in Windows |-> NoFrame]
        /\ NoWindows.rolled = [w \in Windows |-> Open]
        /\ NoWindows.update = [w \in Windows |-> {}]
        /\ IsManager(NoWindows)
    BY DEF NoWindows, IsManager
  <1>3. Listed(<<>>, Windows) /\ ToSet(<<>>) = {}
    <2>1. <<>> \in Seq(Windows) /\ DOMAIN <<>> = {}
      OBVIOUS
    <2>2. QED
      BY <2>1 DEF Listed, IsInjective, ToSet
  <1>4. Formed(NoWindows)
    BY <1>1, <1>2, <1>3 DEF Formed
  <1>5. QED
    BY <1>2, <1>3, <1>4 DEF Managed, Settled, Shown

(* The windows of the first k launches, the last of them in front.           *)
Launched(m, k) ==
  /\ Shown(m) = {BootWindows[i] : i \in 1 .. k}
  /\ k # 0 => FrontLit(m) /\ IsFront(m.z, BootWindows[k])

LEMMA OpenedIs ==
  ASSUME NEW f \in [ToSet(BootWindows) -> Frames], NEW n, n = Opened(f)
  PROVE  Managed(n) /\ Launched(n, Len(BootWindows))
  <1> DEFINE b == BootWindows
             l == Len(b)
             x == [p \in Pixels |-> Picture(NoWindows, p)]
  <1>1. b \in Seq(Windows) /\ l \in Nat /\ DOMAIN b = 1 .. l
    BY AppsAssumption, LenProperties
  <1>2. /\ \A i \in 1 .. l : b[i] \in Windows /\ f[b[i]] \in Frames
        /\ \A i, j \in 1 .. l : b[i] = b[j] => i = j
    <2>1. \A i \in 1 .. l : b[i] \in Windows
      BY <1>1, ElementOfSeq
    <2>2. \A i \in 1 .. l : b[i] \in ToSet(b)
      BY <1>1 DEF ToSet
    <2>3. \A i, j \in 1 .. l : b[i] = b[j] => i = j
      BY <1>1, AppsAssumption
    <2>4. QED
      BY <2>1, <2>2, <2>3
  <1>3. PICK r : /\ r[0] = NoWindows /\ Opened(f) = r[l]
                 /\ \A i \in 1 .. l : r[i] = NewWindow(r[i - 1], b[i], f[b[i]])
    <2>1. Len(BootWindows) \in Nat
      BY <1>1
    <2>2. QED
      BY <2>1, OpenLoop
  <1>4. Managed(NoWindows) /\ Owes(NoWindows, x) /\ Shown(NoWindows) = {}
    <2>1. Shows(NoWindows, x)
      BY DEF Shows
    <2>2. Formed(NoWindows) /\ Settled(NoWindows)
      BY NoWindowsIs DEF Managed
    <2> HIDE DEF x
    <2>3. Owes(NoWindows, x)
      BY <2>1, <2>2, ShowsIs
    <2>4. QED
      BY <2>3, NoWindowsIs
  <1> HIDE DEF x
  <1> DEFINE T == {k \in 0 .. l : Managed(r[k]) /\ Owes(r[k], x) /\ Launched(r[k], k)}
  <1>5. 0 \in T
    BY <1>1, <1>3, <1>4 DEF Launched
  <1>6. ASSUME NEW k \in 0 .. l - 1, k \in T PROVE k + 1 \in T
    <2> DEFINE w == b[k + 1]
    <2>1. k + 1 \in 1 .. l /\ (k + 1) - 1 = k /\ k \in Int /\ k + 1 \in 0 .. l
      <3>1. l \in Nat /\ k \in 0 .. l - 1
        BY <1>1
      <3> HIDE DEF l, T
      <3>2. QED
        BY <3>1
    <2>2. r[k + 1] = NewWindow(r[k], w, f[w])
      BY <1>3, <2>1
    <2>3. Managed(r[k]) /\ Owes(r[k], x) /\ Shown(r[k]) = {b[i] : i \in 1 .. k}
      BY <1>6 DEF Launched
    <2>4. w \in Windows /\ f[w] \in Frames
      BY <1>2, <2>1
    <2>5. w \notin Shown(r[k])
      <3>1. \A i \in 1 .. k : i \in 1 .. l /\ i # k + 1
        BY <1>1, <2>1
      <3>2. QED
        BY <1>2, <2>1, <2>3, <3>1
    <2>6. /\ Managed(r[k + 1]) /\ Owes(r[k + 1], x) /\ FrontLit(r[k + 1])
          /\ Adds(r[k + 1], r[k], w)
      <3> HIDE DEF w, T
      <3>1. /\ Managed(r[k]) /\ Owes(r[k], x) /\ w \in Windows /\ w \notin Shown(r[k])
            /\ f[w] \in Frames /\ r[k + 1] = NewWindow(r[k], w, f[w])
        BY <2>2, <2>3, <2>4, <2>5
      <3>2. QED
        BY <3>1, NewIs
    <2>7. Shown(r[k + 1]) = {b[i] : i \in 1 .. k + 1}
      <3>1. Shown(r[k + 1]) = Shown(r[k]) \cup {w}
        BY <2>6 DEF Adds
      <3>2. \A i : i \in 1 .. k + 1 <=> i \in 1 .. k \/ i = k + 1
        BY <2>1
      <3>3. \A v : v \in {b[i] : i \in 1 .. k + 1} <=> v \in {b[i] : i \in 1 .. k} \/ v = b[k + 1]
        BY <3>2
      <3>4. QED
        BY <2>3, <3>1, <3>3
    <2>8. Launched(r[k + 1], k + 1)
      BY <2>6, <2>7 DEF Launched, Adds
    <2>9. QED
      BY <2>1, <2>6, <2>8
  <1>7. l \in T
    <2>1. l \in Nat /\ 0 \in T /\ \A k \in 0 .. l - 1 : k \in T => k + 1 \in T
      BY <1>1, <1>5, <1>6
    <2> HIDE DEF l, T
    <2>2. \A k \in 0 .. l : k \in T
      BY <2>1, UpTo
    <2>3. QED
      BY <2>1, <2>2
  <1>8. QED
    BY <1>3, <1>7

-----------------------------------------------------------------------------
(* The order of the windows and the applications that own them.              *)

Together(m) ==
  \A a, b, c : Before(m.z, a, b) /\ Before(m.z, b, c) /\ Owner[a] = Owner[c] => Owner[b] = Owner[a]

(* An application with a window on the screen has the front one.             *)
Leads(m, app) ==
  \A v, w : IsFront(m.z, v) /\ w \in Shown(m) /\ Owner[w] = app => Owner[v] = app

Lights(m, app) == \A w : IsFront(m.z, w) /\ Owner[w] = app => w \in m.lit

LitFor(m, app) == \A w \in Shown(m) : w \in m.lit <=> IsFront(m.z, w) /\ Owner[w] = app

(* What is front-most among some windows of a list.                          *)
LEMMA LeadIs ==
  ASSUME NEW m, Listed(m.z, Windows), NEW app, Leads(m, app), Together(m),
         NEW b, NEW c, Before(m.z, b, c), Owner[c] = app
  PROVE  Owner[b] = app
  <1>1. m.z # <<>> /\ b \in Shown(m) /\ c \in Shown(m)
    BY ListIs, FrontIs DEF Shown
  <1>2. PICK u : u \in Shown(m) /\ IsFront(m.z, u)
    BY <1>1, FrontIs DEF Shown
  <1>3. Owner[u] = app
    BY <1>1, <1>2 DEF Leads
  <1>4. b = u \/ Before(m.z, u, b)
    BY <1>1, <1>2, ListIs DEF IsFront, Shown
  <1>5. QED
    BY <1>3, <1>4 DEF Together

(* A list from which windows have gone.                                      *)
Within(n, m) ==
  /\ Shown(n) \subseteq Shown(m)
  /\ \A a, b : Before(n.z, a, b) <=> Before(m.z, a, b) /\ a \in Shown(n) /\ b \in Shown(n)

LEMMA WithinIs ==
  ASSUME NEW m, Listed(m.z, Windows), NEW n, Listed(n.z, Windows), Within(n, m),
         NEW app, Together(m), Leads(m, app)
  PROVE  Together(n) /\ Leads(n, app)
  <1>1. Together(n)
    BY DEF Together, Within
  <1>2. ASSUME NEW v, NEW w, IsFront(n.z, v), w \in Shown(n), Owner[w] = app PROVE Owner[v] = app
    <2>1. v \in Shown(n) /\ v \in Shown(m) /\ w \in Shown(m)
      BY <1>2 DEF IsFront, Within, Shown
    <2>2. v = w \/ Before(n.z, v, w)
      BY <1>2, <2>1, ListIs DEF IsFront, Shown
    <2>3. v = w \/ Before(m.z, v, w)
      BY <2>2 DEF Within
    <2>4. QED
      BY <1>2, <2>3, LeadIs
  <1>3. QED
    BY <1>1, <1>2 DEF Leads

(* A window of the leading application comes to the front.                   *)
LEMMA FrontsIs ==
  ASSUME NEW m, Listed(m.z, Windows), NEW n, NEW w, Fronts(n, m, w),
         Together(m), Leads(m, Owner[w])
  PROVE  Together(n) /\ Leads(n, Owner[w])
  <1>1. ASSUME NEW a, NEW b, NEW c, Before(n.z, a, b), Before(n.z, b, c), Owner[a] = Owner[c]
        PROVE  Owner[b] = Owner[a]
    <2>1. b # w /\ c # w /\ Before(m.z, b, c)
      BY <1>1 DEF Fronts, IsFront
    <2>2. CASE a = w
      BY <1>1, <2>1, <2>2, LeadIs
    <2>3. CASE a # w
      BY <1>1, <2>1, <2>3 DEF Fronts, Together
    <2>4. QED
      BY <2>2, <2>3
  <1>2. ASSUME NEW v, IsFront(n.z, v) PROVE v = w \/ Before(n.z, w, v)
    BY <1>2 DEF IsFront, Fronts, Shown
  <1>3. Leads(n, Owner[w])
    BY <1>2 DEF Leads, IsFront
  <1>4. QED
    BY <1>1, <1>3 DEF Together

LEMMA AddsIs ==
  ASSUME NEW m, Listed(m.z, Windows), NEW n, Listed(n.z, Windows), NEW w, Adds(n, m, w),
         w \notin Shown(m), Together(m), Leads(m, Owner[w])
  PROVE  Together(n) /\ Leads(n, Owner[w])
  <1>1. ASSUME NEW a, NEW b, NEW c, Before(n.z, a, b), Before(n.z, b, c), Owner[a] = Owner[c]
        PROVE  Owner[b] = Owner[a]
    <2>1. b \in Shown(m) /\ Before(m.z, b, c)
      <3>1. b # w
        BY <1>1 DEF Adds, IsFront
      <3>2. Before(m.z, b, c)
        BY <1>1, <3>1 DEF Adds
      <3>3. QED
        BY <3>2, ListIs DEF Shown
    <2>2. CASE a = w
      BY <1>1, <2>1, <2>2, LeadIs
    <2>3. CASE a # w
      BY <1>1, <2>1, <2>3 DEF Adds, Together
    <2>4. QED
      BY <2>2, <2>3
  <1>2. \A v : IsFront(n.z, v) => v = w
    BY FrontIs DEF Adds
  <1>3. Leads(n, Owner[w])
    BY <1>2 DEF Leads
  <1>4. QED
    BY <1>1, <1>3 DEF Together

(* raise_group puts the group of an application in front of the others.      *)
LEMMA RegroupedIs ==
  ASSUME NEW m, Listed(m.z, Windows), NEW x, NEW app, NEW n, Regrouped(m, x, n, GroupOf(m, app)),
         Together(m)
  PROVE  Together(n) /\ Leads(n, app) /\ Lights(n, app)
  <1> DEFINE P == GroupOf(m, app)
  <1>1. /\ \A v : v \in P <=> v \in Shown(m) /\ Owner[v] = app
        /\ Shown(n) = Shown(m) /\ Listed(n.z, Windows)
    BY DEF GroupOf, Regrouped, Managed, Formed
  <1> HIDE DEF P
  <1>2. \A a, b : Before(n.z, a, b) <=> /\ a \in Shown(m) /\ b \in Shown(m)
                                        /\ \/ a \in P /\ b \notin P
                                           \/ (a \in P <=> b \in P) /\ Before(m.z, a, b)
    BY DEF Regrouped, Gathers, Shown, P
  <1>3. ASSUME NEW a, NEW b, NEW c, Before(n.z, a, b), Before(n.z, b, c), Owner[a] = Owner[c]
        PROVE  Owner[b] = Owner[a]
    <2>1. CASE Owner[a] = app
      BY <1>1, <1>2, <1>3, <2>1
    <2>2. CASE Owner[a] # app
      <3>1. a \notin P /\ c \notin P
        BY <1>1, <1>3, <2>2
      <3>2. Before(m.z, a, b) /\ Before(m.z, b, c)
        BY <1>2, <1>3, <3>1
      <3>3. QED
        BY <1>3, <3>2 DEF Together
    <2>3. QED
      BY <2>1, <2>2
  <1>4. ASSUME NEW v, NEW w, IsFront(n.z, v), w \in Shown(n), Owner[w] = app PROVE Owner[v] = app
    <2>1. v \in Shown(m) /\ w \in P /\ ~Before(n.z, w, v)
      BY <1>1, <1>4 DEF IsFront, Shown
    <2>2. v \in P
      BY <1>1, <1>2, <2>1
    <2>3. QED
      BY <1>1, <2>2
  <1>5. ASSUME NEW w, IsFront(n.z, w), Owner[w] = app PROVE w \in n.lit
    <2>1. w \in P
      BY <1>1, <1>5 DEF IsFront, Shown
    <2>2. FrontLit(n)
      BY <2>1 DEF Regrouped, P
    <2>3. QED
      BY <1>5, <2>2 DEF FrontLit
  <1>6. QED
    BY <1>3, <1>4, <1>5 DEF Together, Leads, Lights

-----------------------------------------------------------------------------
(* The state of the desktop, as one record.                                  *)

IsDesk(s) == s = [wm |-> s.wm, screen |-> s.screen, apps |-> s.apps, told |-> s.told]

Fg(s) == Head(s.apps)

(* Nothing on the screen is forgotten, and every window has a living owner.  *)
Sound(s) ==
  /\ IsDesk(s) /\ Managed(s.wm) /\ Owes(s.wm, s.screen) /\ DOMAIN s.screen = Pixels
  /\ Listed(s.apps, Apps) /\ Finder \in ToSet(s.apps)
  /\ \A w \in Shown(s.wm) : Owner[w] \in ToSet(s.apps)

(* Between an operation and FlairProcess_sync_active the front window may be *)
(* lit though the foreground does not own it.                                *)
Near(s) ==
  /\ Sound(s) /\ Together(s.wm) /\ Leads(s.wm, Fg(s)) /\ Lights(s.wm, Fg(s))
  /\ s.told \subseteq {Fg(s)}

Good(s) ==
  /\ Sound(s) /\ Together(s.wm) /\ Leads(s.wm, Fg(s)) /\ LitFor(s.wm, Fg(s))
  /\ s.told \subseteq {Fg(s)}

(* What is not painted is within the windows of app.                         *)
Confined(m, x, app) ==
  \A p \in Pixels : x[p] # Picture(m, p) => \E w \in Shown(m) : p \in Struct(m, w) /\ Owner[w] = app

LEMMA GoodIsNear ==
  ASSUME NEW s, Good(s)
  PROVE  Near(s)
  BY DEF Good, Near, Lights, LitFor, IsFront, Shown

(* The windows of the other applications keep their places and their order.  *)
Reorders(m, n, app) ==
  /\ Shown(m) \subseteq Shown(n) /\ \A w \in Shown(n) : w \notin Shown(m) => Owner[w] = app
  /\ \A w \in Shown(m) : Struct(n, w) = Struct(m, w)
  /\ \A a, b \in Shown(m) : Owner[a] # app => (Before(n.z, a, b) => Before(m.z, a, b))

LEMMA ConfinedStays ==
  ASSUME NEW m, Listed(m.z, Windows), NEW n, Listed(n.z, Windows), NEW x, NEW app,
         Confined(m, x, app), LitFor(m, app), LitFor(n, app), Reorders(m, n, app)
  PROVE  Confined(n, x, app)
  <1>1. SUFFICES ASSUME NEW p \in Pixels,
                        \A w \in Shown(n) : p \in Struct(n, w) => Owner[w] # app
                 PROVE  x[p] = Picture(n, p)
    BY DEF Confined
  <1>2. \A w \in Shown(m) : w \in Shown(n) /\ (p \in Struct(m, w) <=> p \in Struct(n, w))
    BY DEF Reorders
  <1>3. x[p] = Picture(m, p)
    BY <1>1, <1>2 DEF Confined
  <1>4. /\ p \in Overlay => Picture(m, p) = Bar
        /\ p \notin Overlay /\ Uncovered(m, p) => Picture(m, p) = Bare
        /\ \A w : p \notin Overlay /\ Top(m, p, w) => Picture(m, p) = Drawn(m, w, TRUE)
    BY PictureIs
  <1>5. /\ p \in Overlay => Picture(n, p) = Bar
        /\ p \notin Overlay /\ Uncovered(n, p) => Picture(n, p) = Bare
        /\ \A w : p \notin Overlay /\ Top(n, p, w) => Picture(n, p) = Drawn(n, w, TRUE)
    BY PictureIs
  <1>6. Uncovered(m, p) => Uncovered(n, p)
    BY <1>1, <1>2 DEF Uncovered, Reorders
  <1>7. ASSUME NEW w, Top(m, p, w) PROVE Top(n, p, w) /\ Drawn(m, w, TRUE) = Drawn(n, w, TRUE)
    <2>1. w \in Shown(m) /\ w \in Shown(n) /\ p \in Struct(n, w)
      BY <1>2, <1>7 DEF Top
    <2>2. ASSUME NEW v, Before(n.z, v, w), p \in Struct(n, v) PROVE FALSE
      <3>1. v \in Shown(n)
        BY <2>2, ListIs DEF Shown
      <3>2. Owner[v] # app
        BY <1>1, <2>2, <3>1
      <3>3. v \in Shown(m)
        BY <3>1, <3>2 DEF Reorders
      <3>4. Before(m.z, v, w)
        BY <2>1, <2>2, <3>2, <3>3 DEF Reorders
      <3>5. p \in Struct(m, v)
        BY <1>2, <2>2, <3>3
      <3>6. QED
        BY <1>7, <3>4, <3>5 DEF Top
    <2>3. Owner[w] # app
      BY <1>1, <2>1
    <2>4. w \notin m.lit /\ w \notin n.lit
      BY <2>1, <2>3 DEF LitFor
    <2>5. (w \in m.lit) = (w \in n.lit)
      BY <2>4
    <2>6. QED
      BY <2>1, <2>2, <2>5 DEF Top, Drawn
  <1>8. CASE Uncovered(m, p)
    BY <1>3, <1>4, <1>5, <1>6, <1>7, <1>8
  <1>9. CASE ~Uncovered(m, p)
    <2>1. PICK w : Top(m, p, w)
      BY <1>9, TopIs
    <2>2. QED
      BY <1>3, <1>4, <1>5, <1>7, <2>1
  <1>10. QED
    BY <1>8, <1>9

LEMMA ShownIsConfined ==
  ASSUME NEW m, NEW x, Shows(m, x), NEW app
  PROVE  Confined(m, x, app)
  BY DEF Shows, Confined

-----------------------------------------------------------------------------
(* The process list.                                                         *)

(* What an operation on the process list leaves as it was.                   *)
Retains(s, t) ==
  Shown(t.wm) = Shown(s.wm) /\ t.apps = s.apps /\ t.screen = s.screen /\ t.told = s.told

LEMMA SyncActiveIs ==
  ASSUME NEW s, Near(s), NEW t, t = SyncActive(s)
  PROVE  Good(t) /\ Alike(s.wm, t.wm) /\ Retains(s, t)
  <1> DEFINE m == s.wm
             w == Head(m.z)
  <1>1. Managed(m) /\ Owes(m, s.screen) /\ Listed(m.z, Windows) /\ IsDesk(s)
    BY DEF Near, Sound, Managed, Formed
  <1>2. \A v : IsFront(m.z, v) <=> m.z # <<>> /\ v = w
    BY <1>1, FrontIs
  <1>3. CASE ~LooksActive(s)
    <2>1. t = s
      BY <1>3 DEF SyncActive
    <2>2. \A v : IsFront(m.z, v) /\ v \in m.lit => Owner[v] = Fg(s)
      BY <1>2, <1>3 DEF LooksActive, Fg
    <2>3. LitFor(m, Fg(s))
      BY <1>1, <2>2 DEF LitFor, Near, Lights, Managed
    <2>4. Good(t)
      BY <2>1, <2>3 DEF Near, Good
    <2>5. QED
      BY <2>1, <2>4 DEF Alike, Retains
  <1>4. CASE LooksActive(s)
    <2> DEFINE n == Unlit(m, w)
    <2>1. t = [s EXCEPT !.wm = n]
      BY <1>4 DEF SyncActive, Unlit
    <2>2. IsFront(m.z, w) /\ Owner[w] # Fg(s)
      BY <1>2, <1>4 DEF LooksActive, Fg
    <2> HIDE DEF n, w
    <2>3. Managed(n) /\ Owes(n, s.screen) /\ Alike(m, n) /\ n.lit = {}
      BY <1>1, <2>2, UnlitIs DEF n
    <2>4. t = [wm |-> n, screen |-> s.screen, apps |-> s.apps, told |-> s.told]
      BY <1>1, <2>1 DEF IsDesk
    <2>5. t.wm = n /\ t.screen = s.screen /\ t.apps = s.apps /\ t.told = s.told /\ IsDesk(t)
      BY <2>4 DEF IsDesk
    <2>6. Shown(n) = Shown(m) /\ n.z = m.z
      BY <2>3, AlikeIs DEF Alike
    <2>7. Together(n) /\ Leads(n, Fg(s))
      BY <2>6 DEF Near, Together, Leads
    <2>8. LitFor(n, Fg(s))
      <3>1. \A v : IsFront(n.z, v) => v = w
        BY <1>2, <2>6 DEF w
      <3>2. QED
        BY <2>2, <2>3, <3>1 DEF LitFor
    <2>9. Sound(t)
      BY <2>3, <2>5, <2>6 DEF Near, Sound
    <2>10. Good(t)
      BY <2>5, <2>7, <2>8, <2>9 DEF Near, Good, Fg
    <2>11. QED
      BY <2>3, <2>5, <2>6, <2>10 DEF Retains
  <1>5. QED
    BY <1>3, <1>4

LEMMA RepaintIs ==
  ASSUME NEW s, Good(s), NEW t, t = Repaint(s)
  PROVE  Good(t) /\ Alike(s.wm, t.wm) /\ Shows(t.wm, t.screen)
         /\ t.apps = s.apps /\ t.told = s.told
  <1> DEFINE m == s.wm
             n == Validated(m)
             y == Drawing(m, s.screen)
  <1>1. Managed(m) /\ Owes(m, s.screen) /\ Listed(m.z, Windows) /\ IsDesk(s)
    BY DEF Good, Sound, Managed, Formed
  <1>2. t = [s EXCEPT !.screen = y, !.wm = n]
    BY DEF Repaint, Drawing
  <1>3. DOMAIN y = Pixels
    BY DEF Drawing, ContentDrawn
  <1> HIDE DEF n, y
  <1>4. Managed(n) /\ Owes(n, y) /\ Alike(m, n) /\ n.lit = m.lit /\ Shows(n, y)
    BY <1>1, DrawingIs DEF n, y
  <1>5. t \in [wm : {n}, screen : {y}, apps : {s.apps}, told : {s.told}]
    <2>1. s \in [wm : {s.wm}, screen : {s.screen}, apps : {s.apps}, told : {s.told}]
      BY <1>1 DEF IsDesk
    <2>2. QED
      BY <1>2, <2>1
  <1>6. t.wm = n /\ t.screen = y /\ t.apps = s.apps /\ t.told = s.told /\ IsDesk(t)
    BY <1>5 DEF IsDesk
  <1>7. Shown(n) = Shown(m) /\ n.z = m.z
    BY <1>4, AlikeIs DEF Alike
  <1>8. Together(n) /\ Leads(n, Fg(s)) /\ LitFor(n, Fg(s))
    BY <1>4, <1>7 DEF Good, Together, Leads, LitFor
  <1>9. Sound(t)
    BY <1>3, <1>4, <1>6, <1>7 DEF Good, Sound
  <1>10. Good(t)
    BY <1>6, <1>8, <1>9 DEF Good, Fg
  <1>11. QED
    BY <1>4, <1>6, <1>10

(* A state with another Window Manager.                                      *)
With(s, n) == [s EXCEPT !.wm = n]

Puts(t, s, n) == t.wm = n /\ t.screen = s.screen /\ t.apps = s.apps /\ t.told = s.told

LEMMA WithIs ==
  ASSUME NEW s, Sound(s), s.told \subseteq {Fg(s)}, NEW n, Managed(n), Owes(n, s.screen),
         \A w \in Shown(n) : Owner[w] \in ToSet(s.apps), Together(n), Leads(n, Fg(s)),
         Lights(n, Fg(s)), NEW t, t = With(s, n)
  PROVE  Near(t) /\ (LitFor(n, Fg(s)) => Good(t)) /\ Puts(t, s, n)
  <1>1. t = [wm |-> n, screen |-> s.screen, apps |-> s.apps, told |-> s.told]
    BY DEF Sound, IsDesk, With
  <1>2. t.wm = n /\ t.screen = s.screen /\ t.apps = s.apps /\ t.told = s.told /\ IsDesk(t)
    BY <1>1 DEF IsDesk
  <1>3. Sound(t) /\ Fg(t) = Fg(s)
    BY <1>2 DEF Sound, Fg
  <1>4. QED
    BY <1>2, <1>3 DEF Near, Good, Puts

(* FlairProcess: the foreground is promoted to the head of the list.         *)
LEMMA PromotedIs ==
  ASSUME NEW S, NEW a, Listed(a, S), NEW app \in ToSet(a), NEW b, b = Raised(a, app)
  PROVE  Listed(b, S) /\ ToSet(b) = ToSet(a) /\ Head(b) = app
  BY RaiseIs DEF Raises

(* What a switch leaves as it was.                                           *)
Switches(s, t, app) ==
  /\ Fg(t) = app /\ ToSet(t.apps) = ToSet(s.apps) /\ t.screen = s.screen
  /\ Shown(t.wm) = Shown(s.wm)

LEMMA SwitchIs ==
  ASSUME NEW s, Sound(s), Together(s.wm), s.told \subseteq {Fg(s)},
         NEW app \in ToSet(s.apps), app # Fg(s), NEW t, t = SwitchForeground(s, app)
  PROVE  Good(t) /\ Switches(s, t, app)
  <1> DEFINE m == s.wm
             n == RaiseGroup(m, app)
             a == Raised(s.apps, app)
             d == (s.told \ {Fg(s)}) \cup {app}
             k == [s EXCEPT !.wm = n, !.told = d, !.apps = a]
  <1>1. Managed(m) /\ Owes(m, s.screen) /\ Listed(m.z, Windows) /\ IsDesk(s) /\ Listed(s.apps, Apps)
    BY DEF Sound, Managed, Formed
  <1>2. t = SyncActive(k)
    BY DEF SwitchForeground, Raised, Fg
  <1>3. d = {app}
    OBVIOUS
  <1> HIDE DEF n, a, d
  <1>4. Regrouped(m, s.screen, n, GroupOf(m, app))
    BY <1>1, RaiseGroupIs DEF n
  <1>5. Together(n) /\ Leads(n, app) /\ Lights(n, app)
    BY <1>1, <1>4, RegroupedIs
  <1>6. Listed(a, Apps) /\ ToSet(a) = ToSet(s.apps) /\ Head(a) = app
    BY <1>1, PromotedIs DEF a
  <1>7. k \in [wm : {n}, screen : {s.screen}, apps : {a}, told : {d}]
    <2>1. s \in [wm : {s.wm}, screen : {s.screen}, apps : {s.apps}, told : {s.told}]
      BY <1>1 DEF IsDesk
    <2>2. QED
      BY <2>1
  <1> HIDE DEF k
  <1>8. k.wm = n /\ k.screen = s.screen /\ k.apps = a /\ k.told = {app} /\ IsDesk(k)
    BY <1>3, <1>7 DEF IsDesk
  <1>9. Managed(n) /\ Owes(n, s.screen) /\ Shown(n) = Shown(m)
    BY <1>4 DEF Regrouped
  <1>10. Sound(k) /\ Fg(k) = app
    BY <1>6, <1>8, <1>9 DEF Sound, Fg
  <1>11. Near(k)
    BY <1>5, <1>8, <1>10 DEF Near
  <1>12. Good(t) /\ Alike(k.wm, t.wm) /\ Retains(k, t)
    BY <1>2, <1>11, SyncActiveIs
  <1>13. QED
    BY <1>6, <1>8, <1>9, <1>10, <1>12 DEF Switches, Retains, Fg

(* After an event the screen is up to date but for the foreground's windows. *)
Current(s) == Good(s) /\ Confined(s.wm, s.screen, Fg(s))

LEMMA RepaintedIs ==
  ASSUME NEW s, Good(s), NEW t, t = Repaint(s)
  PROVE  Current(t) /\ Fg(t) = Fg(s)
  BY RepaintIs, ShownIsConfined DEF Current, Fg

LEMMA ActivateIs ==
  ASSUME NEW s, Sound(s), Together(s.wm), s.told \subseteq {Fg(s)},
         NEW app \in ToSet(s.apps), app # Fg(s), NEW t, t = Activate(s, app)
  PROVE  Current(t)
  <1> DEFINE k == SwitchForeground(s, app)
  <1>1. Good(k) /\ Switches(s, k, app)
    BY SwitchIs
  <1> HIDE DEF k
  <1>2. t = Repaint(k)
    BY <1>1 DEF Activate, FinishSwitch, Switches, Fg, k
  <1>3. QED
    BY <1>1, <1>2, RepaintedIs

LEMMA SyncForegroundIs ==
  ASSUME NEW s, Current(s), NEW t, t = SyncForeground(s)
  PROVE  Current(t)
  <1>1. Good(s) /\ Near(s)
    BY GoodIsNear DEF Current
  <1>2. CASE s.wm.z # <<>> /\ Owner[Head(s.wm.z)] = Finder /\ Head(s.apps) # Finder
    <2>1. t = Activate(s, Finder)
      BY <1>2 DEF SyncForeground
    <2>2. /\ Sound(s) /\ Together(s.wm) /\ s.told \subseteq {Fg(s)} /\ Finder \in ToSet(s.apps)
          /\ Finder # Fg(s)
      BY <1>1, <1>2 DEF Good, Sound, Fg
    <2>3. QED
      BY <2>1, <2>2, ActivateIs
  <1>3. CASE ~(s.wm.z # <<>> /\ Owner[Head(s.wm.z)] = Finder /\ Head(s.apps) # Finder)
    <2> DEFINE k == SyncActive(s)
    <2>1. t = IF LooksActive(s) THEN Repaint(k) ELSE s
      BY <1>3 DEF SyncForeground
    <2>2. Good(k)
      BY <1>1, SyncActiveIs
    <2> HIDE DEF k
    <2>3. CASE LooksActive(s)
      BY <2>1, <2>2, <2>3, RepaintedIs
    <2>4. CASE ~LooksActive(s)
      BY <2>1, <2>4
    <2>5. QED
      BY <2>3, <2>4
  <1>4. QED
    BY <1>2, <1>3

-----------------------------------------------------------------------------
(* What the gestures do to the foreground's windows.                         *)

LEMMA LitForIs ==
  ASSUME NEW n, Managed(n), FrontLit(n), NEW w, IsFront(n.z, w), NEW app, Owner[w] = app
  PROVE  LitFor(n, app) /\ Lights(n, app)
  <1>1. \A v : IsFront(n.z, v) => v = w
    BY FrontIs DEF Managed, Formed
  <1>2. QED
    BY <1>1 DEF LitFor, Lights, Managed, FrontLit, IsFront, Shown

(* The foreground brings one of its own windows forward.                     *)
LEMMA ForwardIs ==
  ASSUME NEW s, Good(s), NEW w \in Shown(s.wm), Owner[w] = Fg(s),
         NEW n, n = SelectWindow(s.wm, w), NEW t, t = With(s, n)
  PROVE  Good(t) /\ Puts(t, s, n) /\ Reorders(s.wm, n, Fg(s)) /\ LitFor(n, Fg(s))
         /\ Shown(n) = Shown(s.wm) /\ Listed(n.z, Windows)
  <1> DEFINE m == s.wm
  <1>1. Managed(m) /\ Owes(m, s.screen) /\ Listed(m.z, Windows) /\ Sound(s) /\ s.told \subseteq {Fg(s)}
    BY DEF Good, Sound, Managed, Formed
  <1>2. Managed(n) /\ Owes(n, s.screen) /\ FrontLit(n) /\ Fronts(n, m, w)
    BY <1>1, SelectIs
  <1>3. Together(n) /\ Leads(n, Fg(s))
    BY <1>1, <1>2, FrontsIs DEF Good
  <1>4. LitFor(n, Fg(s)) /\ Lights(n, Fg(s))
    BY <1>2, LitForIs DEF Fronts
  <1>5. Shown(n) = Shown(m) /\ \A v \in Shown(n) : Owner[v] \in ToSet(s.apps)
    BY <1>1, <1>2 DEF Fronts, Sound
  <1>6. Near(t) /\ (LitFor(n, Fg(s)) => Good(t)) /\ Puts(t, s, n)
    BY <1>1, <1>2, <1>3, <1>4, <1>5, WithIs
  <1>7. \A v : Struct(n, v) = Struct(m, v)
    BY <1>2 DEF Fronts, Struct
  <1>8. Reorders(m, n, Fg(s))
    BY <1>2, <1>5, <1>7 DEF Reorders, Fronts
  <1>9. QED
    BY <1>2, <1>4, <1>5, <1>6, <1>8 DEF Managed, Formed

(* It opens another.                                                         *)
LEMMA OpensIs ==
  ASSUME NEW s, Good(s), NEW w \in Windows, w \notin Shown(s.wm), Owner[w] = Fg(s),
         NEW f \in Frames, NEW n, n = NewWindow(s.wm, w, f), NEW t, t = With(s, n)
  PROVE  Good(t) /\ Puts(t, s, n) /\ Reorders(s.wm, n, Fg(s)) /\ LitFor(n, Fg(s))
         /\ w \in Shown(n) /\ Listed(n.z, Windows)
  <1> DEFINE m == s.wm
  <1>1. Managed(m) /\ Owes(m, s.screen) /\ Listed(m.z, Windows) /\ Sound(s) /\ s.told \subseteq {Fg(s)}
    BY DEF Good, Sound, Managed, Formed
  <1>2. Managed(n) /\ Owes(n, s.screen) /\ FrontLit(n) /\ Adds(n, m, w)
    BY <1>1, NewIs
  <1>3. Listed(n.z, Windows)
    BY <1>2 DEF Managed, Formed
  <1>4. Together(n) /\ Leads(n, Fg(s))
    BY <1>1, <1>2, <1>3, AddsIs DEF Good
  <1>5. LitFor(n, Fg(s)) /\ Lights(n, Fg(s))
    BY <1>2, LitForIs DEF Adds
  <1>6. Fg(s) \in ToSet(s.apps)
    BY <1>1, FrontIs DEF Sound, Fg
  <1>7. \A v : v \in Shown(n) <=> v \in Shown(m) \/ v = w
    BY <1>2 DEF Adds
  <1>8. \A v \in Shown(n) : Owner[v] \in ToSet(s.apps)
    BY <1>1, <1>6, <1>7 DEF Sound
  <1>9. Near(t) /\ (LitFor(n, Fg(s)) => Good(t)) /\ Puts(t, s, n)
    BY <1>1, <1>2, <1>4, <1>5, <1>8, WithIs
  <1>10. Reorders(m, n, Fg(s))
    <2>1. \A v \in Shown(m) : Struct(n, v) = Struct(m, v)
      BY <1>2 DEF Adds
    <2>2. \A a, b \in Shown(m) : Before(n.z, a, b) => Before(m.z, a, b)
      BY <1>2 DEF Adds
    <2>3. QED
      BY <1>7, <2>1, <2>2 DEF Reorders
  <1>11. QED
    BY <1>3, <1>5, <1>7, <1>9, <1>10

(* A window goes.                                                            *)
LEMMA GoesIs ==
  ASSUME NEW s, Sound(s), Together(s.wm), Leads(s.wm, Fg(s)), s.told \subseteq {Fg(s)},
         NEW m, Managed(m), Owes(m, s.screen), Together(m), Leads(m, Fg(s)),
         NEW w \in Shown(m), \A v \in Shown(m) : Owner[v] \in ToSet(s.apps),
         NEW n, n = DisposeWindow(m, w), NEW t, t = With(s, n)
  PROVE  Near(t)
  <1>1. Managed(n) /\ Owes(n, s.screen) /\ FrontLit(n) /\ Leaves(n, m, w)
    BY DisposeIs
  <1>2. Listed(m.z, Windows) /\ Listed(n.z, Windows)
    BY <1>1 DEF Managed, Formed
  <1>3. \A v : v \in Shown(n) <=> v \in Shown(m) /\ v # w
    BY <1>1 DEF Leaves
  <1>4. Within(n, m)
    <2>1. \A a, b : Before(m.z, a, b) => a \in Shown(m) /\ b \in Shown(m)
      BY <1>2, ListIs DEF Shown
    <2>2. QED
      BY <1>1, <1>3, <2>1 DEF Within, Leaves
  <1>5. Together(n) /\ Leads(n, Fg(s))
    BY <1>2, <1>4, WithinIs
  <1>6. Lights(n, Fg(s))
    BY <1>1 DEF Lights, FrontLit
  <1>7. \A v \in Shown(n) : Owner[v] \in ToSet(s.apps)
    BY <1>3
  <1>8. QED
    BY <1>1, <1>5, <1>6, <1>7, WithIs

(* The frame of a window changes, the order does not.                        *)
LEMMA ResizesIs ==
  ASSUME NEW s, Good(s), NEW n, Managed(n), Owes(n, s.screen), n.z = s.wm.z, n.lit = s.wm.lit,
         NEW t, t = With(s, n)
  PROVE  Good(t) /\ Puts(t, s, n)
  <1>1. Sound(s) /\ s.told \subseteq {Fg(s)}
    BY DEF Good
  <1>2. Together(n) /\ Leads(n, Fg(s)) /\ LitFor(n, Fg(s)) /\ Lights(n, Fg(s))
    BY GoodIsNear DEF Good, Near, Together, Leads, LitFor, Lights, Shown
  <1>3. \A v \in Shown(n) : Owner[v] \in ToSet(s.apps)
    BY <1>1 DEF Sound, Shown
  <1>4. QED
    BY <1>1, <1>2, <1>3, WithIs

(* A press in the title or the content, and the repaint of the applications. *)
Pressed(s, w) == FinishSwitch(Dispatch(s, w), Head(s.apps))

LEMMA PressedIs ==
  ASSUME NEW s, Current(s), NEW w \in Shown(s.wm), NEW t, t = Pressed(s, w)
  PROVE  Current(t) /\ w \in Shown(t.wm)
  <1> DEFINE k == IF Owner[w] = Head(s.apps) THEN s ELSE SwitchForeground(s, Owner[w])
             d == IF w = Head(k.wm.z) THEN k ELSE With(k, SelectWindow(k.wm, w))
  <1>1. t = FinishSwitch(d, Head(s.apps))
    BY DEF Pressed, Dispatch, With
  <1>2. Good(s) /\ Sound(s) /\ Together(s.wm) /\ s.told \subseteq {Fg(s)} /\ Owner[w] \in ToSet(s.apps)
    BY DEF Current, Good, Sound
  <1>3. /\ Good(k) /\ Fg(k) = Owner[w] /\ w \in Shown(k.wm)
        /\ Owner[w] = Fg(s) => k = s
    <2>1. CASE Owner[w] = Fg(s)
      BY <1>2, <2>1 DEF Fg
    <2>2. CASE Owner[w] # Fg(s)
      <3> DEFINE app == Owner[w]
      <3>1. k = SwitchForeground(s, app)
        BY <2>2 DEF Fg
      <3>2. app \in ToSet(s.apps) /\ app # Fg(s)
        BY <1>2, <2>2
      <3> HIDE DEF k, app
      <3>3. Good(k) /\ Switches(s, k, app)
        BY <1>2, <3>1, <3>2, SwitchIs
      <3>4. QED
        BY <2>2, <3>3 DEF Switches, app
    <2>3. QED
      BY <2>1, <2>2
  <1> HIDE DEF k
  <1> DEFINE n == SelectWindow(k.wm, w)
             u == With(k, n)
  <1>4. /\ Good(u) /\ Puts(u, k, n) /\ Reorders(k.wm, n, Fg(k)) /\ LitFor(n, Fg(k))
        /\ Shown(n) = Shown(k.wm) /\ Listed(n.z, Windows)
    BY <1>3, ForwardIs
  <1>5. Good(d) /\ Fg(d) = Owner[w] /\ w \in Shown(d.wm)
    <2>1. d = k \/ d = u
      OBVIOUS
    <2> HIDE DEF u, d
    <2>2. Fg(u) = Fg(k) /\ Shown(u.wm) = Shown(k.wm)
      BY <1>4 DEF Puts, Fg
    <2>3. QED
      BY <1>3, <1>4, <2>1, <2>2
  <1>6. CASE Owner[w] = Fg(s)
    <2>1. d = k \/ d = u
      BY <1>3, <1>6
    <2>2. k = s
      BY <1>3, <1>6
    <2> HIDE DEF u, n, d
    <2>3. Confined(s.wm, s.screen, Fg(s)) /\ LitFor(s.wm, Fg(s)) /\ Listed(s.wm.z, Windows)
      BY DEF Current, Good, Sound, Managed, Formed
    <2>4. Confined(n, s.screen, Fg(s))
      <3>1. Listed(n.z, Windows) /\ LitFor(n, Fg(s)) /\ Reorders(s.wm, n, Fg(s))
        BY <1>4, <2>2
      <3>2. QED
        BY <2>3, <3>1, ConfinedStays
    <2>5. u.wm = n /\ u.screen = s.screen /\ Fg(u) = Fg(s)
      BY <1>4, <2>2 DEF Puts, Fg
    <2>6. Confined(u.wm, u.screen, Fg(u))
      BY <2>4, <2>5
    <2>7. Confined(d.wm, d.screen, Fg(d))
      BY <2>1, <2>2, <2>3, <2>6
    <2>8. t = d
      BY <1>1, <1>5, <1>6 DEF FinishSwitch, Fg
    <2>9. QED
      BY <1>5, <2>7, <2>8 DEF Current
  <1>7. CASE Owner[w] # Fg(s)
    <2> HIDE DEF d
    <2>1. t = Repaint(d)
      BY <1>1, <1>5, <1>7 DEF FinishSwitch, Fg
    <2>2. Current(t) /\ Alike(d.wm, t.wm)
      BY <1>5, <2>1, RepaintedIs, RepaintIs
    <2>3. Shown(t.wm) = Shown(d.wm)
      BY <2>2, AlikeIs
    <2>4. QED
      BY <1>5, <2>2, <2>3
  <1>8. QED
    BY <1>6, <1>7

(* teardown_common.                                                          *)
LEMMA TornDownIs ==
  ASSUME NEW s, Good(s), NEW app \in ToSet(s.apps), app # Finder, NEW t, t = TornDown(s, app)
  PROVE  Good(t)
  <1> DEFINE m == s.wm
             n == DisposeGroup(m, app)
             a == Unlink(s.apps, app)
             d == s.told \ {app}
             g == [s EXCEPT !.wm = n, !.apps = a, !.told = d]
             h == Head(g.apps)
             r == [g EXCEPT !.wm = RaiseGroup(g.wm, h), !.told = g.told \cup {h}]
             k == IF app # Head(s.apps) THEN g ELSE r
  <1>1. /\ Managed(m) /\ Owes(m, s.screen) /\ Listed(m.z, Windows) /\ IsDesk(s)
        /\ Sound(s) /\ Listed(s.apps, Apps) /\ Together(m) /\ Leads(m, Fg(s)) /\ Near(s)
    BY GoodIsNear DEF Good, Sound, Managed, Formed
  <1>2. t = SyncActive(k)
    BY DEF TornDown
  <1> HIDE DEF n, a, d
  <1>3. Closed(m, s.screen, n, GroupOf(m, app))
    BY <1>1, DisposeGroupIs DEF n
  <1>4. /\ Managed(n) /\ Owes(n, s.screen) /\ Listed(n.z, Windows)
        /\ \A v : v \in Shown(n) <=> v \in Shown(m) /\ Owner[v] # app
    BY <1>3 DEF Closed, GroupOf, Managed, Formed
  <1>5. Within(n, m)
    <2>1. \A b, c : Before(m.z, b, c) => b \in Shown(m) /\ c \in Shown(m)
      BY <1>1, ListIs DEF Shown
    <2>2. \A b, c : Before(n.z, b, c) <=> Before(m.z, b, c) /\ b \notin GroupOf(m, app) /\ c \notin GroupOf(m, app)
      BY <1>3 DEF Closed
    <2>3. QED
      BY <1>4, <2>1, <2>2 DEF Within, GroupOf
  <1>6. Together(n) /\ Leads(n, Fg(s))
    BY <1>1, <1>4, <1>5, WithinIs
  <1>7. /\ Listed(a, Apps) /\ ToSet(a) = ToSet(s.apps) \ {app}
        /\ \A b, c : Before(a, b, c) <=> Before(s.apps, b, c) /\ b # app /\ c # app
    BY <1>1, UnlinkIs DEF a
  <1>8. Finder \in ToSet(a) /\ \A v \in Shown(n) : Owner[v] \in ToSet(a)
    BY <1>1, <1>4, <1>7 DEF Sound
  <1>9. g \in [wm : {n}, screen : {s.screen}, apps : {a}, told : {d}]
    <2>1. s \in [wm : {s.wm}, screen : {s.screen}, apps : {s.apps}, told : {s.told}]
      BY <1>1 DEF IsDesk
    <2>2. QED
      BY <2>1
  <1> HIDE DEF g
  <1>10. g.wm = n /\ g.screen = s.screen /\ g.apps = a /\ g.told = d /\ IsDesk(g)
    BY <1>9 DEF IsDesk
  <1>11. Sound(g)
    BY <1>1, <1>4, <1>7, <1>8, <1>10 DEF Sound
  <1>12. CASE app # Fg(s)
    <2>1. IsFront(s.apps, Fg(s)) /\ Fg(s) \in ToSet(s.apps)
      BY <1>1, FrontIs DEF Fg
    <2>2. IsFront(a, Fg(s))
      BY <1>7, <1>12, <2>1 DEF IsFront
    <2>3. Fg(g) = Fg(s)
      BY <1>7, <1>10, <2>2, FrontIs DEF Fg
    <2>4. Lights(n, Fg(s))
      <3>1. CASE GroupOf(m, app) = {}
        BY <1>1, <1>3, <3>1 DEF Closed, Near
      <3>2. CASE GroupOf(m, app) # {}
        BY <1>3, <3>2 DEF Closed, Lights, FrontLit
      <3>3. QED
        BY <3>1, <3>2
    <2>5. Near(g)
      BY <1>1, <1>6, <1>10, <1>11, <2>3, <2>4 DEF Near, d
    <2>6. t = SyncActive(g)
      BY <1>2, <1>12 DEF Fg
    <2>7. QED
      BY <2>5, <2>6, SyncActiveIs
  <1>13. CASE app = Fg(s)
    <2> DEFINE q == RaiseGroup(n, h)
    <2>1. r = [g EXCEPT !.wm = q, !.told = d \cup {h}] /\ h = Head(a)
      BY <1>10
    <2>2. d \cup {h} = {h}
      BY <1>1, <1>13 DEF d, Near
    <2> HIDE DEF q, h
    <2>3. Regrouped(n, s.screen, q, GroupOf(n, h))
      BY <1>4, RaiseGroupIs DEF q
    <2>4. Together(q) /\ Leads(q, h) /\ Lights(q, h)
      BY <1>4, <1>6, <2>3, RegroupedIs
    <2>5. Managed(q) /\ Owes(q, s.screen) /\ Shown(q) = Shown(n)
      BY <2>3 DEF Regrouped
    <2>6. r \in [wm : {q}, screen : {s.screen}, apps : {a}, told : {{h}}]
      <3>1. g \in [wm : {n}, screen : {s.screen}, apps : {a}, told : {d}]
        BY <1>9
      <3>2. QED
        BY <2>1, <2>2, <3>1
    <2> HIDE DEF r
    <2>7. r.wm = q /\ r.screen = s.screen /\ r.apps = a /\ r.told = {h} /\ IsDesk(r)
      BY <2>6 DEF IsDesk
    <2>8. Sound(r) /\ Fg(r) = h
      BY <1>1, <1>7, <1>8, <2>1, <2>5, <2>7 DEF Sound, Fg
    <2>9. Near(r)
      BY <2>4, <2>7, <2>8 DEF Near
    <2>10. t = SyncActive(r)
      BY <1>2, <1>13 DEF Fg
    <2>11. QED
      BY <2>9, <2>10, SyncActiveIs
  <1>14. QED
    BY <1>12, <1>13

-----------------------------------------------------------------------------
(* The gestures.                                                             *)

Ind == Current(Now)

LEMMA NowIs ==
  Now.wm = wm /\ Now.screen = screen /\ Now.apps = apps /\ Now.told = told
  BY DEF Now

LEMMA BecomesIs ==
  ASSUME NEW s, Current(s), Becomes(s)
  PROVE  Ind'
  <1>1. s = [wm |-> s.wm, screen |-> s.screen, apps |-> s.apps, told |-> s.told]
    BY DEF Current, Good, Sound, IsDesk
  <1>2. Now' = s
    BY <1>1 DEF Becomes, Now
  <1>3. QED
    BY <1>2 DEF Ind

LEMMA ClickContentIs ==
  ASSUME Ind, NEW w \in Shown(wm), ClickContent(w)
  PROVE  Ind'
  <1> DEFINE k == Pressed(Now, w)
             t == SyncForeground(k)
  <1>1. Current(Now) /\ w \in Shown(Now.wm)
    BY NowIs DEF Ind
  <1>2. Becomes(t)
    BY NowIs DEF ClickContent, Pressed
  <1>3. Current(k)
    BY <1>1, PressedIs
  <1> HIDE DEF k
  <1>4. Current(t)
    BY <1>3, SyncForegroundIs
  <1> HIDE DEF t
  <1>5. QED
    BY <1>2, <1>4, BecomesIs

(* A gesture that ends with the repaint and the look of the foreground.      *)
LEMMA SettlesIs ==
  ASSUME NEW s, Good(s), NEW t, t = SyncForeground(Repaint(s))
  PROVE  Current(t)
  <1> DEFINE k == Repaint(s)
  <1>1. Current(k)
    BY RepaintedIs
  <1> HIDE DEF k
  <1>2. QED
    BY <1>1, SyncForegroundIs DEF k

LEMMA DragTitleIs ==
  ASSUME Ind, NEW w \in Shown(wm), NEW f \in Frames, DragTitle(w, f)
  PROVE  Ind'
  <1> DEFINE k == Pressed(Now, w)
             n == IF f = wm.frame[w] THEN k.wm ELSE Dropped(k.wm, w, f)
             u == With(k, n)
             t == SyncForeground(Repaint(u))
  <1>1. Current(Now) /\ w \in Shown(Now.wm)
    BY NowIs DEF Ind
  <1>2. Becomes(t)
    BY NowIs DEF DragTitle, Pressed, Dropped, With
  <1>3. Current(k) /\ w \in Shown(k.wm)
    BY <1>1, PressedIs
  <1> HIDE DEF k
  <1>4. Good(k) /\ Managed(k.wm) /\ Owes(k.wm, k.screen)
    BY <1>3 DEF Current, Good, Sound
  <1>5. Managed(n) /\ Owes(n, k.screen) /\ n.z = k.wm.z /\ n.lit = k.wm.lit
    <2>1. CASE f = wm.frame[w]
      BY <1>4, <2>1
    <2>2. CASE f # wm.frame[w]
      BY <1>3, <1>4, <2>2, DroppedIs
    <2>3. QED
      BY <2>1, <2>2
  <1> HIDE DEF n
  <1>6. Good(u)
    BY <1>4, <1>5, ResizesIs
  <1> HIDE DEF u
  <1>7. Current(t)
    BY <1>6, SettlesIs
  <1> HIDE DEF t
  <1>8. QED
    BY <1>2, <1>7, BecomesIs

LEMMA FramesIs ==
  ASSUME Ind, NEW n, Managed(n), Owes(n, screen), n.z = wm.z, n.lit = wm.lit,
         Becomes(SyncForeground(Repaint(With(Now, n))))
  PROVE  Ind'
  <1> DEFINE u == With(Now, n)
             t == SyncForeground(Repaint(u))
  <1>1. Good(Now) /\ Owes(n, Now.screen) /\ n.z = Now.wm.z /\ n.lit = Now.wm.lit
    BY NowIs DEF Ind, Current
  <1>2. Becomes(t)
    OBVIOUS
  <1>3. Good(u)
    BY <1>1, ResizesIs
  <1> HIDE DEF u
  <1>4. Current(t)
    BY <1>3, SettlesIs
  <1> HIDE DEF t
  <1>5. QED
    BY <1>2, <1>4, BecomesIs

LEMMA ManagerIs ==
  ASSUME Ind
  PROVE  Managed(wm) /\ Owes(wm, screen) /\ Listed(wm.z, Windows) /\ Listed(apps, Apps)
  BY NowIs DEF Ind, Current, Good, Sound, Managed, Formed

LEMMA ResizeIs ==
  ASSUME Ind, NEW w \in Shown(wm), NEW f \in Frames, Resize(w, f)
  PROVE  Ind'
  <1> DEFINE n == ZoomWindow(wm, w, f)
  <1>1. Managed(n) /\ Owes(n, screen) /\ n.z = wm.z /\ n.lit = wm.lit
    BY ManagerIs, ZoomIs
  <1>2. Becomes(SyncForeground(Repaint(With(Now, n))))
    BY NowIs DEF Resize, With
  <1> HIDE DEF n
  <1>3. QED
    BY <1>1, <1>2, FramesIs

LEMMA RollUpIs ==
  ASSUME Ind, NEW w \in Shown(wm), RollUp(w)
  PROVE  Ind'
  <1> DEFINE n == CollapseWindow(wm, w)
  <1>1. Managed(n) /\ Owes(n, screen) /\ n.z = wm.z /\ n.lit = wm.lit
    BY ManagerIs, CollapseIs
  <1>2. Becomes(SyncForeground(Repaint(With(Now, n))))
    BY NowIs DEF RollUp, With
  <1> HIDE DEF n
  <1>3. QED
    BY <1>1, <1>2, FramesIs

(* What goes before a repaint that ends a gesture of the Finder's.           *)
LEMMA RefreshIs ==
  ASSUME NEW s, Near(s), Becomes(SyncForeground(Repaint(SyncActive(s))))
  PROVE  Ind'
  <1> DEFINE k == SyncActive(s)
             t == SyncForeground(Repaint(k))
  <1>1. Becomes(t)
    OBVIOUS
  <1>2. Good(k)
    BY SyncActiveIs
  <1> HIDE DEF k
  <1>3. Current(t)
    BY <1>2, SettlesIs
  <1> HIDE DEF t
  <1>4. QED
    BY <1>1, <1>3, BecomesIs

LEMMA CloseBoxIs ==
  ASSUME Ind, NEW w \in Shown(wm), CloseBox(w)
  PROVE  Ind'
  <1>1. /\ Good(Now) /\ Sound(Now) /\ Together(Now.wm) /\ Leads(Now.wm, Fg(Now))
        /\ Now.told \subseteq {Fg(Now)} /\ Managed(Now.wm) /\ Owes(Now.wm, Now.screen)
        /\ w \in Shown(Now.wm) /\ \A v \in Shown(Now.wm) : Owner[v] \in ToSet(Now.apps)
    BY NowIs DEF Ind, Current, Good, Sound
  <1>2. CASE Owner[w] = Finder
    <2> DEFINE n == DisposeWindow(Now.wm, w)
               u == With(Now, n)
    <2>1. Becomes(SyncForeground(Repaint(SyncActive(u))))
      BY <1>2 DEF CloseBox, With
    <2>2. Near(u)
      BY <1>1, GoesIs
    <2> HIDE DEF u
    <2>3. QED
      BY <2>1, <2>2, RefreshIs
  <1>3. CASE Owner[w] # Finder
    <2> DEFINE k == TornDown(Now, Owner[w])
               t == SyncForeground(Repaint(k))
    <2>1. Becomes(t)
      BY <1>3 DEF CloseBox
    <2>2. Good(k)
      <3> DEFINE app == Owner[w]
      <3>1. Good(Now) /\ app \in ToSet(Now.apps) /\ app # Finder /\ k = TornDown(Now, app)
        BY <1>1, <1>3
      <3> HIDE DEF app, k
      <3>2. QED
        BY <3>1, TornDownIs
    <2> HIDE DEF k
    <2>3. Current(t)
      BY <2>2, SettlesIs
    <2> HIDE DEF t
    <2>4. QED
      BY <2>1, <2>3, BecomesIs
  <1>4. QED
    BY <1>2, <1>3

LEMMA ClickDesktopIs ==
  ASSUME Ind, ClickDesktop
  PROVE  Ind'
  <1> DEFINE k == Activate(Now, Finder)
             t == SyncForeground(k)
  <1>1. Becomes(t)
    BY DEF ClickDesktop
  <1>2. Current(k)
    <2>1. CASE Finder = Fg(Now)
      BY <2>1 DEF Activate, Fg, Ind
    <2>2. CASE Finder # Fg(Now)
      <3>1. /\ Sound(Now) /\ Together(Now.wm) /\ Now.told \subseteq {Fg(Now)}
            /\ Finder \in ToSet(Now.apps)
        BY DEF Ind, Current, Good, Sound
      <3>2. QED
        BY <2>2, <3>1, ActivateIs
    <2>3. QED
      BY <2>1, <2>2
  <1> HIDE DEF k
  <1>3. Current(t)
    BY <1>2, SyncForegroundIs
  <1> HIDE DEF t
  <1>4. QED
    BY <1>1, <1>3, BecomesIs

LEMMA FinderOpensIs ==
  ASSUME Ind, NEW w \in Windows, NEW f \in Frames, NEW readable \in BOOLEAN,
         FinderOpens(w, f, readable)
  PROVE  Ind'
  <1> DEFINE m == Now.wm
             n == IF w \in Shown(m) THEN SelectWindow(m, w)
                  ELSE IF readable THEN NewWindow(m, w, f)
                  ELSE DisposeWindow(NewWindow(m, w, f), w)
             u == With(Now, n)
  <1>1. /\ Good(Now) /\ Sound(Now) /\ Together(Now.wm) /\ Leads(Now.wm, Fg(Now))
        /\ Now.told \subseteq {Fg(Now)}
    BY DEF Ind, Current, Good
  <1>2. Owner[w] = Fg(Now)
    BY NowIs DEF FinderOpens, Fg
  <1>3. Becomes(SyncForeground(Repaint(SyncActive(u))))
    BY NowIs DEF FinderOpens, With
  <1>4. CASE w \in Shown(m)
    <2>1. n = SelectWindow(m, w)
      BY <1>4
    <2> HIDE DEF n
    <2>2. Good(u)
      BY <1>1, <1>2, <1>4, <2>1, ForwardIs
    <2> HIDE DEF u
    <2>3. Near(u)
      BY <2>2, GoodIsNear
    <2>4. QED
      BY <1>3, <2>3, RefreshIs
  <1>5. CASE w \notin Shown(m) /\ readable
    <2>1. n = NewWindow(m, w, f)
      BY <1>5
    <2> HIDE DEF n
    <2>2. Good(u)
      BY <1>1, <1>2, <1>5, <2>1, OpensIs
    <2> HIDE DEF u
    <2>3. Near(u)
      BY <2>2, GoodIsNear
    <2>4. QED
      BY <1>3, <2>3, RefreshIs
  <1>6. CASE w \notin Shown(m) /\ ~readable
    <2> DEFINE q == NewWindow(m, w, f)
               k == With(Now, q)
    <2>1. n = DisposeWindow(q, w)
      BY <1>6
    <2>2. Good(k) /\ Puts(k, Now, q) /\ w \in Shown(q)
      BY <1>1, <1>2, <1>6, OpensIs
    <2> HIDE DEF q, k, n
    <2>3. /\ Managed(q) /\ Owes(q, Now.screen) /\ Together(q) /\ Leads(q, Fg(Now))
          /\ \A v \in Shown(q) : Owner[v] \in ToSet(Now.apps)
      BY <2>2 DEF Good, Sound, Puts, Fg
    <2>4. Near(u)
      BY <1>1, <2>1, <2>2, <2>3, GoesIs
    <2> HIDE DEF u
    <2>5. QED
      BY <1>3, <2>4, RefreshIs
  <1>7. QED
    BY <1>4, <1>5, <1>6

LEMMA TenantOpensIs ==
  ASSUME Ind, NEW w \in Windows, NEW f \in Frames, TenantOpens(w, f)
  PROVE  Ind'
  <1> DEFINE n == NewWindow(Now.wm, w, f)
             u == With(Now, n)
  <1>1. Good(Now) /\ w \notin Shown(Now.wm) /\ Owner[w] = Fg(Now) /\ Fg(Now) = Tenant
    BY NowIs DEF Ind, Current, TenantOpens, Fg
  <1>2. /\ Good(u) /\ Puts(u, Now, n) /\ Reorders(Now.wm, n, Fg(Now)) /\ LitFor(n, Fg(Now))
        /\ Listed(n.z, Windows)
    BY <1>1, OpensIs
  <1>3. Becomes(Activate(u, Tenant))
    BY DEF TenantOpens, With
  <1> HIDE DEF u, n
  <1>4. Fg(u) = Fg(Now) /\ u.wm = n /\ u.screen = Now.screen
    BY <1>2 DEF Puts, Fg
  <1>5. Activate(u, Tenant) = u
    BY <1>1, <1>4 DEF Activate, Fg
  <1>6. Confined(n, Now.screen, Fg(Now))
    <2>1. Listed(Now.wm.z, Windows) /\ Confined(Now.wm, Now.screen, Fg(Now)) /\ LitFor(Now.wm, Fg(Now))
      BY DEF Ind, Current, Good, Sound, Managed, Formed
    <2>2. QED
      BY <1>2, <2>1, ConfinedStays
  <1>7. Confined(u.wm, u.screen, Fg(u))
    BY <1>4, <1>6
  <1>8. Current(u)
    BY <1>2, <1>7 DEF Current
  <1>9. QED
    BY <1>3, <1>5, <1>8, BecomesIs

LEMMA TenantEndsIs ==
  ASSUME Ind, TenantEnds
  PROVE  Ind'
  <1> DEFINE k == TornDown(Now, Tenant)
             t == Repaint(k)
  <1>1. Becomes(t)
    BY DEF TenantEnds
  <1>2. Good(Now) /\ Tenant # Finder
    BY AppsAssumption DEF Ind, Current
  <1>3. Tenant \in ToSet(Now.apps)
    <2>1. PICK i \in 1 .. Len(apps) : apps[i] = Tenant
      BY DEF TenantEnds, Contains
    <2>2. DOMAIN apps = 1 .. Len(apps)
      BY ManagerIs, LenProperties DEF Listed
    <2>3. QED
      BY <2>1, <2>2, NowIs DEF ToSet
  <1>4. Good(k)
    BY <1>2, <1>3, TornDownIs
  <1> HIDE DEF k
  <1>5. Current(t)
    BY <1>4, RepaintedIs
  <1> HIDE DEF t
  <1>6. QED
    BY <1>1, <1>5, BecomesIs

(* A new process is listed behind the foreground.                            *)
Registered(a, t) == <<Head(a), t>> \o Tail(a)

Registers(q, a, t) == q # <<>> /\ Head(q) = Head(a) /\ ToSet(q) = ToSet(a) \cup {t}

LEMMA RegisteredIs ==
  ASSUME NEW S, NEW a, Listed(a, S), a # <<>>, NEW t \in S, t \notin ToSet(a),
         NEW q, q = Registered(a, t)
  PROVE  Listed(q, S) /\ Registers(q, a, t)
  <1> DEFINE n == Len(a)
             h == Head(a)
             o == <<h, t>>
             r == Tail(a)
  <1>1. a \in Seq(S) /\ n \in Nat \ {0} /\ DOMAIN a = 1 .. n
    BY LenProperties, EmptySeq DEF Listed
  <1>2. \A i \in 1 .. n : a[i] \in S
    BY <1>1, ElementOfSeq
  <1>3. \A i, j \in 1 .. n : a[i] = a[j] => i = j
    BY <1>1 DEF Listed, IsInjective
  <1>4. h = a[1] /\ h \in S
    BY <1>1, <1>2
  <1>5. o \in Seq(S) /\ Len(o) = 2 /\ o[1] = h /\ o[2] = t
    BY <1>4
  <1>6. r \in Seq(S) /\ Len(r) = n - 1 /\ \A i \in 1 .. n - 1 : r[i] = a[i + 1]
    BY <1>1, HeadTailProperties
  <1>7. q = o \o r
    BY DEF Registered
  <1> HIDE DEF n, h, o, r
  <1>8. /\ q \in Seq(S) /\ Len(q) = n + 1
        /\ \A i \in 1 .. n + 1 : q[i] = IF i <= 2 THEN o[i] ELSE r[i - 2]
    <2>1. r \in Seq(S) /\ o \in Seq(S)
      BY <1>5, <1>6
    <2>2. /\ o \o r \in Seq(S) /\ Len(o \o r) = Len(o) + Len(r)
          /\ \A i \in 1 .. Len(o) + Len(r) : (o \o r)[i] = IF i <= Len(o) THEN o[i] ELSE r[i - Len(o)]
      BY <2>1, ConcatProperties
    <2>3. Len(o) = 2 /\ Len(o) + Len(r) = n + 1
      BY <1>1, <1>5, <1>6
    <2>4. QED
      BY <1>7, <2>2, <2>3
  <1>9. q[1] = a[1] /\ q[2] = t /\ \A i \in 3 .. n + 1 : q[i] = a[i - 1]
    <2>1. q[1] = a[1] /\ q[2] = t
      BY <1>1, <1>4, <1>5, <1>8
    <2>2. ASSUME NEW i \in 3 .. n + 1 PROVE q[i] = a[i - 1]
      <3>1. i \in 1 .. n + 1 /\ ~(i <= 2) /\ i - 2 \in 1 .. n - 1 /\ (i - 2) + 1 = i - 1
        BY <1>1
      <3>2. QED
        BY <1>6, <1>8, <3>1
    <2>3. QED
      BY <2>1, <2>2
  <1>10. DOMAIN q = 1 .. n + 1
    BY <1>8, LenProperties
  <1>11. \A i \in 1 .. n : a[i] # t
    BY <1>1 DEF ToSet
  <1>12. ASSUME NEW i \in 1 .. n + 1, NEW j \in 1 .. n + 1, q[i] = q[j] PROVE i = j
    <2>1. \A k \in 1 .. n + 1 : k = 1 \/ k = 2 \/ (k \in 3 .. n + 1 /\ k - 1 \in 1 .. n)
      BY <1>1
    <2>2. 1 \in 1 .. n
      BY <1>1
    <2>3. i = 2 <=> j = 2
      BY <1>9, <1>11, <1>12, <2>1, <2>2
    <2>4. CASE i = 2
      BY <2>3, <2>4
    <2>5. CASE i # 2
      <3> DEFINE To(k) == IF k = 1 THEN 1 ELSE k - 1
      <3>1. \A k \in 1 .. n + 1 : k # 2 => To(k) \in 1 .. n /\ q[k] = a[To(k)]
        BY <1>9, <2>1, <2>2
      <3>2. To(i) = To(j)
        BY <1>3, <1>12, <2>3, <2>5, <3>1
      <3>3. QED
        BY <2>3, <2>5, <3>2
    <2>6. QED
      BY <2>4, <2>5
  <1>13. Listed(q, S)
    BY <1>8, <1>10, <1>12 DEF Listed, IsInjective
  <1>14. ToSet(q) = ToSet(a) \cup {t}
    <2>1. ASSUME NEW v \in ToSet(q) PROVE v \in ToSet(a) \/ v = t
      <3>1. PICK i \in 1 .. n + 1 : v = q[i]
        BY <1>10 DEF ToSet
      <3>2. i = 1 \/ i = 2 \/ (i \in 3 .. n + 1 /\ i - 1 \in 1 .. n)
        BY <1>1
      <3>3. 1 \in 1 .. n
        BY <1>1
      <3>4. QED
        BY <1>1, <1>9, <3>1, <3>2, <3>3 DEF ToSet
    <2>2. ASSUME NEW v \in ToSet(a) PROVE v \in ToSet(q)
      <3>1. PICK i \in 1 .. n : v = a[i]
        BY <1>1 DEF ToSet
      <3>2. 1 \in 1 .. n + 1 /\ (i = 1 \/ (i + 1 \in 3 .. n + 1 /\ i + 1 \in 1 .. n + 1 /\ (i + 1) - 1 = i))
        BY <1>1
      <3>3. v = q[1] \/ (i + 1 \in 1 .. n + 1 /\ v = q[i + 1])
        BY <1>9, <3>1, <3>2
      <3>4. QED
        BY <1>10, <3>2, <3>3 DEF ToSet
    <2>3. t \in ToSet(q)
      <3>1. 2 \in 1 .. n + 1
        BY <1>1
      <3>2. QED
        BY <1>9, <1>10, <3>1 DEF ToSet
    <2>4. QED
      BY <2>1, <2>2, <2>3
  <1>15. q # <<>> /\ Head(q) = h
    <2>1. q # <<>>
      BY <1>1, <1>8, EmptySeq
    <2>2. QED
      BY <1>4, <1>8, <1>9, <2>1
  <1>16. QED
    BY <1>13, <1>14, <1>15 DEF Registers, h

LEMMA LaunchIs ==
  ASSUME Ind, NEW w \in Windows, NEW f \in Frames, Launch(w, f)
  PROVE  Ind'
  <1> DEFINE m == Now.wm
             n == NewWindow(m, w, f)
             a == Registered(Now.apps, Tenant)
             k == [Now EXCEPT !.apps = a, !.wm = n]
             t == Activate(k, Tenant)
  <1>1. Finder \in Apps /\ Tenant \in Apps /\ Tenant # Finder
    BY AppsAssumption
  <1>2. /\ IsDesk(Now) /\ Managed(m) /\ Owes(m, Now.screen) /\ DOMAIN Now.screen = Pixels
        /\ Listed(m.z, Windows) /\ Together(m) /\ Now.told \subseteq {Fg(Now)}
        /\ Listed(Now.apps, Apps) /\ Finder \in ToSet(Now.apps)
        /\ \A v \in Shown(m) : Owner[v] \in ToSet(Now.apps)
    BY DEF Ind, Current, Good, Sound, Managed, Formed
  <1>3. Head(Now.apps) = Finder /\ Owner[w] = Tenant /\ Fg(Now) = Finder
    BY NowIs DEF Launch, Fg
  <1>4. Tenant \notin ToSet(Now.apps)
    <2>1. DOMAIN apps = 1 .. Len(apps)
      BY ManagerIs, LenProperties DEF Listed
    <2>2. \A i \in 1 .. Len(apps) : apps[i] # Tenant
      BY DEF Launch, Contains
    <2>3. QED
      BY <2>1, <2>2, NowIs DEF ToSet
  <1>5. w \notin Shown(m)
    BY <1>2, <1>3, <1>4
  <1>6. Becomes(t)
    <2>1. a = <<Finder, Tenant>> \o Tail(Now.apps)
      BY <1>3 DEF Registered
    <2>2. Becomes(Activate([Now EXCEPT !.apps = <<Finder, Tenant>> \o Tail(Now.apps), !.wm = n], Tenant))
      BY DEF Launch
    <2> HIDE DEF a, n
    <2>3. QED
      BY <2>1, <2>2
  <1>7. Listed(a, Apps) /\ Head(a) = Finder /\ ToSet(a) = ToSet(Now.apps) \cup {Tenant}
    <2>1. Now.apps # <<>>
      BY <1>2, FrontIs
    <2>2. Listed(a, Apps) /\ Registers(a, Now.apps, Tenant)
      BY <1>1, <1>2, <1>4, <2>1, RegisteredIs
    <2>3. QED
      BY <1>3, <2>2 DEF Registers
  <1>8. Managed(n) /\ Owes(n, Now.screen) /\ Adds(n, m, w)
    BY <1>2, <1>5, NewIs
  <1> HIDE DEF a, n
  <1>9. k \in [wm : {n}, screen : {Now.screen}, apps : {a}, told : {Now.told}]
    <2>1. Now \in [wm : {Now.wm}, screen : {Now.screen}, apps : {Now.apps}, told : {Now.told}]
      BY <1>2 DEF IsDesk
    <2>2. QED
      BY <2>1
  <1> HIDE DEF k
  <1>10. k.wm = n /\ k.screen = Now.screen /\ k.apps = a /\ k.told = Now.told /\ IsDesk(k)
    BY <1>9 DEF IsDesk
  <1>11. Together(n)
    <2>1. Listed(n.z, Windows)
      BY <1>8 DEF Managed, Formed
    <2>2. Leads(m, Owner[w])
      BY <1>2, <1>3, <1>4 DEF Leads
    <2>3. QED
      BY <1>2, <1>5, <1>8, <2>1, <2>2, AddsIs
  <1>12. \A v \in Shown(n) : Owner[v] \in ToSet(a)
    <2>1. \A v \in Shown(n) : v \in Shown(m) \/ v = w
      BY <1>8 DEF Adds
    <2>2. QED
      BY <1>2, <1>3, <1>7, <2>1
  <1>13. Sound(k) /\ Fg(k) = Finder
    BY <1>2, <1>7, <1>8, <1>10, <1>12 DEF Sound, Fg
  <1>14. Together(k.wm) /\ k.told \subseteq {Fg(k)} /\ Tenant \in ToSet(k.apps) /\ Tenant # Fg(k)
    BY <1>1, <1>2, <1>3, <1>7, <1>10, <1>11, <1>13
  <1>15. Current(t)
    BY <1>13, <1>14, ActivateIs
  <1> HIDE DEF t
  <1>16. QED
    BY <1>6, <1>15, BecomesIs

LEMMA InitIs ==
  ASSUME Init
  PROVE  Ind
  <1>1. PICK f \in [ToSet(BootWindows) -> Frames] :
           wm = Validated(Opened(f)) /\ screen = [p \in Pixels |-> Picture(Opened(f), p)]
    BY DEF Init
  <1> DEFINE m == Opened(f)
             b == BootWindows
             l == Len(b)
  <1>2. b \in Seq(Windows) /\ l \in Nat \ {0} /\ DOMAIN b = 1 .. l /\ Last(b) = b[l]
    BY AppsAssumption, LenProperties, EmptySeq DEF Last
  <1>3. Listed(Booted, Apps) /\ Finder \in ToSet(Booted)
    <2>1. Booted \in Seq(Apps \ {Tenant}) /\ IsInjective(Booted)
      BY AppsAssumption
    <2>2. Booted \in Seq(Apps)
      BY <2>1, SeqDef
    <2>3. DOMAIN Booted = 1 .. Len(Booted)
      BY <2>2, LenProperties
    <2>4. QED
      BY <2>1, <2>2, <2>3, AppsAssumption DEF Contains, ToSet, Listed
  <1>4. Managed(m) /\ Launched(m, l)
    BY OpenedIs
  <1>5. screen = [p \in Pixels |-> Picture(m, p)] /\ wm = Validated(m)
    BY <1>1
  <1> HIDE DEF m
  <1>6. /\ Managed(wm) /\ Settled(wm) /\ Alike(m, wm) /\ wm.lit = m.lit
        /\ \A p : Picture(wm, p) = Picture(m, p)
    BY <1>4, <1>5, ValidatedIs
  <1>7. wm.z = m.z /\ Shown(wm) = Shown(m)
    BY <1>6, AlikeIs DEF Alike
  <1>8. /\ Shown(wm) = {b[i] : i \in 1 .. l} /\ FrontLit(wm) /\ IsFront(wm.z, b[l])
    BY <1>2, <1>4, <1>6, <1>7 DEF Launched, FrontLit
  <1>9. Owner[b[l]] = Head(Booted)
    BY <1>2, AppsAssumption
  <1>10. LitFor(wm, Head(Booted))
    BY <1>6, <1>8, <1>9, LitForIs
  <1>11. \A v : IsFront(wm.z, v) => v = b[l]
    BY <1>6, <1>8, FrontIs DEF Managed, Formed
  <1>12. Leads(wm, Head(Booted))
    BY <1>9, <1>11 DEF Leads
  <1>13. \A v \in Shown(wm) : Owner[v] \in ToSet(Booted)
    <2>1. \A i \in 1 .. l : Contains(Booted, Owner[b[i]])
      BY <1>2, AppsAssumption
    <2>2. DOMAIN Booted = 1 .. Len(Booted)
      BY <1>3, LenProperties DEF Listed
    <2>3. QED
      BY <1>8, <2>1, <2>2 DEF Contains, ToSet
  <1>14. Together(wm)
    <2>1. \A v, w \in Shown(wm) : Owner[v] = Owner[w] => v = w
      <3>1. \A i, j \in 1 .. l : Owner[b[i]] = Owner[b[j]] => i = j
        BY <1>2, AppsAssumption
      <3>2. QED
        BY <1>8, <3>1
    <2>2. /\ \A v, w : Before(wm.z, v, w) => v \in Shown(wm) /\ w \in Shown(wm) /\ v # w
          /\ \A u, v, w : Before(wm.z, u, v) /\ Before(wm.z, v, w) => Before(wm.z, u, w)
      BY <1>6, ListIs DEF Managed, Formed, Shown
    <2>3. QED
      BY <2>1, <2>2 DEF Together
  <1>15. Shows(wm, screen) /\ DOMAIN screen = Pixels
    BY <1>5, <1>6 DEF Shows
  <1>16. Owes(wm, screen)
    BY <1>6, <1>15, ShowsIs DEF Managed
  <1>17. apps = Booted /\ told = {}
    BY DEF Init
  <1>18. IsDesk(Now) /\ Fg(Now) = Head(Booted)
    BY <1>17 DEF IsDesk, Now, Fg
  <1>19. Sound(Now)
    BY <1>3, <1>6, <1>13, <1>15, <1>16, <1>17, <1>18, NowIs DEF Sound
  <1>20. Good(Now)
    BY <1>10, <1>12, <1>14, <1>17, <1>18, <1>19, NowIs DEF Good
  <1>21. Confined(Now.wm, Now.screen, Fg(Now))
    BY <1>15, ShownIsConfined, NowIs
  <1>22. QED
    BY <1>20, <1>21 DEF Ind, Current

-----------------------------------------------------------------------------
(* The theorems.                                                             *)

LEMMA Inductive == Spec => []Ind
  <1>1. Init => Ind
    BY InitIs
  <1>2. Ind /\ [Next]_vars => Ind'
    <2>1. SUFFICES ASSUME Ind, [Next]_vars PROVE Ind'
      OBVIOUS
    <2>2. CASE \E w \in Shown(wm) : ClickContent(w)
      BY <2>1, <2>2, ClickContentIs
    <2>3. CASE \E w \in Shown(wm) : RollUp(w)
      BY <2>1, <2>3, RollUpIs
    <2>4. CASE \E w \in Shown(wm) : CloseBox(w)
      BY <2>1, <2>4, CloseBoxIs
    <2>5. CASE \E w \in Shown(wm), f \in Frames : DragTitle(w, f)
      BY <2>1, <2>5, DragTitleIs
    <2>6. CASE \E w \in Shown(wm), f \in Frames : Resize(w, f)
      BY <2>1, <2>6, ResizeIs
    <2>7. CASE ClickDesktop
      BY <2>1, <2>7, ClickDesktopIs
    <2>8. CASE TenantEnds
      BY <2>1, <2>8, TenantEndsIs
    <2>9. CASE \E w \in Windows, f \in Frames, readable \in BOOLEAN : FinderOpens(w, f, readable)
      BY <2>1, <2>9, FinderOpensIs
    <2>10. CASE \E w \in Windows, f \in Frames : Launch(w, f)
      BY <2>1, <2>10, LaunchIs
    <2>11. CASE \E w \in Windows, f \in Frames : TenantOpens(w, f)
      BY <2>1, <2>11, TenantOpensIs
    <2>12. CASE UNCHANGED vars
      <3>1. Now' = Now
        BY <2>12 DEF vars, Now
      <3>2. QED
        BY <2>1, <3>1 DEF Ind
    <2>13. QED
      BY <2>1, <2>2, <2>3, <2>4, <2>5, <2>6, <2>7, <2>8, <2>9, <2>10, <2>11, <2>12 DEF Next
  <1>3. QED
    BY <1>1, <1>2, PTL DEF Spec

(* The lists, the frames and the regions are well formed, every window is    *)
(* shown once and has a resident owner (window.c's list, process.c's list).  *)
THEOREM DesktopWellFormed == Spec => []TypeOK
  <1>1. Ind => TypeOK
    <2>1. SUFFICES ASSUME Ind PROVE TypeOK
      OBVIOUS
    <2>2. Sound(Now) /\ Now.told \subseteq {Fg(Now)} /\ Fg(Now) = Head(apps)
      BY <2>1, NowIs DEF Ind, Current, Good, Fg
    <2>3. /\ Managed(wm) /\ DOMAIN screen = Pixels /\ Listed(apps, Apps) /\ Finder \in ToSet(apps)
          /\ told \subseteq {Head(apps)} /\ \A w \in Shown(wm) : Owner[w] \in ToSet(apps)
      BY <2>2, NowIs DEF Sound
    <2>4. Head(apps) \in ToSet(apps)
      BY <2>3, FrontIs
    <2>5. told \subseteq ToSet(apps)
      BY <2>3, <2>4
    <2>6. wm.lit \subseteq Shown(wm)
      BY <2>3 DEF Managed, IsFront, Shown
    <2>7. QED
      BY <2>3, <2>5, <2>6 DEF TypeOK, Managed, Formed, Listed
  <1>2. QED
    BY <1>1, Inductive, PTL

(* No damage is lost by the operations of window.c that consume or discard   *)
(* updateRgn, nor by a repaint: a pixel that is not what it should be is     *)
(* owed by the window, or the desktop, that it belongs to.                   *)
THEOREM DamageIsKept == Spec => []DamageIsOwed
  <1>1. Ind => DamageIsOwed
    <2>1. SUFFICES ASSUME Ind PROVE DamageIsOwed
      OBVIOUS
    <2>2. Owes(wm, screen) /\ Listed(wm.z, Windows)
      BY <2>1, ManagerIs
    <2>3. QED
      BY <2>2, OwesIs DEF DamageIsOwed
  <1>2. QED
    BY <1>1, Inductive, PTL

(* Between two events only the front window may be drawn active, and it is   *)
(* exactly when the foreground owns it (FlairProcess_sync_active); and only  *)
(* the foreground was last told that it is active.                           *)
THEOREM ActiveIsForeground == Spec => []OnlyTheForegroundIsActive
  <1>1. Ind => OnlyTheForegroundIsActive
    <2>1. SUFFICES ASSUME Ind PROVE OnlyTheForegroundIsActive
      OBVIOUS
    <2>2. LitFor(wm, Head(apps)) /\ told \subseteq {Head(apps)}
      BY <2>1, NowIs DEF Ind, Current, Good, Fg
    <2>3. \A w : IsFront(wm.z, w) <=> wm.z # <<>> /\ w = Head(wm.z)
      BY <2>1, ManagerIs, FrontIs
    <2>4. \A w \in Shown(wm) : IsFront(wm.z, w) <=> w = Head(wm.z)
      BY <2>1, <2>3, ManagerIs, FrontIs DEF Shown
    <2>5. QED
      BY <2>2, <2>4 DEF LitFor, OnlyTheForegroundIsActive
  <1>2. QED
    BY <1>1, Inductive, PTL

(* The windows of an application stay together, the foreground's in front,   *)
(* and those of one that ended are gone (raise_group, teardown_common).      *)
THEOREM GroupsAreKept == Spec => []GroupsStayTogether
  <1>1. Ind => GroupsStayTogether
    <2>1. SUFFICES ASSUME Ind PROVE GroupsStayTogether
      OBVIOUS
    <2>2. /\ Together(wm) /\ Leads(wm, Head(apps)) /\ Listed(wm.z, Windows)
          /\ \A w \in Shown(wm) : Owner[w] \in ToSet(apps)
      BY <2>1, NowIs, ManagerIs DEF Ind, Current, Good, Sound, Fg
    <2>3. ASSUME NEW i \in DOMAIN wm.z, NEW j \in DOMAIN wm.z, NEW k \in DOMAIN wm.z,
                 i < j, j < k, Owner[wm.z[i]] = Owner[wm.z[k]]
          PROVE  Owner[wm.z[j]] = Owner[wm.z[i]]
      <3>1. Before(wm.z, wm.z[i], wm.z[j]) /\ Before(wm.z, wm.z[j], wm.z[k])
        BY <2>3 DEF Before
      <3>2. QED
        BY <2>2, <2>3, <3>1 DEF Together
    <2>4. ASSUME OwnedBy(wm, Head(apps)) # {} PROVE Owner[Head(wm.z)] = Head(apps)
      <3>1. PICK i \in DOMAIN wm.z : Owner[wm.z[i]] = Head(apps)
        BY <2>4 DEF OwnedBy
      <3>2. wm.z[i] \in Shown(wm)
        BY DEF Shown, ToSet
      <3>3. IsFront(wm.z, Head(wm.z))
        BY <2>2, <3>2, FrontIs DEF Shown
      <3>4. QED
        BY <2>2, <3>1, <3>2, <3>3 DEF Leads
    <2>5. QED
      BY <2>2, <2>3, <2>4 DEF GroupsStayTogether
  <1>2. QED
    BY <1>1, Inductive, PTL

(* What is left unpainted between two events is within the windows of the    *)
(* foreground (flair_live_finish_tenant_switch).                             *)
THEOREM StaleIsForeground == Spec => []StaleOnlyInTheForeground
  <1>1. Ind => StaleOnlyInTheForeground
    BY NowIs DEF Ind, Current, Confined, Fg, StaleOnlyInTheForeground
  <1>2. QED
    BY <1>1, Inductive, PTL
=============================================================================
