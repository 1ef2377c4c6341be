---------------------------- MODULE MemoryProofs ----------------------------
(* Proofs about Arena, for an arena of any size and any number of owners,  *)
(* and about Programs, which runs programs in it, for every size of them   *)
(* and of what they keep, and any depth of EXEC.                           *)
EXTENDS Programs, SequenceTheorems, WellFoundedInduction, TLAPS

-----------------------------------------------------------------------------
(* The arena.  The lemmas hold for a chain over [f, Ceil), f the paragraph *)
(* of its lowest header, so that they serve Programs, which binds an arena *)
(* anew for every first program, too.                                      *)

ChainAt(c, f) == c \in [DOMAIN c -> Block] /\ Intact(c, f)
Joined(c)     == \A h \in DOMAIN c : ~JoinsNext(c, h)
Held(c)       == {h \in DOMAIN c : ~IsFree(c, h)}

(* The blocks that are not free are the same in c and in d. *)
SameHeld(c, d) == Held(c) = Held(d) /\ \A h \in Held(c) : c[h] = d[h]

-----------------------------------------------------------------------------
(* Extrema. *)

LEMMA LowestIs ==
  ASSUME NEW S \in SUBSET Nat, S # {}
  PROVE  LowestOf(S) \in S /\ \A k \in S : LowestOf(S) <= k
  <1>1. \E n \in S : \A k \in S : n <= k
    <2>1. PICK n \in S : \A k \in S : <<k, n>> \notin OpToRel(<, Nat)
      BY NatLessThanWellFounded, WFMin
    <2>2. n \in Nat /\ \A k \in S : k \in Nat
      OBVIOUS
    <2>3. \A k \in S : ~ (k < n)
      BY <2>1, <2>2 DEF OpToRel
    <2>4. QED
      BY <2>2, <2>3
  <1>2. QED
    BY <1>1 DEF LowestOf

LEMMA HighestExists ==
  ASSUME NEW S \in SUBSET Nat, S # {}, NEW b \in Nat, \A k \in S : k <= b
  PROVE  \E m \in S : \A k \in S : k <= m
  <1> DEFINE T == {b - k : k \in S}
  <1>1. T \in SUBSET Nat /\ T # {}
    <2>1. \A k \in S : k \in Nat /\ b - k \in Nat
      OBVIOUS
    <2>2. QED
      BY <2>1
  <1>2. LowestOf(T) \in T /\ \A k \in T : LowestOf(T) <= k
    BY <1>1, LowestIs
  <1>3. PICK m \in S : LowestOf(T) = b - m
    BY <1>2
  <1>4. \A k \in S : b - m <= b - k
    BY <1>2, <1>3
  <1>5. QED
    BY <1>4

-----------------------------------------------------------------------------
(* What an intact chain looks like around a header. *)

LEMMA ArenaNat == Base \in Nat /\ Ceil \in Nat /\ Base < Ceil
  BY ArenaAssumption

LEMMA AtHeader ==
  ASSUME NEW f \in Nat, NEW c, ChainAt(c, f), NEW h \in DOMAIN c
  PROVE  /\ c[h] \in Block /\ c[h].size \in Nat /\ c[h].last \in BOOLEAN
         /\ h \in Nat /\ f <= h /\ After(c, h) \in Nat
         /\ h < After(c, h) /\ After(c, h) <= Ceil
         /\ c[h].last <=> After(c, h) = Ceil
         /\ ~c[h].last => After(c, h) \in DOMAIN c
         /\ \A g \in DOMAIN c : g <= h \/ g >= After(c, h)
  <1>1. c[h] \in Block /\ c[h].size \in Nat /\ c[h].last \in BOOLEAN
    BY DEF ChainAt, Block
  <1>2. h \in f .. Ceil - 1
    BY DEF ChainAt, Intact
  <1>3. h \in Nat /\ f <= h
    BY <1>2, ArenaNat
  <1>4. After(c, h) \in Nat /\ h < After(c, h)
    BY <1>1, <1>3 DEF After
  <1>5. QED
    BY <1>1, <1>3, <1>4 DEF ChainAt, Intact

LEMMA HeadersNat ==
  ASSUME NEW f \in Nat, NEW c, ChainAt(c, f)
  PROVE  DOMAIN c \in SUBSET Nat /\ f \in DOMAIN c
  BY AtHeader DEF ChainAt, Intact

(* Every paragraph lies in a block. *)
LEMMA Covered ==
  ASSUME NEW f \in Nat, NEW c, ChainAt(c, f), NEW x \in Nat, f <= x, x < Ceil
  PROVE  \E h \in DOMAIN c : h <= x /\ x < After(c, h)
  <1> DEFINE S == {h \in DOMAIN c : h <= x}
  <1>1. S \in SUBSET Nat /\ f \in S
    BY HeadersNat
  <1>2. PICK h \in S : \A k \in S : k <= h
    BY <1>1, HighestExists
  <1>3. h \in DOMAIN c /\ h <= x /\ h \in Nat
    BY <1>1
  <1>4. SUFFICES ASSUME After(c, h) <= x PROVE FALSE
    BY <1>3, AtHeader
  <1>5. After(c, h) \in DOMAIN c /\ h < After(c, h)
    BY <1>3, <1>4, AtHeader, ArenaNat
  <1>6. QED
    BY <1>2, <1>4, <1>5, HeadersNat

(* The block that ends where another begins. *)
LEMMA Before ==
  ASSUME NEW f \in Nat, NEW c, ChainAt(c, f),
         NEW h \in DOMAIN c, NEW e \in DOMAIN c, h < e
  PROVE  \E g \in DOMAIN c : h <= g /\ g < e /\ After(c, g) = e /\ ~c[g].last
  <1>1. h \in Nat /\ e \in Nat /\ f <= h /\ e < Ceil
    BY AtHeader, ArenaNat
  <1>2. PICK g \in DOMAIN c : g <= e - 1 /\ e - 1 < After(c, g)
    <2>1. e - 1 \in Nat /\ f <= e - 1 /\ e - 1 < Ceil
      BY <1>1, ArenaNat
    <2>2. QED
      BY <2>1, Covered
  <1>3. g \in Nat /\ After(c, g) \in Nat /\ (e <= g \/ e >= After(c, g)) /\ (h <= g \/ h >= After(c, g))
    BY AtHeader
  <1>4. After(c, g) = e /\ g < e /\ h <= g
    BY <1>1, <1>2, <1>3
  <1>5. QED
    BY <1>1, <1>4, AtHeader, ArenaNat

(* Two blocks do not end at the same paragraph. *)
LEMMA AfterInjective ==
  ASSUME NEW f \in Nat, NEW c, ChainAt(c, f),
         NEW g \in DOMAIN c, NEW h \in DOMAIN c, After(c, g) = After(c, h)
  PROVE  g = h
  <1>1. g \in Nat /\ h \in Nat /\ After(c, g) \in Nat /\ After(c, h) \in Nat
    BY AtHeader
  <1>2. (g <= h \/ g >= After(c, h)) /\ (h <= g \/ h >= After(c, g))
    BY AtHeader
  <1>3. g < After(c, g) /\ h < After(c, h)
    BY AtHeader
  <1>4. QED
    BY <1>1, <1>2, <1>3

-----------------------------------------------------------------------------
(* mcb_coalesce.  A head is a block that joins no block before it, and its *)
(* run ends with the first block that does not join the next.              *)

Heads(c)    == DOMAIN c \ {After(c, g) : g \in {x \in DOMAIN c : JoinsNext(c, x)}}
EndOf(c, h) == LowestOf({g \in DOMAIN c : g >= h /\ ~JoinsNext(c, g)})

LEMMA RunEnds ==
  ASSUME NEW f \in Nat, NEW c, ChainAt(c, f), NEW h \in DOMAIN c
  PROVE  /\ EndOf(c, h) \in DOMAIN c /\ h <= EndOf(c, h)
         /\ ~JoinsNext(c, EndOf(c, h))
         /\ \A g \in DOMAIN c : h <= g /\ g < EndOf(c, h) => JoinsNext(c, g)
  <1> DEFINE S == {g \in DOMAIN c : g >= h /\ ~JoinsNext(c, g)}
  <1>1. DOMAIN c \in SUBSET Nat /\ h \in Nat
    BY HeadersNat
  <1>2. PICK m \in DOMAIN c : \A k \in DOMAIN c : k <= m
    <2>1. \A k \in DOMAIN c : k <= Ceil
      <3>1. \A k \in DOMAIN c : k \in Nat /\ After(c, k) \in Nat /\ k < After(c, k) /\ After(c, k) <= Ceil
        BY AtHeader
      <3>2. QED
        BY <3>1, ArenaNat
    <2>2. QED
      BY <1>1, <2>1, HighestExists, ArenaNat
  <1>3. m \in S
    <2>1. After(c, m) \notin DOMAIN c
      <3>1. m \in Nat /\ After(c, m) \in Nat /\ m < After(c, m)
        BY AtHeader
      <3>2. QED
        BY <1>2, <3>1
    <2>2. m >= h
      BY <1>1, <1>2
    <2>3. QED
      BY <2>1, <2>2 DEF JoinsNext
  <1>4. S \in SUBSET Nat
    BY <1>1
  <1>5. EndOf(c, h) \in S /\ \A k \in S : EndOf(c, h) <= k
    BY <1>3, <1>4, LowestIs DEF EndOf
  <1>6. ASSUME NEW g \in DOMAIN c, h <= g, g < EndOf(c, h) PROVE JoinsNext(c, g)
    <2>1. g \in Nat /\ EndOf(c, h) \in Nat
      BY <1>1, <1>5
    <2>2. g \notin S
      BY <1>5, <1>6, <2>1
    <2>3. QED
      BY <1>1, <1>6, <2>1, <2>2
  <1>7. QED
    BY <1>5, <1>6

(* A run of more than one block is free throughout. *)
LEMMA RunFree ==
  ASSUME NEW f \in Nat, NEW c, ChainAt(c, f), NEW h \in DOMAIN c
  PROVE  EndOf(c, h) = h \/ (IsFree(c, h) /\ IsFree(c, EndOf(c, h)))
  <1> DEFINE e == EndOf(c, h)
  <1>1. e \in DOMAIN c /\ h <= e
    BY RunEnds
  <1>2. h \in Nat /\ e \in Nat
    BY <1>1, HeadersNat
  <1>3. SUFFICES ASSUME h < e PROVE IsFree(c, h) /\ IsFree(c, e)
    BY <1>1, <1>2
  <1>4. PICK g \in DOMAIN c : h <= g /\ g < e /\ After(c, g) = e
    BY <1>1, <1>3, Before
  <1>5. h <= h
    BY <1>2
  <1>6. JoinsNext(c, g) /\ JoinsNext(c, h)
    BY <1>3, <1>4, <1>5, RunEnds
  <1>7. QED
    BY <1>4, <1>6 DEF JoinsNext

LEMMA CoalescedAt ==
  ASSUME NEW f \in Nat, NEW c, ChainAt(c, f)
  PROVE  /\ DOMAIN Coalesced(c) = Heads(c)
         /\ \A h \in Heads(c) :
              /\ h \in DOMAIN c
              /\ Coalesced(c)[h] \in Block
              /\ Coalesced(c)[h].owner = c[h].owner
              /\ Coalesced(c)[h].last = c[EndOf(c, h)].last
              /\ After(Coalesced(c), h) = After(c, EndOf(c, h))
              /\ EndOf(c, h) = h => Coalesced(c)[h] = c[h]
  <1>1. Coalesced(c) =
          [h \in Heads(c) |-> [c[h] EXCEPT !.size = After(c, EndOf(c, h)) - h - 1,
                                           !.last = c[EndOf(c, h)].last]]
    BY DEF Coalesced, Heads, EndOf
  <1>2. ASSUME NEW h \in Heads(c)
        PROVE  /\ h \in DOMAIN c
               /\ Coalesced(c)[h] \in Block
               /\ Coalesced(c)[h].owner = c[h].owner
               /\ Coalesced(c)[h].last = c[EndOf(c, h)].last
               /\ After(Coalesced(c), h) = After(c, EndOf(c, h))
               /\ EndOf(c, h) = h => Coalesced(c)[h] = c[h]
    <2> DEFINE e == EndOf(c, h)
    <2>1. h \in DOMAIN c
      BY DEF Heads
    <2>2. e \in DOMAIN c /\ h <= e
      BY <2>1, RunEnds
    <2>3. c[h] \in Block /\ c[e] \in Block /\ h \in Nat /\ e \in Nat /\ After(c, e) \in Nat /\ e < After(c, e)
      BY <2>1, <2>2, AtHeader
    <2>4. After(c, e) - h - 1 \in Nat
      BY <2>2, <2>3
    <2>5. Coalesced(c)[h] = [c[h] EXCEPT !.size = After(c, e) - h - 1, !.last = c[e].last]
      BY <1>1
    <2> HIDE DEF e
    <2>6. /\ Coalesced(c)[h] \in Block
          /\ Coalesced(c)[h].owner = c[h].owner
          /\ Coalesced(c)[h].last = c[e].last
          /\ Coalesced(c)[h].size = After(c, e) - h - 1
      BY <2>3, <2>4, <2>5 DEF Block
    <2>7. After(Coalesced(c), h) = After(c, e)
      BY <2>3, <2>6 DEF After
    <2>8. e = h => Coalesced(c)[h] = c[h]
      <3>1. c[h].size \in Nat
        BY <2>3 DEF Block
      <3>2. After(c, h) - h - 1 = c[h].size
        BY <2>3, <3>1 DEF After
      <3>3. QED
        BY <2>3, <2>5, <3>2 DEF Block
    <2>9. QED
      BY <2>1, <2>6, <2>7, <2>8 DEF e
  <1>3. QED
    BY <1>1, <1>2

(* The paragraph after a run is the end of the arena or another head. *)
LEMMA AfterRun ==
  ASSUME NEW f \in Nat, NEW c, ChainAt(c, f), NEW h \in DOMAIN c,
         ~c[EndOf(c, h)].last
  PROVE  After(c, EndOf(c, h)) \in Heads(c)
  <1> DEFINE e == EndOf(c, h)
  <1>1. e \in DOMAIN c /\ ~JoinsNext(c, e)
    BY RunEnds
  <1>2. After(c, e) \in DOMAIN c
    BY <1>1, AtHeader
  <1>3. ASSUME NEW g \in DOMAIN c, JoinsNext(c, g), After(c, g) = After(c, e) PROVE FALSE
    BY <1>1, <1>3, AfterInjective
  <1>4. QED
    BY <1>2, <1>3 DEF Heads

(* No other head lies within a run. *)
LEMMA WithinRun ==
  ASSUME NEW f \in Nat, NEW c, ChainAt(c, f), NEW h \in DOMAIN c, NEW g \in Heads(c)
  PROVE  g <= h \/ g >= After(c, EndOf(c, h))
  <1> DEFINE e == EndOf(c, h)
  <1>1. e \in DOMAIN c /\ h <= e /\ g \in DOMAIN c
    BY RunEnds DEF Heads
  <1>2. h \in Nat /\ e \in Nat /\ g \in Nat /\ After(c, e) \in Nat /\ (g <= e \/ g >= After(c, e))
    BY <1>1, AtHeader
  <1>3. SUFFICES ASSUME h < g, g <= e PROVE FALSE
    BY <1>2
  <1>4. PICK q \in DOMAIN c : h <= q /\ q < g /\ After(c, q) = g
    BY <1>1, <1>3, Before
  <1>5. q \in Nat
    BY HeadersNat
  <1>6. q < e
    BY <1>2, <1>3, <1>4, <1>5
  <1>7. JoinsNext(c, q)
    BY <1>4, <1>6, RunEnds
  <1>8. QED
    BY <1>4, <1>7 DEF Heads

(* mcb_coalesce keeps the chain intact, leaves no free pair and touches no *)
(* block that is not free.                                                 *)
LEMMA CoalescedChain ==
  ASSUME NEW f \in Nat, NEW c, ChainAt(c, f)
  PROVE  /\ ChainAt(Coalesced(c), f)
         /\ Joined(Coalesced(c))
         /\ SameHeld(c, Coalesced(c))
  <1> DEFINE d == Coalesced(c)
  <1>1. /\ DOMAIN d = Heads(c)
        /\ \A h \in Heads(c) :
              /\ h \in DOMAIN c
              /\ d[h] \in Block
              /\ d[h].owner = c[h].owner
              /\ d[h].last = c[EndOf(c, h)].last
              /\ After(d, h) = After(c, EndOf(c, h))
              /\ EndOf(c, h) = h => d[h] = c[h]
    BY CoalescedAt
  <1>2. f \in Heads(c)
    <2>1. f \in DOMAIN c
      BY HeadersNat
    <2>2. ASSUME NEW g \in DOMAIN c, After(c, g) = f PROVE FALSE
      <3>1. g \in Nat /\ f <= g /\ After(c, g) \in Nat /\ g < After(c, g)
        BY AtHeader
      <3>2. QED
        BY <2>2, <3>1
    <2>3. QED
      BY <2>1, <2>2 DEF Heads
  <1>3. d = [h \in Heads(c) |-> d[h]]
    BY DEF Coalesced, Heads
  <1> HIDE DEF d
  <1>4. ASSUME NEW h \in DOMAIN d
        PROVE  /\ h \in f .. Ceil - 1 /\ After(d, h) <= Ceil
               /\ d[h].last <=> After(d, h) = Ceil
               /\ ~d[h].last => After(d, h) \in DOMAIN d
               /\ \A g \in DOMAIN d : g <= h \/ g >= After(d, h)
    <2>1. h \in DOMAIN c /\ EndOf(c, h) \in DOMAIN c
      BY <1>1, <1>4, RunEnds
    <2>2. h \in f .. Ceil - 1
      BY <2>1 DEF ChainAt, Intact
    <2>3. After(d, h) <= Ceil /\ (d[h].last <=> After(d, h) = Ceil)
      BY <1>1, <1>4, <2>1, AtHeader
    <2>4. ~d[h].last => After(d, h) \in DOMAIN d
      BY <1>1, <1>4, <2>1, AfterRun
    <2>5. \A g \in DOMAIN d : g <= h \/ g >= After(d, h)
      BY <1>1, <1>4, <2>1, WithinRun
    <2>6. QED
      BY <2>2, <2>3, <2>4, <2>5
  <1>5. ChainAt(d, f)
    <2>1. d \in [DOMAIN d -> Block]
      BY <1>1, <1>3
    <2>2. QED
      BY <1>1, <1>2, <1>4, <2>1 DEF ChainAt, Intact
  <1>6. ASSUME NEW h \in DOMAIN d, JoinsNext(d, h) PROVE FALSE
    <2>1. h \in Heads(c) /\ h \in DOMAIN c /\ EndOf(c, h) \in DOMAIN c
      BY <1>1, RunEnds
    <2>2. ~c[EndOf(c, h)].last
      BY <1>1, <1>6, <2>1 DEF JoinsNext
    <2>3. After(c, EndOf(c, h)) \in Heads(c) /\ IsFree(c, After(c, EndOf(c, h)))
      <3>1. After(d, h) = After(c, EndOf(c, h)) /\ After(d, h) \in Heads(c)
        BY <1>1, <1>6, <2>1 DEF JoinsNext
      <3>2. d[After(d, h)].owner = c[After(d, h)].owner
        BY <1>1, <3>1
      <3>3. QED
        BY <1>6, <3>1, <3>2 DEF JoinsNext, IsFree
    <2>4. IsFree(c, h)
      BY <1>1, <1>6, <2>1 DEF JoinsNext, IsFree
    <2>5. IsFree(c, EndOf(c, h))
      BY <2>1, <2>4, RunFree
    <2>6. JoinsNext(c, EndOf(c, h))
      BY <1>1, <2>2, <2>3, <2>5 DEF JoinsNext
    <2>7. QED
      BY <2>1, <2>6, RunEnds
  <1>7. ASSUME NEW h \in Held(c) PROVE h \in Held(d) /\ d[h] = c[h]
    <2>1. h \in DOMAIN c /\ ~IsFree(c, h)
      BY <1>7 DEF Held
    <2>2. h \in Heads(c)
      BY <2>1 DEF Heads, JoinsNext
    <2>3. EndOf(c, h) = h
      BY <2>1, RunFree
    <2>4. QED
      BY <1>1, <2>1, <2>2, <2>3 DEF Held, IsFree
  <1>8. ASSUME NEW h \in Held(d) PROVE h \in Held(c)
    BY <1>1, <1>8 DEF Held, IsFree
  <1>9. SameHeld(c, d)
    BY <1>7, <1>8 DEF SameHeld
  <1>10. QED
    BY <1>5, <1>6, <1>9 DEF Joined, d

(* A chain without a free pair is coalesced as it stands. *)
LEMMA CoalescedSame ==
  ASSUME NEW f \in Nat, NEW c, ChainAt(c, f), Joined(c)
  PROVE  Coalesced(c) = c
  <1>1. Heads(c) = DOMAIN c
    BY DEF Heads, Joined
  <1>2. ASSUME NEW h \in DOMAIN c PROVE EndOf(c, h) = h
    <2>1. EndOf(c, h) \in DOMAIN c /\ h <= EndOf(c, h) /\ (h < EndOf(c, h) => JoinsNext(c, h))
      <3>1. h <= h
        BY HeadersNat
      <3>2. QED
        BY <3>1, RunEnds
    <2>2. h \in Nat /\ EndOf(c, h) \in Nat
      BY <2>1, HeadersNat
    <2>3. QED
      BY <2>1, <2>2 DEF Joined
  <1>3. \A h \in DOMAIN c : Coalesced(c)[h] = c[h]
    BY <1>1, <1>2, CoalescedAt
  <1>4. DOMAIN Coalesced(c) = DOMAIN c
    BY <1>1, CoalescedAt
  <1>5. Coalesced(c) = [h \in DOMAIN Coalesced(c) |-> Coalesced(c)[h]]
    BY DEF Coalesced
  <1>6. c = [h \in DOMAIN c |-> c[h]]
    BY DEF ChainAt
  <1>7. QED
    BY <1>3, <1>4, <1>5, <1>6

-----------------------------------------------------------------------------
(* mcb_split and the join of two blocks. *)

LEMMA SplitChain ==
  ASSUME NEW f \in Nat, NEW c, ChainAt(c, f), NEW h \in DOMAIN c,
         NEW want \in Nat, want < c[h].size
  PROVE  LET d == Split(c, h, want)
             r == h + 1 + want
         IN  /\ ChainAt(d, f)
             /\ r \notin DOMAIN c /\ r \in DOMAIN d /\ \A x : x \in DOMAIN d <=> x \in DOMAIN c \/ x = r
             /\ IsFree(d, r) /\ After(d, r) = After(c, h) /\ d[r].last = c[h].last
             /\ d[h].owner = c[h].owner /\ d[h].size = want /\ After(d, h) = r
             /\ \A x \in DOMAIN c : x # h => d[x] = c[x]
  <1> DEFINE d == Split(c, h, want)
             r == h + 1 + want
  <1>1. /\ c[h] \in Block /\ c[h].size \in Nat /\ c[h].last \in BOOLEAN
        /\ h \in Nat /\ f <= h /\ After(c, h) \in Nat /\ h < After(c, h) /\ After(c, h) <= Ceil
        /\ \A g \in DOMAIN c : g <= h \/ g >= After(c, h)
    BY AtHeader
  <1>2. After(c, h) = h + 1 + c[h].size
    BY DEF After
  <1>3. r \in Nat /\ h < r /\ r < After(c, h) /\ r < Ceil
    BY <1>1, <1>2, ArenaNat
  <1>4. r \notin DOMAIN c /\ r # h
    <2>1. ASSUME r \in DOMAIN c PROVE FALSE
      BY <1>1, <1>3, <2>1
    <2>2. QED
      BY <2>1, <1>1, <1>3
  <1> HIDE DEF r
  <1>5. d = [x \in DOMAIN c \cup {r} |->
              CASE x = h -> [c[h] EXCEPT !.size = want, !.last = FALSE]
                [] x = r -> [owner |-> FREE, size |-> c[h].size - want - 1, last |-> c[h].last]
                [] OTHER -> c[x]]
    BY DEF d, Split, r
  <1> HIDE DEF d
  <1>6. DOMAIN d = DOMAIN c \cup {r} /\ d = [x \in DOMAIN d |-> d[x]]
    BY <1>5
  <1>7. d[h] = [c[h] EXCEPT !.size = want, !.last = FALSE]
    BY <1>4, <1>5, Zenon
  <1>8. d[r] = [owner |-> FREE, size |-> c[h].size - want - 1, last |-> c[h].last]
    BY <1>4, <1>5
  <1>9. \A x \in DOMAIN c : x # h => d[x] = c[x]
    BY <1>4, <1>5
  <1>10. d[h] \in Block /\ d[h].owner = c[h].owner /\ d[h].size = want /\ ~d[h].last
    BY <1>1, <1>7 DEF Block
  <1>11. c[h].size - want - 1 \in Nat
    BY <1>1
  <1>12. d[r] \in Block /\ d[r].owner = FREE /\ d[r].size = c[h].size - want - 1 /\ d[r].last = c[h].last
    BY <1>1, <1>8, <1>11 DEF Block
  <1>13. After(d, h) = r
    BY <1>10 DEF After, r
  <1>14. After(d, r) = After(c, h)
    BY <1>1, <1>12, <1>2 DEF After, r
  <1>15. \A x \in DOMAIN c : x # h => After(d, x) = After(c, x)
    BY <1>9 DEF After
  <1>16. d \in [DOMAIN d -> Block]
    <2>1. \A x \in DOMAIN d : d[x] \in Block
      BY <1>6, <1>9, <1>10, <1>12, AtHeader
    <2>2. QED
      BY <1>6, <2>1
  <1>17. ASSUME NEW x \in DOMAIN d
         PROVE  /\ x \in f .. Ceil - 1 /\ After(d, x) <= Ceil
                /\ d[x].last <=> After(d, x) = Ceil
                /\ ~d[x].last => After(d, x) \in DOMAIN d
                /\ \A g \in DOMAIN d : g <= x \/ g >= After(d, x)
    <2>1. CASE x = h
      <3>1. \A g \in DOMAIN d : g <= h \/ g >= r
        <4>1. \A g \in DOMAIN c : g \in Nat /\ (g <= h \/ g >= After(c, h))
          BY <1>1, AtHeader
        <4>2. QED
          BY <1>1, <1>3, <1>6, <4>1
      <3>2. h \in f .. Ceil - 1
        BY DEF ChainAt, Intact
      <3>3. r <= Ceil /\ r # Ceil
        BY <1>3, ArenaNat
      <3>4. QED
        BY <2>1, <1>6, <1>10, <1>13, <3>1, <3>2, <3>3
    <2>2. CASE x = r
      <3>1. \A g \in DOMAIN d : g <= r \/ g >= After(c, h)
        <4>1. \A g \in DOMAIN c : g \in Nat /\ (g <= h \/ g >= After(c, h))
          BY <1>1, AtHeader
        <4>2. QED
          BY <1>1, <1>3, <1>6, <4>1
      <3>2. r \in f .. Ceil - 1
        BY <1>1, <1>3, ArenaNat
      <3>3. (c[h].last <=> After(c, h) = Ceil) /\ (~c[h].last => After(c, h) \in DOMAIN c)
        BY AtHeader
      <3>4. QED
        BY <2>2, <1>1, <1>6, <1>12, <1>14, <3>1, <3>2, <3>3
    <2>3. CASE x # h /\ x # r
      <3>1. x \in DOMAIN c
        BY <1>6, <2>3
      <3>2. d[x] = c[x] /\ After(d, x) = After(c, x)
        BY <1>9, <1>15, <2>3, <3>1
      <3>3. /\ After(c, x) <= Ceil /\ x \in Nat /\ After(c, x) \in Nat
            /\ c[x].last <=> After(c, x) = Ceil
            /\ ~c[x].last => After(c, x) \in DOMAIN c
            /\ \A g \in DOMAIN c : g <= x \/ g >= After(c, x)
        BY <3>1, AtHeader
      <3>4. x \in f .. Ceil - 1
        BY <3>1 DEF ChainAt, Intact
      <3>5. r <= x \/ r >= After(c, x)
        <4>1. h <= x \/ h >= After(c, x)
          BY <3>3
        <4>2. x <= h \/ x >= After(c, h)
          BY <1>1, <3>1
        <4>3. QED
          BY <1>1, <1>3, <2>3, <3>3, <4>1, <4>2
      <3>6. QED
        BY <1>6, <3>2, <3>3, <3>4, <3>5
    <2>4. QED
      BY <2>1, <2>2, <2>3
  <1>18. ChainAt(d, f)
    <2>1. f \in DOMAIN d
      BY <1>6, HeadersNat
    <2>2. QED
      BY <1>16, <1>17, <2>1 DEF ChainAt, Intact
  <1>19. QED
    BY <1>4, <1>6, <1>9, <1>10, <1>12, <1>13, <1>14, <1>18 DEF d, r, IsFree

LEMMA AbsorbedChain ==
  ASSUME NEW f \in Nat, NEW c, ChainAt(c, f), NEW h \in DOMAIN c, ~c[h].last
  PROVE  LET d == Absorbed(c, h)
             n == After(c, h)
         IN  /\ ChainAt(d, f)
             /\ n \in DOMAIN c /\ n # h /\ \A x : x \in DOMAIN d <=> x \in DOMAIN c /\ x # n
             /\ d[h].owner = c[h].owner /\ d[h].size = c[h].size + 1 + c[n].size
             /\ After(d, h) = After(c, n)
             /\ \A x \in DOMAIN d : x # h => d[x] = c[x]
  <1> DEFINE d == Absorbed(c, h)
             n == After(c, h)
  <1>1. /\ c[h] \in Block /\ c[h].size \in Nat /\ c[h].last \in BOOLEAN
        /\ h \in Nat /\ f <= h /\ n \in Nat /\ h < n /\ n <= Ceil /\ n \in DOMAIN c
        /\ \A g \in DOMAIN c : g <= h \/ g >= n
    BY AtHeader
  <1>2. n = h + 1 + c[h].size
    BY DEF After
  <1>3. d = [x \in DOMAIN c \ {n} |->
              IF x = h THEN [c[h] EXCEPT !.size = @ + 1 + c[n].size, !.last = c[n].last] ELSE c[x]]
    BY DEF Absorbed
  <1> HIDE DEF n
  <1>4. /\ c[n] \in Block /\ c[n].size \in Nat /\ c[n].last \in BOOLEAN
        /\ After(c, n) \in Nat /\ n < After(c, n) /\ After(c, n) <= Ceil
        /\ c[n].last <=> After(c, n) = Ceil
        /\ ~c[n].last => After(c, n) \in DOMAIN c
        /\ \A g \in DOMAIN c : g <= n \/ g >= After(c, n)
    BY <1>1, AtHeader
  <1>5. After(c, n) = n + 1 + c[n].size
    BY DEF After
  <1> HIDE DEF d
  <1>6. DOMAIN d = DOMAIN c \ {n} /\ d = [x \in DOMAIN d |-> d[x]] /\ h \in DOMAIN d
    BY <1>1, <1>3
  <1>7. d[h] = [c[h] EXCEPT !.size = c[h].size + 1 + c[n].size, !.last = c[n].last]
    BY <1>3, <1>6
  <1>8. \A x \in DOMAIN d : x # h => d[x] = c[x]
    BY <1>3
  <1>9. c[h].size + 1 + c[n].size \in Nat
    BY <1>1, <1>4
  <1>10. d[h] \in Block /\ d[h].owner = c[h].owner /\ d[h].size = c[h].size + 1 + c[n].size
         /\ d[h].last = c[n].last
    BY <1>1, <1>4, <1>7, <1>9 DEF Block
  <1>11. After(d, h) = After(c, n)
    BY <1>1, <1>2, <1>4, <1>5, <1>10 DEF After
  <1>12. \A x \in DOMAIN d : x # h => After(d, x) = After(c, x)
    BY <1>8 DEF After
  <1>13. d \in [DOMAIN d -> Block]
    <2>1. \A x \in DOMAIN d : d[x] \in Block
      BY <1>6, <1>8, <1>10, AtHeader
    <2>2. QED
      BY <1>6, <2>1
  <1>14. ASSUME NEW x \in DOMAIN d
         PROVE  /\ x \in f .. Ceil - 1 /\ After(d, x) <= Ceil
                /\ d[x].last <=> After(d, x) = Ceil
                /\ ~d[x].last => After(d, x) \in DOMAIN d
                /\ \A g \in DOMAIN d : g <= x \/ g >= After(d, x)
    <2>1. CASE x = h
      <3>1. h \in f .. Ceil - 1
        BY DEF ChainAt, Intact
      <3>2. \A g \in DOMAIN d : g <= h \/ g >= After(c, n)
        <4>1. \A g \in DOMAIN c : g \in Nat
          BY HeadersNat
        <4>2. QED
          BY <1>1, <1>4, <1>6, <4>1
      <3>3. ~c[n].last => After(c, n) \in DOMAIN d
        BY <1>1, <1>4, <1>6
      <3>4. QED
        BY <2>1, <1>4, <1>10, <1>11, <3>1, <3>2, <3>3
    <2>2. CASE x # h
      <3>1. x \in DOMAIN c /\ x # n /\ d[x] = c[x] /\ After(d, x) = After(c, x)
        BY <1>6, <1>8, <1>12, <2>2
      <3>2. x \in f .. Ceil - 1
        BY <3>1 DEF ChainAt, Intact
      <3>3. /\ After(c, x) <= Ceil /\ x \in Nat /\ After(c, x) \in Nat /\ x < After(c, x)
            /\ c[x].last <=> After(c, x) = Ceil
            /\ ~c[x].last => After(c, x) \in DOMAIN c
            /\ \A g \in DOMAIN c : g <= x \/ g >= After(c, x)
        BY <3>1, AtHeader
      <3>4. After(c, x) # n
        BY <1>1, <2>2, <3>1, AfterInjective DEF n
      <3>5. QED
        BY <1>6, <3>1, <3>2, <3>3, <3>4
    <2>3. QED
      BY <2>1, <2>2
  <1>15. ChainAt(d, f)
    <2>1. f \in DOMAIN d
      <3>1. f \in DOMAIN c /\ f # n
        BY <1>1, HeadersNat
      <3>2. QED
        BY <1>6, <3>1
    <2>2. QED
      BY <1>13, <1>14, <2>1 DEF ChainAt, Intact
  <1>16. QED
    BY <1>1, <1>6, <1>8, <1>10, <1>11, <1>15 DEF d, n

LEMMA ReownedChain ==
  ASSUME NEW f \in Nat, NEW c, ChainAt(c, f), NEW hs,
         NEW p \in Owners \cup {FREE, SYSTEM}
  PROVE  LET d == Reowned(c, hs, p)
         IN  /\ ChainAt(d, f)
             /\ DOMAIN d = DOMAIN c
             /\ \A x \in DOMAIN c :
                  /\ d[x].size = c[x].size /\ After(d, x) = After(c, x) /\ d[x].last = c[x].last
                  /\ x \in hs => d[x].owner = p
                  /\ x \notin hs => d[x] = c[x]
  <1> DEFINE d == Reowned(c, hs, p)
  <1>1. d = [h \in DOMAIN c |-> IF h \in hs THEN [c[h] EXCEPT !.owner = p] ELSE c[h]]
    BY DEF Reowned
  <1> HIDE DEF d
  <1>2. DOMAIN d = DOMAIN c /\ d = [x \in DOMAIN d |-> d[x]]
    BY <1>1
  <1>3. ASSUME NEW x \in DOMAIN c
        PROVE  /\ d[x] \in Block /\ d[x].size = c[x].size /\ d[x].last = c[x].last
               /\ x \in hs => d[x].owner = p
               /\ x \notin hs => d[x] = c[x]
    <2>1. c[x] \in Block
      BY AtHeader
    <2>2. d[x] = IF x \in hs THEN [c[x] EXCEPT !.owner = p] ELSE c[x]
      BY <1>1
    <2>3. QED
      BY <2>1, <2>2 DEF Block
  <1>4. \A x \in DOMAIN c : After(d, x) = After(c, x)
    BY <1>3 DEF After
  <1>5. d \in [DOMAIN d -> Block]
    BY <1>2, <1>3
  <1>6. Intact(d, f)
    BY <1>2, <1>3, <1>4 DEF ChainAt, Intact
  <1>7. QED
    BY <1>2, <1>3, <1>4, <1>5, <1>6 DEF ChainAt, d

-----------------------------------------------------------------------------
(* What each service does to the blocks that are not free. *)

LEMMA CutChain ==
  ASSUME NEW f \in Nat, NEW c, ChainAt(c, f), NEW h \in DOMAIN c, NEW want \in Nat
  PROVE  LET d == Cut(c, h, want)
         IN  /\ ChainAt(d, f)
             /\ DOMAIN c \subseteq DOMAIN d
             /\ d[h].owner = c[h].owner
             /\ d[h].size = IF c[h].size > want THEN want ELSE c[h].size
             /\ \A x \in DOMAIN c : x # h => d[x] = c[x]
             /\ \A x \in DOMAIN d : x \notin DOMAIN c => IsFree(d, x)
             /\ Joined(c) /\ IsFree(c, h) => \A x \in DOMAIN d : JoinsNext(d, x) => x = h
  <1> DEFINE d == Cut(c, h, want)
             r == h + 1 + want
  <1>1. CASE ~ (c[h].size > want)
    <2>1. d = c
      BY <1>1 DEF Cut
    <2>2. QED
      BY <1>1, <2>1 DEF Joined
  <1>2. CASE c[h].size > want
    <2>1. c[h].size \in Nat
      BY AtHeader
    <2>2. d = Split(c, h, want) /\ want < c[h].size
      BY <1>2, <2>1 DEF Cut
    <2> HIDE DEF d
    <2>3. /\ ChainAt(d, f)
          /\ r \notin DOMAIN c /\ r \in DOMAIN d /\ \A x : x \in DOMAIN d <=> x \in DOMAIN c \/ x = r
          /\ IsFree(d, r) /\ After(d, r) = After(c, h) /\ d[r].last = c[h].last
          /\ d[h].owner = c[h].owner /\ d[h].size = want /\ After(d, h) = r
          /\ \A x \in DOMAIN c : x # h => d[x] = c[x]
      BY <2>2, SplitChain
    <2> HIDE DEF r
    <2>4. ASSUME Joined(c), IsFree(c, h), NEW x \in DOMAIN d, JoinsNext(d, x), x # h PROVE FALSE
      <3>1. CASE x = r
        <4>1. ~c[h].last /\ After(c, h) \in DOMAIN d /\ IsFree(d, After(c, h))
          BY <2>3, <2>4, <3>1 DEF JoinsNext
        <4>2. After(c, h) \in DOMAIN c /\ After(c, h) # h
          <5>1. h \in Nat /\ After(c, h) \in Nat /\ h < After(c, h) /\ (~c[h].last => After(c, h) \in DOMAIN c)
            BY AtHeader
          <5>2. QED
            BY <4>1, <5>1
        <4>3. IsFree(c, After(c, h))
          BY <2>3, <4>1, <4>2 DEF IsFree
        <4>4. QED
          BY <2>4, <4>1, <4>2, <4>3 DEF Joined, JoinsNext
      <3>2. CASE x # r
        <4>1. x \in DOMAIN c /\ d[x] = c[x]
          BY <2>3, <2>4, <3>2
        <4>2. After(d, x) = After(c, x) /\ IsFree(c, x) /\ ~c[x].last
          BY <2>4, <4>1 DEF JoinsNext, After, IsFree
        <4>3. After(c, x) \in DOMAIN c
          BY <4>1, <4>2, AtHeader
        <4>4. IsFree(c, After(c, x))
          BY <2>3, <2>4, <4>2, <4>3 DEF JoinsNext, IsFree
        <4>5. QED
          BY <2>4, <4>1, <4>2, <4>3, <4>4 DEF Joined, JoinsNext
      <3>3. QED
        BY <3>1, <3>2
    <2>5. QED
      BY <1>2, <2>3, <2>4 DEF d
  <1>3. QED
    BY <1>1, <1>2

(* mcb_alloc: a free block is granted, with exactly want paragraphs. *)
LEMMA AllocatedChain ==
  ASSUME NEW f \in Nat, NEW c, ChainAt(c, f), Joined(c), NEW want \in Nat,
         Fitting(c, want) # {}, NEW p \in Owners
  PROVE  LET d == Allocated(c, want, p)
             h == LowestOf(Fitting(c, want))
         IN  /\ ChainAt(d, f) /\ Joined(d)
             /\ h \in DOMAIN c /\ IsFree(c, h) /\ want <= c[h].size
             /\ \A x : x \in Held(d) <=> x \in Held(c) \/ x = h
             /\ d[h].owner = p /\ d[h].size = want
             /\ \A x \in Held(c) : d[x] = c[x]
  <1> DEFINE h == LowestOf(Fitting(c, want))
             e == Cut(c, h, want)
             d == Reowned(e, {h}, p)
  <1>1. h \in Fitting(c, want)
    <2>1. Fitting(c, want) \in SUBSET Nat
      BY HeadersNat DEF Fitting
    <2>2. QED
      BY <2>1, LowestIs
  <1>2. h \in DOMAIN c /\ IsFree(c, h) /\ want <= c[h].size /\ c[h].size \in Nat
    <2>1. h \in DOMAIN c /\ IsFree(c, h) /\ c[h].size >= want
      BY <1>1 DEF Fitting
    <2>2. c[h].size \in Nat
      BY <2>1, AtHeader
    <2>3. QED
      BY <2>1, <2>2
  <1>3. Allocated(c, want, p) = d
    BY DEF Allocated
  <1> HIDE DEF h, e, d
  <1>4. /\ ChainAt(e, f) /\ DOMAIN c \subseteq DOMAIN e
        /\ e[h].size = IF c[h].size > want THEN want ELSE c[h].size
        /\ \A x \in DOMAIN c : x # h => e[x] = c[x]
        /\ \A x \in DOMAIN e : x \notin DOMAIN c => IsFree(e, x)
        /\ \A x \in DOMAIN e : JoinsNext(e, x) => x = h
    BY <1>2, CutChain DEF e
  <1>5. e[h].size = want
    BY <1>2, <1>4
  <1>6. p \in Owners \cup {FREE, SYSTEM} /\ p # FREE
    BY ArenaAssumption
  <1>7. /\ ChainAt(d, f) /\ DOMAIN d = DOMAIN e
        /\ \A x \in DOMAIN e :
             /\ d[x].size = e[x].size /\ After(d, x) = After(e, x) /\ d[x].last = e[x].last
             /\ x \in {h} => d[x].owner = p
             /\ x \notin {h} => d[x] = e[x]
    BY <1>4, <1>6, ReownedChain DEF d
  <1>8. h \in DOMAIN e /\ d[h].owner = p /\ d[h].size = want
    BY <1>2, <1>4, <1>5, <1>7
  <1>9. ASSUME NEW x \in DOMAIN d, JoinsNext(d, x) PROVE FALSE
    <2>1. x # h /\ After(d, x) # h
      BY <1>6, <1>8, <1>9 DEF JoinsNext, IsFree
    <2>2. JoinsNext(e, x)
      BY <1>7, <1>9, <2>1 DEF JoinsNext, IsFree
    <2>3. QED
      BY <1>4, <1>7, <2>1, <2>2
  <1>10. ASSUME NEW x \in Held(c) PROVE x \in Held(d) /\ d[x] = c[x]
    <2>1. x \in DOMAIN c /\ x # h
      BY <1>2, <1>10 DEF Held
    <2>2. QED
      BY <1>4, <1>7, <1>10, <2>1 DEF Held, IsFree
  <1>11. ASSUME NEW x \in Held(d), x # h PROVE x \in Held(c)
    BY <1>4, <1>7, <1>11 DEF Held, IsFree
  <1>12. h \in Held(d)
    BY <1>6, <1>7, <1>8 DEF Held, IsFree
  <1>13. QED
    BY <1>2, <1>3, <1>7, <1>8, <1>9, <1>10, <1>11, <1>12 DEF Joined, h

(* mcb_free and mcb_free_owner. *)
LEMMA FreedChain ==
  ASSUME NEW f \in Nat, NEW c, ChainAt(c, f), NEW hs
  PROVE  LET d == Coalesced(Reowned(c, hs, FREE))
         IN  /\ ChainAt(d, f) /\ Joined(d)
             /\ \A x : x \in Held(d) <=> x \in Held(c) /\ x \notin hs
             /\ \A x \in Held(d) : d[x] = c[x]
  <1> DEFINE e == Reowned(c, hs, FREE)
             d == Coalesced(e)
  <1>1. /\ ChainAt(e, f) /\ DOMAIN e = DOMAIN c
        /\ \A x \in DOMAIN c :
             /\ x \in hs => e[x].owner = FREE
             /\ x \notin hs => e[x] = c[x]
    BY ReownedChain
  <1> HIDE DEF e
  <1>2. ChainAt(d, f) /\ Joined(d) /\ SameHeld(e, d)
    BY <1>1, CoalescedChain
  <1> HIDE DEF d
  <1>3. Held(e) = Held(c) \ hs
    BY <1>1 DEF Held, IsFree
  <1>4. Held(d) = Held(c) \ hs
    BY <1>2, <1>3 DEF SameHeld
  <1>5. \A x \in Held(d) : d[x] = c[x]
    BY <1>1, <1>2, <1>3 DEF SameHeld, Held
  <1>6. QED
    BY <1>2, <1>4, <1>5 DEF d, e

LEMMA WithoutOwnerChain ==
  ASSUME NEW f \in Nat, NEW c, ChainAt(c, f), Joined(c), NEW p \in Owners
  PROVE  LET d == WithoutOwner(c, p)
         IN  /\ ChainAt(d, f) /\ Joined(d)
             /\ \A x : x \in Held(d) <=> x \in Held(c) /\ x \notin BlocksOf(c, p)
             /\ \A x \in Held(d) : d[x] = c[x]
  <1>1. CASE BlocksOf(c, p) = {}
    BY <1>1 DEF WithoutOwner
  <1>2. CASE BlocksOf(c, p) # {}
    <2>1. WithoutOwner(c, p) = Coalesced(Reowned(c, BlocksOf(c, p), FREE))
      BY <1>2 DEF WithoutOwner
    <2>2. QED
      BY <2>1, FreedChain
  <1>3. QED
    BY <1>1, <1>2

(* A block cut short, what lies behind it free (mcb_setblock). *)
LEMMA ResizedChain ==
  ASSUME NEW f \in Nat, NEW c, ChainAt(c, f), NEW h \in Held(c), NEW want \in Nat
  PROVE  LET d == Coalesced(Cut(c, h, want))
         IN  /\ ChainAt(d, f) /\ Joined(d)
             /\ Held(d) = Held(c)
             /\ d[h].owner = c[h].owner
             /\ d[h].size = IF c[h].size > want THEN want ELSE c[h].size
             /\ \A x \in Held(c) : x # h => d[x] = c[x]
  <1> DEFINE e == Cut(c, h, want)
             d == Coalesced(e)
  <1>1. h \in DOMAIN c
    BY DEF Held
  <1>2. /\ ChainAt(e, f) /\ DOMAIN c \subseteq DOMAIN e
        /\ e[h].owner = c[h].owner
        /\ e[h].size = IF c[h].size > want THEN want ELSE c[h].size
        /\ \A x \in DOMAIN c : x # h => e[x] = c[x]
        /\ \A x \in DOMAIN e : x \notin DOMAIN c => IsFree(e, x)
    BY <1>1, CutChain
  <1> HIDE DEF e
  <1>3. ChainAt(d, f) /\ Joined(d) /\ SameHeld(e, d)
    BY <1>2, CoalescedChain
  <1> HIDE DEF d
  <1>4. Held(e) = Held(c)
    <2>1. h \in Held(e)
      BY <1>2 DEF Held, IsFree
    <2>2. \A x \in DOMAIN c : x # h => (x \in Held(e) <=> x \in Held(c))
      BY <1>2 DEF Held, IsFree
    <2>3. \A x \in Held(e) : x \in DOMAIN c
      BY <1>2 DEF Held
    <2>4. \A x \in Held(c) : x \in DOMAIN c
      BY DEF Held
    <2>5. QED
      BY <2>1, <2>2, <2>3, <2>4
  <1>5. \A x \in Held(c) : d[x] = e[x]
    BY <1>3, <1>4 DEF SameHeld
  <1>6. Held(d) = Held(c)
    BY <1>3, <1>4 DEF SameHeld
  <1>7. QED
    BY <1>1, <1>2, <1>3, <1>5, <1>6 DEF d, e, Held

LEMMA GrownChain ==
  ASSUME NEW f \in Nat, NEW c, ChainAt(c, f), NEW h \in Held(c), NEW want \in Nat,
         want > c[h].size, CanGrow(c, h, want)
  PROVE  LET d == Coalesced(Cut(Absorbed(c, h), h, want))
         IN  /\ ChainAt(d, f) /\ Joined(d)
             /\ Held(d) = Held(c)
             /\ d[h].owner = c[h].owner /\ d[h].size = want
             /\ \A x \in Held(c) : x # h => d[x] = c[x]
  <1> DEFINE n == After(c, h)
             e == Absorbed(c, h)
             d == Coalesced(Cut(e, h, want))
  <1>1. h \in DOMAIN c /\ ~IsFree(c, h) /\ ~c[h].last
    BY DEF Held, CanGrow
  <1>2. /\ ChainAt(e, f)
        /\ n \in DOMAIN c /\ n # h /\ \A x : x \in DOMAIN e <=> x \in DOMAIN c /\ x # n
        /\ e[h].owner = c[h].owner /\ e[h].size = c[h].size + 1 + c[n].size
        /\ After(e, h) = After(c, n)
        /\ \A x \in DOMAIN e : x # h => e[x] = c[x]
    BY <1>1, AbsorbedChain
  <1>3. IsFree(c, n) /\ c[h].size + 1 + c[n].size >= want
    BY DEF CanGrow
  <1>4. c[h].size \in Nat /\ c[n].size \in Nat
    BY <1>1, <1>2, AtHeader
  <1> HIDE DEF e, n
  <1>5. Held(e) = Held(c)
    <2>1. h \in Held(e)
      BY <1>1, <1>2 DEF Held, IsFree
    <2>2. \A x \in DOMAIN e : x # h => (x \in Held(e) <=> x \in Held(c))
      BY <1>2 DEF Held, IsFree
    <2>3. n \notin Held(c) /\ n \notin Held(e)
      BY <1>2, <1>3 DEF Held
    <2>4. Held(e) \subseteq DOMAIN c /\ Held(c) \subseteq DOMAIN c
      BY <1>2 DEF Held
    <2>5. QED
      BY <2>1, <2>2, <2>3, <2>4, <1>2
  <1>6. h \in Held(e)
    BY <1>5
  <1>7. /\ ChainAt(d, f) /\ Joined(d)
        /\ Held(d) = Held(e)
        /\ d[h].owner = e[h].owner
        /\ d[h].size = IF e[h].size > want THEN want ELSE e[h].size
        /\ \A x \in Held(e) : x # h => d[x] = e[x]
    BY <1>2, <1>6, ResizedChain
  <1> HIDE DEF d
  <1>8. d[h].size = want
    BY <1>2, <1>3, <1>4, <1>7
  <1>9. \A x \in Held(c) : x # h => d[x] = c[x]
    BY <1>2, <1>5, <1>7 DEF Held
  <1>10. QED
    BY <1>2, <1>5, <1>7, <1>8, <1>9 DEF d, e

(* mcb_keep_resident. *)
LEMMA KeptResidentChain ==
  ASSUME NEW f \in Nat, NEW c, ChainAt(c, f), NEW p \in Owners, BlocksOf(c, p) # {},
         NEW paras \in Nat
  PROVE  LET d == KeptResident(c, p, paras)
             k == FirstOf(c, p)
         IN  /\ ChainAt(d, f) /\ Joined(d)
             /\ k \in BlocksOf(c, p) /\ \A x \in BlocksOf(c, p) : k <= x
             /\ Held(d) = Held(c)
             /\ d[k].owner = SYSTEM
             /\ d[k].size = IF c[k].size > paras THEN paras ELSE c[k].size
             /\ \A x \in Held(c) : x # k => d[x] = c[x]
  <1> DEFINE k == FirstOf(c, p)
             e == Cut(c, k, paras)
             g == Reowned(e, {k}, SYSTEM)
             d == Coalesced(g)
  <1>1. k \in BlocksOf(c, p) /\ \A x \in BlocksOf(c, p) : k <= x
    <2>1. BlocksOf(c, p) \in SUBSET Nat
      BY HeadersNat DEF BlocksOf
    <2>2. QED
      BY <2>1, LowestIs DEF FirstOf
  <1>2. k \in DOMAIN c /\ c[k].owner = p /\ p # FREE /\ SYSTEM # FREE
    BY <1>1, ArenaAssumption DEF BlocksOf
  <1>3. KeptResident(c, p, paras) = d
    BY DEF KeptResident
  <1> HIDE DEF k, e, g, d
  <1>4. /\ ChainAt(e, f) /\ DOMAIN c \subseteq DOMAIN e
        /\ e[k].owner = c[k].owner
        /\ e[k].size = IF c[k].size > paras THEN paras ELSE c[k].size
        /\ \A x \in DOMAIN c : x # k => e[x] = c[x]
        /\ \A x \in DOMAIN e : x \notin DOMAIN c => IsFree(e, x)
    BY <1>2, CutChain DEF e
  <1>5. /\ ChainAt(g, f) /\ DOMAIN g = DOMAIN e
        /\ \A x \in DOMAIN e :
             /\ g[x].size = e[x].size
             /\ x \in {k} => g[x].owner = SYSTEM
             /\ x \notin {k} => g[x] = e[x]
    BY <1>4, ReownedChain DEF g
  <1>6. ChainAt(d, f) /\ Joined(d) /\ SameHeld(g, d)
    BY <1>5, CoalescedChain DEF d
  <1>7. k \in DOMAIN g /\ g[k].owner = SYSTEM /\ g[k].size = e[k].size
    BY <1>2, <1>4, <1>5
  <1>8. \A x \in DOMAIN c : x # k => x \in DOMAIN g /\ g[x] = c[x]
    BY <1>4, <1>5
  <1>9. \A x \in DOMAIN g : x \notin DOMAIN c => IsFree(g, x)
    BY <1>2, <1>4, <1>5 DEF IsFree
  <1>10. Held(g) = Held(c)
    <2>1. k \in Held(g) /\ k \in Held(c)
      BY <1>2, <1>7 DEF Held, IsFree
    <2>2. \A x \in DOMAIN c : x # k => (x \in Held(g) <=> x \in Held(c))
      BY <1>8 DEF Held, IsFree
    <2>3. Held(g) \subseteq DOMAIN c /\ Held(c) \subseteq DOMAIN c
      BY <1>9 DEF Held
    <2>4. QED
      BY <2>1, <2>2, <2>3
  <1>11. Held(d) = Held(c) /\ \A x \in Held(c) : d[x] = g[x]
    BY <1>6, <1>10 DEF SameHeld
  <1>12. k \in Held(c)
    BY <1>2 DEF Held, IsFree
  <1>13. \A x \in Held(c) : x # k => d[x] = c[x]
    BY <1>8, <1>11 DEF Held
  <1>14. d[k].owner = SYSTEM /\ d[k].size = IF c[k].size > paras THEN paras ELSE c[k].size
    BY <1>4, <1>7, <1>11, <1>12
  <1>15. QED
    BY <1>1, <1>3, <1>6, <1>11, <1>13, <1>14 DEF k

(* mcb_keep_all. *)
LEMMA KeptAllChain ==
  ASSUME NEW f \in Nat, NEW c, ChainAt(c, f), Joined(c), NEW p \in Owners
  PROVE  LET d == KeptAll(c, p)
         IN  /\ ChainAt(d, f) /\ Joined(d)
             /\ DOMAIN d = DOMAIN c /\ Held(d) = Held(c)
             /\ \A x \in Held(c) :
                  /\ d[x].size = c[x].size
                  /\ x \in BlocksOf(c, p) => d[x].owner = SYSTEM
                  /\ x \notin BlocksOf(c, p) => d[x] = c[x]
  <1> DEFINE d == KeptAll(c, p)
  <1>1. d = Reowned(c, BlocksOf(c, p), SYSTEM)
    BY DEF KeptAll
  <1> HIDE DEF d
  <1>2. /\ ChainAt(d, f) /\ DOMAIN d = DOMAIN c
        /\ \A x \in DOMAIN c :
             /\ d[x].size = c[x].size /\ After(d, x) = After(c, x) /\ d[x].last = c[x].last
             /\ x \in BlocksOf(c, p) => d[x].owner = SYSTEM
             /\ x \notin BlocksOf(c, p) => d[x] = c[x]
    BY <1>1, ReownedChain
  <1>3. \A x \in DOMAIN c : IsFree(d, x) <=> IsFree(c, x)
    BY <1>2, ArenaAssumption DEF IsFree, BlocksOf
  <1>4. ASSUME NEW x \in DOMAIN d, JoinsNext(d, x) PROVE FALSE
    <2>1. JoinsNext(c, x)
      BY <1>2, <1>3, <1>4 DEF JoinsNext
    <2>2. QED
      BY <1>2, <2>1 DEF Joined
  <1>5. Held(d) = Held(c)
    BY <1>2, <1>3 DEF Held
  <1>6. QED
    BY <1>2, <1>4, <1>5 DEF Joined, Held, d

-----------------------------------------------------------------------------
(* mcb_init, and the size mcb_stats reports. *)

LEMMA FreshChainIs ==
  ASSUME NEW f \in Nat, f < Ceil
  PROVE  /\ ChainAt(FreshChain(f), f) /\ Joined(FreshChain(f))
         /\ DOMAIN FreshChain(f) = {f} /\ IsFree(FreshChain(f), f)
         /\ FreshChain(f)[f].size = Ceil - f - 1
  <1> DEFINE c == FreshChain(f)
  <1>1. /\ c = [h \in {f} |-> [owner |-> FREE, size |-> Ceil - f - 1, last |-> TRUE]]
        /\ DOMAIN c = {f}
    BY DEF FreshChain
  <1>2. Ceil - f - 1 \in Nat
    BY ArenaNat
  <1> HIDE DEF c
  <1>3. c[f] = [owner |-> FREE, size |-> Ceil - f - 1, last |-> TRUE]
    BY <1>1
  <1>4. c[f] \in Block /\ c[f].size = Ceil - f - 1 /\ c[f].last = TRUE /\ IsFree(c, f)
    BY <1>2, <1>3 DEF Block, IsFree
  <1>5. After(c, f) = Ceil
    BY <1>4, ArenaNat DEF After
  <1>6. f \in f .. Ceil - 1 /\ Ceil <= Ceil /\ f <= f
    BY ArenaNat
  <1>7. Intact(c, f)
    BY <1>1, <1>4, <1>5, <1>6 DEF Intact
  <1>8. c \in [DOMAIN c -> Block]
    BY <1>1, <1>3, <1>4
  <1>9. Joined(c)
    BY <1>1, <1>4 DEF Joined, JoinsNext
  <1>10. QED
    BY <1>1, <1>4, <1>7, <1>8, <1>9 DEF ChainAt, c

LEMMA LargestIs ==
  ASSUME NEW f \in Nat, NEW c, ChainAt(c, f)
  PROVE  /\ Largest(c) \in Nat
         /\ \A h \in BlocksOf(c, FREE) : c[h].size <= Largest(c)
         /\ BlocksOf(c, FREE) # {} => Fitting(c, Largest(c)) # {}
  <1> DEFINE S == FreeSizes(c)
  <1>1. \A h \in BlocksOf(c, FREE) : h \in DOMAIN c /\ IsFree(c, h)
    BY DEF BlocksOf, IsFree
  <1>2. \A h \in DOMAIN c : c[h].size \in Nat /\ c[h].size <= Ceil
    <2>1. \A h \in DOMAIN c : /\ c[h].size \in Nat /\ h \in Nat
                              /\ After(c, h) = h + 1 + c[h].size /\ After(c, h) <= Ceil
      BY AtHeader DEF After
    <2>2. QED
      BY <2>1, ArenaNat
  <1>3. S \in SUBSET Nat /\ \A n \in S : n <= Ceil
    BY <1>1, <1>2 DEF FreeSizes
  <1>4. CASE S = {}
    <2>1. Largest(c) = 0
      BY <1>4 DEF Largest
    <2>2. BlocksOf(c, FREE) = {}
      BY <1>4 DEF FreeSizes
    <2>3. QED
      BY <2>1, <2>2
  <1>5. CASE S # {}
    <2>1. \E n \in S : \A k \in S : k <= n
      BY <1>3, <1>5, HighestExists, ArenaNat
    <2>2. Largest(c) = CHOOSE n \in S : \A k \in S : k <= n
      BY <1>5 DEF Largest
    <2>3. Largest(c) \in S /\ \A k \in S : k <= Largest(c)
      BY <2>1, <2>2
    <2>4. PICK h \in BlocksOf(c, FREE) : c[h].size = Largest(c)
      BY <2>3 DEF FreeSizes
    <2>5. h \in Fitting(c, Largest(c))
      BY <1>1, <1>2, <2>4 DEF Fitting
    <2>6. QED
      BY <1>3, <2>3, <2>5 DEF FreeSizes
  <1>6. QED
    BY <1>4, <1>5

-----------------------------------------------------------------------------
(* The invariant.  It is inductive as it stands: every service hands back  *)
(* a chain that is intact and coalesced.                                   *)

IInv == ChainAt(chain, Base) /\ Joined(chain)

LEMMA InitInv == Init => IInv
  BY FreshChainIs, ArenaNat DEF Init, IInv

LEMMA AllocInv ==
  ASSUME IInv, NEW p \in Owners, NEW want \in 0 .. Ceil, Alloc(p, want)
  PROVE  IInv'
  <1>1. Coalesced(chain) = chain
    BY CoalescedSame, ArenaNat DEF IInv
  <1>2. CASE Fitting(chain, want) = {}
    BY <1>1, <1>2 DEF Alloc, IInv
  <1>3. CASE Fitting(chain, want) # {}
    <2>1. chain' = Allocated(chain, want, p)
      BY <1>1, <1>3 DEF Alloc
    <2>2. want \in Nat
      BY ArenaNat
    <2>3. ChainAt(chain', Base) /\ Joined(chain')
      BY <1>3, <2>1, <2>2, AllocatedChain, ArenaNat DEF IInv
    <2>4. QED
      BY <2>3 DEF IInv
  <1>4. QED
    BY <1>2, <1>3

LEMMA StepInv == IInv /\ [Next]_chain => IInv'
  <1> SUFFICES ASSUME IInv, [Next]_chain PROVE IInv'
    OBVIOUS
  <1>0. ChainAt(chain, Base) /\ Joined(chain) /\ Base \in Nat
    BY ArenaNat DEF IInv
  <1>1. CASE UNCHANGED chain
    BY <1>1 DEF IInv
  <1>2. ASSUME NEW p \in Owners, NEW want \in 0 .. Ceil, Alloc(p, want) PROVE IInv'
    BY <1>2, AllocInv
  <1>3. ASSUME NEW p \in Owners, NEW want \in 0 .. Ceil, Keep(p, want) PROVE IInv'
    <2> DEFINE c == KeptResident(chain, p, want)
    <2>1. want \in Nat /\ BlocksOf(chain, p) # {}
      BY <1>3, ArenaNat DEF Keep
    <2>2. ChainAt(c, Base) /\ Joined(c)
      BY <1>0, <2>1, KeptResidentChain
    <2> HIDE DEF c
    <2>3. ChainAt(KeptAll(c, p), Base) /\ Joined(KeptAll(c, p))
      BY <1>0, <2>2, KeptAllChain
    <2>4. QED
      BY <1>3, <2>3 DEF Keep, IInv, c
  <1>4. ASSUME NEW p \in Owners, NEW h \in DOMAIN chain, Free(p, h) PROVE IInv'
    BY <1>0, <1>4, FreedChain DEF Free, IInv
  <1>5. ASSUME NEW p \in Owners, NEW h \in DOMAIN chain, NEW want \in 0 .. Ceil, Shrink(p, h, want)
        PROVE  IInv'
    <2>1. want \in Nat /\ want < chain[h].size
      BY <1>5, ArenaNat DEF Shrink
    <2>2. ChainAt(Split(chain, h, want), Base)
      BY <1>0, <2>1, SplitChain
    <2>3. QED
      BY <1>0, <1>5, <2>2, CoalescedChain DEF Shrink, IInv
  <1>6. ASSUME NEW p \in Owners, NEW h \in DOMAIN chain, NEW want \in 0 .. Ceil, Grow(p, h, want)
        PROVE  IInv'
    <2>1. want \in Nat
      BY ArenaNat
    <2>2. h \in Held(chain) /\ want > chain[h].size /\ CanGrow(chain, h, want)
      BY <1>6, ArenaAssumption DEF Grow, BlocksOf, Held, IsFree
    <2>3. chain' = Coalesced(Cut(Absorbed(chain, h), h, want))
      BY <1>6 DEF Grow
    <2>4. ChainAt(chain', Base) /\ Joined(chain')
      BY <1>0, <2>1, <2>2, <2>3, GrownChain
    <2>5. QED
      BY <2>4 DEF IInv
  <1>7. ASSUME NEW p \in Owners, ExecAlloc(p) PROVE IInv'
    <2>1. Coalesced(chain) = chain
      BY <1>0, CoalescedSame
    <2>2. Largest(chain) \in Nat /\ Fitting(chain, Largest(chain)) # {}
      BY <1>0, <1>7, LargestIs DEF ExecAlloc
    <2>3. ChainAt(Allocated(chain, Largest(chain), p), Base) /\ Joined(Allocated(chain, Largest(chain), p))
      BY <1>0, <2>2, AllocatedChain
    <2>4. QED
      BY <1>7, <2>1, <2>3 DEF ExecAlloc, IInv
  <1>8. ASSUME NEW p \in Owners, FreeOwner(p) PROVE IInv'
    BY <1>0, <1>8, WithoutOwnerChain DEF FreeOwner, IInv
  <1>9. QED
    BY <1>1, <1>2, <1>3, <1>4, <1>5, <1>6, <1>7, <1>8 DEF Next

LEMMA ArenaInvariant == Spec => []IInv
  BY InitInv, StepInv, PTL DEF Spec

(* The services of mcb.c keep the chain of blocks whole: whatever is       *)
(* allocated, freed, resized or kept, in any order, the walk of            *)
(* mcb_chain_intact reaches the 'Z' block that ends at the ceiling.        *)
THEOREM ChainStaysIntact == Spec => []ChainIntact
  <1>1. IInv => ChainIntact
    BY AtHeader, ArenaNat DEF IInv, ChainIntact, ChainAt
  <1>2. QED
    BY <1>1, ArenaInvariant, PTL

(* No service leaves two free blocks side by side, although AH=4Ah and     *)
(* int21_mcb_exec_alloc coalesce only on the way out.                      *)
THEOREM NoPairIsLeft == Spec => []NoFreePair
  <1>1. IInv => NoFreePair
    BY DEF IInv, NoFreePair, Joined
  <1>2. QED
    BY <1>1, ArenaInvariant, PTL

-----------------------------------------------------------------------------
(* When a request is refused. *)

LEMMA UnownedIs ==
  ASSUME NEW x
  PROVE  x \in Unowned <=>
           /\ x \in Base .. Ceil - 1
           /\ \A g \in DOMAIN chain : ~IsFree(chain, g) => x \notin g .. After(chain, g) - 1
  BY DEF Unowned

(* Paragraphs that belong to nobody lie in a free block ... *)
LEMMA UnownedIsFree ==
  ASSUME IInv, NEW h \in DOMAIN chain, NEW x \in Nat,
         h <= x, x < After(chain, h), x \in Unowned
  PROVE  IsFree(chain, h)
  <1>1. h \in Nat /\ After(chain, h) \in Nat
    BY AtHeader, ArenaNat DEF IInv
  <1>2. x \in h .. After(chain, h) - 1
    BY <1>1
  <1>3. QED
    BY <1>2, UnownedIs

(* ... and the whole of a free block belongs to nobody. *)
LEMMA FreeIsUnowned ==
  ASSUME IInv, NEW h \in DOMAIN chain, IsFree(chain, h),
         NEW x \in Nat, h <= x, x < After(chain, h)
  PROVE  x \in Unowned
  <1>1. /\ h \in Nat /\ Base <= h /\ After(chain, h) \in Nat /\ After(chain, h) <= Ceil
        /\ \A g \in DOMAIN chain : g <= h \/ g >= After(chain, h)
    BY AtHeader, ArenaNat DEF IInv
  <1>2. x \in Base .. Ceil - 1
    BY <1>1, ArenaNat
  <1>3. ASSUME NEW g \in DOMAIN chain, ~IsFree(chain, g), x \in g .. After(chain, g) - 1
        PROVE  FALSE
    <2>1. g \in Nat /\ After(chain, g) \in Nat /\ (h <= g \/ h >= After(chain, g)) /\ g # h
      BY <1>3, AtHeader, ArenaNat DEF IInv
    <2>2. g <= x /\ x < After(chain, g) /\ (g <= h \/ g >= After(chain, h))
      BY <1>1, <1>3, <2>1
    <2>3. QED
      BY <1>1, <2>1, <2>2
  <1>4. QED
    BY <1>2, <1>3, UnownedIs

(* Unowned paragraphs in a row do not reach beyond one free block. *)
LEMMA UnownedRow ==
  ASSUME IInv, NEW h \in DOMAIN chain, NEW a \in Nat, NEW b \in Nat,
         h <= a, a < After(chain, h), a <= b, a .. b \subseteq Unowned
  PROVE  IsFree(chain, h) /\ b < After(chain, h)
  <1>1. /\ h \in Nat /\ After(chain, h) \in Nat /\ h < After(chain, h) /\ After(chain, h) <= Ceil
        /\ (chain[h].last <=> After(chain, h) = Ceil)
        /\ ~chain[h].last => After(chain, h) \in DOMAIN chain
    BY AtHeader, ArenaNat DEF IInv
  <1>2. IsFree(chain, h)
    <2>1. a \in Unowned
      OBVIOUS
    <2>2. QED
      BY <2>1, UnownedIsFree
  <1>3. ASSUME After(chain, h) <= b PROVE FALSE
    <2> DEFINE n == After(chain, h)
    <2>1. n \in Unowned
      BY <1>1, <1>3
    <2>2. n \in Base .. Ceil - 1
      BY <2>1, UnownedIs
    <2>3. n \in DOMAIN chain /\ ~chain[h].last
      BY <1>1, <2>2, ArenaNat
    <2>4. n < After(chain, n) /\ n <= n
      BY <1>1, <2>3, AtHeader, ArenaNat DEF IInv
    <2>5. IsFree(chain, n)
      BY <1>1, <2>1, <2>3, <2>4, UnownedIsFree
    <2>6. QED
      BY <1>2, <2>3, <2>5 DEF IInv, Joined, JoinsNext
  <1>4. QED
    BY <1>1, <1>2, <1>3

LEMMA AllocFindsRoom ==
  ASSUME IInv, NEW want \in 0 .. Ceil
  PROVE  Fitting(Coalesced(chain), want) # {}
           <=> \E f \in Base .. Ceil : f .. f + want \subseteq Unowned
  <1>0. ChainAt(chain, Base) /\ Base \in Nat /\ Ceil \in Nat /\ want \in Nat
    BY ArenaNat DEF IInv
  <1>1. Coalesced(chain) = chain
    BY <1>0, CoalescedSame DEF IInv
  <1>2. ASSUME NEW h \in Fitting(chain, want)
        PROVE  \E f \in Base .. Ceil : f .. f + want \subseteq Unowned
    <2>1. h \in DOMAIN chain /\ IsFree(chain, h) /\ chain[h].size >= want
      BY DEF Fitting
    <2>2. /\ h \in Nat /\ Base <= h /\ h <= Ceil /\ After(chain, h) \in Nat /\ chain[h].size \in Nat
          /\ After(chain, h) = h + 1 + chain[h].size
      <3>1. After(chain, h) = h + 1 + chain[h].size
        BY DEF After
      <3>2. h \in Nat /\ Base <= h /\ After(chain, h) \in Nat /\ h < After(chain, h) /\ After(chain, h) <= Ceil /\ chain[h].size \in Nat
        BY <1>0, <2>1, AtHeader
      <3>3. QED
        BY <1>0, <3>1, <3>2
    <2>3. ASSUME NEW x \in h .. h + want PROVE x \in Unowned
      <3>1. x \in Nat /\ h <= x /\ x < After(chain, h)
        BY <1>0, <2>1, <2>2
      <3>2. QED
        BY <2>1, <3>1, FreeIsUnowned
    <2>4. h \in Base .. Ceil
      BY <1>0, <2>2
    <2>5. QED
      BY <2>3, <2>4
  <1>3. ASSUME NEW f \in Base .. Ceil, f .. f + want \subseteq Unowned
        PROVE  Fitting(chain, want) # {}
    <2>1. f \in Nat /\ f \in Unowned /\ f <= f + want /\ f + want \in Nat
      BY <1>0, <1>3
    <2>2. Base <= f /\ f < Ceil
      <3>1. f \in Base .. Ceil - 1
        BY <2>1, UnownedIs
      <3>2. QED
        BY <1>0, <3>1
    <2>3. PICK h \in DOMAIN chain : h <= f /\ f < After(chain, h)
      BY <1>0, <2>1, <2>2, Covered
    <2>4. IsFree(chain, h) /\ f + want < After(chain, h)
      BY <1>3, <2>1, <2>3, UnownedRow
    <2>5. chain[h].size >= want
      <3>1. h \in Nat /\ chain[h].size \in Nat /\ After(chain, h) = h + 1 + chain[h].size
        BY <1>0, AtHeader DEF After
      <3>2. QED
        BY <1>0, <2>1, <2>3, <2>4, <3>1
    <2>6. QED
      BY <2>4, <2>5 DEF Fitting
  <1>4. QED
    BY <1>1, <1>2, <1>3

LEMMA SetBlockFindsRoom ==
  ASSUME IInv, NEW want \in 0 .. Ceil, NEW h \in DOMAIN chain,
         ~IsFree(chain, h), want > chain[h].size
  PROVE  CanGrow(chain, h, want) <=> After(chain, h) .. h + want \subseteq Unowned
  <1> DEFINE n == After(chain, h)
  <1>0. ChainAt(chain, Base) /\ Base \in Nat /\ Ceil \in Nat /\ want \in Nat
    BY ArenaNat DEF IInv
  <1>1. /\ h \in Nat /\ n \in Nat /\ n <= Ceil /\ chain[h].size \in Nat
        /\ (chain[h].last <=> n = Ceil) /\ (~chain[h].last => n \in DOMAIN chain)
    BY <1>0, AtHeader
  <1>2. n = h + 1 + chain[h].size
    BY DEF After
  <1> HIDE DEF n
  <1>3. n <= h + want /\ h + want \in Nat
    BY <1>0, <1>1, <1>2
  <1>4. ASSUME NEW m \in DOMAIN chain, m = n
        PROVE  /\ m \in Nat /\ m < After(chain, m) /\ After(chain, m) \in Nat
               /\ (chain[h].size + 1 + chain[m].size >= want <=> h + want < After(chain, m))
    <2>1. m \in Nat /\ m < After(chain, m) /\ After(chain, m) \in Nat /\ chain[m].size \in Nat
      BY <1>0, AtHeader
    <2>2. After(chain, m) = m + 1 + chain[m].size
      BY DEF After
    <2>3. QED
      BY <1>0, <1>1, <1>2, <1>4, <2>1, <2>2
  <1>5. ASSUME CanGrow(chain, h, want) PROVE n .. h + want \subseteq Unowned
    <2>1. n \in DOMAIN chain /\ IsFree(chain, n) /\ chain[h].size + 1 + chain[n].size >= want
      BY <1>1, <1>5 DEF CanGrow, n
    <2>2. h + want < After(chain, n) /\ After(chain, n) \in Nat
      BY <1>4, <2>1
    <2>3. ASSUME NEW x \in n .. h + want PROVE x \in Unowned
      <3>1. x \in Nat /\ n <= x /\ x < After(chain, n)
        BY <1>1, <1>3, <2>2
      <3>2. QED
        BY <2>1, <3>1, FreeIsUnowned
    <2>4. QED
      BY <2>3
  <1>6. ASSUME n .. h + want \subseteq Unowned PROVE CanGrow(chain, h, want)
    <2>1. n \in Unowned
      BY <1>1, <1>3, <1>6
    <2>2. n \in DOMAIN chain /\ ~chain[h].last
      <3>1. n \in Base .. Ceil - 1
        BY <2>1, UnownedIs
      <3>2. QED
        BY <1>0, <1>1, <3>1
    <2>3. n \in Nat /\ n < After(chain, n) /\ n <= n
      BY <1>4, <1>1, <2>2
    <2>4. IsFree(chain, n) /\ h + want < After(chain, n)
      BY <1>3, <1>6, <2>2, <2>3, UnownedRow
    <2>5. chain[h].size + 1 + chain[n].size >= want
      BY <1>4, <2>2, <2>4
    <2>6. QED
      BY <2>2, <2>4, <2>5 DEF CanGrow, n
  <1>7. QED
    BY <1>5, <1>6 DEF n

(* A request is refused only when the memory is not there: AH=48h finds a  *)
(* block, and AH=4Ah can grow one, exactly when enough paragraphs in a row *)
(* belong to nobody (mcb_alloc, mcb_setblock).                             *)
THEOREM NothingRefusedInVain == Spec => []RefusedOnlyWhenFull
  <1>1. IInv => RefusedOnlyWhenFull
    BY AllocFindsRoom, SetBlockFindsRoom DEF RefusedOnlyWhenFull
  <1>2. QED
    BY <1>1, ArenaInvariant, PTL

-----------------------------------------------------------------------------
(* The promise: the blocks that are not free, as Grants sees them. *)

GrantOf(c, h) == [owner |-> c[h].owner, first |-> h + 1, size |-> c[h].size]
GrantsOf(c)   == {GrantOf(c, h) : h \in Held(c)}

LEMMA GrantedIs == granted = GrantsOf(chain) /\ granted' = GrantsOf(chain')
  BY DEF granted, GrantsOf, GrantOf, Held

LEMMA HeldIs ==
  ASSUME NEW c, ChainAt(c, Base), NEW h \in Held(c)
  PROVE  /\ h \in DOMAIN c /\ h \in Nat /\ h + 1 \in Base + 1 .. Ceil
         /\ c[h].size \in Nat /\ c[h].size \in 0 .. Ceil /\ c[h].owner \in Owners \cup {SYSTEM}
         /\ GrantOf(c, h) \in GrantsOf(c)
  <1>1. h \in DOMAIN c /\ ~IsFree(c, h)
    BY DEF Held
  <1>2. /\ c[h] \in Block /\ c[h].size \in Nat /\ h \in Nat /\ Base <= h
        /\ After(c, h) \in Nat /\ h < After(c, h) /\ After(c, h) <= Ceil
    BY <1>1, AtHeader, ArenaNat
  <1>3. After(c, h) = h + 1 + c[h].size
    BY DEF After
  <1>4. c[h].owner \in Owners \cup {SYSTEM}
    BY <1>1, <1>2 DEF Block, IsFree
  <1>5. h + 1 \in Base + 1 .. Ceil /\ c[h].size \in 0 .. Ceil
    BY <1>2, <1>3, ArenaNat
  <1>6. QED
    BY <1>1, <1>2, <1>4, <1>5 DEF GrantsOf

LEMMA GrantFields ==
  ASSUME NEW c, NEW h
  PROVE  GrantOf(c, h).owner = c[h].owner /\ GrantOf(c, h).first = h + 1 /\ GrantOf(c, h).size = c[h].size
  BY DEF GrantOf

(* A header is told by the first paragraph of its grant. *)
LEMMA GrantInjective ==
  ASSUME NEW c, ChainAt(c, Base), NEW d, ChainAt(d, Base),
         NEW h \in Held(c), NEW k \in Held(d), GrantOf(c, h) = GrantOf(d, k)
  PROVE  h = k
  <1>1. h \in Nat /\ k \in Nat
    BY HeldIs
  <1>2. h + 1 = k + 1
    BY GrantFields
  <1>3. QED
    BY <1>1, <1>2

LEMMA GrantsSound ==
  ASSUME NEW c, ChainAt(c, Base)
  PROVE  Promise!Sound(GrantsOf(c))
  <1>1. ASSUME NEW h \in Held(c)
        PROVE  Promise!Extent(GrantOf(c, h)) = h .. After(c, h) - 1
    <2>1. h \in Nat /\ c[h].size \in Nat
      BY HeldIs
    <2>2. GrantOf(c, h).first = h + 1 /\ GrantOf(c, h).size = c[h].size
      BY GrantFields
    <2>3. Promise!Extent(GrantOf(c, h)) = (h + 1) - 1 .. (h + 1) + c[h].size - 1
      BY <2>2 DEF Promise!Extent
    <2>4. (h + 1) - 1 = h /\ (h + 1) + c[h].size - 1 = After(c, h) - 1
      BY <2>1 DEF After
    <2>5. QED
      BY <2>3, <2>4, Zenon
  <1>2. ASSUME NEW h \in Held(c) PROVE h .. After(c, h) - 1 \subseteq Base .. Ceil - 1
    <2>1. h \in Nat /\ Base <= h /\ After(c, h) \in Nat /\ After(c, h) <= Ceil
      BY AtHeader, ArenaNat DEF Held
    <2>2. QED
      BY <2>1, ArenaNat
  <1>3. ASSUME NEW h \in Held(c), NEW k \in Held(c), h # k
        PROVE  (h .. After(c, h) - 1) \cap (k .. After(c, k) - 1) = {}
    <2>1. h \in DOMAIN c /\ k \in DOMAIN c
      BY DEF Held
    <2>2. /\ h \in Nat /\ After(c, h) \in Nat /\ (k <= h \/ k >= After(c, h))
          /\ k \in Nat /\ After(c, k) \in Nat /\ (h <= k \/ h >= After(c, k))
      BY <2>1, AtHeader, ArenaNat
    <2>3. QED
      BY <1>3, <2>2
  <1>4. \A g \in GrantsOf(c) : Promise!Extent(g) \subseteq Base .. Ceil - 1
    BY <1>1, <1>2 DEF GrantsOf
  <1>5. ASSUME NEW g \in GrantsOf(c), NEW k \in GrantsOf(c), g # k
        PROVE  Promise!Extent(g) \cap Promise!Extent(k) = {}
    <2>1. PICK x \in Held(c) : g = GrantOf(c, x)
      BY DEF GrantsOf
    <2>2. PICK y \in Held(c) : k = GrantOf(c, y)
      BY DEF GrantsOf
    <2>3. x # y
      BY <1>5, <2>1, <2>2
    <2>4. QED
      BY <1>1, <1>3, <2>1, <2>2, <2>3
  <1>6. QED
    BY <1>4, <1>5 DEF Promise!Sound

(* A block more. *)
LEMMA GrantsMore ==
  ASSUME NEW c, ChainAt(c, Base), NEW d, ChainAt(d, Base), NEW h, h \notin Held(c),
         \A x : x \in Held(d) <=> x \in Held(c) \/ x = h,
         \A x \in Held(c) : d[x] = c[x]
  PROVE  /\ GrantsOf(d) = GrantsOf(c) \cup {GrantOf(d, h)}
         /\ GrantOf(d, h) \notin GrantsOf(c)
  <1>1. \A x \in Held(c) : GrantOf(d, x) = GrantOf(c, x)
    BY DEF GrantOf
  <1>2. GrantOf(d, h) \notin GrantsOf(c)
    <2>1. ASSUME NEW x \in Held(c), GrantOf(d, h) = GrantOf(c, x) PROVE FALSE
      BY <2>1, GrantInjective
    <2>2. QED
      BY <2>1 DEF GrantsOf
  <1>3. QED
    BY <1>1, <1>2 DEF GrantsOf

(* Blocks less. *)
LEMMA GrantsLess ==
  ASSUME NEW c, ChainAt(c, Base), NEW d, ChainAt(d, Base), NEW hs,
         \A x : x \in Held(d) <=> x \in Held(c) /\ x \notin hs,
         \A x \in Held(d) : d[x] = c[x]
  PROVE  \A g : g \in GrantsOf(d) <=>
                  g \in GrantsOf(c) /\ ~ \E h \in hs \cap Held(c) : g = GrantOf(c, h)
  <1>1. \A x \in Held(d) : GrantOf(d, x) = GrantOf(c, x)
    BY DEF GrantOf
  <1>2. ASSUME NEW x \in Held(d), NEW h \in hs \cap Held(c), GrantOf(c, x) = GrantOf(c, h)
        PROVE  FALSE
    BY <1>2, GrantInjective
  <1>3. QED
    BY <1>1, <1>2 DEF GrantsOf

(* One block of another size. *)
LEMMA GrantsResized ==
  ASSUME NEW c, ChainAt(c, Base), NEW d, ChainAt(d, Base), NEW h \in Held(c),
         Held(d) = Held(c), \A x \in Held(c) : x # h => d[x] = c[x],
         d[h].owner = c[h].owner
  PROVE  GrantsOf(d) = (GrantsOf(c) \ {GrantOf(c, h)})
                          \cup {[GrantOf(c, h) EXCEPT !.size = d[h].size]}
  <1>1. \A x \in Held(c) : x # h => GrantOf(d, x) = GrantOf(c, x)
    BY DEF GrantOf
  <1>2. GrantOf(d, h) = [GrantOf(c, h) EXCEPT !.size = d[h].size]
    BY DEF GrantOf
  <1>3. \A x \in Held(c) : GrantOf(c, x) = GrantOf(c, h) => x = h
    BY GrantInjective
  <1>4. QED
    BY <1>1, <1>2, <1>3 DEF GrantsOf

(* mcb_alloc grants one block to p. *)
LEMMA AllocatedGrant ==
  ASSUME IInv, NEW p \in Owners, NEW want \in Nat, Fitting(chain, want) # {},
         chain' = Allocated(chain, want, p)
  PROVE  Promise!Grant(p)
  <1> DEFINE h == LowestOf(Fitting(chain, want))
  <1>1. ChainAt(chain, Base) /\ Joined(chain) /\ Base \in Nat
    BY ArenaNat DEF IInv
  <1>2. /\ ChainAt(chain', Base)
        /\ h \in DOMAIN chain /\ IsFree(chain, h)
        /\ \A x : x \in Held(chain') <=> x \in Held(chain) \/ x = h
        /\ chain'[h].owner = p
        /\ \A x \in Held(chain) : chain'[x] = chain[x]
    BY <1>1, AllocatedChain
  <1> HIDE DEF h
  <1>3. h \notin Held(chain) /\ h \in Held(chain')
    BY <1>2 DEF Held
  <1>4. /\ GrantsOf(chain') = GrantsOf(chain) \cup {GrantOf(chain', h)}
        /\ GrantOf(chain', h) \notin GrantsOf(chain)
    BY <1>1, <1>2, <1>3, GrantsMore
  <1>5. h + 1 \in Base + 1 .. Ceil /\ chain'[h].size \in 0 .. Ceil
    BY <1>2, <1>3, HeldIs
  <1>6. GrantOf(chain', h) = [owner |-> p, first |-> h + 1, size |-> chain'[h].size]
    BY <1>2 DEF GrantOf
  <1>7. granted = GrantsOf(chain) /\ granted' = GrantsOf(chain')
    BY GrantedIs
  <1>8. Promise!Sound(granted')
    BY <1>2, <1>7, GrantsSound
  <1>9. QED
    BY <1>4, <1>5, <1>6, <1>7, <1>8 DEF Promise!Grant

(* AH=49h takes one grant back, AH=4Ah changes the size of one. *)
LEMMA FreeReleases ==
  ASSUME IInv, NEW p \in Owners, NEW h \in DOMAIN chain, Free(p, h)
  PROVE  \E g \in Promise!Of(p) : Promise!Release(g)
  <1>1. ChainAt(chain, Base) /\ Base \in Nat
    BY ArenaNat DEF IInv
  <1>2. h \in Held(chain) /\ chain[h].owner = p
    BY ArenaAssumption DEF Free, BlocksOf, Held, IsFree
  <1> DEFINE hs == {h}
  <1>3. /\ ChainAt(chain', Base)
        /\ \A x : x \in Held(chain') <=> x \in Held(chain) /\ x \notin hs
        /\ \A x \in Held(chain') : chain'[x] = chain[x]
    BY <1>1, FreedChain DEF Free
  <1>4. \A g : g \in GrantsOf(chain') <=>
                 g \in GrantsOf(chain) /\ ~ \E k \in hs \cap Held(chain) : g = GrantOf(chain, k)
    <2> HIDE DEF hs
    <2> QED
      BY <1>1, <1>3, GrantsLess
  <1>5. GrantsOf(chain') = GrantsOf(chain) \ {GrantOf(chain, h)}
    BY <1>2, <1>4
  <1>6. GrantOf(chain, h) \in GrantsOf(chain) /\ GrantOf(chain, h).owner = p
    BY <1>1, <1>2, HeldIs, GrantFields
  <1>7. granted = GrantsOf(chain) /\ granted' = GrantsOf(chain')
    BY GrantedIs
  <1>8. QED
    BY <1>5, <1>6, <1>7 DEF Promise!Of, Promise!Release

LEMMA ResizedResizes ==
  ASSUME IInv, ChainAt(chain', Base), NEW p \in Owners, NEW h \in BlocksOf(chain, p),
         h \in Held(chain),
         Held(chain') = Held(chain), \A x \in Held(chain) : x # h => chain'[x] = chain[x],
         chain'[h].owner = chain[h].owner
  PROVE  \E g \in Promise!Of(p) : Promise!Resize(g)
  <1>1. ChainAt(chain, Base)
    BY DEF IInv
  <1>2. GrantsOf(chain') = (GrantsOf(chain) \ {GrantOf(chain, h)})
                             \cup {[GrantOf(chain, h) EXCEPT !.size = chain'[h].size]}
    BY <1>1, GrantsResized
  <1>3. chain'[h].size \in 0 .. Ceil
    BY HeldIs
  <1>4. GrantOf(chain, h) \in GrantsOf(chain) /\ GrantOf(chain, h).owner = p
    BY <1>1, HeldIs, GrantFields DEF BlocksOf
  <1>5. granted = GrantsOf(chain) /\ granted' = GrantsOf(chain')
    BY GrantedIs
  <1>6. Promise!Sound(granted')
    BY <1>5, GrantsSound
  <1>7. QED
    BY <1>2, <1>3, <1>4, <1>5, <1>6 DEF Promise!Of, Promise!Resize

(* The end of a program takes all its grants back. *)
LEMMA FreeOwnerReleases ==
  ASSUME IInv, NEW p \in Owners, FreeOwner(p)
  PROVE  Promise!ReleaseAll(p)
  <1>1. ChainAt(chain, Base) /\ Joined(chain) /\ Base \in Nat
    BY ArenaNat DEF IInv
  <1>2. /\ ChainAt(chain', Base)
        /\ \A x : x \in Held(chain') <=> x \in Held(chain) /\ x \notin BlocksOf(chain, p)
        /\ \A x \in Held(chain') : chain'[x] = chain[x]
    BY <1>1, WithoutOwnerChain DEF FreeOwner
  <1>3. \A g : g \in GrantsOf(chain') <=>
                 g \in GrantsOf(chain) /\ ~ \E k \in BlocksOf(chain, p) \cap Held(chain) : g = GrantOf(chain, k)
    BY <1>1, <1>2, GrantsLess
  <1>4. ASSUME NEW g \in GrantsOf(chain)
        PROVE  g.owner = p <=> \E k \in BlocksOf(chain, p) \cap Held(chain) : g = GrantOf(chain, k)
    <2>1. PICK h \in Held(chain) : g = GrantOf(chain, h)
      BY DEF GrantsOf
    <2>2. g.owner = p <=> h \in BlocksOf(chain, p)
      BY <2>1, GrantFields DEF BlocksOf, Held
    <2>3. \A k \in Held(chain) : g = GrantOf(chain, k) => k = h
      BY <1>1, <2>1, GrantInjective
    <2>4. QED
      BY <2>1, <2>2, <2>3
  <1>5. granted = GrantsOf(chain) /\ granted' = GrantsOf(chain')
    BY GrantedIs
  <1>6. QED
    BY <1>3, <1>4, <1>5 DEF Promise!Of, Promise!ReleaseAll

(* AH=31h: the first block of p is cut, and all its blocks become          *)
(* resident.                                                               *)
LEMMA KeepMakesResident ==
  ASSUME IInv, NEW p \in Owners, NEW paras \in Nat, Keep(p, paras)
  PROVE  \E g \in Promise!Of(p), n \in 0 .. Ceil : Promise!MakeResident(p, g, n)
  <1> DEFINE c == KeptResident(chain, p, paras)
             k == FirstOf(chain, p)
             n == c[k].size
             G == GrantOf(chain, k)
             cut(q) == IF q = G THEN n ELSE q.size
             kept == {[owner |-> SYSTEM, first |-> q.first, size |-> cut(q)] : q \in Promise!Of(p)}
  <1>0. ChainAt(chain, Base) /\ Base \in Nat /\ SYSTEM # FREE /\ SYSTEM \notin Owners /\ p # FREE
    BY ArenaAssumption DEF IInv
  <1>1. BlocksOf(chain, p) # {} /\ chain' = KeptAll(c, p)
    BY DEF Keep
  <1>2. /\ ChainAt(c, Base) /\ Joined(c)
        /\ k \in BlocksOf(chain, p)
        /\ Held(c) = Held(chain)
        /\ c[k].owner = SYSTEM
        /\ c[k].size = IF chain[k].size > paras THEN paras ELSE chain[k].size
        /\ \A x \in Held(chain) : x # k => c[x] = chain[x]
    BY <1>0, <1>1, KeptResidentChain
  <1> HIDE DEF c, k
  <1>3. /\ ChainAt(chain', Base)
        /\ Held(chain') = Held(c)
        /\ \A x \in Held(c) :
             /\ chain'[x].size = c[x].size
             /\ x \in BlocksOf(c, p) => chain'[x].owner = SYSTEM
             /\ x \notin BlocksOf(c, p) => chain'[x] = c[x]
    BY <1>0, <1>1, <1>2, KeptAllChain
  <1>4. k \in Held(chain) /\ chain[k].owner = p
    BY <1>0, <1>2 DEF BlocksOf, Held, IsFree
  <1>5. ASSUME NEW x \in Held(chain)
        PROVE  GrantOf(chain', x) =
                 IF chain[x].owner = p
                   THEN [owner |-> SYSTEM, first |-> x + 1, size |-> cut(GrantOf(chain, x))]
                   ELSE GrantOf(chain, x)
    <2>1. x \in DOMAIN chain /\ x \in DOMAIN c
      BY <1>2 DEF Held
    <2>2. CASE x = k
      <3>1. k \notin BlocksOf(c, p)
        BY <1>0, <1>2 DEF BlocksOf
      <3>2. chain'[k].owner = SYSTEM /\ chain'[k].size = n
        BY <1>2, <1>3, <1>4, <3>1
      <3>3. cut(GrantOf(chain, k)) = n
        OBVIOUS
      <3>4. QED
        BY <1>4, <2>2, <3>2, <3>3 DEF GrantOf
    <2>3. CASE x # k
      <3>1. c[x] = chain[x]
        BY <1>2, <2>3
      <3>2. x \in BlocksOf(c, p) <=> chain[x].owner = p
        BY <2>1, <3>1 DEF BlocksOf
      <3>3. GrantOf(chain, x) # G
        BY <1>0, <1>4, <2>3, GrantInjective
      <3>4. cut(GrantOf(chain, x)) = chain[x].size
        BY <3>3, GrantFields
      <3>5. QED
        BY <1>2, <1>3, <3>1, <3>2, <3>4 DEF GrantOf
    <2>4. QED
      BY <2>2, <2>3
  <1>6. granted = GrantsOf(chain) /\ granted' = GrantsOf(chain')
    BY GrantedIs
  <1> HIDE DEF cut
  <1>7. granted' = (granted \ Promise!Of(p)) \cup kept
    <2>1. \A x \in Held(chain) : GrantOf(chain, x).owner = chain[x].owner /\ GrantOf(chain, x).first = x + 1
      BY GrantFields
    <2>2. ASSUME NEW g \in granted' PROVE g \in (granted \ Promise!Of(p)) \cup kept
      <3>1. PICK x \in Held(chain) : g = GrantOf(chain', x)
        BY <1>2, <1>3, <1>6 DEF GrantsOf
      <3>2. GrantOf(chain, x) \in granted
        BY <1>6 DEF GrantsOf
      <3>3. CASE chain[x].owner = p
        <4>1. GrantOf(chain, x) \in Promise!Of(p)
          BY <2>1, <3>2, <3>3 DEF Promise!Of
        <4>2. g = [owner |-> SYSTEM, first |-> GrantOf(chain, x).first, size |-> cut(GrantOf(chain, x))]
          BY <1>5, <2>1, <3>1, <3>3
        <4>3. QED
          BY <4>1, <4>2
      <3>4. CASE chain[x].owner # p
        BY <1>5, <2>1, <3>1, <3>2, <3>4 DEF Promise!Of
      <3>5. QED
        BY <3>3, <3>4
    <2>3. ASSUME NEW g \in granted \ Promise!Of(p) PROVE g \in granted'
      <3>1. PICK x \in Held(chain) : g = GrantOf(chain, x)
        BY <1>6 DEF GrantsOf
      <3>2. chain[x].owner # p
        BY <2>1, <2>3, <3>1 DEF Promise!Of
      <3>3. QED
        BY <1>2, <1>3, <1>5, <1>6, <3>1, <3>2 DEF GrantsOf
    <2>4. ASSUME NEW q \in Promise!Of(p)
          PROVE  [owner |-> SYSTEM, first |-> q.first, size |-> cut(q)] \in granted'
      <3>1. PICK x \in Held(chain) : q = GrantOf(chain, x)
        BY <1>6 DEF GrantsOf, Promise!Of
      <3>2. chain[x].owner = p
        BY <2>1, <3>1 DEF Promise!Of
      <3>3. GrantOf(chain', x) = [owner |-> SYSTEM, first |-> q.first, size |-> cut(q)]
        BY <1>5, <2>1, <3>1, <3>2
      <3>4. QED
        BY <1>2, <1>3, <1>6, <3>3 DEF GrantsOf
    <2>5. QED
      BY <2>2, <2>3, <2>4
  <1>8. G \in Promise!Of(p)
    BY <1>4, <1>6, GrantFields DEF GrantsOf, Promise!Of
  <1>9. n \in 0 .. Ceil /\ n <= G.size
    <2>1. c[k].size \in 0 .. Ceil /\ c[k].size \in Nat /\ chain[k].size \in Nat
      BY <1>0, <1>2, <1>4, HeldIs
    <2>2. G.size = chain[k].size
      BY GrantFields
    <2>3. QED
      BY <1>2, <2>1, <2>2
  <1> HIDE DEF G, n
  <1>10. Promise!MakeResident(p, G, n)
    BY <1>7, <1>9 DEF Promise!MakeResident, cut
  <1>11. QED
    BY <1>8, <1>9, <1>10

LEMMA StepKeepsPromise == IInv /\ [Next]_chain => [Promise!Next]_granted
  <1> SUFFICES ASSUME IInv, [Next]_chain PROVE [Promise!Next]_granted
    OBVIOUS
  <1>0. ChainAt(chain, Base) /\ Joined(chain) /\ Base \in Nat /\ Coalesced(chain) = chain
    BY CoalescedSame, ArenaNat DEF IInv
  <1>i. IInv'
    BY StepInv
  <1>1. CASE UNCHANGED chain
    BY <1>1 DEF granted, IsFree, After
  <1>2. ASSUME NEW p \in Owners, NEW want \in 0 .. Ceil, Alloc(p, want)
        PROVE  [Promise!Next]_granted
    <2>1. CASE Fitting(chain, want) = {}
      <3>1. chain' = chain
        BY <1>0, <1>2, <2>1 DEF Alloc
      <3>2. QED
        BY <3>1, GrantedIs
    <2>2. CASE Fitting(chain, want) # {}
      <3>1. chain' = Allocated(chain, want, p) /\ want \in Nat
        BY <1>0, <1>2, <2>2, ArenaNat DEF Alloc
      <3>2. Promise!Grant(p)
        BY <2>2, <3>1, AllocatedGrant
      <3>3. QED
        BY <3>2 DEF Promise!Next
    <2>3. QED
      BY <2>1, <2>2
  <1>3. ASSUME NEW p \in Owners, NEW want \in 0 .. Ceil, Keep(p, want)
        PROVE  [Promise!Next]_granted
    <2>1. want \in Nat
      BY ArenaNat
    <2>2. \E g \in Promise!Of(p), n \in 0 .. Ceil : Promise!MakeResident(p, g, n)
      BY <1>3, <2>1, KeepMakesResident
    <2>3. QED
      BY <2>2 DEF Promise!Next
  <1>4. ASSUME NEW p \in Owners, NEW h \in DOMAIN chain, Free(p, h)
        PROVE  [Promise!Next]_granted
    BY <1>4, FreeReleases DEF Promise!Next
  <1>5. ASSUME NEW p \in Owners, NEW h \in DOMAIN chain, NEW want \in 0 .. Ceil, Shrink(p, h, want)
        PROVE  [Promise!Next]_granted
    <2>1. want \in Nat /\ h \in BlocksOf(chain, p) /\ h \in Held(chain)
      BY <1>5, ArenaAssumption DEF Shrink, BlocksOf, Held, IsFree
    <2>2. chain[h].size > want
      BY <1>0, <1>5, <2>1, AtHeader DEF Shrink
    <2>3. chain' = Coalesced(Cut(chain, h, want))
      BY <1>5, <2>2 DEF Shrink, Cut
    <2>4. /\ Held(chain') = Held(chain) /\ chain'[h].owner = chain[h].owner
          /\ \A x \in Held(chain) : x # h => chain'[x] = chain[x]
      BY <1>0, <2>1, <2>3, ResizedChain
    <2>5. \E g \in Promise!Of(p) : Promise!Resize(g)
      BY <1>i, <2>1, <2>4, ResizedResizes DEF IInv
    <2>6. QED
      BY <2>5 DEF Promise!Next
  <1>6. ASSUME NEW p \in Owners, NEW h \in DOMAIN chain, NEW want \in 0 .. Ceil, Grow(p, h, want)
        PROVE  [Promise!Next]_granted
    <2>1. want \in Nat /\ h \in BlocksOf(chain, p) /\ h \in Held(chain)
      BY <1>6, ArenaAssumption DEF Grow, BlocksOf, Held, IsFree
    <2>2. want > chain[h].size /\ CanGrow(chain, h, want)
      BY <1>6 DEF Grow
    <2>3. chain' = Coalesced(Cut(Absorbed(chain, h), h, want))
      BY <1>6 DEF Grow
    <2>4. /\ Held(chain') = Held(chain) /\ chain'[h].owner = chain[h].owner
          /\ \A x \in Held(chain) : x # h => chain'[x] = chain[x]
      BY <1>0, <2>1, <2>2, <2>3, GrownChain
    <2>5. \E g \in Promise!Of(p) : Promise!Resize(g)
      BY <1>i, <2>1, <2>4, ResizedResizes DEF IInv
    <2>6. QED
      BY <2>5 DEF Promise!Next
  <1>7. ASSUME NEW p \in Owners, ExecAlloc(p) PROVE [Promise!Next]_granted
    <2>1. Largest(chain) \in Nat /\ Fitting(chain, Largest(chain)) # {}
      BY <1>0, <1>7, LargestIs DEF ExecAlloc
    <2>2. Promise!Grant(p)
      BY <1>0, <1>7, <2>1, AllocatedGrant DEF ExecAlloc
    <2>3. QED
      BY <2>2 DEF Promise!Next
  <1>8. ASSUME NEW p \in Owners, FreeOwner(p) PROVE [Promise!Next]_granted
    BY <1>8, FreeOwnerReleases DEF Promise!Next
  <1>9. QED
    BY <1>1, <1>2, <1>3, <1>4, <1>5, <1>6, <1>7, <1>8 DEF Next

(* The memory services keep the promise of mcb.h: no two blocks overlap,   *)
(* and a call made for one program never moves, cuts or takes a block of   *)
(* another.                                                                *)
THEOREM ArenaKeepsPromise == Spec => KeepsPromise
  <1>1. Init => Promise!Init
    <2>1. Init => Held(chain) = {}
      BY FreshChainIs, ArenaNat DEF Init, Held
    <2>2. QED
      BY <2>1, GrantedIs DEF GrantsOf, Promise!Init
  <1>2. QED
    BY <1>1, StepKeepsPromise, ArenaInvariant, PTL DEF Spec, KeepsPromise, Promise!Spec

-----------------------------------------------------------------------------
(* The programs.                                                           *)

(* The arena on [f, Ceil), or none. *)
BoundAt(c, f) ==
  \/ f < Ceil /\ ChainAt(c, f) /\ Joined(c)
  \/ f = Ceil /\ c = Unbound

(* The blocks of owner q are the same in c and in d. *)
SameFor(c, d, q) ==
  \A x : /\ x \in BlocksOf(c, q) <=> x \in BlocksOf(d, q)
         /\ x \in BlocksOf(c, q) => d[x] = c[x]

LEMMA Sizes ==
  /\ Base \in Nat /\ Ceil \in Nat /\ Base < Ceil
  /\ Owners = Base .. Ceil - 1
  /\ MinKeep \in Nat /\ MinKeep >= 1
  /\ Control \in Nat /\ Control >= 1 /\ MinProgram \in Nat /\ MinProgram >= 1
  BY ArenaAssumption, ProgramsAssumption

LEMMA OwnersDiffer == FREE # SYSTEM /\ FREE \notin Owners /\ SYSTEM \notin Owners
  BY ArenaAssumption

-----------------------------------------------------------------------------
(* What each service leaves alone. *)

LEMMA BlocksHeld ==
  ASSUME NEW c, NEW q, q # FREE, NEW x
  PROVE  x \in BlocksOf(c, q) <=> x \in Held(c) /\ c[x].owner = q
  BY DEF BlocksOf, Held, IsFree

LEMMA SameForIs ==
  ASSUME NEW c, NEW d, NEW q, q # FREE,
         \A x : x \in Held(c) /\ c[x].owner = q => x \in Held(d) /\ d[x] = c[x],
         \A x : x \in Held(d) /\ d[x].owner = q => x \in Held(c) /\ c[x].owner = q
  PROVE  SameFor(c, d, q)
  BY BlocksHeld DEF SameFor

LEMMA OwnedSame ==
  ASSUME NEW c, NEW d, NEW q, SameFor(c, d, q)
  PROVE  Owned(c, q) = Owned(d, q)
  BY DEF Owned, SameFor

LEMMA DataSame ==
  ASSUME NEW c, NEW d, NEW q, SameFor(c, d, q), NEW h \in BlocksOf(c, q)
  PROVE  h \in BlocksOf(d, q) /\ Data(d, h) = Data(c, h)
  BY DEF Data, After, SameFor

LEMMA AllocSame ==
  ASSUME NEW f \in Nat, NEW c, ChainAt(c, f), Joined(c), NEW want \in Nat, NEW p \in Owners,
         Fitting(c, want) # {}
  PROVE  LET d == Allocated(c, want, p)
         IN  /\ \A q : q # FREE /\ q # p => SameFor(c, d, q)
             /\ \A x \in BlocksOf(c, p) : x \in BlocksOf(d, p)
  <1> DEFINE d == Allocated(c, want, p)
             h == LowestOf(Fitting(c, want))
  <1>1. /\ ChainAt(d, f) /\ Joined(d)
        /\ h \in DOMAIN c /\ IsFree(c, h) /\ want <= c[h].size
        /\ \A x : x \in Held(d) <=> x \in Held(c) \/ x = h
        /\ d[h].owner = p /\ d[h].size = want
        /\ \A x \in Held(c) : d[x] = c[x]
    BY AllocatedChain
  <1> HIDE DEF d, h
  <1>2. \A q : q # FREE /\ q # p => SameFor(c, d, q)
    BY <1>1, SameForIs
  <1>3. \A x \in BlocksOf(c, p) : x \in BlocksOf(d, p)
    BY <1>1, OwnersDiffer, BlocksHeld
  <1>4. QED
    BY <1>2, <1>3 DEF d

LEMMA FreeSame ==
  ASSUME NEW f \in Nat, NEW c, ChainAt(c, f), NEW p \in Owners, NEW h \in BlocksOf(c, p)
  PROVE  LET d == Coalesced(Reowned(c, {h}, FREE))
         IN  /\ ChainAt(d, f) /\ Joined(d)
             /\ \A q : q # FREE /\ q # p => SameFor(c, d, q)
             /\ \A x \in BlocksOf(c, p) : x # h => x \in BlocksOf(d, p)
  <1> DEFINE hs == {h}
             d == Coalesced(Reowned(c, hs, FREE))
  <1>1. /\ ChainAt(d, f) /\ Joined(d)
        /\ \A x : x \in Held(d) <=> x \in Held(c) /\ x \notin hs
        /\ \A x \in Held(d) : d[x] = c[x]
    BY FreedChain
  <1>2. c[h].owner = p
    BY DEF BlocksOf
  <1> HIDE DEF d
  <1>3. \A q : q # FREE /\ q # p => SameFor(c, d, q)
    BY <1>1, <1>2, SameForIs
  <1>4. \A x \in BlocksOf(c, p) : x # h => x \in BlocksOf(d, p)
    BY <1>1, OwnersDiffer, BlocksHeld
  <1>5. QED
    BY <1>1, <1>3, <1>4 DEF d

(* One block of p has another size. *)
LEMMA ResizeSame ==
  ASSUME NEW c, NEW d, NEW p \in Owners, NEW h \in BlocksOf(c, p),
         Held(d) = Held(c), d[h].owner = c[h].owner,
         \A x \in Held(c) : x # h => d[x] = c[x]
  PROVE  /\ \A q : q # FREE /\ q # p => SameFor(c, d, q)
         /\ \A x \in BlocksOf(c, p) : x \in BlocksOf(d, p)
  <1>1. c[h].owner = p /\ h \in Held(c) /\ p # FREE
    BY OwnersDiffer, BlocksHeld
  <1>2. ASSUME NEW q, q # FREE, q # p PROVE SameFor(c, d, q)
    BY <1>1, <1>2, SameForIs
  <1>3. \A x \in BlocksOf(c, p) : x \in BlocksOf(d, p)
    BY <1>1, BlocksHeld
  <1>4. QED
    BY <1>2, <1>3

LEMMA NothingUnbound == \A q : BlocksOf(Unbound, q) = {}
  BY DEF BlocksOf, Unbound

LEMMA WithoutSame ==
  ASSUME NEW f \in Nat, NEW c, BoundAt(c, f), NEW p \in Owners
  PROVE  LET d == WithoutOwner(c, p)
         IN  /\ BoundAt(d, f)
             /\ BlocksOf(d, p) = {}
             /\ \A q : q # FREE /\ q # p => SameFor(c, d, q)
  <1> DEFINE d == WithoutOwner(c, p)
  <1>1. CASE f < Ceil /\ ChainAt(c, f) /\ Joined(c)
    <2>1. /\ ChainAt(d, f) /\ Joined(d)
          /\ \A x : x \in Held(d) <=> x \in Held(c) /\ x \notin BlocksOf(c, p)
          /\ \A x \in Held(d) : d[x] = c[x]
      BY <1>1, WithoutOwnerChain
    <2> HIDE DEF d
    <2>2. \A q : q # FREE /\ q # p => SameFor(c, d, q)
      BY <2>1, OwnersDiffer, SameForIs, BlocksHeld
    <2>3. BlocksOf(d, p) = {}
      BY <2>1, OwnersDiffer, BlocksHeld
    <2>4. QED
      BY <1>1, <2>1, <2>2, <2>3 DEF BoundAt, d
  <1>2. CASE f = Ceil /\ c = Unbound
    <2>1. d = Unbound
      BY <1>2, NothingUnbound DEF WithoutOwner
    <2>2. QED
      BY <1>2, <2>1, NothingUnbound DEF BoundAt, SameFor
  <1>3. QED
    BY <1>1, <1>2 DEF BoundAt

(* mcb_keep_all. *)
LEMMA KeptAllSame ==
  ASSUME NEW f \in Nat, NEW c, BoundAt(c, f), NEW p \in Owners
  PROVE  LET d == KeptAll(c, p)
         IN  /\ BoundAt(d, f)
             /\ BlocksOf(d, p) = {}
             /\ \A q : q # FREE /\ q # p /\ q # SYSTEM => SameFor(c, d, q)
             /\ \A x \in BlocksOf(c, SYSTEM) : x \in BlocksOf(d, SYSTEM) /\ d[x] = c[x]
             /\ \A x \in BlocksOf(c, p) : x \in BlocksOf(d, SYSTEM) /\ d[x].size = c[x].size
  <1> DEFINE d == KeptAll(c, p)
  <1>1. CASE f < Ceil /\ ChainAt(c, f) /\ Joined(c)
    <2>1. /\ ChainAt(d, f) /\ Joined(d)
          /\ DOMAIN d = DOMAIN c /\ Held(d) = Held(c)
          /\ \A x \in Held(c) :
               /\ d[x].size = c[x].size
               /\ x \in BlocksOf(c, p) => d[x].owner = SYSTEM
               /\ x \notin BlocksOf(c, p) => d[x] = c[x]
      BY <1>1, KeptAllChain
    <2> HIDE DEF d
    <2>2. ASSUME NEW q, q # FREE, q # p, q # SYSTEM PROVE SameFor(c, d, q)
      <3>1. \A x : x \in Held(c) /\ c[x].owner = q => x \notin BlocksOf(c, p)
        BY <2>2 DEF BlocksOf
      <3>2. \A x : x \in Held(d) /\ d[x].owner = q => x \notin BlocksOf(c, p)
        BY <2>1, <2>2
      <3>3. QED
        BY <2>1, <2>2, <3>1, <3>2, SameForIs
    <2>3. \A x \in BlocksOf(c, p) : x \in BlocksOf(d, SYSTEM) /\ d[x].size = c[x].size
      BY <2>1, OwnersDiffer, BlocksHeld
    <2>4. \A x \in BlocksOf(c, SYSTEM) : x \in BlocksOf(d, SYSTEM) /\ d[x] = c[x]
      <3>1. \A x \in BlocksOf(c, SYSTEM) : x \in Held(c) /\ x \notin BlocksOf(c, p)
        BY OwnersDiffer, BlocksHeld DEF BlocksOf
      <3>2. QED
        BY <2>1, <3>1, OwnersDiffer, BlocksHeld
    <2>5. BlocksOf(d, p) = {}
      BY <2>1, OwnersDiffer, BlocksHeld
    <2>6. QED
      BY <1>1, <2>1, <2>2, <2>3, <2>4, <2>5 DEF BoundAt, d
  <1>2. CASE f = Ceil /\ c = Unbound
    <2>1. d = Unbound
      BY <1>2 DEF KeptAll, Reowned, Unbound
    <2>2. QED
      BY <1>2, <2>1, NothingUnbound DEF BoundAt, SameFor
  <1>3. QED
    BY <1>1, <1>2 DEF BoundAt

(* mcb_keep_resident, then mcb_keep_all. *)
LEMMA KeepSame ==
  ASSUME NEW f \in Nat, NEW c, ChainAt(c, f), Joined(c), f < Ceil, NEW p \in Owners,
         BlocksOf(c, p) # {}, NEW n \in Nat
  PROVE  LET d == KeptAll(KeptResident(c, p, n), p)
         IN  /\ BoundAt(d, f)
             /\ BlocksOf(d, p) = {}
             /\ \A q : q # FREE /\ q # p /\ q # SYSTEM => SameFor(c, d, q)
             /\ \A x \in BlocksOf(c, SYSTEM) : x \in BlocksOf(d, SYSTEM) /\ d[x] = c[x]
             /\ \A x \in BlocksOf(c, p) :
                  /\ x \in BlocksOf(d, SYSTEM)
                  /\ d[x].size = c[x].size \/ d[x].size = n
  <1> DEFINE e == KeptResident(c, p, n)
             k == FirstOf(c, p)
             d == KeptAll(e, p)
  <1>1. /\ ChainAt(e, f) /\ Joined(e)
        /\ k \in BlocksOf(c, p)
        /\ Held(e) = Held(c)
        /\ e[k].owner = SYSTEM
        /\ e[k].size = IF c[k].size > n THEN n ELSE c[k].size
        /\ \A x \in Held(c) : x # k => e[x] = c[x]
    BY KeptResidentChain
  <1> HIDE DEF e, k
  <1>2. /\ BoundAt(d, f)
        /\ BlocksOf(d, p) = {}
        /\ \A q : q # FREE /\ q # p /\ q # SYSTEM => SameFor(e, d, q)
        /\ \A x \in BlocksOf(e, SYSTEM) : x \in BlocksOf(d, SYSTEM) /\ d[x] = e[x]
        /\ \A x \in BlocksOf(e, p) : x \in BlocksOf(d, SYSTEM) /\ d[x].size = e[x].size
    <2>1. BoundAt(e, f)
      BY <1>1 DEF BoundAt
    <2>2. QED
      BY <2>1, KeptAllSame
  <1> HIDE DEF d
  <1>3. c[k].owner = p /\ k \in Held(c) /\ p # FREE /\ p # SYSTEM
    BY <1>1, OwnersDiffer, BlocksHeld
  <1>4. ASSUME NEW q, q # FREE, q # p, q # SYSTEM PROVE SameFor(c, d, q)
    <2>1. SameFor(c, e, q)
      BY <1>1, <1>3, <1>4, SameForIs
    <2>2. SameFor(e, d, q)
      BY <1>2, <1>4
    <2>3. QED
      BY <2>1, <2>2 DEF SameFor
  <1>5. ASSUME NEW x \in BlocksOf(c, SYSTEM) PROVE x \in BlocksOf(d, SYSTEM) /\ d[x] = c[x]
    <2>1. x \in Held(c) /\ c[x].owner = SYSTEM /\ x # k
      BY <1>3, OwnersDiffer, BlocksHeld
    <2>2. x \in BlocksOf(e, SYSTEM) /\ e[x] = c[x]
      BY <1>1, <2>1, OwnersDiffer, BlocksHeld
    <2>3. QED
      BY <1>2, <2>2
  <1>6. ASSUME NEW x \in BlocksOf(c, p)
        PROVE  x \in BlocksOf(d, SYSTEM) /\ (d[x].size = c[x].size \/ d[x].size = n)
    <2>1. x \in Held(c) /\ c[x].owner = p
      BY <1>3, BlocksHeld
    <2>2. CASE x = k
      BY <1>1, <1>2, <2>1, <2>2, OwnersDiffer, BlocksHeld
    <2>3. CASE x # k
      BY <1>1, <1>2, <1>3, <2>1, <2>3, BlocksHeld
    <2>4. QED
      BY <2>2, <2>3
  <1>7. QED
    BY <1>2, <1>4, <1>5, <1>6 DEF d, e

-----------------------------------------------------------------------------
(* int21_mcb_exec_alloc and int21_mcb_exec_trim: a program p is put into a *)
(* block that was free, under its own PSP.                                 *)

Placed(c, d, f, p) ==
  /\ ChainAt(d, f) /\ Joined(d)
  /\ p \in Owners /\ p > f
  /\ p - 1 \in DOMAIN c /\ IsFree(c, p - 1)
  /\ p - 1 \in BlocksOf(d, p)
  /\ \A q : q # FREE /\ q # p => SameFor(c, d, q)

LEMMA HostedInPlaces ==
  ASSUME NEW f \in Nat, Base <= f, NEW c, ChainAt(c, f), Joined(c),
         NEW need \in Nat, need >= 1, Hosts(c, need)
  PROVE  /\ Placed(c, HostedIn(c), f, PspIn(c))
         /\ HostedIn(c)[PspIn(c) - 1].size = Largest(c)
         /\ Largest(c) \in Nat /\ Largest(c) >= need
  <1> DEFINE want == Largest(c)
             h == LowestOf(Fitting(c, want))
             p == PspIn(c)
             d == HostedIn(c)
  <1>1. want \in Nat /\ Fitting(c, want) # {} /\ want >= need
    BY LargestIs DEF Hosts
  <1>2. Coalesced(c) = c
    BY CoalescedSame
  <1>3. h \in Fitting(c, want)
    <2>1. Fitting(c, want) \in SUBSET Nat
      BY HeadersNat DEF Fitting
    <2>2. QED
      BY <1>1, <2>1, LowestIs
  <1>4. h \in DOMAIN c /\ c[h].size >= want
    BY <1>3 DEF Fitting
  <1>5. /\ h \in Nat /\ f <= h /\ After(c, h) <= Ceil /\ After(c, h) = h + 1 + c[h].size
        /\ c[h].size \in Nat
    BY <1>4, AtHeader DEF After
  <1>6. p = h + 1 /\ d = Allocated(c, want, p)
    BY <1>2 DEF PspIn, HostedIn
  <1> HIDE DEF h, p, want
  <1>7. p \in Owners /\ p > f /\ p - 1 = h
    BY <1>1, <1>4, <1>5, <1>6, Sizes
  <1>8. /\ ChainAt(d, f) /\ Joined(d)
        /\ h \in DOMAIN c /\ IsFree(c, h) /\ want <= c[h].size
        /\ \A x : x \in Held(d) <=> x \in Held(c) \/ x = h
        /\ d[h].owner = p /\ d[h].size = want
        /\ \A x \in Held(c) : d[x] = c[x]
    BY <1>1, <1>6, <1>7, AllocatedChain DEF h
  <1>9. \A q : q # FREE /\ q # p => SameFor(c, d, q)
    BY <1>1, <1>6, <1>7, AllocSame
  <1> HIDE DEF d
  <1>10. h \in BlocksOf(d, p)
    BY <1>7, <1>8, OwnersDiffer, BlocksHeld
  <1>11. QED
    BY <1>1, <1>7, <1>8, <1>9, <1>10 DEF Placed, d, p, want

LEMMA TrimmedPlaces ==
  ASSUME NEW f \in Nat, NEW c, NEW d, NEW p, Placed(c, d, f, p),
         NEW size \in Nat, size <= d[p - 1].size
  PROVE  Placed(c, Trimmed(d, p, size), f, p)
  <1> DEFINE h == p - 1
             e == Coalesced(Cut(d, h, size))
  <1>1. ChainAt(d, f) /\ Joined(d) /\ h \in BlocksOf(d, p) /\ p \in Owners
    BY DEF Placed
  <1>2. h \in Held(d) /\ h \in DOMAIN d
    BY <1>1, OwnersDiffer, BlocksHeld DEF BlocksOf
  <1>3. d[h].size \in Nat
    BY <1>1, <1>2, AtHeader
  <1>4. CASE d[h].size = size
    <2>1. Trimmed(d, p, size) = d
      BY <1>4 DEF Trimmed
    <2>2. QED
      BY <2>1
  <1>5. CASE d[h].size # size
    <2> HIDE DEF h
    <2>1. d[h].size > size
      BY <1>3, <1>5 DEF h
    <2>2. Trimmed(d, p, size) = e
      BY <1>5, <2>1 DEF Trimmed, Cut, h
    <2>3. /\ ChainAt(e, f) /\ Joined(e)
          /\ Held(e) = Held(d)
          /\ e[h].owner = d[h].owner
          /\ \A x \in Held(d) : x # h => e[x] = d[x]
      BY <1>1, <1>2, ResizedChain
    <2> HIDE DEF e
    <2>4. /\ \A q : q # FREE /\ q # p => SameFor(d, e, q)
          /\ \A x \in BlocksOf(d, p) : x \in BlocksOf(e, p)
      BY <1>1, <2>3, ResizeSame
    <2>5. ASSUME NEW q, q # FREE, q # p PROVE SameFor(c, e, q)
      <3>1. SameFor(c, d, q) /\ SameFor(d, e, q)
        BY <2>4, <2>5 DEF Placed
      <3>2. QED
        BY <3>1 DEF SameFor
    <2>6. QED
      BY <1>1, <2>2, <2>3, <2>4, <2>5 DEF Placed, h
  <1>6. QED
    BY <1>4, <1>5

-----------------------------------------------------------------------------
(* The invariant.  The PSPs of the nested programs differ, and only the    *)
(* first of them may lie below the arena.                                  *)

Others == UNION {[1 .. n -> SUBSET [first : Nat, size : Nat]] : n \in Nat}
Frames == [psp : Owners, high : BOOLEAN, others : Others]

Ranges ==
  /\ from \in Base .. Ceil /\ tsr_top \in Base .. Ceil
  /\ keptPsp \subseteq Base .. Ceil - 1
  /\ stack \in Seq(Frames)

PspsDiffer ==
  /\ \A i, j \in 1 .. Depth : stack[i].psp = stack[j].psp => i = j
  /\ \A i \in 1 .. Depth : i # 1 => Hosted(stack[i].psp)

PInv ==
  /\ Ranges /\ BoundAt(chain, from) /\ PspsDiffer
  /\ NoOrphanBlocks /\ RunningKeepTheirMemory /\ ResidentImageKept

LEMMA PInvUnfold ==
  ASSUME PInv
  PROVE  /\ from \in Nat /\ Base <= from /\ from <= Ceil
         /\ tsr_top \in Nat /\ Base <= tsr_top /\ tsr_top <= Ceil
         /\ \A x \in keptPsp : x \in Nat /\ Base <= x /\ x < Ceil
         /\ stack \in Seq(Frames) /\ Depth \in Nat
         /\ BoundAt(chain, from)
         /\ \A i \in 1 .. Depth : stack[i].psp \in Owners /\ stack[i].psp \in Nat
         /\ \A i \in 1 .. Depth : stack[i] \in Frames
  <1>1. stack \in Seq(Frames)
    BY DEF PInv, Ranges
  <1>2. Depth \in Nat /\ \A i \in 1 .. Depth : stack[i] \in Frames
    BY <1>1, LenProperties, ElementOfSeq DEF Depth
  <1>3. \A i \in 1 .. Depth : stack[i].psp \in Owners
    BY <1>2 DEF Frames
  <1>4. \A p \in Owners : p \in Nat
    BY Sizes
  <1>5. QED
    BY <1>1, <1>2, <1>3, <1>4, Sizes DEF PInv, Ranges

LEMMA OwnedType ==
  ASSUME NEW f \in Nat, NEW c, BoundAt(c, f), NEW q
  PROVE  Owned(c, q) \in SUBSET [first : Nat, size : Nat]
  <1>1. ASSUME NEW h \in BlocksOf(c, q) PROVE h + 1 \in Nat /\ c[h].size \in Nat
    <2>1. h \in DOMAIN c /\ c # Unbound
      BY NothingUnbound DEF BlocksOf
    <2>2. QED
      BY <2>1, AtHeader DEF BoundAt
  <1>2. QED
    BY <1>1 DEF Owned

LEMMA CurUnfold ==
  ASSUME PInv, Depth > 0
  PROVE  /\ Depth \in 1 .. Depth /\ Cur = stack[Depth].psp /\ Cur \in Owners /\ Cur \in Nat
         /\ \A i \in 1 .. Depth : i # Depth => stack[i].psp # Cur
         /\ Hosted(Cur) => Cur - 1 \in BlocksOf(chain, Cur)
         /\ ~Hosted(Cur) => Depth = 1
  <1>1. Depth \in 1 .. Depth /\ Cur = stack[Depth].psp
    BY PInvUnfold DEF Cur
  <1>2. QED
    BY <1>1, PInvUnfold DEF PInv, PspsDiffer, RunningKeepTheirMemory

-----------------------------------------------------------------------------
(* A service to the running program. *)

LEMMA ServiceKeeps ==
  ASSUME PInv, Depth > 0, UNCHANGED <<from, stack, tsr_top, keptPsp>>,
         BoundAt(chain', from),
         \A q : q # FREE /\ q # Cur => SameFor(chain, chain', q),
         Hosted(Cur) => Cur - 1 \in BlocksOf(chain', Cur)
  PROVE  PInv'
  <1>1. Depth' = Depth /\ Cur' = Cur
    BY DEF Depth, Cur
  <1>2. Ranges' /\ PspsDiffer' /\ BoundAt(chain', from')
    BY <1>1 DEF PInv, Ranges, PspsDiffer, Hosted
  <1>3. /\ Depth \in 1 .. Depth /\ Cur = stack[Depth].psp /\ Cur \in Owners
        /\ \A i \in 1 .. Depth : i # Depth => stack[i].psp # Cur
    BY CurUnfold
  <1>4. NoOrphanBlocks'
    <2>1. ASSUME NEW h \in DOMAIN chain', chain'[h].owner # FREE, chain'[h].owner # Cur
          PROVE  chain'[h].owner \in {SYSTEM} \cup {stack[i].psp : i \in 1 .. Depth}
      <3> DEFINE q == chain'[h].owner
      <3>1. h \in BlocksOf(chain', q)
        BY DEF BlocksOf
      <3>2. h \in BlocksOf(chain, q)
        BY <2>1, <3>1 DEF SameFor
      <3>3. h \in DOMAIN chain /\ chain[h].owner = q
        BY <3>2 DEF BlocksOf
      <3>4. QED
        BY <2>1, <3>3 DEF PInv, NoOrphanBlocks
    <2>2. QED
      BY <1>1, <1>3, <2>1 DEF NoOrphanBlocks
  <1>5. RunningKeepTheirMemory'
    <2>1. ASSUME NEW i \in 1 .. Depth, Hosted(stack[i].psp)
          PROVE  stack[i].psp - 1 \in BlocksOf(chain', stack[i].psp)
      <3>1. CASE i = Depth
        BY <1>3, <2>1, <3>1
      <3>2. CASE i # Depth
        <4>1. stack[i].psp # Cur /\ stack[i].psp # FREE
          BY <1>3, <3>2, PInvUnfold, OwnersDiffer
        <4>2. SameFor(chain, chain', stack[i].psp)
          BY <4>1
        <4>3. QED
          BY <2>1, <4>2 DEF PInv, RunningKeepTheirMemory, SameFor
      <3>3. QED
        BY <3>1, <3>2
    <2>2. ASSUME NEW i \in 1 .. Depth, NEW j \in 1 .. i - 1
          PROVE  Owned(chain', stack[j].psp) = stack[i].others[j]
      <3>1. j \in 1 .. Depth /\ j # Depth
        BY PInvUnfold
      <3>2. stack[j].psp # Cur /\ stack[j].psp # FREE
        BY <1>3, <3>1, PInvUnfold, OwnersDiffer
      <3>3. Owned(chain', stack[j].psp) = Owned(chain, stack[j].psp)
        BY <3>2, OwnedSame
      <3>4. QED
        BY <3>3 DEF PInv, RunningKeepTheirMemory
    <2>3. QED
      BY <1>1, <2>1, <2>2 DEF RunningKeepTheirMemory, Hosted
  <1>6. ResidentImageKept'
    <2>1. SameFor(chain, chain', SYSTEM)
      BY <1>3, OwnersDiffer
    <2>2. \A x \in keptPsp : /\ x < tsr_top /\ x \notin LowImage
                             /\ x >= from => \E h \in BlocksOf(chain, SYSTEM) : x \in Data(chain, h)
      BY DEF PInv, ResidentImageKept, Untouched
    <2>3. LowImage' = LowImage
      BY <1>1 DEF LowImage
    <2>4. ASSUME NEW x \in keptPsp, x >= from
          PROVE  \E h \in BlocksOf(chain', SYSTEM) : x \in Data(chain', h)
      BY <2>1, <2>2, <2>4, DataSame
    <2>5. QED
      BY <2>2, <2>3, <2>4 DEF ResidentImageKept, Untouched, Data, After
  <1>7. QED
    BY <1>2, <1>4, <1>5, <1>6 DEF PInv

(* What the end of the running program leaves behind it. *)
LEMMA PopKeeps ==
  ASSUME PInv, Depth > 0, from' = from, stack' = SubSeq(stack, 1, Depth - 1),
         BlocksOf(chain', Cur) = {},
         \A q : q # FREE /\ q # Cur /\ q # SYSTEM => SameFor(chain, chain', q)
  PROVE  /\ stack' \in Seq(Frames) /\ PspsDiffer'
         /\ NoOrphanBlocks' /\ RunningKeepTheirMemory'
         /\ LowImage' \subseteq LowImage
         /\ Depth = 1 => LowImage' = {}
  <1>1. /\ stack' \in Seq(Frames) /\ Len(stack') = Depth - 1 /\ Depth - 1 \in Nat
        /\ \A i \in 1 .. Depth - 1 : stack'[i] = stack[i]
    <2>1. stack \in Seq(Frames) /\ Depth \in Nat /\ Depth = Len(stack)
      BY PInvUnfold DEF Depth
    <2>2. 1 \in 1 .. Len(stack) + 1 /\ Depth - 1 \in 1 - 1 .. Len(stack)
      BY <2>1
    <2>3. QED
      BY <2>1, <2>2, SubSeqProperties
  <1>2. Depth' = Depth - 1
    BY <1>1 DEF Depth
  <1>3. /\ Cur = stack[Depth].psp /\ Cur \in Owners
        /\ \A i \in 1 .. Depth : i # Depth => stack[i].psp # Cur
        /\ Depth \in Nat
    BY CurUnfold, PInvUnfold
  <1>4. \A i \in 1 .. Depth - 1 : i \in 1 .. Depth /\ i # Depth
    BY <1>3
  <1>5. ASSUME NEW i \in 1 .. Depth - 1
        PROVE  SameFor(chain, chain', stack[i].psp)
    <2>1. stack[i].psp # Cur /\ stack[i].psp \in Owners
      BY <1>3, <1>4, PInvUnfold
    <2>2. QED
      BY <2>1, OwnersDiffer
  <1>6. PspsDiffer'
    BY <1>1, <1>2, <1>4 DEF PInv, PspsDiffer, Hosted
  <1>7. NoOrphanBlocks'
    <2>1. ASSUME NEW h \in DOMAIN chain', chain'[h].owner # FREE, chain'[h].owner # SYSTEM
          PROVE  chain'[h].owner \in {stack[i].psp : i \in 1 .. Depth - 1}
      <3> DEFINE q == chain'[h].owner
      <3>1. h \in BlocksOf(chain', q) /\ q # Cur
        BY DEF BlocksOf
      <3>2. h \in BlocksOf(chain, q)
        BY <2>1, <3>1 DEF SameFor
      <3>3. h \in DOMAIN chain /\ chain[h].owner = q
        BY <3>2 DEF BlocksOf
      <3>4. PICK i \in 1 .. Depth : q = stack[i].psp
        BY <2>1, <3>3 DEF PInv, NoOrphanBlocks
      <3>5. i # Depth
        BY <1>3, <3>1, <3>4
      <3>6. i \in 1 .. Depth - 1
        BY <1>3, <3>5
      <3>7. QED
        BY <3>4, <3>6
    <2>2. QED
      BY <1>1, <1>2, <2>1 DEF NoOrphanBlocks
  <1>8. RunningKeepTheirMemory'
    <2>1. ASSUME NEW i \in 1 .. Depth - 1, Hosted(stack[i].psp)
          PROVE  stack[i].psp - 1 \in BlocksOf(chain', stack[i].psp)
      BY <1>4, <1>5, <2>1 DEF PInv, RunningKeepTheirMemory, SameFor
    <2>2. ASSUME NEW i \in 1 .. Depth - 1, NEW j \in 1 .. i - 1
          PROVE  j \in 1 .. Depth - 1 /\ Owned(chain', stack[j].psp) = stack[i].others[j]
      <3>1. j \in 1 .. Depth - 1
        BY <1>3
      <3>2. Owned(chain', stack[j].psp) = Owned(chain, stack[j].psp)
        BY <1>5, <3>1, OwnedSame
      <3>3. QED
        BY <1>4, <3>1, <3>2 DEF PInv, RunningKeepTheirMemory
    <2>3. QED
      BY <1>1, <1>2, <2>1, <2>2 DEF RunningKeepTheirMemory, Hosted
  <1>9. Depth - 1 > 0 => 1 \in 1 .. Depth - 1
    BY <1>3
  <1>10. LowImage' \subseteq LowImage
    BY <1>1, <1>2, <1>3, <1>9 DEF LowImage
  <1>11. Depth = 1 => LowImage' = {}
    BY <1>2 DEF LowImage
  <1>12. QED
    BY <1>1, <1>6, <1>7, <1>8, <1>10, <1>11

(* A free block is not where the PSP of a nested program lies. *)
LEMMA PlacedIsNew ==
  ASSUME PInv, NEW d, NEW p, Placed(chain, d, from, p), NEW i \in 1 .. Depth
  PROVE  stack[i].psp # p
  <1>1. p \in Nat /\ p > from /\ IsFree(chain, p - 1)
    BY Sizes DEF Placed
  <1>2. stack[i].psp \in Owners /\ stack[i].psp \in Nat /\ stack[i].psp # FREE
    BY PInvUnfold, OwnersDiffer
  <1>3. CASE Hosted(stack[i].psp)
    <2>1. stack[i].psp - 1 \in BlocksOf(chain, stack[i].psp)
      BY <1>3 DEF PInv, RunningKeepTheirMemory
    <2>2. ~IsFree(chain, stack[i].psp - 1)
      BY <1>2, <2>1 DEF BlocksOf, IsFree
    <2>3. QED
      BY <1>1, <2>2
  <1>4. CASE ~Hosted(stack[i].psp)
    BY <1>1, <1>2, <1>4, PInvUnfold DEF Hosted
  <1>5. QED
    BY <1>3, <1>4

(* A program p is loaded into the arena: over no other when one is bound   *)
(* already, or into a fresh one that holds nothing.                        *)
LEMMA PushKeeps ==
  ASSUME PInv, NEW c, NEW p, NEW high \in BOOLEAN,
         from' \in Nat, Base <= from', from' < Ceil,
         Placed(c, chain', from', p),
         \/ c = chain /\ from' = from
         \/ Depth = 0 /\ \A h \in DOMAIN c : IsFree(c, h),
         BoundAt(c, from'),
         stack' = Append(stack, Frame(c, p, high))
  PROVE  /\ stack' \in Seq(Frames) /\ PspsDiffer' /\ BoundAt(chain', from')
         /\ NoOrphanBlocks' /\ RunningKeepTheirMemory'
         /\ LowImage' \subseteq LowImage
  <1> DEFINE fr == Frame(c, p, high)
             n == Depth + 1
  <1>1. /\ ChainAt(chain', from') /\ Joined(chain')
        /\ p \in Owners /\ p > from'
        /\ p - 1 \in DOMAIN c /\ IsFree(c, p - 1)
        /\ p - 1 \in BlocksOf(chain', p)
        /\ \A q : q # FREE /\ q # p => SameFor(c, chain', q)
    BY DEF Placed
  <1>2. fr \in Frames /\ fr.psp = p
    <2>1. [i \in 1 .. Depth |-> Owned(c, stack[i].psp)] \in [1 .. Depth -> SUBSET [first : Nat, size : Nat]]
      BY OwnedType
    <2>2. [i \in 1 .. Depth |-> Owned(c, stack[i].psp)] \in Others
      BY <2>1, PInvUnfold DEF Others
    <2>3. QED
      BY <1>1, <2>2 DEF Frame, Frames
  <1>3. \A j \in 1 .. Depth : fr.others[j] = Owned(c, stack[j].psp)
    BY DEF Frame
  <1> HIDE DEF fr
  <1>4. stack \in Seq(Frames) /\ Depth \in Nat /\ Depth = Len(stack)
    BY PInvUnfold DEF Depth
  <1>5. /\ stack' \in Seq(Frames) /\ Len(stack') = n
        /\ \A i \in 1 .. Depth : stack'[i] = stack[i]
        /\ stack'[n] = fr
    BY <1>2, <1>4, AppendProperties DEF fr
  <1>6. Depth' = n /\ n \in Nat
    BY <1>4, <1>5 DEF Depth
  <1>7. \A i \in 1 .. n : i \in 1 .. Depth \/ i = n
    BY <1>4
  <1>8. p \in Nat /\ p # FREE
    BY <1>1, Sizes, OwnersDiffer
  <1>9. ASSUME NEW i \in 1 .. Depth PROVE stack[i].psp # p /\ c = chain /\ from' = from
    <2>1. c = chain /\ from' = from
      BY <1>4
    <2>2. QED
      BY <2>1, PlacedIsNew
  <1>10. ASSUME NEW i \in 1 .. Depth PROVE SameFor(chain, chain', stack[i].psp)
    <2>1. stack[i].psp \in Owners
      BY PInvUnfold
    <2>2. QED
      BY <1>1, <1>9, <2>1, OwnersDiffer
  <1>11. PspsDiffer'
    <2>1. \A i, j \in 1 .. n : stack'[i].psp = stack'[j].psp => i = j
      <3>1. ASSUME NEW i \in 1 .. n, NEW j \in 1 .. n, stack'[i].psp = stack'[j].psp PROVE i = j
        <4>1. CASE i \in 1 .. Depth /\ j \in 1 .. Depth
          BY <1>5, <3>1, <4>1 DEF PInv, PspsDiffer
        <4>2. CASE i = n \/ j = n
          BY <1>2, <1>5, <1>7, <1>9, <3>1, <4>2
        <4>3. QED
          BY <1>7, <4>1, <4>2
      <3>2. QED
        BY <3>1
    <2>2. ASSUME NEW i \in 1 .. n, i # 1 PROVE stack'[i].psp > from'
      <3>1. CASE i \in 1 .. Depth
        BY <1>5, <1>9, <2>2, <3>1 DEF PInv, PspsDiffer, Hosted
      <3>2. CASE i = n
        BY <1>1, <1>2, <1>5, <3>2
      <3>3. QED
        BY <1>7, <3>1, <3>2
    <2>3. QED
      BY <1>6, <2>1, <2>2 DEF PspsDiffer, Hosted
  <1>12. BoundAt(chain', from')
    BY <1>1 DEF BoundAt
  <1>13. NoOrphanBlocks'
    <2>1. ASSUME NEW h \in DOMAIN chain', chain'[h].owner # FREE, chain'[h].owner # SYSTEM,
                 chain'[h].owner # p
          PROVE  chain'[h].owner \in {stack[i].psp : i \in 1 .. Depth}
      <3> DEFINE q == chain'[h].owner
      <3>1. h \in BlocksOf(chain', q)
        BY DEF BlocksOf
      <3>2. h \in BlocksOf(c, q)
        BY <1>1, <2>1, <3>1 DEF SameFor
      <3>3. h \in DOMAIN c /\ c[h].owner = q
        BY <3>2 DEF BlocksOf
      <3>4. c = chain
        BY <2>1, <3>3 DEF IsFree
      <3>5. QED
        BY <2>1, <3>3, <3>4 DEF PInv, NoOrphanBlocks
    <2>2. n \in 1 .. n /\ stack'[n].psp = p /\ \A i \in 1 .. Depth : i \in 1 .. n /\ stack'[i].psp = stack[i].psp
      BY <1>2, <1>4, <1>5
    <2>3. ASSUME NEW h \in DOMAIN chain'
          PROVE  chain'[h].owner \in {FREE, SYSTEM} \cup {stack'[i].psp : i \in 1 .. n}
      BY <2>1, <2>2
    <2>4. QED
      BY <1>6, <2>3 DEF NoOrphanBlocks
  <1>14. RunningKeepTheirMemory'
    <2>1. ASSUME NEW i \in 1 .. n, stack'[i].psp > from'
          PROVE  stack'[i].psp - 1 \in BlocksOf(chain', stack'[i].psp)
      <3>1. CASE i \in 1 .. Depth
        BY <1>5, <1>9, <1>10, <2>1, <3>1 DEF PInv, RunningKeepTheirMemory, SameFor, Hosted
      <3>2. CASE i = n
        BY <1>1, <1>2, <1>5, <3>2
      <3>3. QED
        BY <1>7, <3>1, <3>2
    <2>2. ASSUME NEW i \in 1 .. n, NEW j \in 1 .. i - 1
          PROVE  Owned(chain', stack'[j].psp) = stack'[i].others[j]
      <3>1. j \in 1 .. Depth
        BY <1>4
      <3>2. stack'[j] = stack[j] /\ Owned(chain', stack[j].psp) = Owned(chain, stack[j].psp)
        BY <1>5, <1>10, <3>1, OwnedSame
      <3>3. CASE i \in 1 .. Depth
        BY <1>5, <3>2, <3>3 DEF PInv, RunningKeepTheirMemory
      <3>4. CASE i = n
        BY <1>3, <1>5, <1>9, <3>1, <3>2, <3>4
      <3>5. QED
        BY <1>7, <3>3, <3>4
    <2>3. QED
      BY <1>6, <2>1, <2>2 DEF RunningKeepTheirMemory, Hosted
  <1>15. LowImage' \subseteq LowImage
    <2>1. CASE Depth = 0
      <3>1. stack'[1].psp = p
        BY <1>2, <1>5, <2>1
      <3>2. LowImage' = {}
        BY <1>1, <1>8, <3>1 DEF LowImage
      <3>3. QED
        BY <3>2
    <2>2. CASE Depth # 0
      <3>1. 1 \in 1 .. Depth
        BY <1>4, <2>2
      <3>2. stack'[1] = stack[1] /\ from' = from /\ Depth > 0
        BY <1>5, <1>9, <3>1, PInvUnfold
      <3>3. QED
        BY <3>2 DEF LowImage
    <2>3. QED
      BY <2>1, <2>2
  <1>16. QED
    BY <1>5, <1>11, <1>12, <1>13, <1>14, <1>15

(* What was kept stays kept when nothing new is. *)
LEMMA KeptKeeps ==
  ASSUME PInv, keptPsp' = keptPsp, tsr_top' = tsr_top, LowImage' \subseteq LowImage,
         from' \in Nat,
         (from' = from /\ SameFor(chain, chain', SYSTEM)) \/ from' >= tsr_top
  PROVE  ResidentImageKept'
  <1>1. \A x \in keptPsp : /\ x < tsr_top /\ x \notin LowImage
                           /\ x >= from => \E h \in BlocksOf(chain, SYSTEM) : x \in Data(chain, h)
    BY DEF PInv, ResidentImageKept, Untouched
  <1>2. ASSUME NEW x \in keptPsp, x >= from'
        PROVE  \E h \in BlocksOf(chain', SYSTEM) : x \in Data(chain', h)
    <2>1. from' = from /\ SameFor(chain, chain', SYSTEM)
      BY <1>1, <1>2, PInvUnfold
    <2>2. QED
      BY <1>1, <1>2, <2>1, DataSame
  <1>3. QED
    BY <1>1, <1>2 DEF ResidentImageKept, Untouched, Data, After

-----------------------------------------------------------------------------
(* The steps. *)

LEMMA PInitInv == PInit => PInv
  <1> SUFFICES ASSUME PInit PROVE PInv
    OBVIOUS
  <1>1. stack = <<>> /\ Depth = 0 /\ stack \in Seq(Frames)
    BY DEF PInit, Depth
  <1>2. Ranges /\ BoundAt(chain, from)
    BY <1>1, Sizes DEF PInit, Ranges, BoundAt
  <1>3. PspsDiffer /\ RunningKeepTheirMemory
    BY <1>1 DEF PspsDiffer, RunningKeepTheirMemory
  <1>4. NoOrphanBlocks /\ ResidentImageKept
    BY DEF PInit, NoOrphanBlocks, ResidentImageKept, Untouched, Unbound
  <1>5. QED
    BY <1>2, <1>3, <1>4 DEF PInv

LEMMA BindIs ==
  ASSUME NEW low \in Nat, Base <= low, low <= Ceil, Bind(low)
  PROVE  /\ BoundAt(chain', from') /\ from' \in Nat /\ low <= from' /\ from' <= Ceil
         /\ \A h \in DOMAIN chain' : IsFree(chain', h)
  <1>1. CASE Ceil - low >= 2
    <2>1. from' = low /\ chain' = FreshChain(low) /\ low < Ceil
      BY <1>1, Sizes DEF Bind
    <2>2. ChainAt(chain', low) /\ Joined(chain') /\ DOMAIN chain' = {low} /\ IsFree(chain', low)
      BY <2>1, FreshChainIs
    <2>3. QED
      BY <2>1, <2>2 DEF BoundAt
  <1>2. CASE ~ (Ceil - low >= 2)
    <2>1. from' = Ceil /\ chain' = Unbound
      BY <1>2 DEF Bind
    <2>2. QED
      BY <2>1, Sizes DEF BoundAt, Unbound
  <1>3. QED
    BY <1>1, <1>2

LEMMA LoadAtBaseInv ==
  ASSUME PInv, NEW low \in Base .. Ceil, LoadAtBase(low)
  PROVE  PInv'
  <1> DEFINE fr == Frame(Unbound, Base, FALSE)
  <1>1. Depth = 0 /\ tsr_top = Base /\ low \in Nat /\ Base < low /\ low <= Ceil
    BY Sizes DEF LoadAtBase
  <1>2. /\ BoundAt(chain', from') /\ from' \in Nat /\ low <= from' /\ from' <= Ceil
        /\ \A h \in DOMAIN chain' : IsFree(chain', h)
    <2>1. Base <= low
      BY <1>1, Sizes
    <2>2. QED
      BY <1>1, <2>1, BindIs DEF LoadAtBase
  <1>3. fr \in Frames /\ fr.psp = Base
    <2>1. [i \in 1 .. Depth |-> Owned(Unbound, stack[i].psp)] \in [1 .. 0 -> SUBSET [first : Nat, size : Nat]]
      BY <1>1
    <2>2. [i \in 1 .. Depth |-> Owned(Unbound, stack[i].psp)] \in Others
      BY <2>1 DEF Others
    <2>3. Base \in Owners
      BY Sizes
    <2>4. QED
      BY <2>2, <2>3 DEF Frame, Frames
  <1> HIDE DEF fr
  <1>4. stack' = <<fr>> /\ stack' \in Seq(Frames) /\ Depth' = 1 /\ stack'[1] = fr
    <2>1. stack' = <<fr>>
      BY DEF LoadAtBase, fr
    <2>2. <<fr>> \in Seq(Frames) /\ Len(<<fr>>) = 1 /\ <<fr>>[1] = fr
      BY <1>3
    <2>3. QED
      BY <2>1, <2>2 DEF Depth
  <1>5. keptPsp = {} /\ keptPsp' = {} /\ tsr_top' = tsr_top
    <2>1. \A x \in keptPsp : x < Base /\ x \in Nat /\ Base <= x
      BY <1>1, PInvUnfold DEF PInv, ResidentImageKept, Untouched
    <2>2. QED
      BY <2>1, Sizes DEF LoadAtBase
  <1>6. Ranges'
    BY <1>1, <1>2, <1>4, <1>5, Sizes DEF Ranges
  <1>7. PspsDiffer'
    BY <1>4 DEF PspsDiffer
  <1>8. NoOrphanBlocks'
    BY <1>2 DEF NoOrphanBlocks, IsFree
  <1>9. RunningKeepTheirMemory'
    <2>1. ~ (stack'[1].psp > from')
      BY <1>1, <1>2, <1>3, <1>4, Sizes
    <2>2. QED
      BY <1>4, <2>1 DEF RunningKeepTheirMemory, Hosted
  <1>10. ResidentImageKept'
    BY <1>5 DEF ResidentImageKept, Untouched
  <1>11. QED
    BY <1>2, <1>6, <1>7, <1>8, <1>9, <1>10 DEF PInv

LEMMA LoadAboveFailsInv ==
  ASSUME PInv, LoadAboveFails
  PROVE  PInv'
  <1>1. Depth = 0 /\ UNCHANGED <<stack, tsr_top, keptPsp, keptHeap>> /\ Bind(tsr_top)
    BY DEF LoadAboveFails
  <1>2. /\ BoundAt(chain', from') /\ from' \in Nat /\ tsr_top <= from' /\ from' <= Ceil
        /\ \A h \in DOMAIN chain' : IsFree(chain', h)
    BY <1>1, PInvUnfold, BindIs
  <1>3. Depth' = 0
    BY <1>1 DEF Depth
  <1>4. Ranges'
    BY <1>1, <1>2, PInvUnfold, Sizes DEF PInv, Ranges
  <1>5. PspsDiffer' /\ RunningKeepTheirMemory' /\ LowImage' = {}
    BY <1>3 DEF PspsDiffer, RunningKeepTheirMemory, LowImage
  <1>6. NoOrphanBlocks'
    BY <1>2 DEF NoOrphanBlocks, IsFree
  <1>7. ResidentImageKept'
    <2>1. from' >= tsr_top
      BY <1>2, PInvUnfold
    <2>2. QED
      BY <1>1, <1>2, <1>5, <2>1, KeptKeeps
  <1>8. QED
    BY <1>2, <1>4, <1>5, <1>6, <1>7 DEF PInv

LEMMA LoadAboveInv ==
  ASSUME PInv, NEW size \in Base .. Ceil, LoadAbove(size)
  PROVE  PInv'
  <1> DEFINE c == FreshChain(tsr_top)
             p == PspIn(c)
  <1>1. /\ Depth = 0 /\ size \in Nat /\ Hosts(c, MinProgram) /\ size <= Largest(c)
        /\ from' = tsr_top /\ chain' = Trimmed(HostedIn(c), p, size)
        /\ stack' = <<Frame(Unbound, p, FALSE)>>
        /\ tsr_top' = tsr_top /\ keptPsp' = keptPsp
    BY Sizes DEF LoadAbove
  <1>2. from' \in Nat /\ Base <= from' /\ from' < Ceil
    BY PInvUnfold, Sizes DEF LoadAbove
  <1>3. ChainAt(c, from') /\ Joined(c) /\ \A h \in DOMAIN c : IsFree(c, h)
    BY <1>1, <1>2, FreshChainIs
  <1> HIDE DEF c
  <1>4. /\ Placed(c, HostedIn(c), from', p)
        /\ HostedIn(c)[p - 1].size = Largest(c)
    BY <1>1, <1>2, <1>3, HostedInPlaces, Sizes
  <1>5. Placed(c, chain', from', p)
    BY <1>1, <1>2, <1>4, TrimmedPlaces
  <1>6. stack' = Append(stack, Frame(c, p, FALSE))
    <2>1. stack = <<>>
      <3>1. stack \in Seq(Frames) /\ Len(stack) = 0
        BY <1>1, PInvUnfold DEF Depth
      <3>2. QED
        BY <3>1, EmptySeq
    <2>2. Frame(Unbound, p, FALSE) = Frame(c, p, FALSE)
      BY <1>1 DEF Frame
    <2>3. \A e : Append(<< >>, e) = <<e>>
      OBVIOUS
    <2>4. QED
      BY <1>1, <2>1, <2>2, <2>3, Zenon
  <1>7. BoundAt(c, from')
    BY <1>2, <1>3 DEF BoundAt
  <1>8. /\ stack' \in Seq(Frames) /\ PspsDiffer' /\ BoundAt(chain', from')
        /\ NoOrphanBlocks' /\ RunningKeepTheirMemory'
        /\ LowImage' \subseteq LowImage
    BY <1>1, <1>2, <1>3, <1>5, <1>6, <1>7, PushKeeps
  <1>9. ResidentImageKept'
    <2>1. from' >= tsr_top
      BY <1>1, <1>2
    <2>2. QED
      BY <1>1, <1>2, <1>8, <2>1, KeptKeeps
  <1>10. Ranges'
    BY <1>1, <1>2, <1>8, Sizes DEF PInv, Ranges
  <1>11. QED
    BY <1>8, <1>9, <1>10 DEF PInv

(* A block that can host lies in an arena that is bound. *)
LEMMA HostIsBound ==
  ASSUME PInv, NEW need, Hosts(chain, need)
  PROVE  from < Ceil /\ ChainAt(chain, from) /\ Joined(chain)
  BY NothingUnbound DEF PInv, BoundAt, Hosts

LEMMA NestInv ==
  ASSUME PInv, NEW p, NEW high \in BOOLEAN, from < Ceil,
         Placed(chain, chain', from, p), stack' = Append(stack, Frame(chain, p, high)),
         UNCHANGED <<from, tsr_top, keptPsp>>
  PROVE  PInv'
  <1>1. from' = from /\ from' \in Nat /\ Base <= from' /\ from' < Ceil /\ BoundAt(chain, from')
    BY PInvUnfold
  <1>2. /\ stack' \in Seq(Frames) /\ PspsDiffer' /\ BoundAt(chain', from')
        /\ NoOrphanBlocks' /\ RunningKeepTheirMemory'
        /\ LowImage' \subseteq LowImage
    BY <1>1, PushKeeps
  <1>3. ResidentImageKept'
    <2>1. SameFor(chain, chain', SYSTEM)
      BY OwnersDiffer DEF Placed
    <2>2. QED
      BY <1>1, <1>2, <2>1, KeptKeeps
  <1>4. Ranges'
    BY <1>2 DEF PInv, Ranges
  <1>5. QED
    BY <1>2, <1>3, <1>4 DEF PInv

LEMMA ExecInv ==
  ASSUME PInv, Exec
  PROVE  PInv'
  <1>1. from < Ceil /\ ChainAt(chain, from) /\ Joined(chain) /\ Hosts(chain, MinProgram)
    BY HostIsBound DEF Exec
  <1>2. Placed(chain, HostedIn(chain), from, PspIn(chain))
    BY <1>1, PInvUnfold, HostedInPlaces, Sizes
  <1>3. QED
    BY <1>1, <1>2, NestInv DEF Exec

LEMMA LoadHighInv ==
  ASSUME PInv, LoadHigh
  PROVE  PInv'
  <1>1. CASE Depth # 0
    <2> DEFINE p == PspIn(chain)
    <2>1. /\ Hosts(chain, Control) /\ chain' = Trimmed(HostedIn(chain), p, Control)
          /\ stack' = Append(stack, Frame(chain, p, TRUE))
          /\ UNCHANGED <<from, tsr_top, keptPsp>>
      BY <1>1 DEF LoadHigh
    <2>2. from < Ceil /\ ChainAt(chain, from) /\ Joined(chain)
      BY <2>1, HostIsBound
    <2>3. /\ Placed(chain, HostedIn(chain), from, p)
          /\ HostedIn(chain)[p - 1].size = Largest(chain)
          /\ Largest(chain) \in Nat /\ Largest(chain) >= Control
      BY <2>1, <2>2, PInvUnfold, HostedInPlaces, Sizes
    <2> HIDE DEF p
    <2>4. Control <= HostedIn(chain)[p - 1].size
      BY <2>3, Sizes
    <2>5. Placed(chain, chain', from, p)
      BY <2>1, <2>3, <2>4, PInvUnfold, TrimmedPlaces, Sizes
    <2>6. QED
      BY <2>1, <2>2, <2>5, NestInv
  <1>2. CASE Depth = 0
    <2> DEFINE c == FreshChain(tsr_top)
               p == PspIn(c)
    <2>1. /\ Hosts(c, Control) /\ chain' = Trimmed(HostedIn(c), p, Control)
          /\ stack' = Append(stack, Frame(c, p, TRUE))
          /\ from' = tsr_top /\ tsr_top' = tsr_top /\ keptPsp' = keptPsp
          /\ Ceil - tsr_top >= 2
      BY <1>2 DEF LoadHigh
    <2>2. from' \in Nat /\ Base <= from' /\ from' < Ceil
      BY <2>1, PInvUnfold, Sizes
    <2>3. ChainAt(c, from') /\ Joined(c) /\ \A h \in DOMAIN c : IsFree(c, h)
      BY <2>1, <2>2, FreshChainIs
    <2> HIDE DEF c
    <2>4. /\ Placed(c, HostedIn(c), from', p)
          /\ HostedIn(c)[p - 1].size = Largest(c)
          /\ Largest(c) \in Nat /\ Largest(c) >= Control
      BY <2>1, <2>2, <2>3, HostedInPlaces, Sizes
    <2> HIDE DEF p
    <2>5. Control <= HostedIn(c)[p - 1].size
      BY <2>4, Sizes
    <2>6. Placed(c, chain', from', p)
      BY <2>1, <2>2, <2>4, <2>5, TrimmedPlaces, Sizes
    <2>7. BoundAt(c, from')
      BY <2>2, <2>3 DEF BoundAt
    <2>8. /\ stack' \in Seq(Frames) /\ PspsDiffer' /\ BoundAt(chain', from')
          /\ NoOrphanBlocks' /\ RunningKeepTheirMemory'
          /\ LowImage' \subseteq LowImage
      BY <1>2, <2>1, <2>2, <2>3, <2>6, <2>7, PushKeeps
    <2>9. ResidentImageKept'
      <3>1. from' >= tsr_top
        BY <2>1, <2>2
      <3>2. QED
        BY <2>1, <2>2, <2>8, <3>1, KeptKeeps
    <2>10. Ranges'
      BY <2>1, <2>2, <2>8, Sizes DEF PInv, Ranges
    <2>11. QED
      BY <2>8, <2>9, <2>10 DEF PInv
  <1>3. QED
    BY <1>1, <1>2

LEMMA ExecFailsInv ==
  ASSUME PInv, ExecFails
  PROVE  PInv'
  <1> DEFINE d == HostedIn(chain)
             p == PspIn(chain)
  <1>1. /\ Depth > 0 /\ Hosts(chain, MinProgram) /\ chain' = WithoutOwner(d, p)
        /\ UNCHANGED <<from, stack, tsr_top, keptPsp>>
    BY PInvUnfold DEF ExecFails, ExecFreed
  <1>2. from < Ceil /\ ChainAt(chain, from) /\ Joined(chain)
    BY <1>1, HostIsBound
  <1>3. Placed(chain, d, from, p)
    BY <1>1, <1>2, PInvUnfold, HostedInPlaces, Sizes
  <1> HIDE DEF d, p
  <1>4. p \in Owners /\ BoundAt(d, from) /\ \A q : q # FREE /\ q # p => SameFor(chain, d, q)
    BY <1>2, <1>3 DEF Placed, BoundAt
  <1>5. /\ BoundAt(chain', from) /\ BlocksOf(chain', p) = {}
        /\ \A q : q # FREE /\ q # p => SameFor(d, chain', q)
    BY <1>1, <1>4, PInvUnfold, WithoutSame
  <1>6. \A i \in 1 .. Depth : stack[i].psp # p
    BY <1>3, PlacedIsNew
  <1>7. BlocksOf(chain, p) = {}
    <2>1. ASSUME NEW h \in DOMAIN chain, chain[h].owner = p PROVE FALSE
      BY <1>4, <1>6, <2>1, OwnersDiffer DEF PInv, NoOrphanBlocks
    <2>2. QED
      BY <2>1 DEF BlocksOf
  <1>8. ASSUME NEW q, q # FREE PROVE SameFor(chain, chain', q)
    <2>1. CASE q = p
      BY <1>5, <1>7, <2>1 DEF SameFor
    <2>2. CASE q # p
      <3>1. SameFor(chain, d, q) /\ SameFor(d, chain', q)
        BY <1>4, <1>5, <1>8, <2>2
      <3>2. QED
        BY <3>1 DEF SameFor
    <2>3. QED
      BY <2>1, <2>2
  <1>9. Hosted(Cur) => Cur - 1 \in BlocksOf(chain', Cur)
    <2>1. SameFor(chain, chain', Cur)
      BY <1>1, <1>8, CurUnfold, OwnersDiffer
    <2>2. QED
      BY <1>1, <2>1, CurUnfold DEF SameFor
  <1>10. QED
    BY <1>1, <1>5, <1>8, <1>9, ServiceKeeps

LEMMA ServeAllocInv ==
  ASSUME PInv, NEW want \in 0 .. Ceil - Base, ServeAlloc(want)
  PROVE  PInv'
  <1>1. /\ Depth > 0 /\ from < Ceil /\ UNCHANGED <<from, stack, tsr_top, keptPsp>>
        /\ Alloc(Cur, want)
    BY DEF ServeAlloc, Serves
  <1>2. ChainAt(chain, from) /\ Joined(chain) /\ want \in Nat /\ from \in Nat
    BY <1>1, PInvUnfold, Sizes DEF BoundAt
  <1>3. Coalesced(chain) = chain
    BY <1>2, CoalescedSame
  <1>4. CASE Fitting(chain, want) = {}
    <2>1. chain' = chain
      BY <1>1, <1>3, <1>4 DEF Alloc
    <2>2. QED
      BY <1>1, <2>1, PInvUnfold, CurUnfold, ServiceKeeps DEF SameFor
  <1>5. CASE Fitting(chain, want) # {}
    <2>1. chain' = Allocated(chain, want, Cur)
      BY <1>1, <1>3, <1>5 DEF Alloc
    <2>2. Cur \in Owners
      BY <1>1, CurUnfold
    <2>3. /\ ChainAt(chain', from) /\ Joined(chain')
      BY <1>2, <1>5, <2>1, <2>2, AllocatedChain
    <2>4. /\ \A q : q # FREE /\ q # Cur => SameFor(chain, chain', q)
          /\ \A x \in BlocksOf(chain, Cur) : x \in BlocksOf(chain', Cur)
      BY <1>2, <1>5, <2>1, <2>2, AllocSame
    <2>5. BoundAt(chain', from)
      BY <1>1, <2>3 DEF BoundAt
    <2>6. QED
      BY <1>1, <2>4, <2>5, CurUnfold, ServiceKeeps
  <1>6. QED
    BY <1>4, <1>5

LEMMA ServeFreeInv ==
  ASSUME PInv, NEW h \in DOMAIN chain, ServeFree(h)
  PROVE  PInv'
  <1>1. /\ Depth > 0 /\ from < Ceil /\ UNCHANGED <<from, stack, tsr_top, keptPsp>>
        /\ h + 1 # Cur /\ h \in BlocksOf(chain, Cur)
        /\ chain' = Coalesced(Reowned(chain, {h}, FREE))
    BY DEF ServeFree, Serves, Free
  <1>2. ChainAt(chain, from) /\ from \in Nat /\ Cur \in Owners /\ Cur \in Nat /\ h \in Nat
    <2>1. ChainAt(chain, from) /\ from \in Nat /\ Cur \in Owners /\ Cur \in Nat
      BY <1>1, PInvUnfold, CurUnfold DEF BoundAt
    <2>2. QED
      BY <2>1, AtHeader
  <1>3. /\ ChainAt(chain', from) /\ Joined(chain')
        /\ \A q : q # FREE /\ q # Cur => SameFor(chain, chain', q)
        /\ \A x \in BlocksOf(chain, Cur) : x # h => x \in BlocksOf(chain', Cur)
    BY <1>1, <1>2, FreeSame
  <1>4. Cur - 1 # h
    BY <1>1, <1>2
  <1>5. BoundAt(chain', from)
    BY <1>1, <1>3 DEF BoundAt
  <1>6. QED
    BY <1>1, <1>3, <1>4, <1>5, CurUnfold, ServiceKeeps

LEMMA ServeSetBlockInv ==
  ASSUME PInv, NEW h \in DOMAIN chain, NEW want \in 0 .. Ceil - Base, ServeSetBlock(h, want)
  PROVE  PInv'
  <1>1. /\ Depth > 0 /\ from < Ceil /\ UNCHANGED <<from, stack, tsr_top, keptPsp>>
        /\ Shrink(Cur, h, want) \/ Grow(Cur, h, want)
    BY DEF ServeSetBlock, Serves
  <1>2. ChainAt(chain, from) /\ from \in Nat /\ Cur \in Owners /\ want \in Nat
    BY <1>1, PInvUnfold, CurUnfold, Sizes DEF BoundAt
  <1>3. h \in BlocksOf(chain, Cur) /\ h \in Held(chain)
    <2>1. h \in BlocksOf(chain, Cur)
      BY <1>1 DEF Shrink, Grow
    <2>2. QED
      BY <1>2, <2>1, OwnersDiffer, BlocksHeld
  <1>4. /\ ChainAt(chain', from) /\ Joined(chain')
        /\ Held(chain') = Held(chain) /\ chain'[h].owner = chain[h].owner
        /\ \A x \in Held(chain) : x # h => chain'[x] = chain[x]
    <2>1. CASE Shrink(Cur, h, want)
      <3>1. chain[h].size > want
        BY <1>2, <2>1, AtHeader DEF Shrink
      <3>2. chain' = Coalesced(Cut(chain, h, want))
        BY <2>1, <3>1 DEF Shrink, Cut
      <3>3. QED
        BY <1>2, <1>3, <3>2, ResizedChain
    <2>2. CASE Grow(Cur, h, want)
      <3>1. /\ chain' = Coalesced(Cut(Absorbed(chain, h), h, want))
            /\ want > chain[h].size /\ CanGrow(chain, h, want)
        BY <2>2 DEF Grow
      <3>2. QED
        BY <1>2, <1>3, <3>1, GrownChain
    <2>3. QED
      BY <1>1, <2>1, <2>2
  <1>5. /\ \A q : q # FREE /\ q # Cur => SameFor(chain, chain', q)
        /\ \A x \in BlocksOf(chain, Cur) : x \in BlocksOf(chain', Cur)
    BY <1>2, <1>3, <1>4, ResizeSame
  <1>6. BoundAt(chain', from)
    BY <1>1, <1>4 DEF BoundAt
  <1>7. QED
    BY <1>1, <1>5, <1>6, CurUnfold, ServiceKeeps

LEMMA TerminateInv ==
  ASSUME PInv, Terminate
  PROVE  PInv'
  <1> DEFINE d == WithoutOwner(chain, Cur)
  <1>1. /\ Depth > 0 /\ UNCHANGED <<from, tsr_top, keptPsp>>
        /\ stack' = SubSeq(stack, 1, Depth - 1) /\ chain' = WithoutOwner(d, Cur)
    BY DEF Terminate, ExecFreed
  <1>2. BoundAt(chain, from) /\ from \in Nat /\ Cur \in Owners
    BY <1>1, PInvUnfold, CurUnfold
  <1>3. /\ BoundAt(d, from) /\ BlocksOf(d, Cur) = {}
        /\ \A q : q # FREE /\ q # Cur => SameFor(chain, d, q)
    BY <1>2, WithoutSame
  <1> HIDE DEF d
  <1>4. /\ BoundAt(chain', from) /\ BlocksOf(chain', Cur) = {}
        /\ \A q : q # FREE /\ q # Cur => SameFor(d, chain', q)
    BY <1>1, <1>2, <1>3, WithoutSame
  <1>5. ASSUME NEW q, q # FREE, q # Cur PROVE SameFor(chain, chain', q)
    <2>1. SameFor(chain, d, q) /\ SameFor(d, chain', q)
      BY <1>3, <1>4, <1>5
    <2>2. QED
      BY <2>1 DEF SameFor
  <1>6. /\ stack' \in Seq(Frames) /\ PspsDiffer'
        /\ NoOrphanBlocks' /\ RunningKeepTheirMemory'
        /\ LowImage' \subseteq LowImage
    BY <1>1, <1>4, <1>5, PopKeeps
  <1>7. ResidentImageKept'
    <2>1. SameFor(chain, chain', SYSTEM)
      BY <1>2, <1>5, OwnersDiffer
    <2>2. QED
      BY <1>1, <1>2, <1>6, <2>1, KeptKeeps
  <1>8. Ranges'
    BY <1>1, <1>6 DEF PInv, Ranges
  <1>9. QED
    BY <1>1, <1>4, <1>6, <1>7, <1>8 DEF PInv

LEMMA ResidentTopIs ==
  ASSUME NEW f \in Nat, NEW c, BoundAt(c, f), NEW own \in Nat, own <= Ceil,
         tsr_top \in Nat, tsr_top <= Ceil
  PROVE  LET top == ResidentTop(c, own)
         IN  /\ top \in Nat /\ own <= top /\ tsr_top <= top /\ top <= Ceil
             /\ \A h \in BlocksOf(c, SYSTEM) : After(c, h) <= top
  <1> DEFINE S == {own, tsr_top} \cup {After(c, h) : h \in BlocksOf(c, SYSTEM)}
             top == ResidentTop(c, own)
  <1>1. ASSUME NEW h \in BlocksOf(c, SYSTEM) PROVE After(c, h) \in Nat /\ After(c, h) <= Ceil
    <2>1. h \in DOMAIN c /\ c # Unbound
      BY NothingUnbound DEF BlocksOf
    <2>2. QED
      BY <2>1, AtHeader DEF BoundAt
  <1>2. S \in SUBSET Nat /\ S # {} /\ \A k \in S : k <= Ceil
    BY <1>1
  <1>3. own \in S /\ tsr_top \in S /\ \A h \in BlocksOf(c, SYSTEM) : After(c, h) \in S
    OBVIOUS
  <1>4. top = Highest(S)
    BY DEF ResidentTop
  <1> HIDE DEF S
  <1>5. \E m \in S : \A k \in S : k <= m
    BY <1>2, Sizes, HighestExists
  <1>6. Highest(S) \in S /\ \A k \in S : k <= Highest(S)
    BY <1>5 DEF Highest
  <1> HIDE DEF top
  <1>7. top \in S /\ \A k \in S : k <= top
    BY <1>4, <1>6
  <1>8. QED
    BY <1>2, <1>3, <1>7 DEF top

(* What AH=31h does to the blocks, wherever the program lies. *)
LEMMA StayKeeps ==
  ASSUME PInv, Depth > 0, NEW n \in Nat
  PROVE  LET cut == IF Hosted(Cur) THEN KeptResident(chain, Cur, n) ELSE chain
             d   == KeptAll(cut, Cur)
         IN  /\ BoundAt(d, from)
             /\ \A q : q # FREE /\ q # Cur /\ q # SYSTEM => SameFor(chain, d, q)
             /\ \A x \in BlocksOf(chain, SYSTEM) : x \in BlocksOf(d, SYSTEM) /\ d[x] = chain[x]
             /\ Hosted(Cur) =>
                  /\ Cur - 1 \in BlocksOf(d, SYSTEM)
                  /\ d[Cur - 1].size = chain[Cur - 1].size \/ d[Cur - 1].size = n
  <1>1. from \in Nat /\ Cur \in Owners /\ BoundAt(chain, from)
    BY PInvUnfold, CurUnfold
  <1>2. CASE Hosted(Cur)
    <2>1. Cur - 1 \in BlocksOf(chain, Cur)
      BY <1>2, CurUnfold
    <2>2. from < Ceil /\ ChainAt(chain, from) /\ Joined(chain) /\ BlocksOf(chain, Cur) # {}
      BY <1>1, <2>1, NothingUnbound DEF BoundAt
    <2> DEFINE d == KeptAll(KeptResident(chain, Cur, n), Cur)
    <2>3. /\ BoundAt(d, from)
          /\ \A q : q # FREE /\ q # Cur /\ q # SYSTEM => SameFor(chain, d, q)
          /\ \A x \in BlocksOf(chain, SYSTEM) : x \in BlocksOf(d, SYSTEM) /\ d[x] = chain[x]
          /\ \A x \in BlocksOf(chain, Cur) :
               /\ x \in BlocksOf(d, SYSTEM)
               /\ d[x].size = chain[x].size \/ d[x].size = n
      BY <1>1, <2>2, KeepSame
    <2> HIDE DEF d
    <2>4. QED
      BY <1>2, <2>1, <2>3 DEF d
  <1>3. CASE ~Hosted(Cur)
    <2> DEFINE d == KeptAll(chain, Cur)
    <2>1. /\ BoundAt(d, from)
          /\ \A q : q # FREE /\ q # Cur /\ q # SYSTEM => SameFor(chain, d, q)
          /\ \A x \in BlocksOf(chain, SYSTEM) : x \in BlocksOf(d, SYSTEM) /\ d[x] = chain[x]
      BY <1>1, KeptAllSame
    <2> HIDE DEF d
    <2>2. QED
      BY <1>3, <2>1 DEF d
  <1>4. QED
    BY <1>2, <1>3

LEMMA StayInv ==
  ASSUME PInv, NEW paras \in 0 .. Ceil - Base, Stay(paras)
  PROVE  PInv'
  <1> DEFINE n   == Larger(paras, MinKeep)
             cut == IF Hosted(Cur) THEN KeptResident(chain, Cur, n) ELSE chain
             all == KeptAll(cut, Cur)
             own == IF Hosted(Cur) THEN Base ELSE Smaller(Cur + n, from)
             end == IF Hosted(Cur) THEN Smaller(Cur + n, After(chain, Cur - 1)) ELSE own
             kept == Cur .. end - 1
  <1>1. /\ Depth > 0 /\ from' = from /\ stack' = SubSeq(stack, 1, Depth - 1)
        /\ chain' = WithoutOwner(all, Cur) /\ tsr_top' = ResidentTop(all, own)
        /\ keptPsp' = keptPsp \cup kept
    BY DEF Stay, ExecFreed
  <1>2. n \in Nat
    BY Sizes DEF Larger
  <1>3. /\ from \in Nat /\ Base <= from /\ from <= Ceil /\ BoundAt(chain, from)
        /\ tsr_top \in Nat /\ Base <= tsr_top /\ tsr_top <= Ceil
        /\ Cur \in Owners /\ Cur \in Nat /\ Base <= Cur /\ Cur < Ceil
    BY <1>1, PInvUnfold, CurUnfold, Sizes
  <1>4. /\ BoundAt(all, from)
        /\ \A q : q # FREE /\ q # Cur /\ q # SYSTEM => SameFor(chain, all, q)
        /\ \A x \in BlocksOf(chain, SYSTEM) : x \in BlocksOf(all, SYSTEM) /\ all[x] = chain[x]
        /\ Hosted(Cur) =>
             /\ Cur - 1 \in BlocksOf(all, SYSTEM)
             /\ all[Cur - 1].size = chain[Cur - 1].size \/ all[Cur - 1].size = n
    BY <1>1, <1>2, StayKeeps
  <1>5. own \in Nat /\ own <= Ceil /\ (Hosted(Cur) \/ own <= from)
    BY <1>2, <1>3, Sizes DEF Smaller
  <1>6. Hosted(Cur) => /\ chain[Cur - 1].size \in Nat
                       /\ After(chain, Cur - 1) = Cur + chain[Cur - 1].size
                       /\ After(chain, Cur - 1) <= Ceil
    <2>1. SUFFICES ASSUME Hosted(Cur)
                   PROVE  /\ chain[Cur - 1].size \in Nat
                          /\ After(chain, Cur - 1) = Cur + chain[Cur - 1].size
                          /\ After(chain, Cur - 1) <= Ceil
      OBVIOUS
    <2>2. Cur - 1 \in BlocksOf(chain, Cur)
      BY <1>1, <2>1, CurUnfold
    <2>3. Cur - 1 \in DOMAIN chain /\ chain # Unbound
      BY <2>2, NothingUnbound DEF BlocksOf
    <2>4. chain[Cur - 1].size \in Nat /\ After(chain, Cur - 1) <= Ceil
      BY <1>3, <2>3, AtHeader DEF BoundAt
    <2>5. QED
      BY <1>3, <2>4 DEF After
  <1> HIDE DEF n, all, own
  <1>7. end \in Nat /\ end <= Ceil
    <2>1. CASE Hosted(Cur)
      <3>1. Smaller(Cur + n, Cur + chain[Cur - 1].size) \in Nat
            /\ Smaller(Cur + n, Cur + chain[Cur - 1].size) <= Cur + chain[Cur - 1].size
        BY <1>2, <1>3, <1>6, <2>1 DEF Smaller
      <3>2. end = Smaller(Cur + n, Cur + chain[Cur - 1].size)
        BY <1>6, <2>1
      <3>3. QED
        BY <1>3, <1>6, <2>1, <3>1, <3>2, Sizes
    <2>2. CASE ~Hosted(Cur)
      BY <1>5, <2>2
    <2>3. QED
      BY <2>1, <2>2
  <1>8. /\ tsr_top' \in Nat /\ own <= tsr_top' /\ tsr_top <= tsr_top' /\ tsr_top' <= Ceil
        /\ \A h \in BlocksOf(all, SYSTEM) : After(all, h) <= tsr_top'
    BY <1>1, <1>3, <1>4, <1>5, ResidentTopIs
  <1>9. /\ BoundAt(chain', from) /\ BlocksOf(chain', Cur) = {}
        /\ \A q : q # FREE /\ q # Cur => SameFor(all, chain', q)
    BY <1>1, <1>3, <1>4, WithoutSame
  <1>10. ASSUME NEW q, q # FREE, q # Cur, q # SYSTEM PROVE SameFor(chain, chain', q)
    <2>1. SameFor(chain, all, q) /\ SameFor(all, chain', q)
      BY <1>4, <1>9, <1>10
    <2>2. QED
      BY <2>1 DEF SameFor
  <1>11. /\ stack' \in Seq(Frames) /\ PspsDiffer'
         /\ NoOrphanBlocks' /\ RunningKeepTheirMemory'
         /\ LowImage' \subseteq LowImage
         /\ Depth = 1 => LowImage' = {}
    BY <1>1, <1>9, <1>10, PopKeeps
  <1>12. \A h \in BlocksOf(all, SYSTEM) : h \in BlocksOf(chain', SYSTEM) /\ Data(chain', h) = Data(all, h)
    <2>1. SameFor(all, chain', SYSTEM)
      BY <1>3, <1>9, OwnersDiffer
    <2>2. QED
      BY <2>1, DataSame
  <1>13. ASSUME NEW x \in keptPsp
         PROVE  /\ x < tsr_top' /\ x \notin LowImage'
                /\ x >= from => \E h \in BlocksOf(chain', SYSTEM) : x \in Data(chain', h)
    <2>1. /\ x < tsr_top /\ x \notin LowImage /\ x \in Nat
          /\ x >= from => \E h \in BlocksOf(chain, SYSTEM) : x \in Data(chain, h)
      BY PInvUnfold DEF PInv, ResidentImageKept, Untouched
    <2>2. x < tsr_top' /\ x \notin LowImage'
      BY <1>3, <1>8, <1>11, <2>1
    <2>3. ASSUME x >= from PROVE \E h \in BlocksOf(chain', SYSTEM) : x \in Data(chain', h)
      <3>1. PICK h \in BlocksOf(chain, SYSTEM) : x \in Data(chain, h)
        BY <2>1, <2>3
      <3>2. h \in BlocksOf(all, SYSTEM) /\ Data(all, h) = Data(chain, h)
        BY <1>4 DEF Data, After
      <3>3. QED
        BY <1>12, <3>1, <3>2
    <2>4. QED
      BY <2>2, <2>3
  <1>14. ASSUME NEW x \in kept
         PROVE  /\ x \in Base .. Ceil - 1 /\ x < tsr_top' /\ x \notin LowImage'
                /\ x >= from => \E h \in BlocksOf(chain', SYSTEM) : x \in Data(chain', h)
    <2>1. x \in Nat /\ Cur <= x /\ x < end
      BY <1>3, <1>7
    <2> HIDE DEF kept
    <2>2. x \in Base .. Ceil - 1
      BY <1>3, <1>7, <2>1, Sizes
    <2>3. CASE Hosted(Cur)
      <3>1. /\ Cur - 1 \in BlocksOf(all, SYSTEM)
            /\ all[Cur - 1].size = chain[Cur - 1].size \/ all[Cur - 1].size = n
        BY <1>4, <2>3
      <3>2. After(all, Cur - 1) = Cur + all[Cur - 1].size /\ all[Cur - 1].size \in Nat
        BY <1>2, <1>3, <1>6, <2>3, <3>1 DEF After
      <3>3. end <= After(all, Cur - 1)
        BY <1>2, <1>3, <1>6, <2>3, <3>1, <3>2 DEF Smaller
      <3>4. x < After(all, Cur - 1) /\ x > from
        BY <1>3, <1>7, <2>1, <2>3, <3>2, <3>3 DEF Hosted
      <3>5. x \in Data(all, Cur - 1)
        BY <1>3, <2>1, <3>2, <3>4 DEF Data
      <3>6. \E h \in BlocksOf(chain', SYSTEM) : x \in Data(chain', h)
        BY <1>12, <3>1, <3>5
      <3>7. x < tsr_top'
        BY <1>3, <1>8, <2>1, <3>1, <3>2, <3>4
      <3>8. x \notin LowImage
        BY <1>3, <2>1, <3>4 DEF LowImage
      <3>9. QED
        BY <1>11, <2>2, <3>6, <3>7, <3>8
    <2>4. CASE ~Hosted(Cur)
      <3>1. x < own /\ own <= from
        BY <1>5, <2>1, <2>4
      <3>2. x < from /\ x < tsr_top'
        BY <1>3, <1>5, <1>8, <2>1, <3>1
      <3>3. LowImage' = {}
        BY <1>1, <1>11, <2>4, CurUnfold
      <3>4. QED
        BY <1>3, <2>1, <2>2, <3>2, <3>3
    <2>5. QED
      BY <2>3, <2>4
  <1> HIDE DEF kept
  <1>15. ResidentImageKept'
    <2>1. \A x \in keptPsp' :
            /\ x < tsr_top' /\ x \notin LowImage'
            /\ x >= from' => \E h \in BlocksOf(chain', SYSTEM) : x \in Data(chain', h)
      BY <1>1, <1>13, <1>14
    <2>2. QED
      BY <2>1 DEF ResidentImageKept, Untouched, Data, After
  <1>16. Ranges'
    <2>1. keptPsp' \subseteq Base .. Ceil - 1
      BY <1>1, <1>14 DEF PInv, Ranges
    <2>2. QED
      BY <1>1, <1>3, <1>8, <1>11, <2>1, Sizes DEF Ranges
  <1>17. QED
    BY <1>1, <1>9, <1>11, <1>15, <1>16 DEF PInv

LEMMA PStepInv ==
  ASSUME PInv, [PNext]_pvars
  PROVE  PInv'
  <1>1. CASE \E n \in Base .. Ceil : LoadAtBase(n) \/ LoadAbove(n)
    BY <1>1, LoadAtBaseInv, LoadAboveInv
  <1>2. CASE LoadAboveFails \/ LoadHigh \/ Exec \/ ExecFails \/ Terminate
    BY <1>2, LoadAboveFailsInv, LoadHighInv, ExecInv, ExecFailsInv, TerminateInv
  <1>3. CASE \E want \in 0 .. Ceil - Base : ServeAlloc(want) \/ Stay(want)
    BY <1>3, ServeAllocInv, StayInv
  <1>4. CASE \E h \in DOMAIN chain : ServeFree(h)
    BY <1>4, ServeFreeInv
  <1>5. CASE \E h \in DOMAIN chain, want \in 0 .. Ceil - Base : ServeSetBlock(h, want)
    BY <1>5, ServeSetBlockInv
  <1>6. CASE UNCHANGED pvars
    <2>1. Depth' = Depth
      BY <1>6 DEF pvars, Depth
    <2>2. Ranges' /\ BoundAt(chain', from') /\ PspsDiffer'
      BY <1>6, <2>1 DEF PInv, Ranges, PspsDiffer, Hosted, pvars
    <2>3. NoOrphanBlocks' /\ RunningKeepTheirMemory'
      BY <1>6, <2>1 DEF PInv, NoOrphanBlocks, RunningKeepTheirMemory, Hosted, Owned, BlocksOf, pvars
    <2>4. LowImage' = LowImage
      BY <1>6, <2>1 DEF LowImage, pvars
    <2>5. ResidentImageKept'
      BY <1>6, <2>4 DEF PInv, ResidentImageKept, Untouched, Data, After, BlocksOf, pvars
    <2>6. QED
      BY <2>2, <2>3, <2>5 DEF PInv
  <1>7. QED
    BY <1>1, <1>2, <1>3, <1>4, <1>5, <1>6 DEF PNext

LEMMA PInvHolds == PSpec => []PInv
  BY PInitInv, PStepInv, PTL DEF PSpec

-----------------------------------------------------------------------------
(* loader.c, int21_mcb_exec_free and do_terminate: however EXEC, AH=4Ch,   *)
(* AH=31h and the memory services follow one another, every block of the   *)
(* arena is free, resident, or held by a program that still runs, so that  *)
(* no ended program takes memory with it.                                  *)
THEOREM NothingOrphaned == PSpec => []NoOrphanBlocks
  <1>1. PInv => NoOrphanBlocks
    BY DEF PInv
  <1>2. QED
    BY <1>1, PInvHolds, PTL

(* loader_exec: a program that waits for its child finds, however deep its *)
(* descendants nested and whichever way they ended, the block its PSP lies *)
(* in and every other block it had, where and as large as it left them.    *)
THEOREM ParentsKeepTheirMemory == PSpec => []RunningKeepTheirMemory
  <1>1. PInv => RunningKeepTheirMemory
    BY DEF PInv
  <1>2. QED
    BY <1>1, PInvHolds, PTL

(* tsr_keep and g_tsr_top: the paragraphs a program kept of its own block  *)
(* by AH=31h lie below the mark later arenas start at, or in a block that  *)
(* is owned by the system, and never under the image of a first program.   *)
THEOREM ResidentsKeepTheirImage == PSpec => []ResidentImageKept
  <1>1. PInv => ResidentImageKept
    BY DEF PInv
  <1>2. QED
    BY <1>1, PInvHolds, PTL

=============================================================================
