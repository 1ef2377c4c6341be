--------------------------- MODULE HandlesProofs ---------------------------
(* Proofs about Handles, for every table size, EXEC depth and program.     *)
EXTENDS Handles, FiniteSetTheorems, SequenceTheorems, WellFoundedInduction, TLAPS

(* All references to slot s recorded in the JFTs j, of dead programs too. *)
RefSet(j, s) == {ref \in Psps \X Handles : j[ref[1]][ref[2]] = s}

JftType == [Psps -> [Handles -> Slots \cup {CLOSED}]]

(* The chain of running programs has no PSP twice and none that KEPT. *)
ChainDistinct ==
  /\ \A i, k \in 1 .. Len(stack) : stack[i] = stack[k] => i = k
  /\ \A i \in 1 .. Len(stack) : stack[i] \notin resident

DeadClosed == \A p \in Psps \ Alive : jft[p] = ClosedJft

(* The inductive invariant behind FileRefsHonest. *)
IInv == TypeOK /\ ChainDistinct /\ DeadClosed /\ FileRefsHonest

-----------------------------------------------------------------------------
(* The lowest free handle and the lowest free slot exist and are free. *)
LEMMA LowestIsMember ==
  ASSUME NEW S \in SUBSET Nat, S # {}
  PROVE  LowestOf(S) \in S
  <1>1. \E n \in S : \A k \in S : n <= k
    <2>1. PICK n \in S : \A k \in S : <<k, n>> \notin OpToRel(<, Nat)
      BY NatLessThanWellFounded, WFMin
    <2>2. n \in Nat /\ \A k \in S : k \in Nat
      OBVIOUS
    <2>3. \A k \in S : ~ (k < n)
      BY <2>1, <2>2 DEF OpToRel
    <2>4. \A k \in S : n <= k
      BY <2>2, <2>3
    <2>5. QED
      BY <2>4
  <1>2. QED
    BY <1>1 DEF LowestOf

LEMMA HandlesFinite ==
  /\ IsFiniteSet(Handles) /\ Handles \subseteq Nat
  /\ FileSlots \subseteq Nat /\ FileSlots \subseteq Slots
  /\ DeviceSlots \cap FileSlots = {}
  /\ CLOSED \notin FileSlots
  /\ Slots = DeviceSlots \cup FileSlots
  <1>1. IsFiniteSet(Handles)
    BY SizesAssumption, FS_Interval DEF Handles
  <1>2. QED
    BY <1>1, SizesAssumption, NamesAssumption
    DEF Handles, FileSlots, DeviceSlots, Slots

LEMMA RefSetFinite ==
  ASSUME NEW j, NEW s
  PROVE  /\ IsFiniteSet(RefSet(j, s))
         /\ Cardinality(RefSet(j, s)) \in Nat
         /\ Cardinality(RefSet(j, s)) = 0 <=> RefSet(j, s) = {}
  <1>1. IsFiniteSet(Psps \X Handles)
    BY FS_Product, HandlesFinite, NamesAssumption
  <1>2. RefSet(j, s) \in SUBSET (Psps \X Handles)
    BY DEF RefSet
  <1>3. IsFiniteSet(RefSet(j, s))
    BY <1>1, <1>2, FS_Subset
  <1>4. QED
    BY <1>3, FS_CardinalityType, FS_EmptySet

(* Storing t in one JFT entry moves one reference. *)
Stored(j, p, h, t) == [j EXCEPT ![p][h] = t]

LEMMA Retarget ==
  ASSUME NEW j \in JftType, NEW p \in Psps, NEW h \in Handles, NEW t,
         NEW s \in FileSlots
  PROVE  /\ t = s /\ j[p][h] # s =>
              Cardinality(RefSet(Stored(j, p, h, t), s)) = Cardinality(RefSet(j, s)) + 1
         /\ t # s /\ j[p][h] = s =>
              Cardinality(RefSet(Stored(j, p, h, t), s)) = Cardinality(RefSet(j, s)) - 1
         /\ (t = s <=> j[p][h] = s) =>
              Cardinality(RefSet(Stored(j, p, h, t), s)) = Cardinality(RefSet(j, s))
  <1> DEFINE k == Stored(j, p, h, t)
  <1>1. \A q \in Psps, g \in Handles :
          k[q][g] = IF q = p /\ g = h THEN t ELSE j[q][g]
    BY DEF JftType, Stored
  <1>2. <<p, h>> \in Psps \X Handles
    OBVIOUS
  <1>3. j[p][h] = s <=> <<p, h>> \in RefSet(j, s)
    BY DEF RefSet
  <1>4. CASE t = s
    <2>1. RefSet(Stored(j, p, h, t), s) = RefSet(j, s) \cup {<<p, h>>}
      BY <1>1, <1>2, <1>4 DEF RefSet
    <2>2. Cardinality(RefSet(Stored(j, p, h, t), s)) =
            IF <<p, h>> \in RefSet(j, s) THEN Cardinality(RefSet(j, s))
                                         ELSE Cardinality(RefSet(j, s)) + 1
      BY <2>1, RefSetFinite, FS_AddElement
    <2>3. QED
      BY <2>2, <1>3, <1>4
  <1>5. CASE t # s
    <2>1. RefSet(Stored(j, p, h, t), s) = RefSet(j, s) \ {<<p, h>>}
      BY <1>1, <1>2, <1>5 DEF RefSet
    <2>2. Cardinality(RefSet(Stored(j, p, h, t), s)) =
            IF <<p, h>> \in RefSet(j, s) THEN Cardinality(RefSet(j, s)) - 1
                                         ELSE Cardinality(RefSet(j, s))
      BY <2>1, RefSetFinite, FS_RemoveElement
    <2>3. QED
      BY <2>2, <1>3, <1>5
  <1>6. QED
    BY <1>4, <1>5

(* The references of one program are those its own JFT row holds. *)
RowOf(j, p, s) == {h \in Handles : j[p][h] = s}

LEMMA RowReferences ==
  ASSUME NEW j \in JftType, NEW k \in JftType, NEW p \in Psps,
         k[p] = ClosedJft, \A q \in Psps \ {p} : k[q] = j[q],
         NEW s \in FileSlots
  PROVE  /\ Cardinality(RowOf(j, p, s)) \in Nat
         /\ Cardinality(RowOf(j, p, s)) = 0 <=> RowOf(j, p, s) = {}
         /\ Cardinality(RefSet(j, s)) =
              Cardinality(RefSet(k, s)) + Cardinality(RowOf(j, p, s))
  <1> DEFINE row == RowOf(j, p, s)
  <1>1. IsFiniteSet(row) /\ Cardinality(row) \in Nat
        /\ (Cardinality(row) = 0 <=> row = {})
    <2>1. row \in SUBSET Handles
      BY DEF RowOf
    <2>2. IsFiniteSet(row)
      BY <2>1, HandlesFinite, FS_Subset
    <2>3. QED
      BY <2>2, FS_CardinalityType, FS_EmptySet
  <1>2. IsFiniteSet({p} \X row) /\ Cardinality({p} \X row) = Cardinality(row)
    <2>1. IsFiniteSet({p}) /\ Cardinality({p}) = 1
      BY FS_Singleton
    <2>2. Cardinality({p} \X row) = Cardinality({p}) * Cardinality(row)
      BY <2>1, <1>1, FS_Product
    <2>3. IsFiniteSet({p} \X row)
      BY <2>1, <1>1, FS_Product
    <2>4. QED
      BY <2>1, <2>2, <2>3, <1>1
  <1>3. \A h \in Handles : k[p][h] # s
    BY HandlesFinite DEF ClosedJft
  <1>4. RefSet(j, s) = RefSet(k, s) \cup ({p} \X row)
    BY <1>3 DEF RefSet, RowOf
  <1>5. RefSet(k, s) \cap ({p} \X row) = {}
    BY <1>3 DEF RefSet, RowOf
  <1>6. Cardinality(RefSet(j, s)) =
          Cardinality(RefSet(k, s)) + Cardinality({p} \X row)
            - Cardinality(RefSet(k, s) \cap ({p} \X row))
    BY <1>2, <1>4, RefSetFinite, FS_Union
  <1>7. Cardinality(RefSet(k, s) \cap ({p} \X row)) = 0
    BY <1>5, FS_EmptySet
  <1>8. QED
    BY <1>1, <1>2, <1>6, <1>7, RefSetFinite

-----------------------------------------------------------------------------
(* The chain of running programs, under a call and a return. *)
LEMMA CurRuns ==
  ASSUME TypeOK
  PROVE  Cur \in Psps /\ Cur \in Running /\ Running \subseteq Psps
  <1>1. Len(stack) \in 1 .. Len(stack)
    BY EmptySeq, LenProperties DEF TypeOK
  <1>2. \A i \in 1 .. Len(stack) : stack[i] \in Psps
    BY ElementOfSeq DEF TypeOK
  <1>3. QED
    BY <1>1, <1>2 DEF Cur, Running

LEMMA PushAlive ==
  ASSUME TypeOK, ChainDistinct, NEW child \in Psps, child \notin Alive,
         stack' = Append(stack, child), resident' = resident
  PROVE  /\ stack' \in Seq(Psps) /\ stack' # <<>>
         /\ ChainDistinct' /\ Alive' = Alive \cup {child}
  <1>1. /\ stack' \in Seq(Psps)
        /\ Len(stack') = Len(stack) + 1 /\ Len(stack) \in Nat
        /\ \A i \in 1 .. Len(stack) : stack'[i] = stack[i]
        /\ stack'[Len(stack) + 1] = child
    BY DEF TypeOK
  <1>2. \A i \in 1 .. Len(stack) : stack[i] # child
    BY DEF Alive, Running
  <1>3. ChainDistinct'
    BY <1>1, <1>2 DEF ChainDistinct, Alive
  <1>4. Alive' = Alive \cup {child}
    BY <1>1 DEF Alive, Running
  <1>5. QED
    BY <1>1, <1>3, <1>4

LEMMA NonEmptySeq ==
  ASSUME NEW S, NEW q \in Seq(S), Len(q) > 0 PROVE q # <<>>
  OBVIOUS

LEMMA PopRunning ==
  ASSUME TypeOK, ChainDistinct, Len(stack) > 1,
         stack' = SubSeq(stack, 1, Len(stack) - 1)
  PROVE  /\ stack' \in Seq(Psps) /\ stack' # <<>>
         /\ \A i, k \in 1 .. Len(stack') : stack'[i] = stack'[k] => i = k
         /\ \A i \in 1 .. Len(stack') : stack'[i] = stack[i] /\ stack'[i] # Cur
         /\ \A i \in 1 .. Len(stack') : i \in 1 .. Len(stack)
         /\ Running' = Running \ {Cur}
  <1>1. /\ stack' \in Seq(Psps)
        /\ Len(stack') = Len(stack) - 1 /\ Len(stack) \in Nat
        /\ \A i \in 1 .. Len(stack) - 1 : stack'[i] = stack[i]
    BY DEF TypeOK
  <1>2. \A i \in 1 .. Len(stack) - 1 : stack[i] # Cur
    BY <1>1 DEF ChainDistinct, Cur
  <1>3. Running' = Running \ {Cur}
    BY <1>1, <1>2 DEF Running, Cur
  <1>4. stack' # <<>>
    <2>1. Len(stack') > 0
      BY <1>1
    <2>2. QED
      BY <1>1, <2>1, NonEmptySeq
  <1>5. \A i, k \in 1 .. Len(stack') : stack'[i] = stack'[k] => i = k
    BY <1>1 DEF ChainDistinct
  <1>6. \A i \in 1 .. Len(stack') : stack'[i] = stack[i] /\ stack'[i] # Cur
    BY <1>1, <1>2
  <1>7. QED
    BY <1>1, <1>3, <1>4, <1>5, <1>6

-----------------------------------------------------------------------------
(* With dead programs' JFTs closed, every recorded reference is a live one. *)
LEMMA LiveReferences ==
  ASSUME DeadClosed
  PROVE  \A s \in FileSlots : References(s) = RefSet(jft, s)
  <1>1. ASSUME NEW s \in FileSlots, NEW p \in Psps, NEW h \in Handles,
               jft[p][h] = s
        PROVE  p \in Alive
    BY <1>1, HandlesFinite DEF DeadClosed, ClosedJft
  <1>2. QED
    BY <1>1 DEF References, RefSet

(* FileRefsHonest, stated of every recorded reference. *)
Counted ==
  \A s \in FileSlots : /\ sft[s].refs = Cardinality(RefSet(jft, s))
                       /\ (sft[s].obj = FREE) <=> (RefSet(jft, s) = {})

LEMMA HonestIffCounted ==
  ASSUME DeadClosed PROVE FileRefsHonest <=> Counted
  BY LiveReferences DEF FileRefsHonest, Counted

LEMMA InitInv == Init => IInv
  <1> SUFFICES ASSUME Init PROVE IInv
    OBVIOUS
  <1>1. Len(stack) = 1 /\ stack[1] = Shell /\ stack \in Seq(Psps) /\ stack # <<>>
    BY NamesAssumption DEF Init
  <1>2. ClosedJft \in [Handles -> Slots \cup {CLOSED}]
    BY DEF ClosedJft
  <1>3. jft \in JftType
    BY <1>2, HandlesFinite, TableAssumption DEF Init, JftType
  <1>4. TypeOK
    <2>1. sft \in [Slots -> SlotType]
      BY TableAssumption DEF Init, FreeSlot, SlotType
    <2>2. \A s \in FileSlots : sft[s].obj \in Objects \cup {FREE}
      BY HandlesFinite DEF Init, FreeSlot
    <2>3. \A s \in DeviceSlots : sft[s].obj \in Devices \cup {FREE}
      BY HandlesFinite, TableAssumption DEF Init
    <2>4. QED
      BY <2>1, <2>2, <2>3, <1>1, <1>3 DEF Init, TypeOK, JftType
  <1>5. ChainDistinct
    BY <1>1 DEF Init, ChainDistinct
  <1>6. DeadClosed
    BY <1>1 DEF Init, DeadClosed, Alive, Running
  <1>7. Counted
    <2> SUFFICES ASSUME NEW s \in FileSlots
                 PROVE  /\ sft[s].refs = Cardinality(RefSet(jft, s))
                        /\ (sft[s].obj = FREE) <=> (RefSet(jft, s) = {})
      BY DEF Counted
    <2>1. \A p \in Psps, h \in Handles : jft[p][h] # s
      BY HandlesFinite, TableAssumption DEF Init, ClosedJft
    <2>2. RefSet(jft, s) = {}
      BY <2>1 DEF RefSet
    <2>3. sft[s] = FreeSlot
      BY HandlesFinite DEF Init
    <2>4. QED
      BY <2>2, <2>3, FS_EmptySet DEF FreeSlot
  <1>8. QED
    BY <1>4, <1>5, <1>6, <1>7, HonestIffCounted DEF IInv

-----------------------------------------------------------------------------
(* The operations on one handle of the running program. *)

LEMMA TypedEntry ==
  ASSUME TypeOK, NEW h \in Handles
  PROVE  /\ Cur \in Psps /\ jft \in JftType
         /\ jft[Cur][h] \in Slots \cup {CLOSED}
         /\ IsOpen(Cur, h) => jft[Cur][h] \in Slots
  BY CurRuns DEF TypeOK, JftType, IsOpen

(* A step that changes neither the chain nor the residents, and writes one *)
(* entry of the running program's JFT, keeps dead JFTs closed.             *)
LEMMA EntryStep ==
  ASSUME TypeOK, ChainDistinct, DeadClosed,
         UNCHANGED <<stack, resident, panic, execs>>,
         NEW h \in Handles, NEW t \in Slots \cup {CLOSED},
         jft' = Stored(jft, Cur, h, t)
  PROVE  /\ ChainDistinct' /\ DeadClosed'
         /\ jft' \in JftType
         /\ stack' \in Seq(Psps) /\ stack' # <<>>
         /\ resident' \subseteq Psps /\ panic' \in BOOLEAN /\ execs' \in Nat
  <1>1. Cur \in Alive
    BY CurRuns DEF Alive
  <1>2. \A p \in Psps : p # Cur => jft'[p] = jft[p]
    BY DEF TypeOK, Stored
  <1>3. jft' \in JftType
    BY TypedEntry DEF JftType, Stored
  <1>4. Alive' = Alive
    BY DEF Alive, Running
  <1>5. DeadClosed'
    BY <1>1, <1>2, <1>4 DEF DeadClosed, ClosedJft
  <1>6. QED
    BY <1>3, <1>5 DEF TypeOK, ChainDistinct

LEMMA TypedSlots ==
  ASSUME TypeOK, NEW s \in Slots
  PROVE  /\ sft[s] \in SlotType
         /\ Released(sft[s]) \in SlotType
         /\ Released(sft[s]).obj \in {sft[s].obj, FREE}
  BY DEF TypeOK, SlotType, Released, FreeSlot

LEMMA OpenInv ==
  ASSUME IInv, NEW obj \in Objects, Open(obj) PROVE IInv'
  <1> DEFINE h == jft_alloc
             t == sft_alloc
  <1>1. h \in Handles /\ h \in FreeHandles
    BY LowestIsMember, HandlesFinite DEF Open, jft_alloc, FreeHandles
  <1>2. t \in FileSlots /\ t \in Slots /\ sft[t].obj = FREE
    BY LowestIsMember, HandlesFinite DEF Open, sft_alloc, FreeFiles
  <1>3. jft' = Stored(jft, Cur, h, t)
    BY DEF Open, Stored
  <1>4. /\ ChainDistinct' /\ DeadClosed' /\ jft' \in JftType
        /\ stack' \in Seq(Psps) /\ stack' # <<>>
        /\ resident' \subseteq Psps /\ panic' \in BOOLEAN /\ execs' \in Nat
    BY <1>1, <1>2, <1>3, EntryStep DEF IInv, Open
  <1>5. sft' = [sft EXCEPT ![t] = [obj |-> obj, refs |-> 1]]
    BY DEF Open
  <1>6. TypeOK'
    <2>1. sft' \in [Slots -> SlotType]
      BY <1>2, <1>5 DEF IInv, TypeOK, SlotType
    <2>2. \A s \in FileSlots : sft'[s].obj \in Objects \cup {FREE}
      BY <1>2, <1>5, HandlesFinite DEF IInv, TypeOK
    <2>3. \A s \in DeviceSlots : sft'[s].obj \in Devices \cup {FREE}
      BY <1>2, <1>5, HandlesFinite DEF IInv, TypeOK
    <2>4. QED
      BY <1>4, <2>1, <2>2, <2>3 DEF TypeOK, JftType
  <1>7. Counted'
    <2> SUFFICES ASSUME NEW s \in FileSlots
                 PROVE  /\ sft'[s].refs = Cardinality(RefSet(jft', s))
                        /\ (sft'[s].obj = FREE) <=> (RefSet(jft', s) = {})
      BY DEF Counted
    <2>1. jft[Cur][h] = CLOSED /\ CLOSED \notin FileSlots
      BY <1>1, HandlesFinite DEF FreeHandles, IsOpen
    <2>2. /\ sft[s].refs = Cardinality(RefSet(jft, s))
          /\ (sft[s].obj = FREE) <=> (RefSet(jft, s) = {})
      BY HonestIffCounted DEF IInv, Counted
    <2>3. jft \in JftType /\ Cur \in Psps
      BY <1>1, TypedEntry DEF IInv
    <2>4. CASE s = t
      <3>1. Cardinality(RefSet(jft, s)) = 0
        BY <1>2, <2>2, <2>4, RefSetFinite
      <3>2. Cardinality(RefSet(jft', s)) = 0 + 1
        BY <1>1, <1>3, <2>1, <2>3, <2>4, <3>1, Retarget
      <3>3. sft'[s] = [obj |-> obj, refs |-> 1]
        BY <1>2, <1>5, <2>4 DEF IInv, TypeOK
      <3>4. obj # FREE
        BY NamesAssumption
      <3>5. QED
        BY <3>2, <3>3, <3>4, RefSetFinite
    <2>5. CASE s # t
      <3>1. Cardinality(RefSet(jft', s)) = Cardinality(RefSet(jft, s))
        BY <1>1, <1>3, <2>1, <2>3, <2>5, Retarget
      <3>2. sft'[s] = sft[s]
        BY <1>5, <2>5, HandlesFinite DEF IInv, TypeOK
      <3>3. QED
        BY <2>2, <3>1, <3>2, RefSetFinite
    <2>6. QED
      BY <2>4, <2>5
  <1>8. FileRefsHonest'
    <2>1. DeadClosed' => (FileRefsHonest' <=> Counted')
      BY HonestIffCounted, PTL
    <2>2. QED
      BY <1>4, <1>7, <2>1
  <1>9. QED
    BY <1>4, <1>6, <1>8 DEF IInv

(* The count of a slot follows the set of its references: what is left to  *)
(* show for each operation is how many references it adds or takes.        *)
LEMMA StillCounted ==
  ASSUME IInv,
         \A s \in FileSlots :
           /\ sft'[s].refs = Cardinality(RefSet(jft', s))
           /\ (sft'[s].obj = FREE) <=> (sft'[s].refs = 0),
         DeadClosed'
  PROVE  FileRefsHonest'
  <1>1. Counted'
    BY RefSetFinite DEF Counted
  <1>2. DeadClosed' => (FileRefsHonest' <=> Counted')
    BY HonestIffCounted, PTL
  <1>3. QED
    BY <1>1, <1>2

LEMMA CountedNow ==
  ASSUME IInv, NEW s \in FileSlots
  PROVE  /\ sft[s].refs = Cardinality(RefSet(jft, s)) /\ sft[s].refs \in Nat
         /\ (sft[s].obj = FREE) <=> (sft[s].refs = 0)
         /\ s \in Slots
  BY HonestIffCounted, RefSetFinite, HandlesFinite DEF IInv, Counted

LEMMA DupInv ==
  ASSUME IInv, NEW src \in Handles, Dup(src) PROVE IInv'
  <1> DEFINE h == jft_alloc
             t == jft[Cur][src]
  <1>1. h \in Handles /\ jft[Cur][h] = CLOSED
    BY LowestIsMember, HandlesFinite DEF Dup, jft_alloc, FreeHandles, IsOpen
  <1>2. t \in Slots /\ sft[t].obj # FREE
    BY TypedEntry DEF IInv, Dup, IsOpen, Dangling
  <1>3. jft' = Stored(jft, Cur, h, t)
    BY DEF Dup, Stored
  <1>4. /\ ChainDistinct' /\ DeadClosed' /\ jft' \in JftType
        /\ stack' \in Seq(Psps) /\ stack' # <<>>
        /\ resident' \subseteq Psps /\ panic' \in BOOLEAN /\ execs' \in Nat
    BY <1>1, <1>2, <1>3, EntryStep DEF IInv, Dup
  <1>5. \A s \in Slots : sft'[s] = IF s = t THEN [sft[s] EXCEPT !.refs = @ + 1]
                                            ELSE sft[s]
    BY <1>2 DEF Dup, IInv, TypeOK
  <1>6. TypeOK'
    <2>1. sft' \in [Slots -> SlotType]
      <3>1. [sft[t] EXCEPT !.refs = @ + 1] \in SlotType
        BY <1>2, TypedSlots DEF IInv, SlotType
      <3>2. sft' = [sft EXCEPT ![t] = [sft[t] EXCEPT !.refs = @ + 1]]
        BY DEF Dup
      <3>3. sft \in [Slots -> SlotType]
        BY DEF IInv, TypeOK
      <3>4. QED
        BY <1>2, <3>1, <3>2, <3>3
    <2>2. \A s \in Slots : sft'[s].obj = sft[s].obj
      BY <1>5 DEF IInv, TypeOK, SlotType
    <2>3. QED
      BY <1>4, <2>1, <2>2, HandlesFinite DEF IInv, TypeOK, JftType
  <1>7. ASSUME NEW s \in FileSlots
        PROVE  /\ sft'[s].refs = Cardinality(RefSet(jft', s))
               /\ (sft'[s].obj = FREE) <=> (sft'[s].refs = 0)
    <2>1. CLOSED \notin FileSlots /\ s \in Slots
      BY HandlesFinite
    <2>2. jft \in JftType /\ Cur \in Psps
      BY <1>1, TypedEntry DEF IInv
    <2>3. sft[s] \in SlotType
      BY <2>1 DEF IInv, TypeOK
    <2>4. CASE s = t
      <3>1. Cardinality(RefSet(jft', s)) = Cardinality(RefSet(jft, s)) + 1
        BY <1>1, <1>3, <2>1, <2>2, <2>4, Retarget
      <3>2. sft'[s].refs = sft[s].refs + 1 /\ sft'[s].obj = sft[s].obj
        BY <1>5, <2>1, <2>3, <2>4 DEF SlotType
      <3>3. QED
        BY <1>2, <2>4, <3>1, <3>2, CountedNow
    <2>5. CASE s # t
      <3>1. Cardinality(RefSet(jft', s)) = Cardinality(RefSet(jft, s))
        BY <1>1, <1>3, <2>1, <2>2, <2>5, Retarget
      <3>2. sft'[s] = sft[s]
        BY <1>5, <2>1, <2>5
      <3>3. QED
        BY <3>1, <3>2, CountedNow
    <2>6. QED
      BY <2>4, <2>5
  <1>8. QED
    BY <1>4, <1>6, <1>7, StillCounted DEF IInv

LEMMA CloseInv ==
  ASSUME IInv, NEW h \in Handles, Close(h) PROVE IInv'
  <1> DEFINE t == jft[Cur][h]
  <1>1. t \in Slots
    BY TypedEntry DEF IInv, Close
  <1>2. jft' = Stored(jft, Cur, h, CLOSED)
    BY DEF Close, Stored
  <1>3. /\ ChainDistinct' /\ DeadClosed' /\ jft' \in JftType
        /\ stack' \in Seq(Psps) /\ stack' # <<>>
        /\ resident' \subseteq Psps /\ panic' \in BOOLEAN /\ execs' \in Nat
    BY <1>2, EntryStep DEF IInv, Close
  <1>4. \A s \in Slots : sft'[s] = IF s = t THEN Released(sft[s]) ELSE sft[s]
    BY <1>1 DEF Close, IInv, TypeOK
  <1>5. TypeOK'
    <2>1. sft' \in [Slots -> SlotType]
      <3>1. Released(sft[t]) \in SlotType
        BY <1>1, TypedSlots DEF IInv
      <3>2. sft' = [sft EXCEPT ![t] = Released(sft[t])]
        BY DEF Close
      <3>3. QED
        <4>1. sft \in [Slots -> SlotType]
          BY DEF IInv, TypeOK
        <4>2. QED
          BY <1>1, <3>1, <3>2, <4>1
    <2>2. \A s \in Slots : sft'[s].obj \in {sft[s].obj, FREE}
      BY <1>4, TypedSlots DEF IInv
    <2>3. QED
      BY <1>3, <2>1, <2>2, HandlesFinite DEF IInv, TypeOK, JftType
  <1>6. ASSUME NEW s \in FileSlots
        PROVE  /\ sft'[s].refs = Cardinality(RefSet(jft', s))
               /\ (sft'[s].obj = FREE) <=> (sft'[s].refs = 0)
    <2>1. CLOSED \notin FileSlots /\ s \in Slots
      BY HandlesFinite
    <2>2. jft \in JftType /\ Cur \in Psps
      BY TypedEntry DEF IInv
    <2>3. CASE s = t
      <3>1. Cardinality(RefSet(jft', s)) = Cardinality(RefSet(jft, s)) - 1
        BY <1>2, <2>1, <2>2, <2>3, Retarget
      <3>2. sft[s].refs # 0 /\ sft[s].refs \in Nat
        <4>1. /\ Cardinality(RefSet(jft', s)) \in Nat
              /\ Cardinality(RefSet(jft, s)) \in Nat
          BY RefSetFinite
        <4>2. QED
          BY <4>1, <3>1, CountedNow
      <3>3. sft'[s] = Released(sft[s])
        BY <1>4, <2>1, <2>3
      <3>4. sft'[s].refs = sft[s].refs - 1
            /\ ((sft'[s].obj = FREE) <=> (sft'[s].refs = 0))
        <4>1. sft[s] \in SlotType
          BY <2>1 DEF IInv, TypeOK
        <4>2. QED
          BY <4>1, <3>2, <3>3, CountedNow DEF Released, FreeSlot, SlotType
      <3>5. QED
        BY <3>1, <3>4, CountedNow
    <2>4. CASE s # t
      <3>1. Cardinality(RefSet(jft', s)) = Cardinality(RefSet(jft, s))
        BY <1>2, <2>1, <2>2, <2>4, Retarget
      <3>2. sft'[s] = sft[s]
        BY <1>4, <2>1, <2>4
      <3>3. QED
        BY <3>1, <3>2, CountedNow
    <2>5. QED
      BY <2>3, <2>4
  <1>7. QED
    BY <1>3, <1>5, <1>6, StillCounted DEF IInv

LEMMA Dup2Inv ==
  ASSUME IInv, NEW src \in Handles, NEW dst \in Handles, Dup2(src, dst)
  PROVE  IInv'
  <1> DEFINE t == jft[Cur][src]
             u == jft[Cur][dst]
             Mid(s) == IF s = u THEN Released(sft[s]) ELSE sft[s]
             mid == [s \in Slots |-> Mid(s)]
  <1>1. /\ t \in Slots /\ sft[t].obj # FREE
        /\ u \in Slots \cup {CLOSED} /\ (u # CLOSED => sft[u].obj # FREE)
    BY TypedEntry DEF IInv, Dup2, IsOpen, Dangling
  <1>2. jft' = Stored(jft, Cur, dst, t)
    BY DEF Dup2, Stored
  <1>3. /\ ChainDistinct' /\ DeadClosed' /\ jft' \in JftType
        /\ stack' \in Seq(Psps) /\ stack' # <<>>
        /\ resident' \subseteq Psps /\ panic' \in BOOLEAN /\ execs' \in Nat
    <2>1. UNCHANGED <<stack, resident, panic, execs>>
      BY DEF Dup2
    <2>2. TypeOK /\ ChainDistinct /\ DeadClosed
      BY DEF IInv
    <2>3. QED
      BY <1>1, <1>2, <2>1, <2>2, EntryStep
  <1>4. sft \in [Slots -> SlotType]
    BY DEF IInv, TypeOK
  <1>5. mid \in [Slots -> SlotType]
    BY TypedSlots DEF IInv
  <1>6. sft' = [mid EXCEPT ![t] = [mid[t] EXCEPT !.refs = @ + 1]]
    <2>1. CASE u = CLOSED
      <3>1. mid = sft
        BY <1>4, <2>1, NamesAssumption
      <3>2. QED
        BY <3>1, <2>1 DEF Dup2, IsOpen
    <2>2. CASE u # CLOSED
      <3>1. mid = [sft EXCEPT ![u] = Released(sft[u])]
        BY <1>1, <1>4, <2>2
      <3>2. QED
        BY <3>1, <2>2 DEF Dup2, IsOpen
    <2>3. QED
      BY <2>1, <2>2
  <1>7. \A s \in Slots : sft'[s] = IF s = t THEN [Mid(s) EXCEPT !.refs = @ + 1]
                                            ELSE Mid(s)
    BY <1>1, <1>5, <1>6
  <1>8. TypeOK'
    <2>1. sft' \in [Slots -> SlotType]
      <3>1. mid[t] \in SlotType
        BY <1>1, <1>5
      <3>2. [mid[t] EXCEPT !.refs = @ + 1] \in SlotType
        BY <3>1 DEF SlotType
      <3> HIDE DEF mid
      <3>3. QED
        BY <1>1, <1>5, <1>6, <3>2
    <2>2. \A s \in Slots : sft'[s].obj \in {sft[s].obj, FREE}
      <3>1. TAKE s \in Slots
      <3>2. Mid(s) \in SlotType /\ Mid(s).obj \in {sft[s].obj, FREE}
        BY <1>4, TypedSlots DEF IInv
      <3>3. sft'[s].obj = Mid(s).obj
        BY <1>7, <3>2 DEF SlotType
      <3>4. QED
        BY <3>2, <3>3
    <2>3. QED
      BY <1>3, <2>1, <2>2, HandlesFinite DEF IInv, TypeOK, JftType
  <1>9. ASSUME NEW s \in FileSlots
        PROVE  /\ sft'[s].refs = Cardinality(RefSet(jft', s))
               /\ (sft'[s].obj = FREE) <=> (sft'[s].refs = 0)
    <2>1. CLOSED \notin FileSlots /\ s \in Slots /\ sft[s] \in SlotType
      BY <1>4, HandlesFinite
    <2>2. jft \in JftType /\ Cur \in Psps
      BY TypedEntry DEF IInv
    <2>3. /\ sft[s].refs = Cardinality(RefSet(jft, s)) /\ sft[s].refs \in Nat
          /\ (sft[s].obj = FREE) <=> (sft[s].refs = 0)
      BY CountedNow
    <2>4. Cardinality(RefSet(jft', s)) \in Nat
      BY RefSetFinite
    <2>5. CASE u = s /\ t # s
      <3>1. Cardinality(RefSet(jft', s)) = Cardinality(RefSet(jft, s)) - 1
        BY <1>2, <2>2, <2>5, Retarget
      <3>2. sft'[s] = Released(sft[s])
        BY <1>7, <2>1, <2>5
      <3>3. sft[s].refs > 0
        BY <2>3, <2>4, <3>1
      <3>4. sft'[s].refs = sft[s].refs - 1
            /\ ((sft'[s].obj = FREE) <=> (sft'[s].refs = 0))
        BY <2>1, <2>3, <3>2, <3>3 DEF Released, FreeSlot, SlotType
      <3>5. QED
        BY <2>3, <3>1, <3>4
    <2>6. CASE u # s /\ t = s
      <3>1. Cardinality(RefSet(jft', s)) = Cardinality(RefSet(jft, s)) + 1
        BY <1>2, <2>2, <2>6, Retarget
      <3>2. sft'[s] = [sft[s] EXCEPT !.refs = @ + 1]
        BY <1>7, <2>1, <2>6
      <3>3. sft'[s].refs = sft[s].refs + 1 /\ sft'[s].obj = sft[s].obj
        BY <2>1, <3>2 DEF SlotType
      <3>4. QED
        BY <1>1, <2>3, <2>6, <3>1, <3>3
    <2>7. CASE u = s /\ t = s
      <3>1. Cardinality(RefSet(jft', s)) = Cardinality(RefSet(jft, s))
        BY <1>2, <2>2, <2>7, Retarget
      <3>2. sft[s].refs > 1
        <4>1. src # dst /\ jft[Cur][src] = s /\ jft[Cur][dst] = s
          BY <2>7 DEF Dup2
        <4>2. <<Cur, src>> \in RefSet(jft, s) /\ <<Cur, dst>> \in RefSet(jft, s)
          BY <4>1, <2>2 DEF RefSet
        <4>3. Cardinality(RefSet(jft, s) \ {<<Cur, src>>}) = Cardinality(RefSet(jft, s)) - 1
          BY <4>2, RefSetFinite, FS_RemoveElement
        <4>4. RefSet(jft, s) \ {<<Cur, src>>} # {}
          BY <4>1, <4>2
        <4>5. /\ IsFiniteSet(RefSet(jft, s) \ {<<Cur, src>>})
              /\ Cardinality(RefSet(jft, s) \ {<<Cur, src>>}) \in Nat
          BY RefSetFinite, FS_RemoveElement, FS_CardinalityType
        <4>6. Cardinality(RefSet(jft, s) \ {<<Cur, src>>}) # 0
          BY <4>4, <4>5, FS_EmptySet
        <4>7. QED
          BY <2>3, <4>3, <4>5, <4>6
      <3>3. sft'[s] = [Released(sft[s]) EXCEPT !.refs = @ + 1]
        BY <1>7, <2>1, <2>7
      <3>4. sft'[s].refs = sft[s].refs /\ sft'[s].obj = sft[s].obj
        BY <2>1, <2>3, <3>2, <3>3 DEF Released, SlotType
      <3>5. QED
        BY <2>3, <3>1, <3>4
    <2>8. CASE u # s /\ t # s
      <3>1. Cardinality(RefSet(jft', s)) = Cardinality(RefSet(jft, s))
        BY <1>2, <2>2, <2>8, Retarget
      <3>2. sft'[s] = sft[s]
        BY <1>7, <2>1, <2>8
      <3>3. QED
        BY <2>3, <3>1, <3>2
    <2>9. QED
      BY <2>5, <2>6, <2>7, <2>8
  <1>10. QED
    BY <1>3, <1>8, <1>9, StillCounted DEF IInv

LEMMA CountsStay ==
  ASSUME FileRefsHonest, UNCHANGED <<sft, jft>>, Alive' = Alive
  PROVE  FileRefsHonest'
  <1>1. ASSUME NEW s PROVE References(s)' = References(s)
    BY DEF References
  <1>2. QED
    BY <1>1 DEF FileRefsHonest

LEMMA TablesStay ==
  ASSUME IInv, UNCHANGED <<sft, jft, stack, resident, execs>>, panic' \in BOOLEAN
  PROVE  IInv'
  <1>1. Alive' = Alive
    BY DEF Alive, Running
  <1>2. FileRefsHonest'
    BY <1>1, CountsStay DEF IInv
  <1>3. TypeOK'
    BY DEF IInv, TypeOK
  <1>4. QED
    BY <1>1, <1>2, <1>3 DEF IInv, ChainDistinct, DeadClosed

LEMMA TrapInv ==
  ASSUME IInv, NEW h \in Handles, Trap(h) PROVE IInv'
  BY TablesStay DEF Trap

-----------------------------------------------------------------------------
(* A program starts, ends, and ends staying resident. *)

LEMMA ExecInv ==
  ASSUME IInv, NEW child \in Psps, Exec(child) PROVE IInv'
  <1> DEFINE row(s) == Cardinality(HandlesOn(Cur, s))
  <1>1. /\ child \notin Alive /\ resident' = resident /\ execs' = execs + 1
        /\ stack' = Append(stack, child) /\ panic' \in BOOLEAN
        /\ jft' = [jft EXCEPT ![child] = jft[Cur]] /\ sft' = Inherited
    BY DEF Exec
  <1>2. TypeOK /\ ChainDistinct /\ DeadClosed
    BY DEF IInv
  <1>3. /\ stack' \in Seq(Psps) /\ stack' # <<>>
        /\ ChainDistinct' /\ Alive' = Alive \cup {child}
    BY <1>1, <1>2, PushAlive
  <1>4. Cur \in Psps /\ Cur \in Alive /\ Cur # child
    BY <1>1, <1>2, CurRuns DEF Alive
  <1>5. jft \in JftType /\ jft' \in JftType
    BY <1>1, <1>2, <1>4 DEF TypeOK, JftType
  <1>6. \A q \in Psps : jft'[q] = IF q = child THEN jft[Cur] ELSE jft[q]
    BY <1>1, <1>5 DEF JftType
  <1>7. DeadClosed'
    BY <1>2, <1>3, <1>6 DEF DeadClosed, ClosedJft
  <1>8. jft[child] = ClosedJft
    BY <1>1, <1>2 DEF DeadClosed
  <1>9. ASSUME NEW s \in FileSlots
        PROVE  /\ row(s) \in Nat
               /\ Cardinality(RefSet(jft', s)) = Cardinality(RefSet(jft, s)) + row(s)
               /\ sft[s].refs = 0 => row(s) = 0
    <2>1. RowOf(jft', child, s) = HandlesOn(Cur, s)
      BY <1>6 DEF HandlesOn, RowOf
    <2>2. \A q \in Psps \ {child} : jft[q] = jft'[q]
      BY <1>6
    <2>3. /\ row(s) \in Nat /\ (row(s) = 0 <=> HandlesOn(Cur, s) = {})
          /\ Cardinality(RefSet(jft', s)) = Cardinality(RefSet(jft, s)) + row(s)
      BY <1>5, <1>8, <2>1, <2>2, RowReferences
    <2>4. ASSUME sft[s].refs = 0 PROVE HandlesOn(Cur, s) = {}
      <3>1. RefSet(jft, s) = {}
        BY <2>4, CountedNow, RefSetFinite
      <3>2. \A h \in Handles : <<Cur, h>> \notin RefSet(jft, s)
        BY <3>1
      <3>3. QED
        BY <3>2, <1>4 DEF RefSet, HandlesOn
    <2>5. QED
      BY <2>3, <2>4
  <1>10. \A s \in Slots : sft'[s] = IF s \in FileSlots
                                      THEN [sft[s] EXCEPT !.refs = @ + row(s)]
                                      ELSE sft[s]
    BY <1>1 DEF Inherited
  <1>11. \A s \in Slots : sft[s] \in SlotType
    BY <1>2 DEF TypeOK
  <1>12. \A s \in FileSlots : /\ s \in Slots
                              /\ sft'[s].refs = sft[s].refs + row(s)
                              /\ sft'[s].obj = sft[s].obj
                              /\ sft'[s] \in SlotType
    <2>1. TAKE s \in FileSlots
    <2>2. s \in Slots /\ sft[s] \in SlotType /\ row(s) \in Nat
      BY <1>9, <1>11, HandlesFinite
    <2>3. sft'[s] = [sft[s] EXCEPT !.refs = @ + row(s)]
      BY <1>10, <2>2
    <2> HIDE DEF row
    <2>4. QED
      BY <2>2, <2>3 DEF SlotType
  <1>13. TypeOK'
    <2>1. sft' \in [Slots -> SlotType]
      <3>1. \A s \in Slots : sft'[s] \in SlotType
        BY <1>10, <1>11, <1>12
      <3>2. sft' = [s \in Slots |-> sft'[s]]
        BY <1>1 DEF Inherited
      <3>3. QED
        BY <3>1, <3>2
    <2>2. \A s \in Slots : sft'[s].obj = sft[s].obj
      BY <1>10, <1>12
    <2>3. execs' \in Nat /\ resident' \subseteq Psps
      BY <1>1, <1>2 DEF TypeOK
    <2>4. QED
      BY <1>1, <1>2, <1>3, <1>5, <2>1, <2>2, <2>3, HandlesFinite DEF TypeOK, JftType
  <1>14. ASSUME NEW s \in FileSlots
         PROVE  /\ sft'[s].refs = Cardinality(RefSet(jft', s))
                /\ (sft'[s].obj = FREE) <=> (sft'[s].refs = 0)
    <2> HIDE DEF row
    <2>1. QED
      BY <1>9, <1>12, CountedNow
  <1>15. QED
    BY <1>3, <1>7, <1>13, <1>14, StillCounted DEF IInv

LEMMA TerminateInv ==
  ASSUME IInv, Terminate PROVE IInv'
  <1> DEFINE row(s) == Cardinality(HandlesOn(Cur, s))
  <1>1. /\ resident' = resident /\ execs' = execs /\ panic' \in BOOLEAN
        /\ stack' = SubSeq(stack, 1, Len(stack) - 1) /\ Len(stack) > 1
        /\ jft' = [jft EXCEPT ![Cur] = ClosedJft] /\ sft' = CloseProcessSlots
    BY DEF Terminate, CloseProcessTraps
  <1>2. TypeOK /\ ChainDistinct /\ DeadClosed
    BY DEF IInv
  <1>3. /\ stack' \in Seq(Psps) /\ stack' # <<>>
        /\ \A i, k \in 1 .. Len(stack') : stack'[i] = stack'[k] => i = k
        /\ \A i \in 1 .. Len(stack') : stack'[i] = stack[i] /\ stack'[i] # Cur
        /\ \A i \in 1 .. Len(stack') : i \in 1 .. Len(stack)
        /\ Running' = Running \ {Cur}
    BY <1>1, <1>2, PopRunning
  <1>4. ChainDistinct'
    BY <1>1, <1>2, <1>3 DEF ChainDistinct
  <1>5. Cur \in Psps
    BY <1>2, CurRuns
  <1>6. ClosedJft \in [Handles -> Slots \cup {CLOSED}]
    BY DEF ClosedJft
  <1>7. jft \in JftType /\ jft' \in JftType
    BY <1>1, <1>2, <1>6 DEF TypeOK, JftType
  <1>8. \A q \in Psps : jft'[q] = IF q = Cur THEN ClosedJft ELSE jft[q]
    BY <1>1, <1>7 DEF JftType
  <1>9. DeadClosed'
    <2>1. Alive \ {Cur} \subseteq Alive'
      BY <1>1, <1>3 DEF Alive
    <2>2. QED
      BY <1>2, <1>8, <2>1 DEF DeadClosed, ClosedJft
  <1>10. \A s \in FileSlots :
           /\ row(s) \in Nat
           /\ Cardinality(RefSet(jft, s)) = Cardinality(RefSet(jft', s)) + row(s)
    <2>1. TAKE s \in FileSlots
    <2>2. jft'[Cur] = ClosedJft /\ \A q \in Psps \ {Cur} : jft'[q] = jft[q]
      BY <1>5, <1>8
    <2>3. QED
      BY <1>5, <1>7, <2>2, RowReferences DEF HandlesOn, RowOf
  <1>11. \A s \in Slots : sft'[s] = IF s \in DeviceSlots \/ row(s) = 0 THEN sft[s]
                                    ELSE IF sft[s].refs <= row(s) THEN FreeSlot
                                    ELSE [sft[s] EXCEPT !.refs = @ - row(s)]
    BY <1>1 DEF CloseProcessSlots
  <1>12. \A s \in Slots : sft[s] \in SlotType
    BY <1>2 DEF TypeOK
  <1>13. \A s \in FileSlots : /\ s \in Slots /\ sft'[s] \in SlotType
                              /\ sft'[s].refs = sft[s].refs - row(s)
                              /\ sft'[s].obj \in {sft[s].obj, FREE}
                              /\ (sft'[s].obj = FREE) <=> (sft'[s].refs = 0)
    <2>1. TAKE s \in FileSlots
    <2>2. /\ s \in Slots /\ s \notin DeviceSlots /\ sft[s] \in SlotType
          /\ row(s) \in Nat /\ sft[s].refs \in Nat
          /\ (sft[s].obj = FREE) <=> (sft[s].refs = 0)
      BY <1>10, <1>12, HandlesFinite, CountedNow
    <2>3. sft[s].refs >= row(s)
      <3>1. Cardinality(RefSet(jft', s)) \in Nat
        BY RefSetFinite
      <3>2. sft[s].refs = Cardinality(RefSet(jft', s)) + row(s)
        BY <1>10, CountedNow
      <3> HIDE DEF row
      <3>3. QED
        BY <2>2, <3>1, <3>2
    <2>4. sft'[s] = IF row(s) = 0 THEN sft[s]
                    ELSE IF sft[s].refs <= row(s) THEN FreeSlot
                    ELSE [sft[s] EXCEPT !.refs = @ - row(s)]
      BY <1>11, <2>2
    <2> HIDE DEF row
    <2>5. QED
      BY <2>2, <2>3, <2>4 DEF SlotType, FreeSlot
  <1>14. TypeOK'
    <2>1. \A s \in Slots : /\ sft'[s] \in SlotType
                           /\ sft'[s].obj \in {sft[s].obj, FREE}
      BY <1>11, <1>12, <1>13, HandlesFinite
    <2>2. sft' \in [Slots -> SlotType]
      <3>1. sft' = [s \in Slots |-> sft'[s]]
        BY <1>1 DEF CloseProcessSlots
      <3>2. QED
        BY <2>1, <3>1
    <2>3. execs' \in Nat /\ resident' \subseteq Psps
      BY <1>1, <1>2 DEF TypeOK
    <2>4. QED
      BY <1>1, <1>2, <1>3, <1>7, <2>1, <2>2, <2>3, HandlesFinite DEF TypeOK, JftType
  <1>15. ASSUME NEW s \in FileSlots
         PROVE  /\ sft'[s].refs = Cardinality(RefSet(jft', s))
                /\ (sft'[s].obj = FREE) <=> (sft'[s].refs = 0)
    <2>1. Cardinality(RefSet(jft', s)) \in Nat
      BY RefSetFinite
    <2> HIDE DEF row
    <2>2. QED
      BY <1>10, <1>13, <2>1, CountedNow
  <1>16. QED
    BY <1>4, <1>9, <1>14, <1>15, StillCounted DEF IInv

LEMMA KeepInv ==
  ASSUME IInv, Keep PROVE IInv'
  <1>1. /\ UNCHANGED <<sft, jft, panic, execs>>
        /\ resident' = resident \cup {Cur}
        /\ stack' = SubSeq(stack, 1, Len(stack) - 1) /\ Len(stack) > 1
    BY DEF Keep
  <1>2. TypeOK /\ ChainDistinct /\ DeadClosed /\ FileRefsHonest
    BY DEF IInv
  <1>3. /\ stack' \in Seq(Psps) /\ stack' # <<>>
        /\ \A i, k \in 1 .. Len(stack') : stack'[i] = stack'[k] => i = k
        /\ \A i \in 1 .. Len(stack') : stack'[i] = stack[i] /\ stack'[i] # Cur
        /\ \A i \in 1 .. Len(stack') : i \in 1 .. Len(stack)
        /\ Running' = Running \ {Cur}
    BY <1>1, <1>2, PopRunning
  <1>4. Cur \in Psps /\ Cur \in Running
    BY <1>2, CurRuns
  <1>5. Alive' = Alive
    BY <1>1, <1>3, <1>4 DEF Alive
  <1>6. ChainDistinct'
    BY <1>1, <1>2, <1>3 DEF ChainDistinct
  <1>7. DeadClosed'
    BY <1>1, <1>2, <1>5 DEF DeadClosed, ClosedJft
  <1>8. FileRefsHonest'
    BY <1>1, <1>2, <1>5, CountsStay
  <1>9. TypeOK'
    BY <1>1, <1>2, <1>3, <1>4 DEF TypeOK
  <1>10. QED
    BY <1>6, <1>7, <1>8, <1>9 DEF IInv

LEMMA NextInv ==
  ASSUME IInv, [Next]_vars PROVE IInv'
  <1>1. CASE UNCHANGED vars
    BY <1>1, TablesStay DEF vars, IInv, TypeOK
  <1>2. ASSUME NEW obj \in Objects, Open(obj) PROVE IInv'
    BY <1>2, OpenInv
  <1>3. ASSUME NEW src \in Handles, Dup(src) PROVE IInv'
    BY <1>3, DupInv
  <1>4. ASSUME NEW src \in Handles, NEW dst \in Handles, Dup2(src, dst) PROVE IInv'
    BY <1>4, Dup2Inv
  <1>5. ASSUME NEW h \in Handles, Close(h) PROVE IInv'
    BY <1>5, CloseInv
  <1>6. ASSUME NEW h \in Handles, Trap(h) PROVE IInv'
    BY <1>6, TrapInv
  <1>7. ASSUME NEW child \in Psps, Exec(child) PROVE IInv'
    BY <1>7, ExecInv
  <1>8. CASE Terminate
    BY <1>8, TerminateInv
  <1>9. CASE Keep
    BY <1>9, KeepInv
  <1>10. QED
    BY <1>1, <1>2, <1>3, <1>4, <1>5, <1>6, <1>7, <1>8, <1>9 DEF Next

-----------------------------------------------------------------------------
(* Every table keeps its shape, whatever the programs call: a JFT entry    *)
(* always names a slot of the table or is CLOSED, and a resident slot is   *)
(* never bound to a file.                                                  *)
THEOREM TypeCorrect == Spec => []TypeOK
  <1>1. Init => IInv
    BY InitInv
  <1>2. IInv /\ [Next]_vars => IInv'
    BY NextInv
  <1>3. IInv => TypeOK
    BY DEF IInv
  <1>4. QED
    BY <1>1, <1>2, <1>3, PTL DEF Spec

(* The reference counts of sft.c are honest in every reachable state: a    *)
(* file slot counts exactly the JFT entries of running and resident        *)
(* programs, and sft_release frees it exactly with the last of them.       *)
THEOREM FileRefsAreHonest == Spec => []FileRefsHonest
  <1>1. Init => IInv
    BY InitInv
  <1>2. IInv /\ [Next]_vars => IInv'
    BY NextInv
  <1>3. IInv => FileRefsHonest
    BY DEF IInv
  <1>4. QED
    BY <1>1, <1>2, <1>3, PTL DEF Spec

(* A slot is bound to an object only while it is free. *)
LEMMA BoundWhenFree ==
  ASSUME IInv, [Next]_vars, NEW s \in FileSlots
  PROVE  sft[s].obj = FREE \/ sft'[s].obj \in {sft[s].obj, FREE}
  <1>1. s \in Slots /\ s \notin DeviceSlots /\ sft \in [Slots -> SlotType]
        /\ sft[s] \in SlotType /\ Released(sft[s]).obj \in {sft[s].obj, FREE}
    BY HandlesFinite, TypedSlots DEF IInv, TypeOK
  <1>2. CASE UNCHANGED sft
    BY <1>2
  <1>3. ASSUME NEW obj \in Objects, Open(obj)
        PROVE  sft[s].obj = FREE \/ sft'[s] = sft[s]
    <2>1. sft_alloc \in FreeFiles
      BY <1>3, LowestIsMember, HandlesFinite DEF Open, sft_alloc, FreeFiles
    <2>2. CASE s = sft_alloc
      BY <2>1, <2>2 DEF FreeFiles
    <2>3. CASE s # sft_alloc
      BY <1>1, <1>3, <2>3 DEF Open
    <2>4. QED
      BY <2>2, <2>3
  <1>4. ASSUME NEW src \in Handles, Dup(src) PROVE sft'[s].obj = sft[s].obj
    <2>1. sft'[s] \in {sft[s], [sft[s] EXCEPT !.refs = @ + 1]}
      BY <1>1, <1>4 DEF Dup
    <2>2. QED
      BY <1>1, <2>1 DEF SlotType
  <1>5. ASSUME NEW src \in Handles, NEW dst \in Handles, Dup2(src, dst)
        PROVE  sft'[s].obj \in {sft[s].obj, FREE}
    <2> DEFINE mid == IF IsOpen(Cur, dst)
                        THEN [sft EXCEPT ![jft[Cur][dst]] = Released(sft[jft[Cur][dst]])]
                        ELSE sft
    <2>1. mid \in [Slots -> SlotType] /\ mid[s] \in {sft[s], Released(sft[s])}
      <3>1. IsOpen(Cur, dst) => Released(sft[jft[Cur][dst]]) \in SlotType
        BY TypedEntry, TypedSlots DEF IInv
      <3>2. QED
        BY <1>1, <3>1
    <2>2. sft' = [mid EXCEPT ![jft[Cur][src]].refs = @ + 1]
      BY <1>5 DEF Dup2
    <2> HIDE DEF mid
    <2>3. sft'[s] \in {mid[s], [mid[s] EXCEPT !.refs = @ + 1]} /\ mid[s] \in SlotType
      BY <1>1, <2>1, <2>2
    <2>4. sft'[s].obj = mid[s].obj
      BY <2>3 DEF SlotType
    <2>5. QED
      BY <1>1, <2>1, <2>4
  <1>6. ASSUME NEW h \in Handles, Close(h)
        PROVE  sft'[s] \in {sft[s], Released(sft[s])}
    BY <1>1, <1>6 DEF Close
  <1>7. ASSUME NEW child \in Psps, Exec(child) PROVE sft'[s].obj = sft[s].obj
    BY <1>1, <1>7 DEF Exec, Inherited, SlotType
  <1>8. CASE Terminate
    <2> DEFINE n == Cardinality(HandlesOn(Cur, s))
    <2>1. sft'[s] = sft[s] \/ sft'[s] = FreeSlot \/ sft'[s] = [sft[s] EXCEPT !.refs = @ - n]
      BY <1>1, <1>8 DEF Terminate, CloseProcessSlots
    <2> HIDE DEF n
    <2>2. QED
      BY <1>1, <2>1 DEF SlotType, FreeSlot
  <1>9. QED
    BY <1>1, <1>2, <1>3, <1>4, <1>5, <1>6, <1>7, <1>8 DEF Next, vars, Trap, Keep

LEMMA BindingStep ==
  ASSUME IInv, IInv', [Next]_vars, NEW p \in Psps, NEW h \in Handles,
         jft[p][h] \in FileSlots, jft'[p][h] = jft[p][h]
  PROVE  sft'[jft[p][h]].obj = sft[jft[p][h]].obj
  <1> DEFINE s == jft[p][h]
  <1>1. RefSet(jft, s) # {} /\ RefSet(jft', s) # {}
    <2>1. <<p, h>> \in RefSet(jft, s) /\ <<p, h>> \in RefSet(jft', s)
      BY DEF RefSet
    <2>2. QED
      BY <2>1
  <1>2. Counted
    BY HonestIffCounted DEF IInv
  <1>3. Counted'
    <2>1. DeadClosed' => (FileRefsHonest' <=> Counted')
      BY HonestIffCounted, PTL
    <2>2. QED
      BY <2>1 DEF IInv
  <1>4. sft[s].obj # FREE
    BY <1>1, <1>2 DEF Counted
  <1>5. sft'[s].obj # FREE
    <2>1. RefSet(jft', s) # {}
      BY <1>1
    <2>2. \A x \in FileSlots : (sft'[x].obj = FREE) <=> (RefSet(jft', x) = {})
      BY <1>3 DEF Counted
    <2>3. QED
      BY <2>1, <2>2
  <1>6. QED
    BY <1>4, <1>5, BoundWhenFree

(* A handle nobody touches keeps denoting its object: OPEN, DUP, CLOSE,    *)
(* EXEC, exit and KEEP by any program never rebind the slot under it.      *)
THEOREM HandlesKeepTheirObjects == Spec => HandleKeepsItsObject
  <1>1. Init => IInv
    BY InitInv
  <1>2. IInv /\ [Next]_vars => IInv'
    BY NextInv
  <1>3. IInv /\ IInv' /\ [Next]_vars =>
          [\A p \in Psps, h \in Handles :
             (/\ jft[p][h] \in FileSlots
              /\ jft'[p][h] = jft[p][h])
               => sft'[jft[p][h]].obj = sft[jft[p][h]].obj]_vars
    BY BindingStep
  <1>4. QED
    BY <1>1, <1>2, <1>3, PTL DEF Spec, HandleKeepsItsObject

=============================================================================
