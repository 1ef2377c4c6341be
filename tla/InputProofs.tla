---------------------------- MODULE InputProofs -----------------------------
(* Proofs about the two ways input reaches its reader: EventRing, for every *)
(* capacity and every width of the counters that is a multiple of it, and   *)
(* InputHandoff, for every size of the two rings.                           *)
EXTENDS EventRing, InputHandoff, SequenceTheorems, WellFoundedInduction, TLAPS

-----------------------------------------------------------------------------
(* EventRing.                                                               *)

(* What a drain under way relies on: its head is not behind the producer's *)
(* by more than what waits, a record waits while one is copied, and what   *)
(* has been copied is what the slot still holds.                           *)
DrainInv ==
  /\ pc = "loaded" => Used(seen, tail) <= Used(head, tail)
  /\ pc \in {"copy", "publish"} => Used(head, tail) > 0
  /\ pc = "copy" =>
       /\ copied < Len(RecordWords)
       /\ \A i \in 1..copied : out[RecordWords[i]] = slots[Slot(tail)][RecordWords[i]]
  /\ pc = "publish" => out = slots[Slot(tail)]

RingInv == RingTypeOK /\ DrainInv

-----------------------------------------------------------------------------
(* Arithmetic of the counters.                                              *)

LEMMA Sizes == Cap \in Nat /\ Cap > 0 /\ Width \in Nat /\ Width > Cap
  BY RingAssumption

LEMMA ModUnique ==
  ASSUME NEW n \in Nat, n > 0, NEW a \in Int, NEW r \in 0..n-1, NEW q \in Int,
         a = n * q + r
  PROVE  a % n = r
  OBVIOUS

LEMMA ModSplit ==
  ASSUME NEW n \in Nat, n > 0, NEW a \in Int
  PROVE  /\ a % n \in 0..n-1
         /\ \E q \in Int : a = (n * q) + (a % n)
  OBVIOUS

(* The occupancy of counters that may have wrapped. *)
LEMMA UsedIs ==
  ASSUME NEW h \in 0..Width-1, NEW t \in 0..Width-1
  PROVE  /\ Used(h, t) = IF h >= t THEN h - t ELSE h - t + Width
         /\ Used(h, t) \in 0..Width-1
  <1>1. (h - t) % Width = IF h >= t THEN h - t ELSE h - t + Width
    BY Sizes
  <1>2. QED
    BY <1>1, Sizes DEF Used

LEMMA NextIs ==
  ASSUME NEW h \in 0..Width-1
  PROVE  (h + 1) % Width = IF h + 1 = Width THEN 0 ELSE h + 1
  BY Sizes

(* A counter that wraps addresses the slot it would have addressed. *)
LEMMA SlotWraps ==
  ASSUME NEW i \in Nat
  PROVE  Slot(i + Width) = Slot(i) /\ Slot(i) \in 0..Cap-1
  <1>1. PICK w \in Int : Width = Cap * w + 0
    BY ModSplit, RingAssumption
  <1>2. PICK q \in Int : i = (Cap * q) + (i % Cap)
    BY ModSplit, Sizes
  <1>3. i % Cap \in 0..Cap-1
    BY Sizes
  <1>4. q + w \in Int /\ i + Width \in Int /\ i + Width = Cap * (q + w) + (i % Cap)
    BY <1>1, <1>2, <1>3, Sizes
  <1>5. (i + Width) % Cap = i % Cap
    <2> HIDE <1>1, <1>2
    <2> QED
      BY <1>3, <1>4, ModUnique, Sizes
  <1>6. QED
    BY <1>3, <1>5 DEF Slot

LEMMA MultiplesFar ==
  ASSUME NEW n \in Nat, n > 0, NEW p \in Int, NEW q \in Int, NEW d \in 1..n-1
  PROVE  n * p # (n * q) + d
  <1>1. CASE p <= q
    <2>1. n * p <= n * q
      BY <1>1
    <2>2. QED
      BY <2>1
  <1>2. CASE p >= q + 1
    <2>1. n * p >= n * (q + 1) /\ n * (q + 1) = (n * q) + n
      BY <1>2
    <2>2. n * p \in Int /\ n * q \in Int
      OBVIOUS
    <2>3. QED
      BY <2>1, <2>2
  <1>3. QED
    BY <1>1, <1>2

(* Two counters less than a capacity apart address different slots. *)
LEMMA SlotsDiffer ==
  ASSUME NEW i \in Nat, NEW d \in 1..Cap-1
  PROVE  Slot(i + d) # Slot(i)
  <1> i \in Int /\ i + d \in Int
    OBVIOUS
  <1>1. PICK q \in Int : i = (Cap * q) + (i % Cap)
    BY ModSplit, Sizes
  <1>2. PICK p \in Int : i + d = (Cap * p) + ((i + d) % Cap)
    BY ModSplit, Sizes
  <1>3. SUFFICES ASSUME (i + d) % Cap = i % Cap PROVE FALSE
    BY DEF Slot
  <1>4. i % Cap \in 0..Cap-1 /\ Cap * p \in Int /\ Cap * q \in Int
    BY Sizes
  <1>5. Cap * p = (Cap * q) + d
    BY <1>1, <1>2, <1>3, <1>4
  <1>6. QED
    BY <1>5, MultiplesFar, Sizes

(* The producer writes the slot behind the last record that waits. *)
LEMMA HeadSlot ==
  ASSUME NEW h \in 0..Width-1, NEW t \in 0..Width-1
  PROVE  Slot(h) = Slot(t + Used(h, t))
  <1>1. Used(h, t) = IF h >= t THEN h - t ELSE h - t + Width
    BY UsedIs
  <1>4. t + Used(h, t) = h \/ t + Used(h, t) = h + Width
    BY <1>1, Sizes
  <1>2. Slot(h + Width) = Slot(h)
    BY SlotWraps
  <1>3. QED
    BY <1>4, <1>2

-----------------------------------------------------------------------------
(* The invariant.                                                           *)

(* A post makes the queue one longer, a drain one shorter. *)

LEMMA PostAddsOne ==
  ASSUME RingInv, NEW r, PostKept(r)
  PROVE  Used(head, tail) \in 0..Cap-1 /\ Used(head', tail) = Used(head, tail) + 1
  <1> USE DEF RingInv
  <1>1. Used(head, tail) \in 0..Cap-1
    <2>1. Used(head, tail) \in 0..Width-1
      BY UsedIs DEF RingTypeOK
    <2>2. QED
      BY <2>1, Sizes DEF PostKept, Full
  <1>2. head' \in 0..Width-1 /\ head' = IF head + 1 = Width THEN 0 ELSE head + 1
    BY NextIs, Sizes DEF PostKept, RingTypeOK
  <1>3. Used(head', tail) = IF head' >= tail THEN head' - tail ELSE head' - tail + Width
    BY <1>2, UsedIs DEF RingTypeOK
  <1>4. Used(head, tail) = IF head >= tail THEN head - tail ELSE head - tail + Width
    BY UsedIs DEF RingTypeOK
  <1>5. QED
    BY <1>1, <1>2, <1>3, <1>4, Sizes DEF RingTypeOK

LEMMA PublishFreesOne ==
  ASSUME RingInv, Publish
  PROVE  /\ Used(head, tail) > 0
         /\ tail' \in 0..Width-1
         /\ tail' = IF tail + 1 = Width THEN 0 ELSE tail + 1
         /\ Used(head, tail') = Used(head, tail) - 1
  <1>1. Used(head, tail) > 0
    BY DEF RingInv, DrainInv, Publish
  <1>2. tail' \in 0..Width-1 /\ tail' = IF tail + 1 = Width THEN 0 ELSE tail + 1
    BY NextIs, Sizes DEF Publish, RingInv, RingTypeOK
  <1>3. Used(head, tail) = IF head >= tail THEN head - tail ELSE head - tail + Width
    BY UsedIs DEF RingInv, RingTypeOK
  <1>4. Used(head, tail') = IF head >= tail' THEN head - tail' ELSE head - tail' + Width
    BY <1>2, UsedIs DEF RingInv, RingTypeOK
  <1>5. QED
    BY <1>1, <1>2, <1>3, <1>4, Sizes DEF RingInv, RingTypeOK

(* The types hold, the ring never holds more than its capacity, and an      *)
(* interrupt that posts between two words of a copy does not touch the slot *)
(* that is being copied (flair_raw_post, drain_one).                        *)
THEOREM RingInvariant == RingSpec => []RingInv
  <1>1. RingInit => RingInv
    <2> SUFFICES ASSUME RingInit PROVE RingInv
      OBVIOUS
    <2>1. Used(0, 0) = 0
      BY UsedIs, Sizes
    <2>2. PICK blank \in Raws : slots = [i \in 0..Cap-1 |-> blank]
      BY DEF RingInit
    <2>5. slots \in [0..Cap-1 -> Raws] /\ Len(RecordWords) = 2
      BY <2>2 DEF RecordWords
    <2>6. RingTypeOK
      <3>1. /\ head = 0 /\ tail = 0 /\ seen = 0 /\ copied = 0 /\ pc = "idle"
            /\ dropped = FALSE /\ out \in Raws /\ taken \in Raws
        BY DEF RingInit
      <3>2. Used(head, tail) <= Cap
        BY <2>1, <3>1, Sizes
      <3>3. 0 \in 0..Width-1 /\ 0 \in 0..2
        BY Sizes
      <3>4. QED
        BY <2>5, <3>1, <3>2, <3>3 DEF RingTypeOK
    <2>3. DrainInv
      BY DEF RingInit, DrainInv
    <2>4. QED
      BY <2>6, <2>3 DEF RingInv
  <1>2. RingInv /\ [RingNext]_ringVars => RingInv'
    <2> SUFFICES ASSUME RingInv, [RingNext]_ringVars PROVE RingInv'
      OBVIOUS
    <2> USE DEF RingInv
    <2>1. ASSUME NEW r \in Raws, PostKept(r) PROVE RingInv'
      <3>1. Used(head, tail) \in 0..Cap-1 /\ Used(head', tail) = Used(head, tail) + 1
        BY <2>1, PostAddsOne
      <3>2. head' \in 0..Width-1 /\ UNCHANGED <<tail, dropped, pc, seen, copied, out, taken>>
        BY <2>1, NextIs, Sizes DEF PostKept, RingTypeOK
      <3>3. slots' \in [0..Cap-1 -> Raws]
        BY <2>1 DEF PostKept, RingTypeOK
      <3>4. RingTypeOK'
        BY <3>1, <3>2, <3>3, Sizes DEF RingTypeOK
      <3>5. Used(head, tail) > 0 => slots'[Slot(tail)] = slots[Slot(tail)]
        <4>1. HAVE Used(head, tail) > 0
        <4>2. Slot(tail + Used(head, tail)) # Slot(tail)
          BY <3>1, <4>1, SlotsDiffer DEF RingTypeOK
        <4>3. Slot(head) # Slot(tail)
          BY <4>2, HeadSlot DEF RingTypeOK
        <4>4. QED
          BY <2>1, <4>3, SlotWraps DEF PostKept, RingTypeOK
      <3>6. Used(seen, tail) \in Nat
        BY UsedIs DEF RingTypeOK
      <3>7. DrainInv'
        BY <3>1, <3>2, <3>5, <3>6 DEF DrainInv
      <3>8. QED
        BY <3>4, <3>7
    <2>2. CASE PostDropped
      BY <2>2 DEF PostDropped, RingTypeOK, DrainInv
    <2>3. CASE LoadHead
      <3>1. Used(head, tail) <= Used(head, tail)
        BY UsedIs DEF RingTypeOK
      <3>2. QED
        BY <2>3, <3>1 DEF LoadHead, RingTypeOK, DrainInv
    <2>4. CASE LoadTail
      <3>1. seen # tail => Used(head, tail) > 0
        <4>1. Used(seen, tail) <= Used(head, tail)
          BY <2>4 DEF LoadTail, DrainInv
        <4>2. Used(seen, tail) = IF seen >= tail THEN seen - tail ELSE seen - tail + Width
          BY UsedIs DEF RingTypeOK
        <4>3. seen # tail => Used(seen, tail) > 0
          BY <4>2, Sizes DEF RingTypeOK
        <4>4. Used(seen, tail) \in Int /\ Used(head, tail) \in Int
          BY UsedIs DEF RingTypeOK
        <4>5. QED
          BY <4>1, <4>3, <4>4
      <3>2. RingTypeOK'
        BY <2>4 DEF LoadTail, RingTypeOK, RecordWords
      <3>3. DrainInv'
        BY <2>4, <3>1 DEF LoadTail, DrainInv, RecordWords
      <3>4. QED
        BY <3>2, <3>3
    <2>5. CASE CopyWord
      <3>1. tail \in Nat /\ Slot(tail) \in 0..Cap-1
        BY SlotWraps DEF RingTypeOK
      <3>2. copied \in {0, 1} /\ copied' = copied + 1
        BY <2>5 DEF CopyWord, DrainInv, RecordWords, RingTypeOK
      <3>3. slots[Slot(tail)] \in Raws /\ out \in Raws
        BY <3>1 DEF RingTypeOK
      <3>4. copied = 0 => out'.kind = slots[Slot(tail)].kind /\ out'.payload = out.payload
        BY <2>5, <3>3 DEF CopyWord, RecordWords, Raws
      <3>5. copied = 1 => out'.payload = slots[Slot(tail)].payload /\ out'.kind = out.kind
        BY <2>5, <3>3 DEF CopyWord, RecordWords, Raws
      <3>6. copied = 1 => out.kind = slots[Slot(tail)].kind
        BY <2>5 DEF CopyWord, DrainInv, RecordWords
      <3>7. out' \in Raws
        BY <2>5, <3>2, <3>3 DEF CopyWord, RecordWords, Raws
      <3>8. RingTypeOK'
        BY <2>5, <3>2, <3>7 DEF CopyWord, RingTypeOK, RecordWords
      <3>9. copied = 1 => out' = slots[Slot(tail)]
        BY <3>3, <3>5, <3>6, <3>7 DEF Raws
      <3>10. DrainInv'
        <4>1. CASE copied = 0
          <5>1. pc' = "copy" /\ copied' = 1 /\ \A i \in 1..1 : RecordWords[i] = "kind"
            BY <2>5, <4>1 DEF CopyWord, RecordWords
          <5>2. UNCHANGED <<head, tail, slots>>
            BY <2>5 DEF CopyWord
          <5>3. Used(head, tail) > 0
            BY <2>5 DEF CopyWord, DrainInv
          <5>4. QED
            BY <5>1, <5>2, <5>3, <3>4, <4>1 DEF DrainInv, RecordWords
        <4>2. CASE copied = 1
          BY <2>5, <4>2, <3>9 DEF CopyWord, DrainInv, RecordWords
        <4>3. QED
          BY <3>2, <4>1, <4>2
      <3>11. QED
        BY <3>8, <3>10
    <2>6. CASE Publish
      <3>1. tail' \in 0..Width-1 /\ Used(head, tail') = Used(head, tail) - 1
        BY <2>6, PublishFreesOne DEF RingInv
      <3>2. RingTypeOK'
        <4>1. Used(head, tail) \in Int
          BY UsedIs DEF RingTypeOK
        <4>2. Used(head', tail') <= Cap
          BY <2>6, <3>1, <4>1, Sizes DEF Publish, RingTypeOK
        <4>3. QED
          BY <2>6, <3>1, <4>2 DEF Publish, RingTypeOK, RecordWords
      <3>3. DrainInv'
        BY <2>6 DEF Publish, DrainInv
      <3>4. QED
        BY <3>2, <3>3
    <2>7. CASE UNCHANGED ringVars
      BY <2>7 DEF ringVars, RingTypeOK, DrainInv
    <2>8. QED
      BY <2>1, <2>2, <2>3, <2>4, <2>5, <2>6, <2>7 DEF RingNext, Drain
  <1>3. QED
    BY <1>1, <1>2, PTL DEF RingSpec

-----------------------------------------------------------------------------
(* The ring implements RawQueue.                                            *)

LEMMA PendingIs ==
  ASSUME RingTypeOK
  PROVE  /\ Used(head, tail) \in Nat
         /\ Pending \in [1..Used(head, tail) -> Raws]
         /\ Pending \in Seq(Raws)
         /\ Len(Pending) = Used(head, tail)
  <1>1. Used(head, tail) \in Nat
    BY UsedIs DEF RingTypeOK
  <1>2. ASSUME NEW i \in 1..Used(head, tail) PROVE slots[Slot(tail + i - 1)] \in Raws
    <2>1. tail + i - 1 \in Nat
      BY <1>1 DEF RingTypeOK
    <2>2. QED
      BY <2>1, SlotWraps DEF RingTypeOK
  <1>3. Pending \in [1..Used(head, tail) -> Raws]
    BY <1>2 DEF Pending
  <1>4. QED
    BY <1>1, <1>3

(* A post appends its record to what waits. *)
LEMMA PostAppends ==
  ASSUME RingInv, NEW r \in Raws, PostKept(r)
  PROVE  /\ Len(Pending) < Cap
         /\ Pending' = Pending \o <<r>>
  <1> DEFINE n == Used(head, tail)
  <1>1. n \in 0..Cap-1 /\ Used(head', tail) = n + 1
    BY PostAddsOne
  <1>2. Pending \in [1..n -> Raws] /\ n \in Nat /\ Len(Pending) = n
    BY PendingIs DEF RingInv
  <1>3. Slot(head) = Slot(tail + n)
    BY HeadSlot DEF RingInv, RingTypeOK
  <1>4. ASSUME NEW i \in 1..n PROVE slots'[Slot(tail + i - 1)] = slots[Slot(tail + i - 1)]
    <2>1. n + 1 - i \in 1..Cap-1 /\ tail + i - 1 \in Nat
      <3>1. tail \in Nat
        BY Sizes DEF RingInv, RingTypeOK
      <3> HIDE DEF n
      <3>2. QED
        BY <1>1, <3>1, Sizes
    <2>2. Slot((tail + i - 1) + (n + 1 - i)) # Slot(tail + i - 1)
      BY <2>1, SlotsDiffer
    <2>3. (tail + i - 1) + (n + 1 - i) = tail + n
      BY <1>1 DEF RingInv, RingTypeOK
    <2>4. Slot(head) # Slot(tail + i - 1)
      BY <1>3, <2>2, <2>3
    <2>5. Slot(tail + i - 1) \in 0..Cap-1
      BY <2>1, SlotWraps
    <2>6. QED
      BY <2>4, <2>5 DEF PostKept, RingInv, RingTypeOK
  <1>5. slots'[Slot(tail + (n + 1) - 1)] = r
    <2>1. tail + (n + 1) - 1 = tail + n /\ tail + n \in Nat
      BY <1>1 DEF RingInv, RingTypeOK
    <2>2. Slot(tail + n) \in 0..Cap-1
      BY <2>1, SlotWraps
    <2>3. QED
      BY <1>3, <2>1, <2>2 DEF PostKept, RingInv, RingTypeOK
  <1>6. tail' = tail
    BY DEF PostKept
  <1>7. Pending' = [i \in 1..(n + 1) |-> IF i <= n THEN Pending[i] ELSE r]
    <2>1. Pending' = [i \in 1..(n + 1) |-> slots'[Slot(tail + i - 1)]]
      BY <1>1, <1>6 DEF Pending
    <2>2. ASSUME NEW i \in 1..(n + 1)
          PROVE  slots'[Slot(tail + i - 1)] = IF i <= n THEN Pending[i] ELSE r
      <3>1. CASE i <= n
        BY <1>2, <1>4, <3>1 DEF Pending
      <3>2. CASE i = n + 1
        BY <1>2, <1>5, <3>2
      <3>3. QED
        BY <1>2, <3>1, <3>2
    <2>3. QED
      BY <2>1, <2>2
  <1>8. Pending \o <<r>> = [i \in 1..(n + 1) |-> IF i <= n THEN Pending[i] ELSE r]
    <2> HIDE DEF n
    <2> QED
      BY <1>2
  <1>9. Len(Pending) < Cap
    <2> HIDE DEF n
    <2> QED
      BY <1>1, <1>2, Sizes
  <1>10. QED
    BY <1>7, <1>8, <1>9

(* Publishing the tail takes the first of what waits. *)
LEMMA PublishTakes ==
  ASSUME RingInv, Publish
  PROVE  Pending # <<>> /\ taken' = Head(Pending) /\ Pending' = Tail(Pending)
  <1> DEFINE n == Used(head, tail)
  <1>1. /\ n > 0 /\ Used(head, tail') = n - 1 /\ head' = head /\ slots' = slots
        /\ tail' = IF tail + 1 = Width THEN 0 ELSE tail + 1
    BY PublishFreesOne DEF Publish
  <1>2. Pending \in [1..n -> Raws] /\ n \in Nat /\ Len(Pending) = n /\ Pending \in Seq(Raws)
    BY PendingIs DEF RingInv
  <1>3. ASSUME NEW i \in 1..(n - 1) PROVE Slot(tail' + i - 1) = Slot(tail + (i + 1) - 1)
    <2>1. CASE tail + 1 = Width
      <3>1. tail + (i + 1) - 1 = (i - 1) + Width /\ tail' + i - 1 = i - 1 /\ i - 1 \in Nat
        BY <1>1, <2>1, Sizes DEF RingInv, RingTypeOK
      <3>2. Slot((i - 1) + Width) = Slot(i - 1)
        BY <3>1, SlotWraps
      <3>3. QED
        BY <3>1, <3>2
    <2>2. CASE tail + 1 # Width
      <3>1. tail + (i + 1) - 1 = tail' + i - 1
        BY <1>1, <2>2 DEF RingInv, RingTypeOK
      <3>2. QED
        BY <3>1
    <2>3. QED
      BY <2>1, <2>2
  <1>4. Pending' = [i \in 1..(n - 1) |-> slots[Slot(tail' + i - 1)]]
    BY <1>1 DEF Pending
  <1>5. \A i \in 1..(n - 1) : slots[Slot(tail' + i - 1)] = Pending[i + 1]
    BY <1>2, <1>3 DEF Pending
  <1>6. Pending' = [i \in 1..(n - 1) |-> Pending[i + 1]]
    BY <1>4, <1>5
  <1>7. Pending[1] = slots[Slot(tail)]
    <2>1. 1 \in 1..n /\ tail + 1 - 1 = tail
      BY <1>1, <1>2 DEF RingInv, RingTypeOK
    <2>2. QED
      BY <2>1 DEF Pending
  <1>8. taken' = Pending[1]
    BY <1>7 DEF Publish, RingInv, DrainInv
  <1>9. Pending # <<>> /\ Head(Pending) = Pending[1]
    <2> HIDE DEF n
    <2> QED
      BY <1>1, <1>2
  <1>10. Tail(Pending) = [i \in 1..(n - 1) |-> Pending[i + 1]]
    <2>1. Tail(Pending) \in [1..(n - 1) -> Raws]
      <3> HIDE DEF n
      <3>1. Tail(Pending) \in Seq(Raws) /\ Len(Tail(Pending)) = n - 1
        BY <1>2, <1>9, HeadTailProperties
      <3>2. QED
        BY <3>1, LenProperties
    <2>2. \A i \in 1..(n - 1) : Tail(Pending)[i] = Pending[i + 1]
      <3> HIDE DEF n
      <3>1. QED
        BY <1>1, <1>2, <1>9, HeadTailProperties
    <2>3. QED
      BY <2>1, <2>2
  <1>11. QED
    BY <1>6, <1>8, <1>9, <1>10

(* EventRing!IsAQueue: whatever the interleaving of posts with the steps of *)
(* a drain, and wherever the counters wrap, the ring is a bounded FIFO      *)
(* queue (flair_raw_post, drain_one).                                       *)
THEOREM RingIsAQueue == RingSpec => IsAQueue
  <1>1. RingInit => Queue!QInit
    <2> SUFFICES ASSUME RingInit PROVE Queue!QInit
      OBVIOUS
    <2>1. head = 0 /\ tail = 0 /\ dropped = FALSE /\ taken \in Raws
      BY DEF RingInit
    <2>2. Used(0, 0) = 0
      BY UsedIs, Sizes
    <2>3. Pending = <<>>
      BY <2>1, <2>2 DEF Pending
    <2>4. QED
      BY <2>1, <2>3 DEF Queue!QInit
  <1>2. RingInv /\ [RingNext]_ringVars => [Queue!QNext]_(Queue!queueVars)
    <2> SUFFICES ASSUME RingInv, [RingNext]_ringVars
                 PROVE  Queue!QNext \/ UNCHANGED <<Pending, dropped, taken>>
      BY DEF Queue!queueVars
    <2>1. ASSUME NEW r \in Raws, PostKept(r) PROVE Queue!QNext
      <3>1. Len(Pending) < Cap /\ Pending' = Pending \o <<r>>
        BY <2>1, PostAppends
      <3>2. Len(<<r>>) = 1 /\ Len(Pending) \in Nat
        BY PendingIs DEF RingInv
      <3>3. UNCHANGED <<dropped, taken>> /\ dropped \in BOOLEAN
        BY <2>1 DEF PostKept, RingInv, RingTypeOK
      <3>4. Queue!PostAll(<<r>>)
        BY <3>1, <3>2, <3>3, Sizes DEF Queue!PostAll
      <3>5. QED
        BY <3>4 DEF Queue!QNext, Queue!Post
    <2>2. CASE PostDropped
      <3>1. PICK r \in Raws : TRUE
        BY DEF RingInv, RingTypeOK
      <3>2. UNCHANGED <<head, tail, slots, taken>> /\ dropped' = TRUE
        BY <2>2 DEF PostDropped
      <3>3. Pending' = Pending
        BY <3>2 DEF Pending
      <3>4. Len(Pending) = Cap /\ Pending \in Seq(Raws)
        BY <2>2, PendingIs, Sizes DEF PostDropped, Full, RingInv, RingTypeOK
      <3>5. ~(Len(<<r>>) <= Cap - Len(Pending)) /\ Cap - Len(Pending) = 0
        BY <3>4, Sizes
      <3>6. SubSeq(<<r>>, 1, 0) = <<>> /\ <<>> # <<r>>
        OBVIOUS
      <3>7. Pending \o <<>> = Pending
        BY <3>4
      <3>8. Queue!PostAll(<<r>>)
        BY <3>2, <3>3, <3>5, <3>6, <3>7 DEF Queue!PostAll
      <3>9. QED
        BY <3>8 DEF Queue!QNext, Queue!Post
    <2>3. CASE LoadHead \/ LoadTail \/ CopyWord \/ UNCHANGED ringVars
      BY <2>3 DEF LoadHead, LoadTail, CopyWord, ringVars, Pending
    <2>4. CASE Publish
      <3>1. UNCHANGED dropped
        BY <2>4 DEF Publish
      <3>2. QED
        BY <2>4, <3>1, PublishTakes DEF Queue!QNext, Queue!Take
    <2>5. QED
      BY <2>1, <2>2, <2>3, <2>4 DEF RingNext, Drain
  <1>3. QED
    BY <1>1, <1>2, RingInvariant, PTL DEF RingSpec, IsAQueue, Queue!QSpec

-----------------------------------------------------------------------------
(* InputHandoff.                                                            *)

(* What the raw ring can hold.                                             *)
Records == [byte : Bytes, means : Seq(Chars), dos : BOOLEAN]

(* t is the decoder before each waiting byte and behind the last: it leads *)
(* from the pump's to IRQ1's, and each byte meant what it decodes to.      *)
Trace(t) ==
  /\ t \in [0 .. Len(raw) -> Decoder]
  /\ t[0] = consumed /\ t[Len(raw)] = isr
  /\ \A i \in 1 .. Len(raw) : /\ t[i] = Decoded(t[i - 1], raw[i].byte)
                              /\ raw[i].means = Decodes(t[i - 1], raw[i].byte)

PairsWhole(ring) ==
  \A i \in 1 .. Len(ring) :
    /\ ring[i] = "00" => i < Len(ring) /\ ring[i + 1] = "scan"
    /\ ring[i] = "scan" /\ i > 1 => ring[i - 1] = "00"

Shapes ==
  /\ keys \subseteq Sides /\ pend \in {<<>>, <<"ctrl+">>, <<"ctrl-">>}
  /\ isr \in Decoder /\ consumed \in Decoder
  /\ mode \in {"desktop", "launching", "dos"} /\ owner \in {"GUI", "DOS"}
  /\ owner = "DOS" <=> mode = "dos"
  /\ cooked \in Seq(Chars) /\ due \in Seq(Chars) /\ raw \in Seq(Records)

IInv ==
  /\ Shapes
  /\ isr.held = keys /\ (isr.e0 <=> pend # <<>>)
  /\ mode # "dos" => cooked = <<>>
  /\ mode = "desktop" => \A i \in 1 .. Len(raw) : ~raw[i].dos
  /\ PairsWhole(cooked)
  /\ rawLost = "never" => \E t : Trace(t)
  /\ mode = "dos" /\ ~lost /\ rawLost = "never" => cooked = due

-----------------------------------------------------------------------------
(* Folds.  The library's induction theorems take an operator; a set serves *)
(* as well.                                                                *)

LEMMA UpTo ==
  ASSUME NEW n \in Nat, NEW T, 0 \in T, \A k \in 0 .. n - 1 : k \in T => k + 1 \in T
  PROVE  \A k \in 0 .. n : k \in T
  <1> DEFINE S == {k \in 0 .. n : k \notin T}
  <1>1. SUFFICES ASSUME S # {} PROVE FALSE
    OBVIOUS
  <1>2. S \subseteq Nat
    OBVIOUS
  <1>3. PICK m \in S : \A k \in S : <<k, m>> \notin OpToRel(<, Nat)
    BY <1>1, <1>2, NatLessThanWellFounded, WFMin
  <1>4. m \in 0 .. n /\ m # 0
    OBVIOUS
  <1>5. m - 1 \in 0 .. n - 1 /\ m - 1 \in Nat /\ m \in Nat /\ m - 1 < m /\ (m - 1) + 1 = m
    BY <1>4
  <1>6. m - 1 \notin S
    BY <1>3, <1>5 DEF OpToRel
  <1>7. m - 1 \in T
    BY <1>5, <1>6
  <1>8. m \in T
    BY <1>5, <1>7
  <1>9. QED
    BY <1>8

(* The library folds over sets of indices, the highest first.              *)
Top(s) == CHOOSE x \in s : \A y \in s : x >= y

LEMMA TopIs ==
  ASSUME NEW m \in Nat, NEW s, s \subseteq 1 .. m + 1, m + 1 \in s
  PROVE  Top(s) = m + 1
  <1>1. \A y \in s : y \in Nat /\ m + 1 >= y
    OBVIOUS
  <1>2. \E x \in s : \A y \in s : x >= y
    BY <1>1
  <1>3. Top(s) \in s /\ \A y \in s : Top(s) >= y
    BY <1>2 DEF Top
  <1>4. Top(s) \in Nat /\ m + 1 >= Top(s) /\ Top(s) >= m + 1
    BY <1>1, <1>3
  <1>5. QED
    BY <1>4

LEMMA TopIn ==
  ASSUME NEW n \in Nat, NEW s \in SUBSET (1 .. n), s # {}
  PROVE  Top(s) \in s /\ Top(s) \in 1 .. n
  <1> DEFINE S == {m \in 0 .. n : s \subseteq 1 .. m}
  <1>1. S \subseteq Nat /\ n \in S
    OBVIOUS
  <1>2. PICK m \in S : \A k \in S : <<k, m>> \notin OpToRel(<, Nat)
    BY <1>1, NatLessThanWellFounded, WFMin
  <1>3. m \in Nat /\ m # 0 /\ s \subseteq 1 .. m
    <2>1. s \subseteq 1 .. m /\ m \in 0 .. n
      OBVIOUS
    <2>2. ASSUME m = 0 PROVE FALSE
      <3>1. PICK x \in s : TRUE
        OBVIOUS
      <3>2. x \in 1 .. m /\ m = 0
        BY <2>1, <2>2
      <3>3. QED
        BY <3>2
    <2>3. QED
      BY <2>1, <2>2
  <1>4. m \in s
    <2>1. m - 1 \in Nat /\ m - 1 < m /\ m - 1 \in 0 .. n
      BY <1>3
    <2>2. m - 1 \notin S
      BY <1>2, <1>3, <2>1 DEF OpToRel
    <2>3. ~ (s \subseteq 1 .. m - 1)
      BY <2>1, <2>2
    <2>4. QED
      BY <1>3, <2>1, <2>3
  <1>5. \E x \in s : \A y \in s : x >= y
    BY <1>3, <1>4
  <1>6. QED
    BY <1>5 DEF Top

(* A recursion over those sets exists whatever the step, here a function.  *)
Steps(G, S, n) == G \in [S \X (1 .. n) -> S]

Iterates(f, S, b, n, G) ==
  /\ f \in [SUBSET (1 .. n) -> S]
  /\ \A s \in SUBSET (1 .. n) :
       f[s] = IF s = {} THEN b ELSE G[<<f[s \ {Top(s)}], Top(s)>>]

LEMMA IterExists ==
  ASSUME NEW S, NEW b \in S, NEW n \in Nat, NEW G, Steps(G, S, n)
  PROVE  \E f : Iterates(f, S, b, n, G)
  <1> USE DEF Steps
  <1> DEFINE Law(f, m) ==
               \A s \in SUBSET (1 .. m) :
                 f[s] = IF s = {} THEN b ELSE G[<<f[s \ {Top(s)}], Top(s)>>]
             T == {m \in 0 .. n : \E f \in [SUBSET (1 .. m) -> S] : Law(f, m)}
  <1>1. 0 \in T
    <2> DEFINE f == [s \in SUBSET (1 .. 0) |-> b]
    <2>1. f \in [SUBSET (1 .. 0) -> S]
      OBVIOUS
    <2>2. \A s \in SUBSET (1 .. 0) : s = {} /\ f[s] = b
      OBVIOUS
    <2> HIDE DEF f
    <2>3. Law(f, 0)
      BY <2>2
    <2>4. 0 \in 0 .. n
      OBVIOUS
    <2> HIDE DEF Law
    <2>5. QED
      BY <2>1, <2>3, <2>4
  <1>2. ASSUME NEW m \in 0 .. n - 1, m \in T PROVE m + 1 \in T
    <2>1. PICK f \in [SUBSET (1 .. m) -> S] : Law(f, m)
      BY <1>2
    <2> DEFINE g == [s \in SUBSET (1 .. m + 1) |->
                       IF m + 1 \in s THEN G[<<f[s \ {m + 1}], m + 1>>] ELSE f[s]]
    <2>2. m \in Nat /\ m + 1 \in 1 .. n /\ m + 1 \in 0 .. n
      OBVIOUS
    <2>3. ASSUME NEW s \in SUBSET (1 .. m + 1)
          PROVE  /\ m + 1 \notin s => s \in SUBSET (1 .. m)
                 /\ s \ {m + 1} \in SUBSET (1 .. m) /\ s \ {m + 1} \in SUBSET (1 .. m + 1)
                 /\ m + 1 \notin s \ {m + 1}
      BY <2>2
    <2>4. \A s \in SUBSET (1 .. m) : f[s] \in S
      OBVIOUS
    <2>5. ASSUME NEW s \in SUBSET (1 .. m + 1)
          PROVE  g[s] \in S /\ (m + 1 \notin s => g[s] = f[s])
                 /\ (m + 1 \in s => g[s] = G[<<f[s \ {m + 1}], m + 1>>])
      <3>1. CASE m + 1 \in s
        <4>1. f[s \ {m + 1}] \in S
          BY <2>3, <2>4
        <4>2. <<f[s \ {m + 1}], m + 1>> \in S \X (1 .. n)
          BY <2>2, <4>1
        <4>3. QED
          BY <3>1, <4>2
      <3>2. CASE m + 1 \notin s
        BY <2>3, <2>4, <3>2
      <3>3. QED
        BY <3>1, <3>2
    <2>6. g \in [SUBSET (1 .. m + 1) -> S]
      BY <2>5
    <2> HIDE DEF g
    <2>7. ASSUME NEW s \in SUBSET (1 .. m + 1)
          PROVE  g[s] = IF s = {} THEN b ELSE G[<<g[s \ {Top(s)}], Top(s)>>]
      <3>1. CASE m + 1 \in s
        <4>1. Top(s) = m + 1
          BY <2>2, <3>1, TopIs
        <4>2. g[s \ {m + 1}] = f[s \ {m + 1}]
          BY <2>3, <2>5
        <4>3. QED
          BY <2>5, <3>1, <4>1, <4>2
      <3>2. CASE m + 1 \notin s
        <4>1. s \in SUBSET (1 .. m) /\ g[s] = f[s]
          BY <2>3, <2>5, <3>2
        <4>2. f[s] = IF s = {} THEN b ELSE G[<<f[s \ {Top(s)}], Top(s)>>]
          BY <2>1, <4>1
        <4>3. s \ {Top(s)} \in SUBSET (1 .. m + 1) /\ m + 1 \notin s \ {Top(s)}
          BY <3>2
        <4>4. g[s \ {Top(s)}] = f[s \ {Top(s)}]
          BY <2>5, <4>3
        <4>5. QED
          BY <4>1, <4>2, <4>4
      <3>3. QED
        BY <3>1, <3>2
    <2>8. Law(g, m + 1)
      BY <2>7
    <2> HIDE DEF Law
    <2>9. QED
      BY <2>2, <2>6, <2>8
  <1>3. n \in T
    <2> HIDE DEF T
    <2>1. \A m \in 0 .. n : m \in T
      BY <1>1, <1>2, UpTo
    <2>2. QED
      BY <2>1
  <1>4. QED
    BY <1>3 DEF Iterates

(* Its values on the indices up to i, one after the other.                 *)
Walks(at, f, n) ==
  /\ at[0] = f[{}] /\ at[n] = f[1 .. n]
  /\ \A i \in 1 .. n : \E s \in SUBSET (1 .. n) :
       s # {} /\ Top(s) = i /\ at[i] = f[s] /\ at[i - 1] = f[s \ {i}]

LEMMA Along ==
  ASSUME NEW n \in Nat, NEW f
  PROVE  \E at : Walks(at, f, n)
  <1> DEFINE at == [i \in 0 .. n |-> f[1 .. i]]
  <1>1. at[0] = f[{}] /\ at[n] = f[1 .. n]
    <2>1. 1 .. 0 = {} /\ 0 \in 0 .. n /\ n \in 0 .. n
      OBVIOUS
    <2>2. QED
      BY <2>1
  <1>2. ASSUME NEW i \in 1 .. n
        PROVE  \E s \in SUBSET (1 .. n) :
                 s # {} /\ Top(s) = i /\ at[i] = f[s] /\ at[i - 1] = f[s \ {i}]
    <2>1. i - 1 \in Nat /\ i = (i - 1) + 1 /\ i \in 1 .. i /\ i \in 0 .. n /\ i - 1 \in 0 .. n
      OBVIOUS
    <2>2. Top(1 .. i) = i
      <3>1. \A m \in Nat : \A s : s \subseteq 1 .. m + 1 /\ m + 1 \in s => Top(s) = m + 1
        BY TopIs
      <3>2. QED
        BY <2>1, <3>1
    <2>3. (1 .. i) \ {i} = 1 .. i - 1
      BY <2>1
    <2>4. at[i] = f[1 .. i] /\ at[i - 1] = f[1 .. i - 1]
      BY <2>1
    <2>5. 1 .. i \in SUBSET (1 .. n) /\ 1 .. i # {}
      BY <2>1
    <2> HIDE DEF at
    <2>6. at[i - 1] = f[(1 .. i) \ {i}]
      BY <2>3, <2>4
    <2>7. QED
      BY <2>2, <2>4, <2>5, <2>6
  <1> HIDE DEF at
  <1>3. Walks(at, f, n)
    BY <1>1, <1>2 DEF Walks
  <1>4. QED
    BY <1>3

-----------------------------------------------------------------------------
(* Decoding. *)

LEMMA DecodedType ==
  ASSUME NEW d \in Decoder, NEW b
  PROVE  /\ Decoded(d, b) \in Decoder
         /\ Decoded(d, b).e0 <=> b = "e0"
         /\ b = "ctrl+" => Decoded(d, b).held = d.held \cup {Side(d)}
         /\ b = "ctrl-" => Decoded(d, b).held = d.held \ {Side(d)}
         /\ b \notin {"ctrl+", "ctrl-"} => Decoded(d, b).held = d.held
  <1>1. d.held \subseteq Sides /\ Side(d) \in Sides
    BY DEF Decoder, Side, Sides
  <1> DEFINE h == CASE b = "ctrl+" -> d.held \cup {Side(d)}
                    [] b = "ctrl-" -> d.held \ {Side(d)}
                    [] OTHER       -> d.held
  <1>2. /\ h \in SUBSET Sides
        /\ b = "ctrl+" => h = d.held \cup {Side(d)}
        /\ b = "ctrl-" => h = d.held \ {Side(d)}
        /\ b \notin {"ctrl+", "ctrl-"} => h = d.held
    BY <1>1
  <1>3. Decoded(d, b) = [held |-> h, e0 |-> b = "e0"]
    BY DEF Decoded
  <1> HIDE DEF h
  <1>4. Decoded(d, b) \in Decoder
    <2>1. (b = "e0") \in BOOLEAN
      OBVIOUS
    <2>2. QED
      BY <1>2, <1>3, <2>1 DEF Decoder
  <1>5. Decoded(d, b).held = h
    BY <1>3
  <1>6. Decoded(d, b).e0 <=> b = "e0"
    <2>1. Decoded(d, b).e0 = (b = "e0")
      BY <1>3
    <2>2. QED
      BY <2>1, Zenon
  <1>7. QED
    BY <1>2, <1>4, <1>5, <1>6

(* What one byte can be. *)
Words == {<<>>, <<"k">>, <<"^k">>, <<"00", "scan">>}

LEMMA DecodesIs ==
  ASSUME NEW d, NEW b
  PROVE  Decodes(d, b) \in Words /\ Decodes(d, b) \in Seq(Chars)
  <1>1. Decodes(d, b) \in Words
    <2>1. \A c : Meaning(b, c) \in Words
      BY DEF Meaning, Words
    <2>2. QED
      BY <2>1, Zenon DEF Decodes, Words
  <1>2. \A w \in Words : w \in Seq(Chars)
    <2>1. "k" \in Chars /\ "^k" \in Chars /\ "00" \in Chars /\ "scan" \in Chars
      BY DEF Chars
    <2>2. \A x, y \in Chars : <<x>> \in Seq(Chars) /\ <<x, y>> \in Seq(Chars)
      OBVIOUS
    <2>3. <<>> \in Seq(Chars)
      BY EmptySeq
    <2>4. QED
      BY <2>1, <2>2, <2>3, Zenon DEF Words
  <1>3. QED
    BY <1>1, <1>2

LEMMA DecodedAllSteps ==
  ASSUME NEW d \in Decoder, NEW rs \in Seq(Records)
  PROVE  \E at : /\ at[0] = d /\ at[Len(rs)] = DecodedAll(d, rs)
                 /\ \A i \in 1 .. Len(rs) : at[i] = Decoded(at[i - 1], rs[i].byte)
  <1> DEFINE n == Len(rs)
             G == [x \in Decoder \X (1 .. n) |-> Decoded(x[1], rs[x[2]].byte)]
             Law(f) == f = [s \in SUBSET DOMAIN rs |->
                              IF s = {} THEN d ELSE Decoded(f[s \ {Top(s)}], rs[Top(s)].byte)]
             it == CHOOSE f : Law(f)
  <1>1. n \in Nat /\ DOMAIN rs = 1 .. n
    BY LenProperties
  <1>2. DecodedAll(d, rs) = it[DOMAIN rs]
    BY Zenon DEF DecodedAll, FoldLeft, MapThenFoldSet, Max, Top
  <1>3. \E f : Law(f)
    <2>1. Steps(G, Decoder, n)
      BY DecodedType DEF Steps
    <2> HIDE DEF G, n
    <2>2. PICK f : Iterates(f, Decoder, d, n, G)
      BY <1>1, <2>1, IterExists
    <2>3. ASSUME NEW s \in SUBSET (1 .. n), s # {}
          PROVE  G[<<f[s \ {Top(s)}], Top(s)>>] = Decoded(f[s \ {Top(s)}], rs[Top(s)].byte)
      <3>1. Top(s) \in 1 .. n
        BY <1>1, <2>3, TopIn
      <3>2. f[s \ {Top(s)}] \in Decoder
        BY <2>2 DEF Iterates
      <3>3. QED
        BY <3>1, <3>2 DEF G
    <2>4. \A s \in SUBSET (1 .. n) :
            f[s] = IF s = {} THEN d ELSE Decoded(f[s \ {Top(s)}], rs[Top(s)].byte)
      BY <2>2, <2>3 DEF Iterates
    <2>5. Law(f)
      <3>1. f = [s \in SUBSET (1 .. n) |-> f[s]]
        BY <2>2 DEF Iterates
      <3>2. QED
        BY <1>1, <2>4, <3>1
    <2>6. QED
      BY <2>5
  <1>4. Law(it)
    BY <1>3
  <1> HIDE DEF it, n
  <1>5. PICK at : Walks(at, it, n)
    BY <1>1, Along
  <1>6. at[0] = d /\ at[n] = it[DOMAIN rs]
    BY <1>1, <1>4, <1>5 DEF Walks
  <1>7. ASSUME NEW i \in 1 .. n PROVE at[i] = Decoded(at[i - 1], rs[i].byte)
    <2>1. PICK s \in SUBSET (1 .. n) :
            s # {} /\ Top(s) = i /\ at[i] = it[s] /\ at[i - 1] = it[s \ {i}]
      BY <1>5 DEF Walks
    <2>2. it[s] = Decoded(it[s \ {Top(s)}], rs[Top(s)].byte)
      BY <1>1, <1>4, <2>1
    <2>3. QED
      BY <2>1, <2>2
  <1>8. QED
    BY <1>2, <1>6, <1>7 DEF n

LEMMA PutIs ==
  ASSUME NEW ring \in Seq(Chars), NEW cs \in Seq(Chars)
  PROVE  Put(ring, cs) \in Seq(Chars)
  BY ConcatProperties DEF Put

(* One byte of the replay, and of what was typed. *)
Replays(x, r) == [st |-> Decoded(x.st, r.byte), ring |-> Put(x.ring, Decodes(x.st, r.byte))]
Adds(x, r)    == x \o r.means
Typed(rs)     == FoldLeft(LAMBDA s, r : s \o r.means, <<>>, rs)

(* flair_launch_text_tenant's replay, byte by byte. *)
LEMMA ReplaySteps ==
  ASSUME NEW d \in Decoder, NEW rs \in Seq(Records)
  PROVE  \E at : /\ at[0] = [st |-> d, ring |-> <<>>] /\ ReplayFrom(d, rs) = at[Len(rs)].ring
                 /\ \A i \in 1 .. Len(rs) : at[i] = Replays(at[i - 1], rs[i])
  <1> DEFINE S == [st : Decoder, ring : Seq(Chars)]
             b == [st |-> d, ring |-> <<>>]
             n == Len(rs)
             G == [x \in S \X (1 .. n) |-> Replays(x[1], rs[x[2]])]
             Law(f) == f = [s \in SUBSET DOMAIN rs |->
                              IF s = {} THEN b ELSE Replays(f[s \ {Top(s)}], rs[Top(s)])]
             it == CHOOSE f : Law(f)
  <1>1. n \in Nat /\ DOMAIN rs = 1 .. n /\ \A i \in 1 .. n : rs[i] \in Records
    BY LenProperties, ElementOfSeq
  <1>2. ReplayFrom(d, rs) = it[DOMAIN rs].ring
    BY Zenon DEF ReplayFrom, FoldLeft, MapThenFoldSet, Max, Top, Replays
  <1>3. b \in S /\ \A x \in S, r \in Records : Replays(x, r) \in S
    <2>1. b \in S
      BY EmptySeq
    <2>2. ASSUME NEW x \in S, NEW r \in Records PROVE Replays(x, r) \in S
      <3>1. x.st \in Decoder /\ x.ring \in Seq(Chars)
        OBVIOUS
      <3>2. Decoded(x.st, r.byte) \in Decoder /\ Decodes(x.st, r.byte) \in Seq(Chars)
        BY <3>1, DecodedType, DecodesIs
      <3>3. Put(x.ring, Decodes(x.st, r.byte)) \in Seq(Chars)
        BY <3>1, <3>2, PutIs
      <3>4. QED
        BY <3>2, <3>3 DEF Replays
    <2>3. QED
      BY <2>1, <2>2
  <1> HIDE DEF S, b
  <1>4. \E f : Law(f)
    <2>1. Steps(G, S, n)
      BY <1>1, <1>3 DEF Steps
    <2> HIDE DEF G, n
    <2>2. PICK f : Iterates(f, S, b, n, G)
      BY <1>1, <1>3, <2>1, IterExists
    <2>3. ASSUME NEW s \in SUBSET (1 .. n), s # {}
          PROVE  G[<<f[s \ {Top(s)}], Top(s)>>] = Replays(f[s \ {Top(s)}], rs[Top(s)])
      <3>1. Top(s) \in 1 .. n
        BY <1>1, <2>3, TopIn
      <3>2. f[s \ {Top(s)}] \in S
        BY <2>2 DEF Iterates
      <3>3. QED
        BY <3>1, <3>2 DEF G
    <2>4. \A s \in SUBSET (1 .. n) :
            f[s] = IF s = {} THEN b ELSE Replays(f[s \ {Top(s)}], rs[Top(s)])
      BY <2>2, <2>3 DEF Iterates
    <2>5. Law(f)
      <3>1. f = [s \in SUBSET (1 .. n) |-> f[s]]
        BY <2>2 DEF Iterates
      <3>2. QED
        BY <1>1, <2>4, <3>1
    <2>6. QED
      BY <2>5
  <1>5. Law(it)
    BY <1>4
  <1> HIDE DEF it, n
  <1>6. PICK at : Walks(at, it, n)
    BY <1>1, Along
  <1>7. at[0] = b /\ at[n] = it[DOMAIN rs]
    BY <1>1, <1>5, <1>6 DEF Walks
  <1>8. ASSUME NEW i \in 1 .. n PROVE at[i] = Replays(at[i - 1], rs[i])
    <2>1. PICK s \in SUBSET (1 .. n) :
            s # {} /\ Top(s) = i /\ at[i] = it[s] /\ at[i - 1] = it[s \ {i}]
      BY <1>6 DEF Walks
    <2>2. it[s] = Replays(it[s \ {Top(s)}], rs[Top(s)])
      BY <1>1, <1>5, <2>1
    <2>3. QED
      BY <2>1, <2>2
  <1>9. QED
    BY <1>2, <1>7, <1>8 DEF n, b

(* What was typed, byte by byte. *)
LEMMA TypedSteps ==
  ASSUME NEW rs \in Seq(Records)
  PROVE  \E at : /\ at[0] = <<>> /\ Typed(rs) = at[Len(rs)]
                 /\ \A i \in 1 .. Len(rs) : at[i] = Adds(at[i - 1], rs[i])
  <1> DEFINE S == Seq(Chars)
             b == <<>>
             n == Len(rs)
             G == [x \in S \X (1 .. n) |-> Adds(x[1], rs[x[2]])]
             Law(f) == f = [s \in SUBSET DOMAIN rs |->
                              IF s = {} THEN b ELSE Adds(f[s \ {Top(s)}], rs[Top(s)])]
             it == CHOOSE f : Law(f)
  <1>1. n \in Nat /\ DOMAIN rs = 1 .. n /\ \A i \in 1 .. n : rs[i] \in Records
    BY LenProperties, ElementOfSeq
  <1>2. Typed(rs) = it[DOMAIN rs]
    BY Zenon DEF Typed, FoldLeft, MapThenFoldSet, Max, Top, Adds
  <1>3. b \in S /\ \A x \in S, r \in Records : Adds(x, r) \in S
    BY EmptySeq, ConcatProperties DEF Adds, Records
  <1> HIDE DEF S, b
  <1>4. \E f : Law(f)
    <2>1. Steps(G, S, n)
      BY <1>1, <1>3 DEF Steps
    <2> HIDE DEF G, n
    <2>2. PICK f : Iterates(f, S, b, n, G)
      BY <1>1, <1>3, <2>1, IterExists
    <2>3. ASSUME NEW s \in SUBSET (1 .. n), s # {}
          PROVE  G[<<f[s \ {Top(s)}], Top(s)>>] = Adds(f[s \ {Top(s)}], rs[Top(s)])
      <3>1. Top(s) \in 1 .. n
        BY <1>1, <2>3, TopIn
      <3>2. f[s \ {Top(s)}] \in S
        BY <2>2 DEF Iterates
      <3>3. QED
        BY <3>1, <3>2 DEF G
    <2>4. \A s \in SUBSET (1 .. n) :
            f[s] = IF s = {} THEN b ELSE Adds(f[s \ {Top(s)}], rs[Top(s)])
      BY <2>2, <2>3 DEF Iterates
    <2>5. Law(f)
      <3>1. f = [s \in SUBSET (1 .. n) |-> f[s]]
        BY <2>2 DEF Iterates
      <3>2. QED
        BY <1>1, <2>4, <3>1
    <2>6. QED
      BY <2>5
  <1>5. Law(it)
    BY <1>4
  <1> HIDE DEF it, n
  <1>6. PICK at : Walks(at, it, n)
    BY <1>1, Along
  <1>7. at[0] = b /\ at[n] = it[DOMAIN rs]
    BY <1>1, <1>5, <1>6 DEF Walks
  <1>8. ASSUME NEW i \in 1 .. n PROVE at[i] = Adds(at[i - 1], rs[i])
    <2>1. PICK s \in SUBSET (1 .. n) :
            s # {} /\ Top(s) = i /\ at[i] = it[s] /\ at[i - 1] = it[s \ {i}]
      BY <1>6 DEF Walks
    <2>2. it[s] = Adds(it[s \ {Top(s)}], rs[Top(s)])
      BY <1>1, <1>5, <2>1
    <2>3. QED
      BY <2>1, <2>2
  <1>9. QED
    BY <1>2, <1>7, <1>8 DEF n, b

-----------------------------------------------------------------------------
(* The ring DOS reads. *)

LEMMA PutPairs ==
  ASSUME NEW ring \in Seq(Chars), NEW cs \in Words, PairsWhole(ring)
  PROVE  PairsWhole(Put(ring, cs))
  <1>1. cs \in Seq(Chars)
    <2>1. "k" \in Chars /\ "^k" \in Chars /\ "00" \in Chars /\ "scan" \in Chars
      BY DEF Chars
    <2>2. \A x, y \in Chars : <<x>> \in Seq(Chars) /\ <<x, y>> \in Seq(Chars)
      OBVIOUS
    <2>3. QED
      BY <2>1, <2>2, EmptySeq, Zenon DEF Words
  <1>2. Len(cs) \in 0 .. 2 /\ (Len(cs) = 2 => cs = <<"00", "scan">>)
        /\ (Len(cs) = 1 => cs[1] \notin {"00", "scan"})
    BY DEF Words
  <1> DEFINE new == ring \o cs
             n == Len(ring)
  <1>3. n \in Nat /\ Len(new) = n + Len(cs)
        /\ (\A i \in 1 .. n : new[i] = ring[i])
        /\ \A i \in 1 .. Len(cs) : new[n + i] = cs[i]
    <2>1. \A i \in 1 .. Len(cs) : n + i \in n + 1 .. Len(new)
      BY <1>1, <1>2, LenProperties, ConcatProperties
    <2>2. QED
      BY <1>1, <1>2, LenProperties, ConcatProperties
  <1>4. \A i \in 1 .. Len(new) : i \in 1 .. n \/ (i = n + 1 /\ Len(cs) >= 1) \/ (i = n + 2 /\ Len(cs) = 2)
    BY <1>2, <1>3
  <1> HIDE DEF new, n
  <1>5. ASSUME NEW i \in 1 .. Len(new), i \in 1 .. n
        PROVE  /\ new[i] = "00" => i < Len(new) /\ new[i + 1] = "scan"
               /\ new[i] = "scan" /\ i > 1 => new[i - 1] = "00"
    <2>1. /\ ring[i] = "00" => i < n /\ ring[i + 1] = "scan"
          /\ ring[i] = "scan" /\ i > 1 => ring[i - 1] = "00"
      BY <1>5 DEF PairsWhole, n
    <2>2. (i < n => i + 1 \in 1 .. n) /\ (i > 1 => i - 1 \in 1 .. n)
      BY <1>3, <1>5
    <2>3. QED
      BY <1>2, <1>3, <1>5, <2>1, <2>2
  <1>6. ASSUME NEW i \in 1 .. Len(new), i = n + 1, Len(cs) >= 1
        PROVE  /\ new[i] = "00" => i < Len(new) /\ new[i + 1] = "scan"
               /\ new[i] = "scan" /\ i > 1 => new[i - 1] = "00"
    <2>1. new[n + 1] = cs[1]
      BY <1>2, <1>3, <1>6
    <2>2. CASE Len(cs) = 1
      BY <1>2, <1>6, <2>1, <2>2
    <2>3. CASE Len(cs) = 2
      <3>1. cs[1] = "00" /\ cs[2] = "scan" /\ new[n + 2] = cs[2]
        BY <1>2, <1>3, <2>3
      <3>2. (n + 1) + 1 = n + 2 /\ n + 1 < Len(new)
        BY <1>3, <2>3
      <3>3. QED
        BY <1>6, <2>1, <3>1, <3>2
    <2>4. QED
      BY <1>2, <1>6, <2>2, <2>3
  <1>7. ASSUME NEW i \in 1 .. Len(new), i = n + 2, Len(cs) = 2
        PROVE  /\ new[i] = "00" => i < Len(new) /\ new[i + 1] = "scan"
               /\ new[i] = "scan" /\ i > 1 => new[i - 1] = "00"
    <2>1. cs[1] = "00" /\ cs[2] = "scan" /\ new[n + 1] = cs[1] /\ new[n + 2] = cs[2]
      BY <1>2, <1>3, <1>7
    <2>2. (n + 2) - 1 = n + 1
      BY <1>3
    <2>3. QED
      BY <1>7, <2>1, <2>2
  <1>8. PairsWhole(new)
    BY <1>4, <1>5, <1>6, <1>7 DEF PairsWhole
  <1>9. QED
    BY <1>8 DEF Put, new

LEMMA TailPairs ==
  ASSUME NEW ring \in Seq(Chars), ring # <<>>, PairsWhole(ring)
  PROVE  PairsWhole(Tail(ring))
  <1> DEFINE new == Tail(ring)
             n == Len(ring)
  <1>1. n \in Nat /\ n >= 1 /\ Len(new) = n - 1
    BY HeadTailProperties, EmptySeq, LenProperties
  <1>2. \A i \in 1 .. Len(new) : new[i] = ring[i + 1]
    BY HeadTailProperties
  <1> HIDE DEF new
  <1>3. ASSUME NEW i \in 1 .. Len(new)
        PROVE  /\ new[i] = "00" => i < Len(new) /\ new[i + 1] = "scan"
               /\ new[i] = "scan" /\ i > 1 => new[i - 1] = "00"
    <2>1. i + 1 \in 1 .. n
      BY <1>1
    <2>2. /\ ring[i + 1] = "00" => i + 1 < n /\ ring[(i + 1) + 1] = "scan"
          /\ ring[i + 1] = "scan" /\ i + 1 > 1 => ring[(i + 1) - 1] = "00"
      BY <2>1 DEF PairsWhole
    <2> HIDE DEF n
    <2>3. /\ i + 1 < n => i < Len(new) /\ i + 1 \in 1 .. Len(new)
          /\ i > 1 => i - 1 \in 1 .. Len(new)
          /\ (i + 1) - 1 = i /\ (i - 1) + 1 = i
      BY <1>1
    <2>4. QED
      BY <1>2, <2>2, <2>3
  <1>4. QED
    BY <1>3 DEF PairsWhole, new

LEMMA EmptyPairs == PairsWhole(<<>>)
  BY DEF PairsWhole

-----------------------------------------------------------------------------
(* A byte from the keyboard. *)

(* IRQ1's decoder tells what the byte means, and ends at the keys down.    *)
LEMMA ByteMeans ==
  ASSUME Shapes, isr.held = keys, isr.e0 <=> pend # <<>>, NEW b \in Bytes, Sends(b)
  PROVE  /\ Meaning(b, keys # {}) = Decodes(isr, b)
         /\ keys' \subseteq Sides /\ pend' \in {<<>>, <<"ctrl+">>, <<"ctrl-">>}
         /\ Decoded(isr, b).held = keys'
         /\ Decoded(isr, b).e0 <=> pend' # <<>>
  <1>1. isr \in Decoder /\ keys \subseteq Sides /\ pend \in {<<>>, <<"ctrl+">>, <<"ctrl-">>}
    BY DEF Shapes
  <1>2. /\ Decoded(isr, b).e0 <=> b = "e0"
        /\ b = "ctrl+" => Decoded(isr, b).held = keys \cup {Side(isr)}
        /\ b = "ctrl-" => Decoded(isr, b).held = keys \ {Side(isr)}
        /\ b \notin {"ctrl+", "ctrl-"} => Decoded(isr, b).held = keys
    BY <1>1, DecodedType
  <1>3. CASE pend # <<>>
    <2>1. b \in {"ctrl+", "ctrl-"} /\ pend' = <<>>
          /\ keys' = IF b = "ctrl+" THEN keys \cup {"right"} ELSE keys \ {"right"}
      BY <1>1, <1>3 DEF Sends
    <2>2. isr.e0
      BY <1>3
    <2>3. Side(isr) = "right" /\ Decodes(isr, b) = <<>>
      BY <2>2 DEF Side, Decodes
    <2>4. Meaning(b, keys # {}) = <<>>
      BY <2>1 DEF Meaning
    <2>5. QED
      BY <1>1, <1>2, <2>1, <2>3, <2>4 DEF Sides
  <1>4. CASE pend = <<>>
    <2>1. ~isr.e0
      BY <1>4
    <2>2. Side(isr) = "left" /\ Decodes(isr, b) = Meaning(b, keys # {})
      BY <2>1 DEF Side, Decodes
    <2>3. \/ b = "ctrl+" /\ keys' = keys \cup {"left"} /\ pend' = <<>>
          \/ b = "ctrl-" /\ keys' = keys \ {"left"} /\ pend' = <<>>
          \/ b = "e0" /\ keys' = keys /\ pend' \in {<<"ctrl-">>, <<"ctrl+">>}
          \/ b \in {"key", "fn"} /\ keys' = keys /\ pend' = <<>>
      BY <1>4 DEF Sends, keyboard
    <2>4. Decoded(isr, b).e0 <=> pend' # <<>>
      BY <1>2, <2>3
    <2>5. Decoded(isr, b).held = keys'
      BY <1>1, <1>2, <2>2, <2>3 DEF Sides
    <2>6. keys' \subseteq Sides /\ pend' \in {<<>>, <<"ctrl+">>, <<"ctrl-">>}
      BY <1>1, <2>3 DEF Sides
    <2>7. QED
      BY <2>2, <2>4, <2>5, <2>6
  <1>5. QED
    BY <1>3, <1>4, Zenon

LEMMA KeyStep ==
  ASSUME IInv, NEW b \in Bytes, KeyIRQ(b)
  PROVE  IInv'
  <1> DEFINE means == Meaning(b, keys # {})
             rec   == [byte |-> b, means |-> means, dos |-> mode = "dos"]
  <1>1. Shapes /\ PairsWhole(cooked)
    BY DEF IInv
  <1>2. /\ isr \in Decoder /\ cooked \in Seq(Chars) /\ due \in Seq(Chars) /\ raw \in Seq(Records)
        /\ owner \in {"GUI", "DOS"} /\ (owner = "DOS" <=> mode = "dos")
    BY <1>1 DEF Shapes
  <1>3. /\ means = Decodes(isr, b) /\ means \in Words /\ means \in Seq(Chars)
        /\ keys' \subseteq Sides /\ pend' \in {<<>>, <<"ctrl+">>, <<"ctrl-">>}
        /\ isr' \in Decoder /\ isr'.held = keys' /\ (isr'.e0 <=> pend' # <<>>)
    <2>1. Sends(b) /\ isr' = Decoded(isr, b)
      BY DEF KeyIRQ
    <2>2. isr.held = keys /\ (isr.e0 <=> pend # <<>>)
      BY DEF IInv
    <2>3. /\ means = Decodes(isr, b)
          /\ keys' \subseteq Sides /\ pend' \in {<<>>, <<"ctrl+">>, <<"ctrl-">>}
          /\ Decoded(isr, b).held = keys' /\ (Decoded(isr, b).e0 <=> pend' # <<>>)
      BY <1>1, <2>1, <2>2, ByteMeans
    <2>4. Decoded(isr, b) \in Decoder
      BY <1>2, DecodedType
    <2>5. QED
      BY <2>1, <2>3, <2>4, DecodesIs
  <1> HIDE DEF means
  <1>4. UNCHANGED <<owner, consumed, mode>>
    BY DEF KeyIRQ
  <1>5. cooked' = IF owner = "GUI" THEN cooked ELSE Put(cooked, means)
    BY <1>3 DEF KeyIRQ, CookedAfter
  <1>6. rec \in Records
    <2>1. (mode = "dos") \in BOOLEAN
      OBVIOUS
    <2>2. QED
      BY <1>3, <2>1 DEF Records
  <1>7. /\ rawLost' = "never" => rawLost = "never" /\ raw' = Append(raw, rec)
        /\ raw' = raw \/ raw' = Append(raw, rec)
    <2>1. mode # "never"
      BY <1>1 DEF Shapes
    <2>2. CASE Len(raw) < RawCap
      BY <2>2 DEF KeyIRQ, means
    <2>3. CASE ~(Len(raw) < RawCap)
      BY <2>1, <2>3 DEF KeyIRQ
    <2>4. QED
      BY <2>2, <2>3
  <1>8. due' = (IF mode = "dos" /\ ~lost' THEN due \o means ELSE <<>>)
        /\ lost' = (lost \/ (owner = "DOS" /\ Len(cooked) + Len(means) > DosCap))
    BY DEF KeyIRQ, means
  <1> HIDE DEF rec
  <1>9. raw' \in Seq(Records) /\ due' \in Seq(Chars) /\ cooked' \in Seq(Chars)
    <2>1. raw' \in Seq(Records)
      BY <1>2, <1>6, <1>7, AppendProperties
    <2>2. due' \in Seq(Chars)
      BY <1>2, <1>3, <1>8, ConcatProperties, EmptySeq
    <2>3. cooked' \in Seq(Chars)
      BY <1>2, <1>3, <1>5, PutIs
    <2>4. QED
      BY <2>1, <2>2, <2>3
  <1>10. Shapes'
    <2>1. consumed' \in Decoder /\ mode' \in {"desktop", "launching", "dos"}
          /\ owner' \in {"GUI", "DOS"} /\ (owner' = "DOS" <=> mode' = "dos")
      BY <1>1, <1>4 DEF Shapes
    <2>2. QED
      BY <1>3, <1>9, <2>1 DEF Shapes
  <1>11. (mode # "dos" => cooked = <<>>)'
    BY <1>2, <1>4, <1>5 DEF IInv
  <1>12. (mode = "desktop" => \A i \in 1 .. Len(raw) : ~raw[i].dos)'
    <2>1. SUFFICES ASSUME mode = "desktop", NEW i \in 1 .. Len(raw') PROVE ~raw'[i].dos
      BY <1>4
    <2>2. \A j \in 1 .. Len(raw) : ~raw[j].dos
      BY <2>1 DEF IInv
    <2>3. ~rec.dos
      <3>1. rec.dos = (mode = "dos")
        BY DEF rec
      <3>2. mode # "dos"
        BY <2>1
      <3>3. QED
        BY <3>1, <3>2, Zenon
    <2>4. CASE raw' = raw
      BY <2>1, <2>2, <2>4
    <2>5. CASE raw' = Append(raw, rec)
      <3>1. \/ i \in 1 .. Len(raw) /\ raw'[i] = raw[i]
            \/ raw'[i] = rec
        BY <1>2, <1>6, <2>5, AppendProperties, LenProperties
      <3>2. QED
        BY <2>2, <2>3, <3>1, Zenon
    <2>6. QED
      BY <1>7, <2>4, <2>5
  <1>13. PairsWhole(cooked)'
    <2>1. PairsWhole(Put(cooked, means))
      BY <1>1, <1>2, <1>3, PutPairs
    <2>2. cooked' = cooked \/ cooked' = Put(cooked, means)
      BY <1>5
    <2>3. \A r : r = cooked' /\ PairsWhole(r) => PairsWhole(cooked)'
      BY DEF PairsWhole
    <2>4. QED
      BY <1>1, <2>1, <2>2, <2>3, Zenon
  <1>14. (rawLost = "never" => \E t : Trace(t))'
    <2>1. SUFFICES ASSUME rawLost' = "never" PROVE \E t : Trace(t)'
      OBVIOUS
    <2>2. PICK t : Trace(t)
      BY <1>7, <2>1 DEF IInv
    <2> DEFINE n == Len(raw)
               u == [i \in 0 .. n + 1 |-> IF i <= n THEN t[i] ELSE isr']
    <2>3. n \in Nat /\ Len(raw') = n + 1 /\ raw'[n + 1] = rec
          /\ \A i \in 1 .. n : raw'[i] = raw[i]
      BY <1>2, <1>6, <1>7, <2>1, AppendProperties, LenProperties
    <2>4. \A i \in 0 .. n : u[i] = t[i] /\ i \in 0 .. n + 1 /\ t[i] \in Decoder
      BY <2>2, <2>3 DEF Trace
    <2>5. u[n + 1] = isr' /\ n + 1 \in 0 .. n + 1
      BY <2>3
    <2>6. u \in [0 .. n + 1 -> Decoder]
      BY <1>3, <2>2, <2>3 DEF Trace
    <2>7. t[0] = consumed /\ t[n] = isr
      BY <2>2 DEF Trace
    <2>8. \A i \in 1 .. n : t[i] = Decoded(t[i - 1], raw[i].byte)
                            /\ raw[i].means = Decodes(t[i - 1], raw[i].byte)
      BY <2>2 DEF Trace
    <2> HIDE DEF u, n
    <2>9. u[0] = consumed' /\ u[n] = isr
      BY <1>4, <2>3, <2>4, <2>7
    <2>10. ASSUME NEW i \in 1 .. n + 1
           PROVE  u[i] = Decoded(u[i - 1], raw'[i].byte)
                  /\ raw'[i].means = Decodes(u[i - 1], raw'[i].byte)
      <3>1. CASE i \in 1 .. n
        <4>1. u[i] = t[i] /\ u[i - 1] = t[i - 1] /\ raw'[i] = raw[i]
          BY <2>3, <2>4, <3>1
        <4>2. QED
          BY <2>8, <3>1, <4>1
      <3>2. CASE i = n + 1
        <4>1. u[i] = isr' /\ u[i - 1] = isr /\ raw'[i] = rec
          BY <2>3, <2>5, <2>9, <3>2
        <4>2. rec.byte = b /\ rec.means = means
          BY DEF rec
        <4>3. isr' = Decoded(isr, b)
          BY DEF KeyIRQ
        <4>4. QED
          BY <1>3, <4>1, <4>2, <4>3
      <3>3. QED
        BY <2>3, <3>1, <3>2
    <2>11. PICK w : w = u
      OBVIOUS
    <2>12. Trace(w)'
      BY <2>3, <2>5, <2>6, <2>9, <2>10, <2>11 DEF Trace
    <2>13. QED
      BY <2>12
  <1>15. (mode = "dos" /\ ~lost /\ rawLost = "never" => cooked = due)'
    <2>1. SUFFICES ASSUME mode = "dos", ~lost', rawLost' = "never" PROVE cooked' = due'
      BY <1>4
    <2>2. owner = "DOS" /\ owner # "GUI"
      BY <1>2, <2>1
    <2>3. ~lost /\ ~(Len(cooked) + Len(means) > DosCap)
      BY <1>8, <2>1, <2>2, Zenon
    <2>4. cooked = due
      BY <1>7, <2>1, <2>3 DEF IInv
    <2>5. due' = due \o means
      BY <1>8, <2>1, Zenon
    <2>6. Len(cooked) + Len(means) <= DosCap
      BY <1>2, <1>3, <2>3, LenProperties, CapsAssumption
    <2>7. cooked' = cooked \o means
      BY <1>5, <2>2, <2>6 DEF Put
    <2>8. QED
      BY <2>4, <2>5, <2>7
  <1>16. QED
    BY <1>3, <1>10, <1>11, <1>12, <1>13, <1>14, <1>15 DEF IInv

-----------------------------------------------------------------------------
(* The desktop takes a byte, the program a character. *)

LEMMA PumpStep ==
  ASSUME IInv, PumpKey
  PROVE  IInv'
  <1>1. Shapes
    BY DEF IInv
  <1>2. consumed \in Decoder /\ raw \in Seq(Records) /\ raw # <<>> /\ mode = "desktop"
    BY <1>1 DEF Shapes, PumpKey
  <1> DEFINE n == Len(raw)
  <1>3. n \in Nat /\ n >= 1 /\ Len(raw') = n - 1 /\ raw' \in Seq(Records) /\ Head(raw) = raw[1]
        /\ \A i \in 1 .. n - 1 : raw'[i] = raw[i + 1]
    <2>1. raw' = Tail(raw)
      BY DEF PumpKey
    <2>2. n \in Nat /\ n >= 1 /\ Len(Tail(raw)) = n - 1 /\ Tail(raw) \in Seq(Records)
      BY <1>2, HeadTailProperties, EmptySeq, LenProperties
    <2>3. \A i \in 1 .. n - 1 : Tail(raw)[i] = raw[i + 1]
      BY <1>2, <2>2, HeadTailProperties
    <2>4. Head(raw) = raw[1]
      BY <1>2, HeadTailProperties
    <2>5. QED
      BY <2>1, <2>2, <2>3, <2>4
  <1> HIDE DEF n
  <1>4. UNCHANGED <<keys, pend, isr, owner, cooked, due, lost, rawLost>>
    BY DEF PumpKey, keyboard
  <1>5. consumed' = Decoded(consumed, raw[1].byte) /\ consumed' \in Decoder
    BY <1>2, <1>3, DecodedType DEF PumpKey
  <1>6. mode' \in {"desktop", "launching"}
    BY <1>2 DEF PumpKey
  <1>7. Shapes'
    BY <1>1, <1>2, <1>3, <1>4, <1>5, <1>6 DEF Shapes
  <1>8. (isr.held = keys /\ (isr.e0 <=> pend # <<>>))'
    BY <1>4 DEF IInv
  <1>9. cooked' = <<>> /\ PairsWhole(cooked)'
    BY <1>2, <1>4 DEF IInv, PairsWhole
  <1>10. (mode = "desktop" => \A i \in 1 .. Len(raw) : ~raw[i].dos)'
    <2>1. \A i \in 1 .. n : ~raw[i].dos
      BY <1>2 DEF IInv, n
    <2>2. \A i \in 1 .. n - 1 : i + 1 \in 1 .. n
      BY <1>3
    <2>3. QED
      BY <1>3, <2>1, <2>2
  <1>11. (rawLost = "never" => \E t : Trace(t))'
    <2>1. SUFFICES ASSUME rawLost = "never" PROVE \E t : Trace(t)'
      BY <1>4
    <2>2. PICK t : Trace(t)
      BY <2>1 DEF IInv
    <2>3. /\ t \in [0 .. n -> Decoder] /\ t[0] = consumed /\ t[n] = isr
          /\ \A i \in 1 .. n : t[i] = Decoded(t[i - 1], raw[i].byte)
                               /\ raw[i].means = Decodes(t[i - 1], raw[i].byte)
      BY <2>2 DEF Trace, n
    <2>4. PICK u : u = [i \in 0 .. n - 1 |-> t[i + 1]]
      OBVIOUS
    <2>5. \A i \in 0 .. n - 1 : u[i] = t[i + 1] /\ i + 1 \in 0 .. n
      BY <1>3, <2>4
    <2>6. u \in [0 .. n - 1 -> Decoder]
      BY <2>3, <2>4, <2>5
    <2>7. u[0] = consumed' /\ u[n - 1] = isr'
      <3>1. 0 \in 0 .. n - 1 /\ n - 1 \in 0 .. n - 1 /\ (n - 1) + 1 = n /\ 0 + 1 = 1 /\ 1 - 1 = 0
            /\ 1 \in 1 .. n
        BY <1>3
      <3>2. u[0] = t[1] /\ u[n - 1] = t[n]
        BY <2>5, <3>1
      <3>3. t[1] = Decoded(t[0], raw[1].byte)
        BY <2>3, <3>1
      <3>4. QED
        BY <1>4, <1>5, <2>3, <3>2, <3>3
    <2>8. ASSUME NEW i \in 1 .. n - 1
          PROVE  u[i] = Decoded(u[i - 1], raw'[i].byte)
                 /\ raw'[i].means = Decodes(u[i - 1], raw'[i].byte)
      <3>1. i \in 0 .. n - 1 /\ i - 1 \in 0 .. n - 1 /\ i + 1 \in 1 .. n
            /\ (i - 1) + 1 = i /\ (i + 1) - 1 = i
        BY <1>3
      <3>2. u[i] = t[i + 1] /\ u[i - 1] = t[i] /\ raw'[i] = raw[i + 1]
        BY <1>3, <2>5, <3>1
      <3>3. t[i + 1] = Decoded(t[i], raw[i + 1].byte)
            /\ raw[i + 1].means = Decodes(t[i], raw[i + 1].byte)
        BY <2>3, <3>1
      <3>4. QED
        BY <3>2, <3>3
    <2>9. Trace(u)'
      BY <1>3, <2>6, <2>7, <2>8 DEF Trace
    <2>10. QED
      BY <2>9
  <1>12. (mode = "dos" /\ ~lost /\ rawLost = "never" => cooked = due)'
    BY <1>6
  <1>13. QED
    BY <1>7, <1>8, <1>9, <1>10, <1>11, <1>12 DEF IInv

LEMMA GetCharStep ==
  ASSUME IInv, GetChar
  PROVE  IInv'
  <1>1. Shapes /\ PairsWhole(cooked) /\ cooked \in Seq(Chars) /\ due \in Seq(Chars)
    BY DEF IInv, Shapes
  <1>2. /\ mode = "dos" /\ cooked # <<>> /\ cooked' = Tail(cooked)
        /\ due' = IF lost \/ due = <<>> THEN <<>> ELSE Tail(due)
        /\ UNCHANGED <<keys, pend, isr, owner, raw, consumed, mode, lost, rawLost>>
    BY DEF GetChar, keyboard
  <1>3. cooked' \in Seq(Chars) /\ due' \in Seq(Chars)
    BY <1>1, <1>2, HeadTailProperties, EmptySeq
  <1>4. Shapes'
    BY <1>1, <1>2, <1>3 DEF Shapes
  <1>5. PairsWhole(cooked)'
    <2>1. PairsWhole(Tail(cooked))
      BY <1>1, <1>2, TailPairs
    <2>2. \A r : r = cooked' /\ PairsWhole(r) => PairsWhole(cooked)'
      BY DEF PairsWhole
    <2>3. QED
      BY <1>2, <2>1, <2>2
  <1>6. (rawLost = "never" => \E t : Trace(t))'
    <2>1. ASSUME NEW t, Trace(t) PROVE Trace(t)'
      BY <1>2, <2>1 DEF Trace
    <2>2. QED
      BY <1>2, <2>1 DEF IInv
  <1>7. (mode = "dos" /\ ~lost /\ rawLost = "never" => cooked = due)'
    <2>1. SUFFICES ASSUME ~lost, rawLost = "never" PROVE cooked' = due'
      BY <1>2
    <2>2. cooked = due
      BY <1>2, <2>1 DEF IInv
    <2>3. ~(lost \/ due = <<>>)
      BY <1>2, <2>1, <2>2
    <2>4. QED
      BY <1>2, <2>2, <2>3, Zenon
  <1>8. QED
    BY <1>2, <1>4, <1>5, <1>6, <1>7 DEF IInv

-----------------------------------------------------------------------------
(* The keyboard changes hands. *)

(* The replay leaves whole pairs, whatever the raw ring lost.              *)
LEMMA ReplayIsWhole ==
  ASSUME Shapes
  PROVE  Replayed \in Seq(Chars) /\ PairsWhole(Replayed)
  <1> DEFINE n == Len(raw)
  <1>1. consumed \in Decoder /\ raw \in Seq(Records) /\ n \in Nat
        /\ \A i \in 1 .. n : raw[i] \in Records
    BY LenProperties, ElementOfSeq DEF Shapes
  <1>2. PICK a : /\ a[0] = [st |-> consumed, ring |-> <<>>]
                 /\ ReplayFrom(consumed, raw) = a[n].ring
                 /\ \A i \in 1 .. n : a[i] = Replays(a[i - 1], raw[i])
    BY <1>1, ReplaySteps
  <1> HIDE DEF n
  <1> DEFINE T == {i \in 0 .. n : a[i].ring \in Seq(Chars) /\ PairsWhole(a[i].ring)}
  <1>3. 0 \in T
    <2>1. a[0].ring = <<>> /\ 0 \in 0 .. n
      BY <1>1, <1>2
    <2>2. QED
      BY <2>1, EmptyPairs, EmptySeq
  <1>4. ASSUME NEW k \in 0 .. n - 1, k \in T PROVE k + 1 \in T
    <2>1. k + 1 \in 1 .. n /\ k + 1 \in 0 .. n /\ (k + 1) - 1 = k
      BY <1>1
    <2>2. a[k + 1] = Replays(a[k], raw[k + 1])
      BY <1>2, <2>1
    <2> DEFINE w == Decodes(a[k].st, raw[k + 1].byte)
    <2>3. a[k + 1].ring = Put(a[k].ring, w)
      BY <2>2 DEF Replays
    <2>4. w \in Words /\ w \in Seq(Chars)
      BY DecodesIs
    <2> HIDE DEF w
    <2>5. a[k].ring \in Seq(Chars) /\ PairsWhole(a[k].ring)
      BY <1>4
    <2>6. Put(a[k].ring, w) \in Seq(Chars) /\ PairsWhole(Put(a[k].ring, w))
      BY <2>4, <2>5, PutIs, PutPairs
    <2>7. QED
      BY <2>1, <2>3, <2>6
  <1>5. n \in T
    <2> HIDE DEF T
    <2>1. \A k \in 0 .. n : k \in T
      BY <1>1, <1>3, <1>4, UpTo
    <2>2. QED
      BY <1>1, <2>1
  <1>6. QED
    BY <1>2, <1>5 DEF Replayed

(* Along the trace the replay yields what the bytes meant.                 *)
LEMMA ReplayIsTyped ==
  ASSUME Shapes, NEW t, Trace(t), Len(Typed(raw)) <= DosCap
  PROVE  Replayed = Typed(raw)
  <1> DEFINE n == Len(raw)
  <1>1. consumed \in Decoder /\ raw \in Seq(Records) /\ n \in Nat
        /\ \A i \in 1 .. n : raw[i] \in Records
    BY LenProperties, ElementOfSeq DEF Shapes
  <1>2. PICK a : /\ a[0] = [st |-> consumed, ring |-> <<>>]
                 /\ ReplayFrom(consumed, raw) = a[n].ring
                 /\ \A i \in 1 .. n : a[i] = Replays(a[i - 1], raw[i])
    BY <1>1, ReplaySteps
  <1>3. PICK c : /\ c[0] = <<>> /\ Typed(raw) = c[n]
                 /\ \A i \in 1 .. n : c[i] = Adds(c[i - 1], raw[i])
    BY <1>1, TypedSteps
  <1>4. /\ t[0] = consumed
        /\ \A i \in 1 .. n : t[i] = Decoded(t[i - 1], raw[i].byte)
                             /\ raw[i].means = Decodes(t[i - 1], raw[i].byte)
    BY DEF Trace
  <1>5. Len(c[n]) <= DosCap
    BY <1>3
  <1> HIDE DEF n
  <1> DEFINE Good(i) == /\ a[i].st = t[i] /\ c[i] \in Seq(Chars)
                        /\ Len(c[i]) <= DosCap => a[i].ring = c[i]
             T == {i \in 0 .. n : Good(i)}
  <1>6. 0 \in T
    <2>1. a[0].ring = <<>> /\ a[0].st = consumed /\ 0 \in 0 .. n
      BY <1>1, <1>2
    <2>2. QED
      BY <1>3, <1>4, <2>1, EmptySeq
  <1>7. ASSUME NEW k \in 0 .. n - 1, k \in T PROVE k + 1 \in T
    <2>1. k + 1 \in 1 .. n /\ k + 1 \in 0 .. n /\ (k + 1) - 1 = k
      BY <1>1
    <2> DEFINE r == raw[k + 1]
               w == Decodes(t[k], r.byte)
    <2>2. a[k + 1] = Replays(a[k], r) /\ c[k + 1] = Adds(c[k], r)
      BY <1>2, <1>3, <2>1
    <2>3. t[k + 1] = Decoded(t[k], r.byte) /\ r.means = w
      BY <1>4, <2>1
    <2>4. Good(k)
      BY <1>7
    <2>5. w \in Seq(Chars)
      BY DecodesIs
    <2> HIDE DEF w
    <2>6. /\ a[k + 1].st = t[k + 1] /\ a[k + 1].ring = Put(a[k].ring, w)
          /\ c[k + 1] = c[k] \o w
      BY <2>2, <2>3, <2>4 DEF Replays, Adds, w
    <2>7. c[k + 1] \in Seq(Chars) /\ Len(c[k + 1]) = Len(c[k]) + Len(w)
          /\ Len(c[k]) \in Nat /\ Len(w) \in Nat
      BY <2>4, <2>5, <2>6, ConcatProperties, LenProperties
    <2>8. ASSUME Len(c[k + 1]) <= DosCap PROVE a[k + 1].ring = c[k + 1]
      <3>1. Len(c[k]) <= DosCap /\ Len(c[k]) + Len(w) <= DosCap
        BY <2>7, <2>8, CapsAssumption
      <3>2. a[k].ring = c[k]
        BY <2>4, <3>1
      <3>3. QED
        BY <2>6, <3>1, <3>2 DEF Put
    <2>9. Good(k + 1)
      BY <2>6, <2>7, <2>8
    <2>10. QED
      BY <2>1, <2>9
  <1>8. n \in T
    <2> HIDE DEF T
    <2>1. \A k \in 0 .. n : k \in T
      BY <1>1, <1>6, <1>7, UpTo
    <2>2. QED
      BY <1>1, <2>1
  <1>9. QED
    BY <1>2, <1>3, <1>5, <1>8 DEF Replayed

(* The drain ends in IRQ1's state. *)
LEMMA DrainReaches ==
  ASSUME Shapes
  PROVE  DrainedState \in Decoder /\ \A t : Trace(t) => DrainedState = isr
  <1> DEFINE n == Len(raw)
  <1>1. consumed \in Decoder /\ raw \in Seq(Records) /\ n \in Nat
    BY LenProperties DEF Shapes
  <1>2. PICK a : /\ a[0] = consumed /\ a[n] = DecodedAll(consumed, raw)
                 /\ \A i \in 1 .. n : a[i] = Decoded(a[i - 1], raw[i].byte)
    BY <1>1, DecodedAllSteps
  <1> HIDE DEF n
  <1>3. DrainedState \in Decoder
    <2> DEFINE T == {i \in 0 .. n : a[i] \in Decoder}
    <2>1. 0 \in T
      BY <1>1, <1>2
    <2>2. ASSUME NEW k \in 0 .. n - 1, k \in T PROVE k + 1 \in T
      <3>1. k + 1 \in 1 .. n /\ k + 1 \in 0 .. n /\ (k + 1) - 1 = k
        BY <1>1
      <3>2. a[k + 1] = Decoded(a[k], raw[k + 1].byte)
        BY <1>2, <3>1
      <3>3. Decoded(a[k], raw[k + 1].byte) \in Decoder
        BY <2>2, DecodedType
      <3>4. QED
        BY <3>1, <3>2, <3>3
    <2> HIDE DEF T
    <2>3. \A k \in 0 .. n : k \in T
      BY <1>1, <2>1, <2>2, UpTo
    <2>4. n \in T
      BY <1>1, <2>3
    <2>5. QED
      BY <1>2, <2>4 DEF T, DrainedState
  <1>4. ASSUME NEW t, Trace(t) PROVE DrainedState = isr
    <2> DEFINE T == {i \in 0 .. n : a[i] = t[i]}
    <2>1. /\ t[0] = consumed /\ t[n] = isr
          /\ \A i \in 1 .. n : t[i] = Decoded(t[i - 1], raw[i].byte)
      BY <1>4 DEF Trace, n
    <2>2. 0 \in T
      BY <1>1, <1>2, <2>1
    <2>3. ASSUME NEW k \in 0 .. n - 1, k \in T PROVE k + 1 \in T
      <3>1. k + 1 \in 1 .. n /\ k + 1 \in 0 .. n /\ (k + 1) - 1 = k
        BY <1>1
      <3>2. a[k + 1] = Decoded(a[k], raw[k + 1].byte) /\ t[k + 1] = Decoded(t[k], raw[k + 1].byte)
        BY <1>2, <2>1, <3>1
      <3>3. QED
        BY <2>3, <3>1, <3>2
    <2> HIDE DEF T
    <2>4. \A k \in 0 .. n : k \in T
      BY <1>1, <2>2, <2>3, UpTo
    <2>5. n \in T
      BY <1>1, <2>4
    <2>6. QED
      BY <1>2, <2>1, <2>5 DEF T, DrainedState
  <1>5. QED
    BY <1>3, <1>4

LEMMA TypedType ==
  ASSUME Shapes
  PROVE  Typed(raw) \in Seq(Chars)
  <1> DEFINE n == Len(raw)
  <1>1. raw \in Seq(Records) /\ n \in Nat /\ \A i \in 1 .. n : raw[i].means \in Seq(Chars)
    <2>1. raw \in Seq(Records)
      BY DEF Shapes
    <2>2. n \in Nat /\ \A i \in 1 .. n : raw[i] \in Records
      BY <2>1, LenProperties, ElementOfSeq
    <2>3. \A x \in Records : x.means \in Seq(Chars)
      BY DEF Records
    <2> HIDE DEF n
    <2>4. QED
      BY <2>1, <2>2, <2>3
  <1>2. PICK c : /\ c[0] = <<>> /\ Typed(raw) = c[n]
                 /\ \A i \in 1 .. n : c[i] = Adds(c[i - 1], raw[i])
    BY <1>1, TypedSteps
  <1> HIDE DEF n
  <1> DEFINE T == {i \in 0 .. n : c[i] \in Seq(Chars)}
  <1>3. 0 \in T
    <2>1. c[0] \in Seq(Chars) /\ 0 \in 0 .. n
      BY <1>1, <1>2, EmptySeq
    <2>2. QED
      BY <2>1
  <1>4. ASSUME NEW k \in 0 .. n - 1, k \in T PROVE k + 1 \in T
    <2>1. k + 1 \in 1 .. n /\ k + 1 \in 0 .. n /\ (k + 1) - 1 = k
      BY <1>1
    <2>2. c[k + 1] = c[k] \o raw[k + 1].means
      BY <1>2, <2>1 DEF Adds
    <2>3. c[k + 1] \in Seq(Chars)
      BY <1>1, <1>4, <2>1, <2>2, ConcatProperties
    <2>4. QED
      BY <2>1, <2>3
  <1> HIDE DEF T
  <1>5. \A k \in 0 .. n : k \in T
    BY <1>1, <1>3, <1>4, UpTo
  <1>6. n \in T
    BY <1>1, <1>5
  <1>7. QED
    BY <1>2, <1>6 DEF T

LEMMA LaunchStep ==
  ASSUME IInv, Launch
  PROVE  IInv'
  <1>1. Shapes
    BY DEF IInv
  <1>2. /\ raw \in Seq(Records) /\ Len(raw) \in Nat /\ DOMAIN raw = 1 .. Len(raw)
        /\ \A i \in 1 .. Len(raw) : raw[i] \in Records
    BY <1>1, LenProperties, ElementOfSeq DEF Shapes
  <1>3. /\ mode' = "dos" /\ owner' = "DOS" /\ cooked' = Replayed
        /\ raw' = [i \in DOMAIN raw |-> [raw[i] EXCEPT !.dos = TRUE]]
        /\ UNCHANGED <<keys, pend, isr, consumed, rawLost>>
    BY DEF Launch, keyboard
  <1>4. lost' = (Len(Typed(raw)) > DosCap) /\ due' = IF lost' THEN <<>> ELSE Typed(raw)
    BY DEF Launch, Typed
  <1>5. Typed(raw) \in Seq(Chars) /\ Len(Typed(raw)) \in Nat
    BY <1>1, TypedType, LenProperties
  <1>6. cooked' \in Seq(Chars) /\ PairsWhole(cooked)'
    <2>1. Replayed \in Seq(Chars) /\ PairsWhole(Replayed)
      BY <1>1, ReplayIsWhole
    <2>2. \A r : r = cooked' /\ PairsWhole(r) => PairsWhole(cooked)'
      BY DEF PairsWhole
    <2>3. QED
      BY <1>3, <2>1, <2>2
  <1>7. /\ raw' \in Seq(Records) /\ Len(raw') = Len(raw)
        /\ \A i \in 1 .. Len(raw) : raw'[i].byte = raw[i].byte /\ raw'[i].means = raw[i].means
    <2>1. \A x \in Records : /\ [x EXCEPT !.dos = TRUE] \in Records
                             /\ [x EXCEPT !.dos = TRUE].byte = x.byte
                             /\ [x EXCEPT !.dos = TRUE].means = x.means
      BY DEF Records
    <2>2. raw' \in [1 .. Len(raw) -> Records]
      BY <1>2, <1>3, <2>1
    <2>3. \A i \in 1 .. Len(raw) : raw'[i] = [raw[i] EXCEPT !.dos = TRUE]
      BY <1>2, <1>3
    <2>4. raw' \in Seq(Records) /\ Len(raw') = Len(raw)
      BY <1>2, <2>2
    <2>5. QED
      BY <1>2, <2>1, <2>3, <2>4
  <1>8. due' \in Seq(Chars)
    BY <1>4, <1>5, EmptySeq
  <1>9. Shapes'
    BY <1>1, <1>3, <1>6, <1>7, <1>8 DEF Shapes
  <1>10. (rawLost = "never" => \E t : Trace(t))'
    <2>1. ASSUME NEW t, Trace(t) PROVE Trace(t)'
      BY <1>3, <1>7, <2>1 DEF Trace
    <2>2. QED
      BY <1>3, <2>1 DEF IInv
  <1>11. (mode = "dos" /\ ~lost /\ rawLost = "never" => cooked = due)'
    <2>1. SUFFICES ASSUME ~lost', rawLost = "never" PROVE cooked' = due'
      BY <1>3
    <2>2. PICK t : Trace(t)
      BY <2>1 DEF IInv
    <2>3. ~(Len(Typed(raw)) > DosCap) /\ due' = Typed(raw)
      BY <1>4, <2>1, Zenon
    <2>4. Len(Typed(raw)) <= DosCap
      BY <1>5, <2>3, CapsAssumption
    <2>5. Replayed = Typed(raw)
      BY <1>1, <2>2, <2>4, ReplayIsTyped
    <2>6. QED
      BY <1>3, <2>3, <2>5
  <1>12. (isr.held = keys /\ (isr.e0 <=> pend # <<>>))'
    BY <1>3 DEF IInv
  <1>13. QED
    BY <1>3, <1>6, <1>9, <1>10, <1>11, <1>12 DEF IInv

LEMMA ResumeStep ==
  ASSUME IInv, Resume
  PROVE  IInv'
  <1>1. Shapes
    BY DEF IInv
  <1>2. /\ mode' = "desktop" /\ owner' = "GUI" /\ consumed' = DrainedState /\ raw' = <<>>
        /\ cooked' = <<>> /\ due' = <<>> /\ UNCHANGED <<keys, pend, isr, rawLost>>
    BY DEF Resume, keyboard, RawAfterResume
  <1>3. consumed' \in Decoder /\ \A t : Trace(t) => consumed' = isr
    BY <1>1, <1>2, DrainReaches
  <1>4. Len(raw') = 0 /\ raw' \in Seq(Records) /\ cooked' \in Seq(Chars) /\ due' \in Seq(Chars)
    BY <1>2, EmptySeq
  <1>5. Shapes'
    BY <1>1, <1>2, <1>3, <1>4 DEF Shapes
  <1>6. PairsWhole(cooked)'
    BY <1>2 DEF PairsWhole
  <1>7. (rawLost = "never" => \E t : Trace(t))'
    <2>1. SUFFICES ASSUME rawLost = "never" PROVE \E t : Trace(t)'
      BY <1>2
    <2>2. consumed' = isr'
      <3>1. \E t : Trace(t)
        BY <2>1 DEF IInv
      <3>2. QED
        BY <1>2, <1>3, <3>1
    <2>3. PICK u : u = [i \in 0 .. 0 |-> isr']
      OBVIOUS
    <2>4. u[0] = isr' /\ u \in [0 .. 0 -> Decoder]
      BY <1>3, <2>2, <2>3
    <2>5. Trace(u)'
      BY <1>4, <2>2, <2>4 DEF Trace
    <2>6. QED
      BY <2>5
  <1>8. (isr.held = keys /\ (isr.e0 <=> pend # <<>>))'
    BY <1>2 DEF IInv
  <1>9. QED
    BY <1>2, <1>4, <1>5, <1>6, <1>7, <1>8 DEF IInv

-----------------------------------------------------------------------------
LEMMA InitHolds == Init => IInv
  <1> SUFFICES ASSUME Init PROVE IInv
    OBVIOUS
  <1>1. /\ keys = {} /\ pend = <<>> /\ isr = NoKeys /\ consumed = NoKeys /\ owner = "GUI"
        /\ cooked = <<>> /\ raw = <<>> /\ mode = "desktop" /\ due = <<>>
    BY DEF Init
  <1>2. NoKeys \in Decoder /\ NoKeys.held = {} /\ ~NoKeys.e0
    BY DEF NoKeys, Decoder
  <1>3. Len(raw) = 0 /\ raw \in Seq(Records) /\ cooked \in Seq(Chars) /\ due \in Seq(Chars)
    BY <1>1, EmptySeq
  <1>4. Shapes
    BY <1>1, <1>2, <1>3 DEF Shapes
  <1>5. PairsWhole(cooked)
    BY <1>1, EmptyPairs
  <1>6. \E t : Trace(t)
    <2>1. PICK u : u = [i \in 0 .. 0 |-> isr]
      OBVIOUS
    <2>2. u[0] = isr /\ u \in [0 .. 0 -> Decoder]
      BY <1>1, <1>2, <2>1
    <2>3. Trace(u)
      BY <1>1, <1>3, <2>2 DEF Trace
    <2>4. QED
      BY <2>3
  <1>7. isr.held = keys /\ (isr.e0 <=> pend # <<>>)
    BY <1>1, <1>2
  <1>8. QED
    BY <1>1, <1>3, <1>4, <1>5, <1>6, <1>7 DEF IInv

LEMMA NextHolds == IInv /\ [Next]_vars => IInv'
  <1> SUFFICES ASSUME IInv, [Next]_vars PROVE IInv'
    OBVIOUS
  <1>1. ASSUME NEW b \in Bytes, KeyIRQ(b) PROVE IInv'
    BY <1>1, KeyStep
  <1>2. CASE PumpKey
    BY <1>2, PumpStep
  <1>3. CASE Launch
    BY <1>3, LaunchStep
  <1>4. CASE GetChar
    BY <1>4, GetCharStep
  <1>5. CASE Resume
    BY <1>5, ResumeStep
  <1>6. CASE UNCHANGED vars
    <2>1. UNCHANGED <<keys, pend, isr, owner, cooked, raw, consumed, mode, due, lost, rawLost>>
      BY <1>6 DEF vars, keyboard
    <2>2. Shapes'
      BY <2>1 DEF IInv, Shapes
    <2>3. ASSUME NEW t, Trace(t) PROVE Trace(t)'
      BY <2>1, <2>3 DEF Trace
    <2>4. PairsWhole(cooked)'
      BY <2>1 DEF IInv, PairsWhole
    <2>5. QED
      BY <2>1, <2>2, <2>3, <2>4 DEF IInv
  <1>7. QED
    BY <1>1, <1>2, <1>3, <1>4, <1>5, <1>6 DEF Next

LEMMA InvariantHolds == Spec => []IInv
  BY InitHolds, NextHolds, PTL DEF Spec

(* Whatever the sizes of the two rings, the DOS program finds exactly what *)
(* was typed after the launch chord: the replay of the raw ring from the   *)
(* pump's snapshot and the bytes IRQ1 cooks from then on join without a    *)
(* gap (flair_launch_text_tenant, kbd_input_put).                          *)
THEOREM TypeaheadReachesDos == Spec => []DosReadsWhatWasTyped
  <1>1. IInv => DosReadsWhatWasTyped
    BY DEF IInv, DosReadsWhatWasTyped
  <1>2. QED
    BY <1>1, InvariantHolds, PTL

(* The pair 00,scan is in the DOS ring whole or not at all, for every ring *)
(* size and wherever the replay or a read has left it (kbd_scancode_put).  *)
THEOREM PairsAreWhole == Spec => []PairsStayWhole
  <1>1. IInv => PairsStayWhole
    BY LenProperties DEF IInv, Shapes, PairsWhole, PairsStayWhole
  <1>2. QED
    BY <1>1, InvariantHolds, PTL

(* Desktop typing never becomes DOS typeahead, and no byte typed for the   *)
(* program is left for the desktop (kbd_input_put, flair_text_tenant_drain).*)
THEOREM OneReader == Spec => []EachKeyHasOneReader
  <1>1. IInv => EachKeyHasOneReader
    BY LenProperties DEF IInv, Shapes, EachKeyHasOneReader
  <1>2. QED
    BY <1>1, InvariantHolds, PTL

(* Once its ring is drained the desktop knows the modifiers that are down, *)
(* after any number of DOS sessions (cook_raw, flair_text_tenant_drain).   *)
THEOREM ModifiersAgree == Spec => []ModifiersTrackKeys
  <1>1. IInv => ModifiersTrackKeys
    <2>1. SUFFICES ASSUME IInv, raw = <<>>, pend = <<>>, rawLost = "never"
                   PROVE  consumed.held = keys /\ ~consumed.e0
      BY DEF ModifiersTrackKeys
    <2>2. PICK t : Trace(t)
      BY <2>1 DEF IInv
    <2>3. Len(raw) = 0
      BY <2>1
    <2>4. consumed = isr
      BY <2>2, <2>3 DEF Trace
    <2>5. isr.held = keys /\ (isr.e0 <=> pend # <<>>)
      BY <2>1 DEF IInv
    <2>6. QED
      BY <2>1, <2>4, <2>5
  <1>2. QED
    BY <1>1, InvariantHolds, PTL

=============================================================================
