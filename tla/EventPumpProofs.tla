-------------------------- MODULE EventPumpProofs ---------------------------
(* Proofs about EventPump, for every capacity of the ring, modulus of the  *)
(* tick counter, sleep, mask and slack.                                    *)
EXTENDS EventPump, SequenceTheorems, TLAPS

(* b is the button after the first i records of q, when it was b0 before   *)
(* them.                                                                   *)
IsMouse(q, i) == q[i].kind = "mouse"

Leaves(q, b0, i, b) ==
  \/ b0 = b /\ \A k \in 1 .. i : ~IsMouse(q, k)
  \/ \E k \in 1 .. i : /\ IsMouse(q, k) /\ q[k].btn = b
                       /\ \A j \in k + 1 .. i : ~IsMouse(q, j)

(* The records that wait lead the pump's button to the mouse's, and one    *)
(* that does not end its packet repeats the button before it.              *)
ButtonInv ==
  /\ queue \in Seq(PumpRaws) /\ Len(queue) <= Cap
  /\ dropped \in BOOLEAN /\ stale \in BOOLEAN /\ device \in Buttons
  /\ ~dropped => ~stale
  /\ ~stale => Leaves(queue, btn, Len(queue), device)
  /\ ~dropped => \A i \in 1 .. Len(queue) :
                   IsMouse(queue, i) /\ ~queue[i].last => Leaves(queue, btn, i - 1, queue[i].btn)

(* How late a call can be at each point of WaitNextEvent, and what the     *)
(* clock shows then.                                                       *)
ClockInv ==
  /\ g_tick \in 0 .. TickMod - 1 /\ start \in 0 .. TickMod - 1
  /\ waited \in Nat /\ late \in 0 .. Slack
  /\ pc \in {"app", "drain", "timeout", "yield", "halted"}
  /\ pc # "app" =>
       /\ sleep \in Sleeps
       /\ g_tick = start + waited \/ g_tick = start + waited - TickMod
  /\ pc \in {"drain", "timeout"} => waited <= sleep + Slack + late
  /\ pc \in {"yield", "halted"} => waited < sleep + late

-----------------------------------------------------------------------------
(* The queue. *)

LEMMA Bounds ==
  /\ Cap \in Nat /\ Cap > 0 /\ TickMod \in Nat /\ TickMod > 0 /\ Slack \in Nat
  /\ \A s \in Sleeps : s \in Nat /\ s + 2 * Slack < TickMod
  BY CapAssumption, ClockAssumption

LEMMA RawIs ==
  ASSUME NEW r \in PumpRaws
  PROVE  /\ r.kind \in {"key", "mouse"} /\ r.last \in BOOLEAN /\ r.btn \in Buttons
         /\ ~r.last => r.kind = "mouse"
  <1>1. r = Key \/ \E b \in Buttons, last \in BOOLEAN : r = Mouse(b, last)
    BY DEF PumpRaws
  <1>2. CASE r = Key
    BY <1>2 DEF Key, Buttons
  <1>3. ASSUME NEW b \in Buttons, NEW last \in BOOLEAN, r = Mouse(b, last)
        PROVE  r.kind = "mouse" /\ r.last \in BOOLEAN /\ r.btn \in Buttons
    <2>1. r.kind = "mouse" /\ r.last = last /\ r.btn = b
      BY <1>3, Zenon DEF Mouse
    <2>2. QED
      BY <2>1
  <1>4. QED
    BY <1>1, <1>2, <1>3

LEMMA PostAllIs ==
  ASSUME NEW rs \in Seq(PumpRaws), queue \in Seq(PumpRaws), Len(queue) <= Cap,
         dropped \in BOOLEAN, PostAll(rs)
  PROVE  /\ queue' \in Seq(PumpRaws) /\ Len(queue') <= Cap /\ Len(queue) <= Len(queue')
         /\ dropped' \in BOOLEAN
         /\ \A i \in 1 .. Len(queue) : queue'[i] = queue[i]
         /\ Len(queue) + Len(rs) <= Cap =>
              /\ Len(queue') = Len(queue) + Len(rs) /\ dropped' = dropped
              /\ \A i \in 1 .. Len(rs) : queue'[Len(queue) + i] = rs[i]
         /\ Len(queue) + Len(rs) > Cap => dropped'
  <1> DEFINE room == Cap - Len(queue)
             kept == IF Len(rs) <= room THEN rs ELSE SubSeq(rs, 1, room)
  <1>1. queue' = queue \o kept /\ dropped' = (dropped \/ kept # rs)
    BY DEF PostAll
  <1>2. Len(queue) \in Nat /\ Len(rs) \in Nat /\ room \in Nat
    BY LenProperties, Bounds
  <1>3. /\ kept \in Seq(PumpRaws) /\ Len(kept) <= room
        /\ Len(rs) > room => Len(kept) = room
    <2>1. CASE Len(rs) <= room
      BY <1>2, <2>1
    <2>2. CASE Len(rs) > room
      <3>1. \A i \in 1 .. room : rs[i] \in PumpRaws
        BY <1>2, <2>2, ElementOfSeq
      <3>2. SubSeq(rs, 1, room) \in Seq(PumpRaws) /\ Len(SubSeq(rs, 1, room)) = room
        BY <1>2, <3>1, SubSeqProperties
      <3>3. QED
        BY <1>2, <2>2, <3>2
    <2>3. QED
      BY <1>2, <2>1, <2>2
  <1>4. Len(rs) <= room => kept = rs
    OBVIOUS
  <1> HIDE DEF kept
  <1>5. /\ queue' \in Seq(PumpRaws) /\ Len(queue') = Len(queue) + Len(kept)
        /\ \A i \in 1 .. Len(queue) + Len(kept) :
             queue'[i] = IF i <= Len(queue) THEN queue[i] ELSE kept[i - Len(queue)]
    BY <1>1, <1>3, ConcatProperties
  <1>6. Len(kept) \in Nat
    BY <1>3, LenProperties
  <1>7. \A i \in 1 .. Len(queue) : queue'[i] = queue[i]
    BY <1>2, <1>5, <1>6
  <1>8. \A i \in 1 .. Len(kept) : queue'[Len(queue) + i] = kept[i]
    <2>1. ASSUME NEW i \in 1 .. Len(kept) PROVE queue'[Len(queue) + i] = kept[i]
      <3>1. Len(queue) + i \in 1 .. Len(queue) + Len(kept) /\ ~ (Len(queue) + i <= Len(queue))
        BY <1>2, <1>6
      <3>2. (Len(queue) + i) - Len(queue) = i
        BY <1>2, <1>6
      <3>3. QED
        BY <1>5, <3>1, <3>2
    <2>2. QED
      BY <2>1
  <1>9. Len(queue') <= Cap /\ Len(queue) <= Len(queue')
    BY <1>2, <1>3, <1>5, <1>6, Bounds
  <1>10. ASSUME Len(queue) + Len(rs) > Cap PROVE dropped'
    <2>1. Len(rs) > room
      BY <1>2, <1>10, Bounds
    <2>2. kept # rs
      BY <1>2, <1>3, <2>1
    <2>3. QED
      BY <1>1, <2>2
  <1>11. ASSUME Len(queue) + Len(rs) <= Cap PROVE kept = rs
    BY <1>2, <1>4, <1>11, Bounds
  <1>12. QED
    BY <1>1, <1>5, <1>7, <1>8, <1>9, <1>10, <1>11

LEMMA TakeIs ==
  ASSUME queue \in Seq(PumpRaws), Take
  PROVE  /\ Len(queue) \in Nat /\ Len(queue) >= 1 /\ Head(queue) = queue[1] /\ queue[1] \in PumpRaws
         /\ queue' \in Seq(PumpRaws) /\ Len(queue') = Len(queue) - 1 /\ dropped' = dropped
         /\ \A i \in 1 .. Len(queue) - 1 : queue'[i] = queue[i + 1]
  <1>1. queue # <<>> /\ queue' = Tail(queue) /\ dropped' = dropped
    BY DEF Take
  <1>2. Len(queue) \in Nat \ {0}
    BY <1>1, EmptySeq
  <1>3. 1 \in 1 .. Len(queue) /\ Head(queue) = queue[1]
    BY <1>2
  <1>4. QED
    BY <1>1, <1>2, <1>3, HeadTailProperties, ElementOfSeq

(* What the records lead to is the same behind one more, or one fewer.     *)
LEMMA LeavesLonger ==
  ASSUME NEW q, NEW r, NEW b0, NEW b, NEW n \in Nat, \A k \in 1 .. n : r[k] = q[k],
         Leaves(q, b0, n, b)
  PROVE  Leaves(r, b0, n, b)
  <1>1. CASE b0 = b /\ \A k \in 1 .. n : ~IsMouse(q, k)
    BY <1>1 DEF Leaves, IsMouse
  <1>2. ASSUME NEW k \in 1 .. n, IsMouse(q, k), q[k].btn = b,
               \A j \in k + 1 .. n : ~IsMouse(q, j)
        PROVE  Leaves(r, b0, n, b)
    <2>1. \A j \in k + 1 .. n : j \in 1 .. n
      OBVIOUS
    <2>2. IsMouse(r, k) /\ r[k].btn = b /\ \A j \in k + 1 .. n : ~IsMouse(r, j)
      BY <1>2, <2>1 DEF IsMouse
    <2>3. QED
      BY <2>2 DEF Leaves
  <1>3. QED
    BY <1>1, <1>2 DEF Leaves

(* One record behind: a key leaves the button, a mouse record sets it.     *)
LEMMA LeavesOneMore ==
  ASSUME NEW q, NEW b0, NEW b, NEW n \in Nat,
         IF IsMouse(q, n + 1) THEN q[n + 1].btn = b ELSE Leaves(q, b0, n, b)
  PROVE  Leaves(q, b0, n + 1, b)
  <1>1. CASE IsMouse(q, n + 1)
    <2>1. n + 1 \in 1 .. n + 1 /\ \A j \in n + 1 + 1 .. n + 1 : ~IsMouse(q, j)
      OBVIOUS
    <2>2. QED
      BY <1>1, <2>1 DEF Leaves
  <1>2. CASE ~IsMouse(q, n + 1)
    <2>1. \A k \in 1 .. n + 1 : k \in 1 .. n \/ k = n + 1
      OBVIOUS
    <2>2. CASE b0 = b /\ \A k \in 1 .. n : ~IsMouse(q, k)
      BY <1>2, <2>1, <2>2 DEF Leaves
    <2>3. ASSUME NEW k \in 1 .. n, IsMouse(q, k), q[k].btn = b,
                 \A j \in k + 1 .. n : ~IsMouse(q, j)
          PROVE  Leaves(q, b0, n + 1, b)
      <3>1. \A j \in k + 1 .. n + 1 : j \in k + 1 .. n \/ j = n + 1
        OBVIOUS
      <3>2. k \in 1 .. n + 1 /\ \A j \in k + 1 .. n + 1 : ~IsMouse(q, j)
        BY <1>2, <2>3, <3>1
      <3>3. QED
        BY <2>3, <3>2 DEF Leaves
    <2>4. QED
      BY <1>2, <2>2, <2>3 DEF Leaves
  <1>3. QED
    BY <1>1, <1>2

(* cook_raw takes the first record into the tracked button.                *)
LEMMA LeavesTaken ==
  ASSUME NEW q, NEW r, NEW b0, NEW b, NEW n \in Nat, n >= 1,
         \A i \in 1 .. n - 1 : r[i] = q[i + 1],
         Leaves(q, b0, n, b)
  PROVE  Leaves(r, IF IsMouse(q, 1) THEN q[1].btn ELSE b0, n - 1, b)
  <1> DEFINE b1 == IF IsMouse(q, 1) THEN q[1].btn ELSE b0
  <1>1. 1 \in 1 .. n /\ \A i \in 1 .. n - 1 : i + 1 \in 1 .. n
    OBVIOUS
  <1>2. CASE b0 = b /\ \A k \in 1 .. n : ~IsMouse(q, k)
    <2>1. b1 = b /\ \A k \in 1 .. n - 1 : ~IsMouse(r, k)
      BY <1>1, <1>2 DEF IsMouse
    <2>2. QED
      BY <2>1 DEF Leaves
  <1>3. ASSUME NEW k \in 1 .. n, IsMouse(q, k), q[k].btn = b,
               \A j \in k + 1 .. n : ~IsMouse(q, j)
        PROVE  Leaves(r, b1, n - 1, b)
    <2>1. CASE k = 1
      <3>1. b1 = b
        BY <1>3, <2>1
      <3>2. \A j \in 1 .. n - 1 : j + 1 \in k + 1 .. n
        BY <2>1
      <3>3. \A j \in 1 .. n - 1 : ~IsMouse(r, j)
        BY <1>3, <3>2 DEF IsMouse
      <3>4. QED
        BY <3>1, <3>3 DEF Leaves
    <2>2. CASE k # 1
      <3>1. k - 1 \in 1 .. n - 1 /\ k - 1 + 1 = k
        BY <2>2
      <3>2. r[k - 1] = q[k]
        BY <3>1
      <3>3. \A j \in k - 1 + 1 .. n - 1 : j \in 1 .. n - 1 /\ j + 1 \in k + 1 .. n
        BY <2>2
      <3>4. \A j \in k - 1 + 1 .. n - 1 : ~IsMouse(r, j)
        BY <1>3, <3>3 DEF IsMouse
      <3>5. QED
        BY <1>3, <3>1, <3>2, <3>4 DEF Leaves, IsMouse
    <2>3. QED
      BY <2>1, <2>2
  <1>4. QED
    BY <1>2, <1>3 DEF Leaves

-----------------------------------------------------------------------------
(* The button: one lemma for each way the queue changes. *)

LEMMA ButtonTake ==
  ASSUME ButtonInv, Take, btn' = ButtonAfter(Head(queue)), UNCHANGED <<device, stale>>
  PROVE  ButtonInv'
  <1>1. /\ Len(queue) \in Nat /\ Len(queue) >= 1 /\ Head(queue) = queue[1]
        /\ queue' \in Seq(PumpRaws) /\ Len(queue') = Len(queue) - 1 /\ dropped' = dropped
        /\ \A i \in 1 .. Len(queue) - 1 : queue'[i] = queue[i + 1]
    BY TakeIs DEF ButtonInv
  <1>2. btn' = IF IsMouse(queue, 1) THEN queue[1].btn ELSE btn
    BY <1>1 DEF ButtonAfter, IsMouse
  <1>3. ASSUME NEW n \in 1 .. Len(queue), NEW b, Leaves(queue, btn, n, b)
        PROVE  Leaves(queue', btn', n - 1, b)
    <2>1. n \in Nat /\ n >= 1 /\ \A i \in 1 .. n - 1 : queue'[i] = queue[i + 1]
      BY <1>1
    <2>2. QED
      BY <1>2, <1>3, <2>1, LeavesTaken
  <1>4. ~stale' => Leaves(queue', btn', Len(queue'), device')
    <2>1. Len(queue) \in 1 .. Len(queue)
      BY <1>1
    <2>2. QED
      BY <1>1, <1>3, <2>1 DEF ButtonInv
  <1>5. ASSUME ~dropped', NEW i \in 1 .. Len(queue'), IsMouse(queue', i), ~queue'[i].last
        PROVE  Leaves(queue', btn', i - 1, queue'[i].btn)
    <2>1. i + 1 \in 1 .. Len(queue) /\ (i + 1) - 1 = i /\ i \in 1 .. Len(queue)
      BY <1>1
    <2>2. queue'[i] = queue[i + 1]
      BY <1>1
    <2>3. Leaves(queue, btn, i, queue[i + 1].btn)
      BY <1>1, <1>5, <2>1, <2>2 DEF ButtonInv, IsMouse
    <2>4. QED
      BY <1>3, <2>1, <2>2, <2>3
  <1>6. QED
    BY <1>1, <1>4, <1>5, Bounds DEF ButtonInv

LEMMA ButtonKey ==
  ASSUME ButtonInv, Post(Key), UNCHANGED <<btn, device, stale>>
  PROVE  ButtonInv'
  <1> DEFINE rs == <<Key>>
  <1>1. rs \in Seq(PumpRaws) /\ Len(rs) = 1 /\ rs[1] = Key /\ 1 \in 1 .. Len(rs)
    BY DEF PumpRaws
  <1>2. PostAll(rs)
    BY DEF Post
  <1> HIDE DEF rs
  <1>3. /\ queue' \in Seq(PumpRaws) /\ Len(queue') <= Cap /\ Len(queue) <= Len(queue')
        /\ dropped' \in BOOLEAN
        /\ \A i \in 1 .. Len(queue) : queue'[i] = queue[i]
        /\ Len(queue) + Len(rs) <= Cap =>
             /\ Len(queue') = Len(queue) + Len(rs) /\ dropped' = dropped
             /\ \A i \in 1 .. Len(rs) : queue'[Len(queue) + i] = rs[i]
        /\ Len(queue) + Len(rs) > Cap => dropped'
    BY <1>1, <1>2, PostAllIs DEF ButtonInv
  <1>4. Len(queue) \in Nat /\ Len(queue') \in Nat
    BY <1>3, LenProperties DEF ButtonInv
  <1>5. ASSUME NEW n \in 0 .. Len(queue), NEW b, Leaves(queue, btn, n, b)
        PROVE  Leaves(queue', btn', n, b)
    <2>1. n \in Nat /\ \A k \in 1 .. n : queue'[k] = queue[k]
      BY <1>3, <1>4
    <2>2. QED
      BY <1>5, <2>1, LeavesLonger
  <1>6. CASE Len(queue) + 1 > Cap
    <2>1. Len(queue') = Len(queue) /\ dropped'
      BY <1>1, <1>3, <1>4, <1>6, Bounds DEF ButtonInv
    <2>2. ~stale' => Leaves(queue', btn', Len(queue'), device')
      BY <1>4, <1>5, <2>1 DEF ButtonInv
    <2>3. dropped' => ~stale \/ stale
      OBVIOUS
    <2>4. QED
      BY <1>3, <2>1, <2>2 DEF ButtonInv
  <1>7. CASE Len(queue) + 1 <= Cap
    <2>1. Len(queue') = Len(queue) + 1 /\ dropped' = dropped /\ queue'[Len(queue) + 1] = Key
      BY <1>1, <1>3, <1>7
    <2>2. ~IsMouse(queue', Len(queue) + 1)
      BY <2>1 DEF IsMouse, Key
    <2>3. ~stale' => Leaves(queue', btn', Len(queue'), device')
      <3>1. SUFFICES ASSUME ~stale PROVE Leaves(queue', btn', Len(queue) + 1, device)
        BY <2>1
      <3>2. Leaves(queue', btn', Len(queue), device)
        BY <1>4, <1>5, <3>1 DEF ButtonInv
      <3>3. QED
        BY <1>4, <2>2, <3>2, LeavesOneMore
    <2>4. ASSUME ~dropped', NEW i \in 1 .. Len(queue'), IsMouse(queue', i), ~queue'[i].last
          PROVE  Leaves(queue', btn', i - 1, queue'[i].btn)
      <3>1. i \in 1 .. Len(queue) /\ i - 1 \in 0 .. Len(queue)
        BY <1>4, <2>1, <2>2, <2>4
      <3>2. queue'[i] = queue[i]
        BY <1>3, <3>1
      <3>3. Leaves(queue, btn, i - 1, queue[i].btn)
        BY <2>1, <2>4, <3>1, <3>2 DEF ButtonInv, IsMouse
      <3>4. QED
        BY <1>5, <3>1, <3>2, <3>3
    <2>5. QED
      BY <1>3, <2>1, <2>3, <2>4 DEF ButtonInv
  <1>8. QED
    BY <1>4, <1>6, <1>7, Bounds

LEMMA ChunksAre ==
  ASSUME NEW n \in 1 .. 2, NEW b \in Buttons, device \in Buttons
  PROVE  /\ Chunks(n, b) \in Seq(PumpRaws) /\ Len(Chunks(n, b)) = n
         /\ Chunks(n, b)[n].kind = "mouse" /\ Chunks(n, b)[n].btn = b /\ Chunks(n, b)[n].last
         /\ n = 2 => Chunks(n, b)[1].kind = "mouse" /\ Chunks(n, b)[1].btn = device
  <1>1. \A i \in 1 .. n : Mouse(IF i < n THEN device ELSE b, i = n) \in PumpRaws
    <2>1. \A x \in Buttons, last \in BOOLEAN : Mouse(x, last) \in PumpRaws
      <3>1. TAKE x \in Buttons, last \in BOOLEAN
      <3>2. \E b1 \in Buttons, l \in BOOLEAN : Mouse(x, last) = Mouse(b1, l)
        BY Zenon
      <3>3. QED
        BY <3>2 DEF PumpRaws
    <2>2. \A i \in 1 .. n : (IF i < n THEN device ELSE b) \in Buttons /\ (i = n) \in BOOLEAN
      OBVIOUS
    <2>3. QED
      BY <2>1, <2>2, Zenon
  <1>2. Chunks(n, b) \in Seq(PumpRaws) /\ Len(Chunks(n, b)) = n
    BY <1>1 DEF Chunks
  <1>3. /\ \A i \in 1 .. n : Chunks(n, b)[i] = Mouse(IF i < n THEN device ELSE b, i = n)
        /\ n \in 1 .. n /\ 1 \in 1 .. n /\ (n = 2 => 1 < n) /\ ~ (n < n)
    BY DEF Chunks
  <1>4. Chunks(n, b)[n] = Mouse(b, TRUE) /\ (n = 2 => Chunks(n, b)[1] = Mouse(device, FALSE))
    BY <1>3
  <1>5. QED
    BY <1>2, <1>4 DEF Mouse

LEMMA ButtonMouse ==
  ASSUME ButtonInv, NEW n \in 1 .. 2, NEW b \in Buttons, PostAll(Chunks(n, b)),
         device' = b, stale' = (Len(queue) + n > Cap), btn' = btn
  PROVE  ButtonInv'
  <1> DEFINE rs == Chunks(n, b)
  <1>1. /\ rs \in Seq(PumpRaws) /\ Len(rs) = n
        /\ rs[n].kind = "mouse" /\ rs[n].btn = b /\ rs[n].last
        /\ n = 2 => rs[1].kind = "mouse" /\ rs[1].btn = device
    BY ChunksAre DEF ButtonInv
  <1> HIDE DEF rs
  <1>2. /\ queue' \in Seq(PumpRaws) /\ Len(queue') <= Cap /\ Len(queue) <= Len(queue')
        /\ dropped' \in BOOLEAN
        /\ \A i \in 1 .. Len(queue) : queue'[i] = queue[i]
        /\ Len(queue) + Len(rs) <= Cap =>
             /\ Len(queue') = Len(queue) + Len(rs) /\ dropped' = dropped
             /\ \A i \in 1 .. Len(rs) : queue'[Len(queue) + i] = rs[i]
        /\ Len(queue) + Len(rs) > Cap => dropped'
    BY <1>1, PostAllIs DEF ButtonInv, rs
  <1>3. Len(queue) \in Nat /\ Len(queue') \in Nat
    BY <1>2, LenProperties DEF ButtonInv
  <1>4. ASSUME NEW m \in 0 .. Len(queue), NEW x, Leaves(queue, btn, m, x)
        PROVE  Leaves(queue', btn', m, x)
    <2>1. m \in Nat /\ \A k \in 1 .. m : queue'[k] = queue[k]
      BY <1>2, <1>3
    <2>2. QED
      BY <1>4, <2>1, LeavesLonger
  <1>5. CASE Len(queue) + n > Cap
    BY <1>1, <1>2, <1>5 DEF ButtonInv
  <1>6. CASE Len(queue) + n <= Cap
    <2>1. /\ Len(queue') = Len(queue) + n /\ dropped' = dropped /\ ~stale'
          /\ \A i \in 1 .. n : queue'[Len(queue) + i] = rs[i]
      <3>1. ~ (Len(queue) + n > Cap)
        BY <1>3, <1>6, Bounds
      <3>2. ~stale'
        BY <3>1, Zenon
      <3>3. QED
        BY <1>1, <1>2, <1>3, <1>6, <3>2, Bounds
    <2>2. queue'[Len(queue) + n] = rs[n]
      BY <2>1
    <2>3. Leaves(queue', btn', Len(queue'), device')
      <3>1. Len(queue') - 1 \in Nat /\ Len(queue') = Len(queue') - 1 + 1 /\ Len(queue') = Len(queue) + n
        BY <1>3, <2>1
      <3> DEFINE m == Len(queue') - 1
      <3>2. IsMouse(queue', m + 1) /\ queue'[m + 1].btn = b
        BY <1>1, <1>3, <2>1, <2>2, <3>1 DEF IsMouse
      <3>3. m \in Nat /\ Len(queue') = m + 1
        BY <3>1
      <3> HIDE DEF m
      <3>4. QED
        BY <3>2, <3>3, LeavesOneMore
    <2>4. ASSUME ~dropped', NEW i \in 1 .. Len(queue'), IsMouse(queue', i), ~queue'[i].last
          PROVE  Leaves(queue', btn', i - 1, queue'[i].btn)
      <3>1. CASE i \in 1 .. Len(queue)
        <4>1. i - 1 \in 0 .. Len(queue) /\ queue'[i] = queue[i]
          BY <1>2, <1>3, <3>1
        <4>2. Leaves(queue, btn, i - 1, queue[i].btn)
          BY <2>1, <2>4, <3>1, <4>1 DEF ButtonInv, IsMouse
        <4>3. QED
          BY <1>4, <4>1, <4>2
      <3>2. CASE i \notin 1 .. Len(queue)
        <4>1. i = Len(queue) + 1 \/ i = Len(queue) + 2
          BY <1>3, <2>1, <3>2
        <4>2. i # Len(queue) + n
          BY <1>1, <2>2, <2>4
        <4>3. n = 2 /\ i = Len(queue) + 1 /\ i - 1 = Len(queue)
          BY <1>3, <2>1, <4>1, <4>2
        <4>4. queue'[i].btn = device
          BY <1>1, <2>1, <4>3
        <4>5. Leaves(queue, btn, Len(queue), device)
          BY <2>1, <2>4 DEF ButtonInv
        <4>6. QED
          BY <1>3, <1>4, <4>3, <4>4, <4>5
      <3>3. QED
        BY <3>1, <3>2
    <2>5. QED
      BY <1>2, <2>1, <2>3, <2>4 DEF ButtonInv
  <1>7. QED
    BY <1>3, <1>5, <1>6, Bounds

LEMMA ButtonStep ==
  ASSUME ButtonInv, [Next]_vars
  PROVE  ButtonInv'
  <1>1. CASE UNCHANGED <<queueVars, btn, device, stale>>
    BY <1>1 DEF ButtonInv, Leaves, IsMouse, queueVars
  <1>2. CASE KeyIRQ
    BY <1>2, ButtonKey DEF KeyIRQ
  <1>3. ASSUME NEW n \in 1 .. 2, NEW b \in Buttons, MouseIRQ(n, b) PROVE ButtonInv'
    BY <1>3, ButtonMouse DEF MouseIRQ
  <1>4. CASE Drain
    BY <1>4, ButtonTake DEF Drain
  <1>5. ASSUME NEW m \in Masks, GetNextEvent(m) PROVE ButtonInv'
    <2>1. CASE Take /\ btn' = ButtonAfter(Head(queue))
      BY <1>5, <2>1, ButtonTake DEF GetNextEvent
    <2>2. CASE UNCHANGED <<queueVars, btn>>
      BY <1>1, <1>5, <2>2 DEF GetNextEvent
    <2>3. QED
      BY <1>5, <2>1, <2>2 DEF GetNextEvent
  <1>6. ASSUME TickIRQ \/ FoundEmpty \/ TestClock \/ Halt \/ UNCHANGED vars
        PROVE  UNCHANGED <<queueVars, btn, device, stale>>
    BY <1>6 DEF TickIRQ, FoundEmpty, TestClock, Halt, vars, queueVars
  <1>7. ASSUME NEW s \in Sleeps, NEW m \in Masks, Call(s, m)
        PROVE  UNCHANGED <<queueVars, btn, device, stale>>
    BY <1>7 DEF Call
  <1>8. QED
    BY <1>1, <1>2, <1>3, <1>4, <1>5, <1>6, <1>7 DEF Next, Pump

-----------------------------------------------------------------------------
(* The clock. *)

LEMMA NextTick ==
  ASSUME NEW t \in 0 .. TickMod - 1
  PROVE  (t + 1) % TickMod = IF t + 1 = TickMod THEN 0 ELSE t + 1
  BY Bounds

LEMMA Elapsed ==
  ASSUME NEW t \in 0 .. TickMod - 1, NEW s \in 0 .. TickMod - 1
  PROVE  (t - s) % TickMod = IF t >= s THEN t - s ELSE t - s + TickMod
  BY Bounds

(* Within a call the counter has not come round. *)
LEMMA CallIsShort ==
  ASSUME ClockInv, pc # "app"
  PROVE  sleep \in Nat /\ sleep + 2 * Slack < TickMod /\ waited < TickMod
  <1>1. sleep \in Nat /\ sleep + 2 * Slack < TickMod
    BY Bounds DEF ClockInv
  <1>2. QED
    BY <1>1, Bounds DEF ClockInv

(* (uint32_t)(g_tick - start) is the time since the call began.            *)
LEMMA ExpiredIs ==
  ASSUME ClockInv, pc = "timeout"
  PROVE  Expired <=> waited >= sleep
  <1>1. /\ g_tick \in 0 .. TickMod - 1 /\ start \in 0 .. TickMod - 1 /\ waited \in Nat
        /\ g_tick = start + waited \/ g_tick = start + waited - TickMod
        /\ waited < TickMod
    BY CallIsShort DEF ClockInv
  <1>2. (g_tick - start) % TickMod = IF g_tick >= start THEN g_tick - start ELSE g_tick - start + TickMod
    BY <1>1, Elapsed
  <1>3. (IF g_tick >= start THEN g_tick - start ELSE g_tick - start + TickMod) = waited
    BY <1>1, Bounds
  <1>4. QED
    BY <1>2, <1>3 DEF Expired

LEMMA ClockInit == Init => ClockInv
  BY Bounds DEF Init, ClockInv

LEMMA ClockTick ==
  ASSUME ClockInv, TickIRQ
  PROVE  ClockInv'
  <1>1. /\ g_tick \in 0 .. TickMod - 1 /\ start' = start /\ start \in 0 .. TickMod - 1
        /\ sleep' = sleep /\ pc' = Awake
        /\ g_tick' = (g_tick + 1) % TickMod
    BY DEF TickIRQ, ClockInv, callVars
  <1>2. g_tick' = (IF g_tick + 1 = TickMod THEN 0 ELSE g_tick + 1) /\ g_tick' \in 0 .. TickMod - 1
    <2>1. (g_tick + 1) % TickMod = IF g_tick + 1 = TickMod THEN 0 ELSE g_tick + 1
      BY <1>1, NextTick
    <2>2. QED
      BY <1>1, <2>1, Bounds
  <1>3. CASE pc = "app"
    BY <1>1, <1>2, <1>3, Bounds DEF TickIRQ, ClockInv, Awake
  <1>4. CASE pc # "app"
    <2>1. /\ waited' = waited + 1 /\ sleep \in Sleeps /\ sleep \in Nat
          /\ g_tick = start + waited \/ g_tick = start + waited - TickMod
          /\ waited \in Nat /\ waited < TickMod
          /\ pc \in {"drain", "timeout", "yield", "halted"}
      BY <1>4, CallIsShort DEF TickIRQ, ClockInv
    <2>2. g_tick' = start + waited' \/ g_tick' = start + waited' - TickMod
      BY <1>1, <1>2, <2>1, Bounds
    <2>3. CASE pc = "halted"
      <3>1. pc' = "drain" /\ late' = 0 /\ waited < sleep + late /\ late \in 0 .. Slack
        BY <1>1, <2>3 DEF TickIRQ, ClockInv, Awake
      <3>2. waited' <= sleep' + Slack + late' /\ waited' \in Nat /\ late' \in 0 .. Slack
        BY <1>1, <2>1, <3>1, Bounds
      <3>3. QED
        BY <1>1, <1>2, <2>1, <2>2, <3>1, <3>2 DEF ClockInv
    <2>4. CASE pc # "halted"
      <3>1. pc' = pc /\ late' = late + 1 /\ late \in 0 .. Slack /\ late' \in 0 .. Slack
        BY <1>1, <1>4, <2>4, Bounds DEF TickIRQ, ClockInv, Awake
      <3>2. waited' \in Nat /\ sleep' \in Sleeps
        BY <1>1, <2>1
      <3>3. pc \in {"drain", "timeout"} => waited' <= sleep' + Slack + late'
        BY <1>1, <2>1, <3>1, Bounds DEF ClockInv
      <3>4. pc = "yield" => waited' < sleep' + late'
        BY <1>1, <2>1, <3>1, Bounds DEF ClockInv
      <3>5. QED
        BY <1>1, <1>2, <2>1, <2>2, <2>4, <3>1, <3>2, <3>3, <3>4 DEF ClockInv
    <2>5. QED
      BY <2>3, <2>4
  <1>5. QED
    BY <1>3, <1>4

LEMMA ClockStep ==
  ASSUME ClockInv, [Next]_vars
  PROVE  ClockInv'
  <1>1. CASE TickIRQ
    BY <1>1, ClockTick
  <1>2. ASSUME pc' = Awake, UNCHANGED <<callVars, clockVars>> PROVE ClockInv'
    <2>1. pc = "halted" => waited <= sleep + Slack + late
      <3>1. SUFFICES ASSUME pc = "halted" PROVE waited <= sleep + Slack + late
        OBVIOUS
      <3>2. waited < sleep + late /\ sleep \in Nat /\ late \in Nat /\ waited \in Nat
        BY <3>1, CallIsShort, Bounds DEF ClockInv
      <3>3. QED
        BY <3>2, Bounds
    <2>2. QED
      BY <1>2, <2>1 DEF ClockInv, Awake, callVars, clockVars
  <1>3. CASE KeyIRQ \/ \E n \in 1 .. 2, b \in Buttons : MouseIRQ(n, b)
    BY <1>2, <1>3 DEF KeyIRQ, MouseIRQ
  <1>4. ASSUME Return, g_tick' = g_tick PROVE ClockInv'
    BY <1>4, Bounds DEF Return, ClockInv
  <1>5. ASSUME UNCHANGED <<pc, callVars, clockVars>> PROVE ClockInv'
    BY <1>5 DEF ClockInv, callVars, clockVars
  <1>6. CASE Drain
    BY <1>4, <1>5, <1>6 DEF Drain, callVars, clockVars
  <1>7. CASE FoundEmpty
    BY <1>7 DEF FoundEmpty, ClockInv, callVars, clockVars
  <1>8. CASE TestClock
    <2>1. CASE Expired
      BY <1>4, <1>8, <2>1 DEF TestClock
    <2>2. CASE ~Expired
      <3>1. pc = "timeout" /\ pc' = "yield" /\ late' = 0 /\ UNCHANGED <<callVars, waited, g_tick>>
        BY <1>8, <2>2 DEF TestClock
      <3>2. sleep \in Nat /\ waited \in Nat /\ ~ (waited >= sleep)
        BY <2>2, <3>1, ExpiredIs, CallIsShort DEF ClockInv
      <3>3. waited' < sleep' + late' /\ late' \in 0 .. Slack
        BY <3>1, <3>2, Bounds DEF callVars
      <3>4. QED
        BY <3>1, <3>3 DEF ClockInv, callVars
    <2>3. QED
      BY <2>1, <2>2
  <1>9. CASE Halt
    BY <1>9 DEF Halt, ClockInv, callVars, clockVars
  <1>10. ASSUME NEW s \in Sleeps, NEW m \in Masks, Call(s, m) PROVE ClockInv'
    <2>1. s \in Nat
      BY Bounds
    <2>2. /\ pc' = "drain" /\ start' = g_tick /\ g_tick' = g_tick /\ sleep' = s
          /\ waited' = 0 /\ late' = 0
      BY <1>10 DEF Call
    <2>3. QED
      BY <2>1, <2>2, Bounds DEF ClockInv
  <1>11. ASSUME NEW m \in Masks, GetNextEvent(m) PROVE ClockInv'
    BY <1>5, <1>11 DEF GetNextEvent
  <1>12. CASE UNCHANGED vars
    BY <1>5, <1>12 DEF vars, callVars, clockVars
  <1>13. QED
    BY <1>1, <1>3, <1>6, <1>7, <1>8, <1>9, <1>10, <1>11, <1>12 DEF Next, Pump

-----------------------------------------------------------------------------
(* The theorems. *)

LEMMA ButtonInit == Init => ButtonInv
  <1> SUFFICES ASSUME Init PROVE ButtonInv
    OBVIOUS
  <1>1. queue = <<>> /\ queue \in Seq(PumpRaws) /\ Len(queue) = 0
    BY EmptySeq DEF Init, QInit
  <1>2. Leaves(queue, btn, 0, device)
    BY DEF Leaves, Init
  <1>3. dropped = FALSE /\ stale = FALSE /\ device \in Buttons
    BY DEF Init, QInit, Buttons
  <1>4. Leaves(queue, btn, Len(queue), device) /\ \A i \in 1 .. Len(queue) : FALSE
    BY <1>1, <1>2
  <1>5. \A i \in 1 .. Len(queue) :
          IsMouse(queue, i) /\ ~queue[i].last => Leaves(queue, btn, i - 1, queue[i].btn)
    BY <1>4
  <1>6. Len(queue) <= Cap /\ queue \in Seq(PumpRaws)
    BY <1>1, Bounds
  <1>7. dropped \in BOOLEAN /\ stale \in BOOLEAN /\ (~dropped => ~stale)
    BY <1>3
  <1>8. QED
    BY <1>3, <1>4, <1>5, <1>6, <1>7 DEF ButtonInv

LEMMA InvHolds == Spec => [](ButtonInv /\ ClockInv)
  <1>1. Init => ButtonInv /\ ClockInv
    BY ButtonInit, ClockInit
  <1>2. ButtonInv /\ ClockInv /\ [Next]_vars => (ButtonInv /\ ClockInv)'
    BY ButtonStep, ClockStep
  <1>3. QED
    BY <1>1, <1>2, PTL DEF Spec

(* event.c, WaitNextEvent and GetNextEvent: whenever the ring is drained,  *)
(* the pump's button is the mouse's, whatever masks the calls had, in      *)
(* whatever chunks a movement came and whatever was dropped before the     *)
(* mouse's last accepted report.                                           *)
THEOREM ButtonsAgree == Spec => []ButtonTracksMouse
  <1>1. ASSUME ButtonInv, queue = <<>>, ~stale PROVE btn = device
    <2>1. Len(queue) = 0 /\ Leaves(queue, btn, Len(queue), device)
      BY <1>1 DEF ButtonInv
    <2>2. QED
      BY <2>1 DEF Leaves
  <1>2. ButtonInv => ButtonTracksMouse
    BY <1>1 DEF ButtonTracksMouse
  <1>3. QED
    BY <1>2, InvHolds, PTL

(* mouse_post_packet: while nothing has been dropped, a record that does   *)
(* not end its packet never changes the pump's button, so that it cannot   *)
(* click.                                                                  *)
THEOREM OnlyLastRecordsClick == Spec => OnlyLastClicks
  <1>1. ASSUME ButtonInv, [Next]_vars, queue # <<>>, queue' = Tail(queue),
               ~Head(queue).last, ~dropped
        PROVE  btn' = btn
    <2>1. queue \in Seq(PumpRaws)
      BY <1>1 DEF ButtonInv
    <2>2. /\ Len(queue) \in Nat /\ Len(queue) >= 1 /\ 1 \in 1 .. Len(queue)
          /\ Head(queue) = queue[1] /\ queue[1] \in PumpRaws
          /\ Len(queue') = Len(queue) - 1
      <3>1. Len(queue) \in Nat \ {0}
        BY <1>1, <2>1, EmptySeq
      <3>2. 1 \in 1 .. Len(queue) /\ Head(queue) = queue[1]
        BY <3>1
      <3>3. QED
        BY <1>1, <2>1, <3>1, <3>2, HeadTailProperties, ElementOfSeq
    <2>3. queue[1].kind = "mouse"
      BY <1>1, <2>2, RawIs
    <2>4. Leaves(queue, btn, 0, queue[1].btn)
      <3>1. Leaves(queue, btn, 1 - 1, queue[1].btn)
        BY <1>1, <2>2, <2>3 DEF ButtonInv, IsMouse
      <3>2. QED
        BY <3>1
    <2>5. btn = queue[1].btn
      BY <2>4 DEF Leaves
    <2>6. ButtonAfter(Head(queue)) = btn
      BY <2>2, <2>3, <2>5 DEF ButtonAfter
    <2>7. CASE Drain
      BY <2>6, <2>7 DEF Drain
    <2>8. ASSUME NEW m \in Masks, GetNextEvent(m) PROVE btn' = btn
      BY <2>6, <2>8 DEF GetNextEvent
    <2>9. CASE ~ (Drain \/ \E m \in Masks : GetNextEvent(m))
      BY <1>1, <2>9
      DEF Next, Pump, TickIRQ, KeyIRQ, MouseIRQ, FoundEmpty, TestClock, Halt, Call, Return, vars
    <2>10. QED
      BY <2>7, <2>8, <2>9
  <1>2. ButtonInv /\ [Next]_vars =>
          [queue # <<>> /\ queue' = Tail(queue) /\ ~Head(queue).last /\ ~dropped
             => btn' = btn]_vars
    BY <1>1
  <1>3. QED
    BY <1>2, InvHolds, PTL DEF Spec, OnlyLastClicks

(* event.c, WaitNextEvent: a call that ends on its time-out has waited at  *)
(* least sleepTicks, across the wrap of g_tick too, and not more than two  *)
(* slices longer.                                                          *)
THEOREM NullIsOnTime == Spec => NullOnTime
  <1>1. ASSUME ClockInv, [Next]_vars, pc = "timeout", pc' = "app"
        PROVE  waited >= sleep /\ waited <= sleep + 2 * Slack
    <2>1. TestClock /\ Expired
      BY <1>1 DEF Next, Pump, TickIRQ, KeyIRQ, MouseIRQ, Drain, FoundEmpty, TestClock, Halt,
                  Call, GetNextEvent, Awake, vars
    <2>2. waited >= sleep
      BY <1>1, <2>1, ExpiredIs
    <2>3. waited <= sleep + Slack + late /\ late \in 0 .. Slack /\ waited \in Nat /\ sleep \in Nat
      BY <1>1, CallIsShort DEF ClockInv
    <2>4. QED
      BY <2>2, <2>3, Bounds
  <1>2. ClockInv /\ [Next]_vars =>
          [pc = "timeout" /\ pc' = "app" => waited >= sleep /\ waited <= sleep + 2 * Slack]_vars
    BY <1>1
  <1>3. QED
    BY <1>2, InvHolds, PTL DEF Spec, NullOnTime

=============================================================================
