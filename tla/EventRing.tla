----------------------------- MODULE EventRing ------------------------------
(***************************************************************************)
(* The lock-free single-producer single-consumer ring of os/flair/event.c. *)
(* The producer is an interrupt handler: it runs to completion on the one  *)
(* CPU (interrupt gates, no nesting), so a post is one step.  The consumer *)
(* is the pump, which an interrupt may suspend between any two accesses:   *)
(* loading head, loading tail, copying each word of the slot, and          *)
(* publishing the new tail are steps of their own.                         *)
(*                                                                         *)
(* head and tail are the code's unmasked 32-bit counters, here modulo      *)
(* Width so that they wrap; a slot is addressed by the counter modulo the  *)
(* capacity.  The `when' word of a record is left out: two words are       *)
(* enough for a torn copy to show.                                         *)
(***************************************************************************)
EXTENDS Integers, Sequences

CONSTANTS Cap,       \* FLAIR_RAW_RING_CAP
          Width,     \* 2^32: the counters' modulus
          Kinds,     \* values of the word raw.kind
          Payloads   \* values of the word raw.payload

ASSUME RingAssumption ==
  /\ Cap \in Nat /\ Cap > 0
  /\ Width \in Nat /\ Width > Cap /\ Width % Cap = 0

Raws  == [kind : Kinds, payload : Payloads]
RecordWords == <<"kind", "payload">>

VARIABLES head, tail,     \* the counters
          slots,          \* the storage
          dropped,        \* drop_count # 0
          pc,             \* where the pump stands in drain_one
          seen,           \* drain_one's h
          copied,         \* words of the slot copied so far
          out,            \* drain_one's *out, filled word by word
          taken           \* the record the last completed drain returned

ringVars == <<head, tail, slots, dropped, pc, seen, copied, out, taken>>

\* A defect: occupancy without the unsigned wrap.
Used_Signed(h, t) == h - t

\* (h - t), unsigned.
Used(h, t) == (h - t) % Width

\* index & FLAIR_RAW_RING_MASK
Slot(i) == i % Cap

RingTypeOK ==
  /\ head \in 0..Width-1 /\ tail \in 0..Width-1
  /\ Used(head, tail) <= Cap
  /\ slots \in [0..Cap-1 -> Raws]
  /\ dropped \in BOOLEAN
  /\ pc \in {"idle", "loaded", "copy", "publish"}
  /\ seen \in 0..Width-1
  /\ copied \in 0..Len(RecordWords)
  /\ out \in Raws /\ taken \in Raws

\* flair_event_init.  The zeroed slots hold the one record Blank; out and
\* taken are the caller's uninitialised records.
RingInit ==
  \E blank \in Raws :
    /\ head = 0 /\ tail = 0
    /\ slots = [i \in 0..Cap-1 |-> blank]
    /\ dropped = FALSE
    /\ pc = "idle" /\ seen = 0 /\ copied = 0
    /\ out \in Raws /\ taken \in Raws

-----------------------------------------------------------------------------
Full == Used(head, tail) >= Cap

\* flair_raw_post
PostKept(r) ==
  /\ ~Full
  /\ slots' = [slots EXCEPT ![Slot(head)] = r]
  /\ head' = (head + 1) % Width
  /\ UNCHANGED <<tail, dropped, pc, seen, copied, out, taken>>

PostDropped ==
  /\ Full
  /\ dropped' = TRUE
  /\ UNCHANGED <<head, tail, slots, pc, seen, copied, out, taken>>

\* drain_one: h = ring->head
LoadHead ==
  /\ pc = "idle"
  /\ seen' = head
  /\ pc' = "loaded"
  /\ UNCHANGED <<head, tail, slots, dropped, copied, out, taken>>

\* drain_one: t = ring->tail, and the empty test against the head it saw.
LoadTail ==
  /\ pc = "loaded"
  /\ pc' = IF seen = tail THEN "idle" ELSE "copy"
  /\ copied' = 0
  /\ UNCHANGED <<head, tail, slots, dropped, seen, out, taken>>

\* One word of *out = ring->slots[t & MASK].
CopyWord ==
  /\ pc = "copy"
  /\ LET w == RecordWords[copied + 1]
     IN  out' = [out EXCEPT ![w] = slots[Slot(tail)][w]]
  /\ copied' = copied + 1
  /\ pc' = IF copied' = Len(RecordWords) THEN "publish" ELSE "copy"
  /\ UNCHANGED <<head, tail, slots, dropped, seen, taken>>

\* ring->tail = t + 1; return 1
Publish ==
  /\ pc = "publish"
  /\ tail' = (tail + 1) % Width
  /\ taken' = out
  /\ pc' = "idle"
  /\ copied' = 0
  /\ UNCHANGED <<head, slots, dropped, seen, out>>

Drain == LoadHead \/ LoadTail \/ CopyWord \/ Publish

RingNext == PostDropped \/ Drain \/ \E r \in Raws : PostKept(r)

RingSpec == RingInit /\ [][RingNext]_ringVars

-----------------------------------------------------------------------------
Pending == [i \in 1..Used(head, tail) |-> slots[Slot(tail + i - 1)]]

Queue == INSTANCE RawQueue WITH queue <- Pending

\* The ring is a bounded first-in first-out queue (flair_raw_post, drain_one;
\* event.c: "the slot must be fully copied before publishing head or releasing
\* tail for reuse"): no record is torn, repeated, reordered or lost unless the
\* ring was full.
IsAQueue == Queue!QSpec
=============================================================================
