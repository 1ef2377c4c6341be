------------------------------ MODULE RawQueue ------------------------------
(***************************************************************************)
(* What the raw-event ring of os/flair promises its two sides: a bounded   *)
(* first-in first-out queue between the interrupt handlers, which post,    *)
(* and the event pump, which takes.  A record posted to a full queue is    *)
(* lost and the loss is remembered; nothing else is ever lost, repeated,   *)
(* reordered or altered.                                                   *)
(***************************************************************************)
EXTENDS Naturals, Sequences

CONSTANTS Cap,      \* FLAIR_RAW_RING_CAP
          Raws      \* the records an interrupt handler can post

ASSUME CapAssumption == Cap \in Nat /\ Cap > 0

VARIABLES queue,    \* records posted and not yet taken, oldest first
          dropped,  \* drop_count # 0
          taken     \* the record the last drain returned

queueVars == <<queue, dropped, taken>>

QTypeOK ==
  /\ queue \in Seq(Raws) /\ Len(queue) <= Cap
  /\ dropped \in BOOLEAN
  /\ taken \in Raws

QInit ==
  /\ queue = <<>>
  /\ dropped = FALSE
  /\ taken \in Raws

\* flair_raw_post, once for each record of rs, with interrupts off throughout.
PostAll(rs) ==
  LET room == Cap - Len(queue)
      kept == IF Len(rs) <= room THEN rs ELSE SubSeq(rs, 1, room)
  IN  /\ queue' = queue \o kept
      /\ dropped' = (dropped \/ kept # rs)
      /\ UNCHANGED taken

Post(r) == PostAll(<<r>>)

\* drain_one when it finds a record.
Take ==
  /\ queue # <<>>
  /\ taken' = Head(queue)
  /\ queue' = Tail(queue)
  /\ UNCHANGED dropped

QNext == Take \/ \E r \in Raws : Post(r)

QSpec == QInit /\ [][QNext]_queueVars
=============================================================================
