---------------------------- MODULE InputHandoff ----------------------------
(***************************************************************************)
(* Who gets the keyboard.  One stream of scancodes is decoded in three     *)
(* places: by IRQ1 as the bytes arrive (kbd.c), by the desktop's pump as   *)
(* it consumes the raw ring (event.c's modifier tracking and kmain.c's     *)
(* snapshot flair_consumed_key, which see the same bytes and are one       *)
(* decoder here), and by the replay that hands the unread part of the raw  *)
(* ring to a DOS program when the desktop launches it full-screen          *)
(* (flair_launch_text_tenant).  While DOS owns the keyboard the raw ring   *)
(* goes on filling; on resume it is drained without delivery.              *)
(*                                                                         *)
(* Ctrl stands for all modifiers: it has a left and an E0-prefixed right   *)
(* key.  One letter key stands for all: with Ctrl it is the launch chord.  *)
(* One function key stands for the keys DOS reads as the pair 00,scan.     *)
(***************************************************************************)
EXTENDS Naturals, Sequences, SequencesExt

CONSTANTS RawCap,    \* FLAIR_RAW_RING_CAP
          DosCap     \* KBD_RING_CAP - 1

ASSUME CapsAssumption == RawCap \in Nat \ {0} /\ DosCap \in Nat \ {0}

Sides == {"left", "right"}
Bytes == {"e0", "ctrl+", "ctrl-", "key", "fn"}
Chars == {"k", "^k", "00", "scan"}

VARIABLES
  keys,       \* Ctrl keys physically down
  pend,       \* bytes of a multi-byte code the keyboard has yet to send
  isr,        \* g_input.state
  owner,      \* g_input.owner
  cooked,     \* g_input.cooked
  raw,        \* g_flair_kbd_ring, each byte with what it means (history)
  consumed,   \* g_flair_consumed_keys, and g_kbd_held with g_kbd_ext
  mode,       \* "desktop"; "launching", the chord is cooked; "dos"
  due,        \* characters typed for the DOS program, not yet read (history)
  lost,       \* a character was dropped from cooked this session (history)
  rawLost     \* "never", or the mode in which the raw ring first overflowed

keyboard == <<keys, pend>>
vars == <<keyboard, isr, owner, cooked, raw, consumed, mode, due, lost, rawLost>>

Decoder == [held : SUBSET Sides, e0 : BOOLEAN]
NoKeys  == [held |-> {}, e0 |-> FALSE]

TypeOK ==
  /\ keys \subseteq Sides /\ pend \in {<<>>, <<"ctrl+">>, <<"ctrl-">>}
  /\ isr \in Decoder /\ consumed \in Decoder
  /\ owner \in {"GUI", "DOS"} /\ mode \in {"desktop", "launching", "dos"}
  /\ owner = "DOS" <=> mode = "dos"
  /\ cooked \in Seq(Chars) /\ Len(cooked) <= DosCap
  /\ raw \in Seq([byte : Bytes, means : Seq(Chars), dos : BOOLEAN])
  /\ Len(raw) <= RawCap
  /\ due \in Seq(Chars) /\ lost \in BOOLEAN
  /\ rawLost \in {"never", "desktop", "launching", "dos"}

\* kmain.c takes the keyboard for the desktop before READY.
Init ==
  /\ keys = {} /\ pend = <<>>
  /\ isr = NoKeys /\ consumed = NoKeys
  /\ owner = "GUI" /\ cooked = <<>> /\ raw = <<>> /\ mode = "desktop"
  /\ due = <<>> /\ lost = FALSE /\ rawLost = "never"

-----------------------------------------------------------------------------
(* Decoding one byte b in state d. *)

Side(d) == IF d.e0 THEN "right" ELSE "left"

\* kbd_translate; cook_raw's modifier tracking makes the same moves.
Decoded(d, b) ==
  [held |-> CASE b = "ctrl+" -> d.held \cup {Side(d)}
              [] b = "ctrl-" -> d.held \ {Side(d)}
              [] OTHER       -> d.held,
   e0 |-> b = "e0"]

\* What b is as characters when ctrl tells whether a Ctrl key is down.
Meaning(b, ctrl) ==
  CASE b = "key" -> IF ctrl THEN <<"^k">> ELSE <<"k">>
    [] b = "fn"  -> <<"00", "scan">>
    [] OTHER     -> <<>>

\* kbd_scancode_put: an extended code is no letter and no function key.
Decodes(d, b) == IF d.e0 THEN <<>> ELSE Meaning(b, d.held # {})

\* A defect: the two bytes of a pair are published one by one.
Put_ByteByByte(ring, cs) ==
  LET room == DosCap - Len(ring)
  IN  IF Len(cs) <= room THEN ring \o cs ELSE ring \o SubSeq(cs, 1, room)

\* kbd_ring_put, and the pair published together or not at all.
Put(ring, cs) == IF Len(ring) + Len(cs) <= DosCap THEN ring \o cs ELSE ring

-----------------------------------------------------------------------------
(* The keyboard sends byte b: press or release a Ctrl key, strike a key. *)

Sends(b) ==
  IF pend # <<>>
  THEN /\ b = Head(pend)
       /\ pend' = <<>>
       /\ keys' = IF b = "ctrl+" THEN keys \cup {"right"} ELSE keys \ {"right"}
  ELSE \/ b = "ctrl+" /\ "left" \notin keys /\ keys' = keys \cup {"left"} /\ UNCHANGED pend
       \/ b = "ctrl-" /\ "left" \in keys /\ keys' = keys \ {"left"} /\ UNCHANGED pend
       \/ /\ b = "e0" /\ UNCHANGED keys
          /\ pend' = IF "right" \in keys THEN <<"ctrl-">> ELSE <<"ctrl+">>
       \/ b \in {"key", "fn"} /\ UNCHANGED keyboard

\* kbd_input_put
CookedAfter(b) == IF owner = "GUI" THEN cooked ELSE Put(cooked, Decodes(isr, b))

\* kbd_irq_handler with the raw hook flair_live_kbd_post.
KeyIRQ(b) ==
  /\ Sends(b)
  /\ isr' = Decoded(isr, b)
  /\ cooked' = CookedAfter(b)
  /\ LET means == Meaning(b, keys # {})
     IN  /\ IF Len(raw) < RawCap
            THEN /\ raw' = Append(raw, [byte |-> b, means |-> means, dos |-> mode = "dos"])
                 /\ UNCHANGED rawLost
            ELSE /\ UNCHANGED raw
                 /\ rawLost' = IF rawLost = "never" THEN mode ELSE rawLost
         /\ lost' = (lost \/ (owner = "DOS" /\ Len(cooked) + Len(means) > DosCap))
         /\ due' = IF mode = "dos" /\ ~lost' THEN due \o means ELSE <<>>
  /\ UNCHANGED <<owner, consumed, mode>>

\* WaitNextEvent takes one keyboard byte: cook it, show it to the observer,
\* deliver it unless it is the launch chord.
PumpKey ==
  /\ mode = "desktop" /\ raw # <<>>
  /\ consumed' = Decoded(consumed, Head(raw).byte)
  /\ raw' = Tail(raw)
  /\ mode' = IF Head(raw).byte = "key" /\ consumed.held # {} THEN "launching" ELSE mode
  /\ UNCHANGED <<keyboard, isr, owner, cooked, due, lost, rawLost>>

\* Decoding all of rs from state d, into the empty ring of the new owner.
DecodedAll(d, rs) == FoldLeft(LAMBDA s, r : Decoded(s, r.byte), d, rs)

ReplayFrom(d, rs) ==
  FoldLeft(LAMBDA s, r : [st |-> Decoded(s.st, r.byte),
                          ring |-> Put(s.ring, Decodes(s.st, r.byte))],
           [st |-> d, ring |-> <<>>], rs).ring

\* A defect: the replay starts from IRQ1's state, already at the head.
Replayed_FromHead == ReplayFrom(isr, raw)

Replayed == ReplayFrom(consumed, raw)

\* flair_launch_text_tenant, the masked section before the program runs.
Launch ==
  /\ mode = "launching"
  /\ mode' = "dos" /\ owner' = "DOS"
  /\ cooked' = Replayed
  /\ raw' = [i \in DOMAIN raw |-> [raw[i] EXCEPT !.dos = TRUE]]
  /\ LET all == FoldLeft(LAMBDA s, r : s \o r.means, <<>>, raw)
     IN  /\ lost' = (Len(all) > DosCap)
         /\ due' = IF lost' THEN <<>> ELSE all
  /\ UNCHANGED <<keyboard, isr, consumed, rawLost>>

\* kbd_getchar on behalf of the program.
GetChar ==
  /\ mode = "dos" /\ cooked # <<>>
  /\ cooked' = Tail(cooked)
  /\ due' = IF lost \/ due = <<>> THEN <<>> ELSE Tail(due)
  /\ UNCHANGED <<keyboard, isr, owner, raw, consumed, mode, lost, rawLost>>

\* A defect: the stale raw bytes are dropped instead of cooked.
DrainedState_Dropped == consumed

\* flair_text_tenant_drain's effect on the decoder.
DrainedState == DecodedAll(consumed, raw)

\* A defect: the raw ring is left as it is.
RawAfterResume_Kept == raw

RawAfterResume == <<>>

\* flair_launch_text_tenant, the masked section after the program ended.
Resume ==
  /\ mode = "dos"
  /\ mode' = "desktop" /\ owner' = "GUI"
  /\ consumed' = DrainedState
  /\ raw' = RawAfterResume
  /\ cooked' = <<>> /\ due' = <<>> /\ lost' = FALSE
  /\ UNCHANGED <<keyboard, isr, rawLost>>

Next ==
  \/ \E b \in Bytes : KeyIRQ(b)
  \/ PumpKey \/ Launch \/ GetChar \/ Resume

Spec == Init /\ [][Next]_vars

-----------------------------------------------------------------------------
\* The DOS program is given exactly what was typed after the launch chord, in
\* order and with the modifiers of the moment, wherever the replay and the
\* live interrupts meet (kmain.c: the bytes after the chord, decoded from the
\* snapshot at that boundary) - as long as no ring has overflowed.
DosReadsWhatWasTyped ==
  mode = "dos" /\ ~lost /\ rawLost = "never" => cooked = due

\* A reader of the DOS ring never meets half of a pair 00,scan, even when the
\* ring overflows (kbd_scancode_put).
PairsStayWhole ==
  \A i \in DOMAIN cooked :
    /\ cooked[i] = "00" => i < Len(cooked) /\ cooked[i + 1] = "scan"
    /\ cooked[i] = "scan" /\ i > 1 => cooked[i - 1] = "00"

\* What is typed at the desktop never becomes DOS typeahead (kbd.h: "GUI
\* command chords must never become DOS typeahead"), and a key the DOS program
\* could read is never delivered to the desktop too.
EachKeyHasOneReader ==
  /\ owner = "GUI" => cooked = <<>>
  /\ mode = "desktop" => \A i \in DOMAIN raw : ~raw[i].dos

\* With the raw ring drained and never overflowed, the desktop's idea of the
\* modifiers is the keyboard's, sessions of DOS programs included.
ModifiersTrackKeys ==
  mode = "desktop" /\ raw = <<>> /\ pend = <<>> /\ rawLost = "never" =>
    consumed.held = keys /\ ~consumed.e0

\* kbd.h, of the raw hook during a DOS session: "During suspension the GUI
\* cooks its buffered raw events without dispatch, so modifier releases
\* cannot latch on resume."
NoModifierLatches ==
  [][mode = "dos" /\ mode' = "desktop" /\ rawLost \in {"never", "dos"} /\ pend = <<>>
       => consumed'.held \subseteq keys]_vars
=============================================================================
