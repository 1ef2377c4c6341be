----------------------------- MODULE EventPump ------------------------------
(***************************************************************************)
(* The event pump of os/flair/event.c (WaitNextEvent, GetNextEvent and the *)
(* mouse arm of cook_raw) with the three interrupt handlers that feed it:  *)
(* the PIT (flair_tick_advance), the keyboard and the mouse (mouse.c,      *)
(* mouse_pack.h, and the two posting hooks in kmain.c).                    *)
(*                                                                         *)
(* The ring is taken at its promise, RawQueue, which EventRing is shown to *)
(* keep; a drain is then one step, and an interrupt may fall between any   *)
(* two of: drain, emptiness test, clock test, and the hlt of the yield     *)
(* hook.  Left out: cursor arithmetic and key decoding (a key record is    *)
(* one ordinary key going down).                                           *)
(*                                                                         *)
(* Assumptions about the machine, named: the pump tests the clock at least *)
(* once every Slack ticks while it runs (it needs microseconds, a tick is  *)
(* 10 ms), and at most Burst interrupts post between two ticks.            *)
(***************************************************************************)
EXTENDS RawQueue, Integers

CONSTANTS TickMod,   \* 2^32: the modulus of g_tick
          Sleeps,    \* values of sleepTicks callers pass
          Masks,     \* eventMask, as the set of classes it admits
          Slack, Burst

ASSUME ClockAssumption ==
  /\ TickMod \in Nat \ {0} /\ Slack \in Nat
  /\ Sleeps \subseteq Nat
  /\ \A s \in Sleeps : s + 2 * Slack < TickMod

Buttons == {"up", "down"}
Key      == [kind |-> "key", btn |-> "up", last |-> TRUE]
\* last (history): the record ends its packet.
Mouse(b, last) == [kind |-> "mouse", btn |-> b, last |-> last]
PumpRaws == {Key} \cup {Mouse(b, last) : b \in Buttons, last \in BOOLEAN}

VARIABLES pc,       \* "app" (no call in progress) or the point in WaitNextEvent
          g_tick,
          start, sleep, mask,   \* the call's locals and arguments
          event,    \* what the last call returned; nothing yet in a call: "null"
          btn,      \* the button bit of g_modifiers
          device,   \* g_previous_buttons: what the mouse last reported
          waited,   \* ticks since the call in progress began (history,
          \* saturating at TickMod)
          late,     \* ticks since the running pump last tested the clock
          posts,    \* interrupts that posted since the last tick
          stale     \* the mouse's last report was dropped (history)

callVars  == <<start, sleep, mask>>
clockVars == <<g_tick, waited, late>>
vars == <<queueVars, pc, callVars, clockVars, event, btn, device, posts, stale>>

TypeOK ==
  /\ QTypeOK
  /\ pc \in {"app", "drain", "timeout", "yield", "halted"}
  /\ g_tick \in 0..TickMod-1 /\ start \in 0..TickMod-1
  /\ sleep \in Sleeps \cup {0} /\ mask \in Masks \cup {{}}
  /\ event \in {"null", "mouseDown", "mouseUp", "keyDown"}
  /\ btn \in Buttons /\ device \in Buttons
  /\ waited \in 0..TickMod /\ late \in 0..Slack /\ posts \in 0..Burst
  /\ stale \in BOOLEAN

\* flair_event_init, mouse_init.
Init ==
  /\ QInit
  /\ pc = "app" /\ g_tick = 0
  /\ start = 0 /\ sleep = 0 /\ mask = {}
  /\ event = "null" /\ btn = "up" /\ device = "up"
  /\ waited = 0 /\ late = 0 /\ posts = 0 /\ stale = FALSE

-----------------------------------------------------------------------------
(* Interrupts *)

\* A defect: the hlt is entered with interrupts masked.
Awake_Never == pc

\* hlt ends at any interrupt; WaitNextEvent goes round its loop.
Awake == IF pc = "halted" THEN "drain" ELSE pc

\* pit_irq_handler through its hook flair_tick_advance.
TickIRQ ==
  /\ pc \in {"app", "halted"} \/ late < Slack
  /\ g_tick' = (g_tick + 1) % TickMod
  /\ waited' = IF pc = "app" \/ waited = TickMod THEN waited ELSE waited + 1
  /\ late' = IF pc \in {"app", "halted"} THEN 0 ELSE late + 1
  /\ posts' = 0
  /\ pc' = Awake
  /\ UNCHANGED <<queueVars, callVars, event, btn, device, stale>>

\* flair_live_kbd_post
KeyIRQ ==
  /\ posts < Burst
  /\ posts' = posts + 1
  /\ Post(Key)
  /\ pc' = Awake
  /\ UNCHANGED <<callVars, clockVars, event, btn, device, stale>>

\* A defect: every chunk of a long movement carries the new button state.
Chunks_EarlyButton(n, b) == [i \in 1..n |-> Mouse(b, i = n)]

\* mouse_post_packet: a movement too long for one record is posted in several;
\* all but the last repeat the buttons of the packet before.
Chunks(n, b) == [i \in 1..n |-> Mouse(IF i < n THEN device ELSE b, i = n)]

\* mouse_irq_handler at the third byte of a packet.
MouseIRQ(n, b) ==
  /\ posts < Burst
  /\ posts' = posts + 1
  /\ PostAll(Chunks(n, b))
  /\ device' = b
  /\ stale' = (Len(queue) + n > Cap)
  /\ pc' = Awake
  /\ UNCHANGED <<callVars, clockVars, event, btn>>

-----------------------------------------------------------------------------
(* The pump *)

\* cook_raw: the event class a record stands for when the tracked button is b.
Cooked(r, b) ==
  CASE r.kind = "key"                      -> "keyDown"
    [] r.kind = "mouse" /\ r.btn = b       -> "null"
    [] r.kind = "mouse" /\ r.btn # b       ->
         IF r.btn = "down" THEN "mouseDown" ELSE "mouseUp"

\* A defect: a masked record is skipped before it is cooked.
ButtonAfter_Masked(r) ==
  IF r.kind = "mouse" /\ Cooked(r, btn) \in mask \cup {"null"} THEN r.btn ELSE btn

\* cook_raw's update of the button bit, made whatever the mask says.
ButtonAfter(r) == IF r.kind = "mouse" THEN r.btn ELSE btn

Call(s, m) ==
  /\ pc = "app"
  /\ pc' = "drain"
  /\ start' = g_tick /\ sleep' = s /\ mask' = m
  /\ waited' = 0 /\ late' = 0
  /\ event' = "null"
  /\ UNCHANGED <<queueVars, g_tick, btn, device, posts, stale>>

\* The call ends, and its locals with it.
Return ==
  /\ pc' = "app"
  /\ start' = 0 /\ sleep' = 0 /\ mask' = {}
  /\ waited' = 0 /\ late' = 0

\* drain_one and cook_raw: deliver what the mask admits, else go round again.
Drain ==
  /\ pc = "drain"
  /\ Take
  /\ btn' = ButtonAfter(Head(queue))
  /\ LET what == Cooked(Head(queue), btn)
     IN  IF what \in mask
         THEN event' = what /\ Return
         ELSE UNCHANGED <<event, pc, callVars, waited, late>>
  /\ UNCHANGED <<g_tick, device, posts, stale>>

FoundEmpty ==
  /\ pc = "drain"
  /\ queue = <<>>
  /\ pc' = "timeout"
  /\ UNCHANGED <<queueVars, callVars, clockVars, event, btn, device, posts, stale>>

\* A defect the source keeps as EVENT_MUT_TICK_WRAP: the deadline is added up.
Expired_TickWrap == sleep = 0 \/ g_tick >= (start + sleep) % TickMod

\* (uint32_t)(g_tick - start) >= sleepTicks
Expired == (g_tick - start) % TickMod >= sleep

TestClock ==
  /\ pc = "timeout"
  /\ IF Expired
     THEN event' = "null" /\ Return
     ELSE pc' = "yield" /\ late' = 0 /\ UNCHANGED <<event, callVars, waited>>
  /\ UNCHANGED <<queueVars, g_tick, btn, device, posts, stale>>

\* flair_live_yield: hlt, whatever was posted since the ring was found empty.
Halt ==
  /\ pc = "yield"
  /\ pc' = "halted"
  /\ UNCHANGED <<queueVars, callVars, clockVars, event, btn, device, posts, stale>>

\* GetNextEvent: one drain, no waiting.
GetNextEvent(m) ==
  /\ pc = "app"
  /\ \/ /\ Take
        /\ btn' = ButtonAfter(Head(queue))
        /\ event' = LET what == Cooked(Head(queue), btn)
                    IN  IF what \in m THEN what ELSE "null"
     \/ /\ queue = <<>>
        /\ event' = "null"
        /\ UNCHANGED <<queueVars, btn>>
  /\ UNCHANGED <<pc, callVars, clockVars, device, posts, stale>>

Pump == Drain \/ FoundEmpty \/ TestClock \/ Halt

Next ==
  \/ TickIRQ \/ KeyIRQ \/ \E n \in 1..2, b \in Buttons : MouseIRQ(n, b)
  \/ Pump
  \/ \E s \in Sleeps, m \in Masks : Call(s, m)
  \/ \E m \in Masks : GetNextEvent(m)

Spec == Init /\ [][Next]_vars

\* The pump's code runs when no interrupt does, and the PIT never stops.
FairSpec == Spec /\ WF_vars(Pump) /\ WF_vars(TickIRQ)

-----------------------------------------------------------------------------
\* A call that returns nullEvent does so after sleepTicks, wrap of g_tick
\* included, and later by no more than the two slices that the race between
\* the emptiness test and hlt can cost (WaitNextEvent, flair_live_yield).
NullOnTime ==
  [][pc = "timeout" /\ pc' = "app" =>
       waited >= sleep /\ waited <= sleep + 2 * Slack]_vars

\* Once the ring is drained the pump and the mouse agree about the button,
\* whatever the masks of the calls that drained it and whatever was dropped
\* before the mouse's last accepted report (GetNextEvent: "Masked. Still
\* update state").
ButtonTracksMouse ==
  queue = <<>> /\ ~stale => btn = device

\* While nothing has been dropped, only the last record of a long movement
\* can click (mouse_post_packet: "only the last can click").
OnlyLastClicks ==
  [][queue # <<>> /\ queue' = Tail(queue) /\ ~Head(queue).last /\ ~dropped
       => btn' = btn]_vars

\* Every call of WaitNextEvent returns: a masked or null event, a full ring
\* and a wake-up lost between the emptiness test and hlt notwithstanding.
CallReturns == pc # "app" ~> pc = "app"
=============================================================================
