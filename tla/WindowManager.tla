--------------------------- MODULE WindowManager ---------------------------
(* The Window Manager of os/flair/window.c: operators from one state of the *)
(* manager to the next.  A state wm is a record: z is the list of windows,  *)
(* front first; frame, the extent of each window; rolled, for a window      *)
(* rolled up to its title, the frame it had; lit, the windows whose hilited *)
(* flag is set; update, the region each window still has to paint, and      *)
(* desk, the one the desktop has to.  The screen is one row of pixels:      *)
(* regions are sets, and the title of a window is its left end.             *)
(* Every window in the list is visible: what HideWindow hides before the    *)
(* desktop starts stays behind everything and takes part in nothing.        *)
EXTENDS Integers, SequencesExt

CONSTANTS Pixels,       \* the desktop frame
          Overlay,      \* the menu bars: drawn over every window
          Windows,
          Frames        \* the frames a window may be given: [lo, hi]

ASSUME PixelsAssumption == Pixels \subseteq Int /\ Overlay \subseteq Pixels
ASSUME FramesAssumption ==
    /\ Frames # {} /\ Frames \subseteq [lo : Int, hi : Int]
    /\ \A f \in Frames : f.lo < f.hi /\ f.lo..f.hi \subseteq Pixels

Open     == [lo |-> 0, hi |-> 0]            \* rolled, for a window that is not
NoFrame  == CHOOSE f \in Frames : TRUE      \* of a window that is not in the list

NoWindows == [z |-> <<>>, frame |-> [w \in Windows |-> NoFrame],
              rolled |-> [w \in Windows |-> Open], lit |-> {},
              update |-> [w \in Windows |-> {}], desk |-> {}]

Shown(wm)     == ToSet(wm.z)
Struct(wm, w) == IF wm.rolled[w] # Open THEN {wm.frame[w].lo}
                 ELSE wm.frame[w].lo .. wm.frame[w].hi
Place(wm, w)  == CHOOSE i \in DOMAIN wm.z : wm.z[i] = w

\* visible_into: what neither a window in front nor a menu bar covers.
Visible(wm, w) ==
    Struct(wm, w) \ (Overlay \cup UNION {Struct(wm, wm.z[i]) : i \in 1 .. Place(wm, w) - 1})

\* The places in the list of the windows over a pixel, in front first.
Over(wm, p)   == {i \in DOMAIN wm.z : p \in Struct(wm, wm.z[i])}
FrontAt(wm, p) == wm.z[Min(Over(wm, p))]

Invalidate(wm, w, region) == [wm EXCEPT !.update[w] = @ \cup (region \cap Visible(wm, w))]

\* Mutant: only the window that loses the hilite is repainted.
ReaffirmActive_NoActivation(wm) ==
    LET lit == IF wm.z = <<>> THEN {} ELSE {Head(wm.z)}
    IN  [wm EXCEPT !.lit = lit,
                   !.update = [w \in Windows |->
                       IF w \in wm.lit \ lit /\ w \in Shown(wm)
                       THEN @[w] \cup Visible(wm, w) ELSE @[w]]]

\* reaffirm_active: the front window alone is hilited, and each window whose
\* flag changes owes all it shows, to redraw its title bar.
ReaffirmActive(wm) ==
    LET lit     == IF wm.z = <<>> THEN {} ELSE {Head(wm.z)}
        changed == {w \in Shown(wm) : (w \in wm.lit) # (w \in lit)}
    IN  [wm EXCEPT !.lit = lit,
                   !.update = [w \in Windows |->
                       IF w \in changed THEN @[w] \cup Visible(wm, w) ELSE @[w]]]

\* distribute_exposure: the front-most window at each exposed pixel owes it,
\* the desktop where there is none.  A departing window has left the pixels
\* it exposes, and claims none.
DistributeExposure(wm, exposed) ==
    LET bare == {p \in exposed : Over(wm, p) = {}}
    IN  [wm EXCEPT !.update = [w \in Windows |->
                        @[w] \cup {p \in exposed \ bare : FrontAt(wm, p) = w}],
                   !.desk = @ \cup bare]

\* list_unlink.
Unlink(z, w) == RemoveAt(z, CHOOSE i \in DOMAIN z : z[i] = w)

\* The callers zero the record first, so no flag is left from an earlier use.
NewWindow(wm, w, f) ==
    ReaffirmActive([wm EXCEPT !.z = <<w>> \o @, !.frame[w] = f])

DisposeWindow(wm, w) ==
    LET gone == [wm EXCEPT !.z = Unlink(@, w), !.frame[w] = NoFrame, !.rolled[w] = Open,
                           !.lit = @ \ {w}, !.update[w] = {}]
    IN  ReaffirmActive(DistributeExposure(gone, Visible(wm, w)))

SelectWindow(wm, w) == ReaffirmActive([wm EXCEPT !.z = <<w>> \o Unlink(@, w)])

\* MoveWindow, and set_document_frame up to its last line: the old place is
\* exposed but for what the new one covers.  The window's own damage is
\* dropped: it is for the caller to invalidate the window again.
Reframed(wm, w, f, rolled) ==
    LET next == [wm EXCEPT !.frame[w] = f, !.rolled[w] = rolled]
        left == Visible(wm, w) \ Struct(next, w)
    IN  [DistributeExposure(next, left) EXCEPT !.update[w] = {}]

MoveWindow(wm, w, f) == Reframed(wm, w, f, wm.rolled[w])

SetDocumentFrame(wm, w, f, rolled) ==
    LET next == Reframed(wm, w, f, rolled) IN Invalidate(next, w, Struct(next, w))

\* CollapseWindow.  Unrolling restores the frame the window had when it was
\* rolled up, even when it has been moved since.
CollapseWindow(wm, w) ==
    IF wm.rolled[w] = Open THEN SetDocumentFrame(wm, w, wm.frame[w], wm.frame[w])
    ELSE SetDocumentFrame(wm, w, wm.rolled[w], Open)

\* SizeWindow and ZoomWindow, which unrolls the window first.
ZoomWindow(wm, w, f) ==
    SetDocumentFrame(IF wm.rolled[w] = Open THEN wm ELSE CollapseWindow(wm, w), w, f, Open)
----------------------------------------------------------------------------
(* Painting.  A painted pixel names its window, whether it was drawn as the *)
(* active one, and whether the owner has drawn its content since.           *)
Bare == [win |-> "desktop"]
Bar  == [win |-> "bar"]
Drawn(wm, w, full) == [win |-> w, lit |-> w \in wm.lit, full |-> full]

\* What the screen should show.
Picture(wm, p) ==
    IF p \in Overlay THEN Bar
    ELSE IF Over(wm, p) = {} THEN Bare
    ELSE Drawn(wm, FrontAt(wm, p), TRUE)

\* Is the pixel one its window owes, still shows and will now draw?
Damaged(wm, p) == p \notin Overlay /\ Over(wm, p) # {} /\ p \in wm.update[FrontAt(wm, p)]

\* desktop_paint_damage: the desktop's damage is filled whoever owns the
\* pixels by now, then each damaged window's frame is drawn.
ChromeDrawn(wm, screen) ==
    [p \in Pixels |-> IF Damaged(wm, p) THEN Drawn(wm, FrontAt(wm, p), FALSE)
                      ELSE IF p \in wm.desk THEN Bare ELSE screen[p]]

\* flair_route_updates: each owner draws what its window owes and still shows.
ContentDrawn(wm, screen) ==
    [p \in Pixels |-> IF Damaged(wm, p) THEN Drawn(wm, FrontAt(wm, p), TRUE) ELSE screen[p]]

\* After a repaint nothing is owed.
Validated(wm) == [wm EXCEPT !.update = [w \in Windows |-> {}], !.desk = {}]
============================================================================
