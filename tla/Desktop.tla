------------------------------ MODULE Desktop ------------------------------
(* The applications of the desktop, their windows and the screen: the       *)
(* process list of os/flair/process.c, which routes clicks and switches the *)
(* foreground, over the Window Manager, driven by the gestures of the event *)
(* pump (os/milton/kmain.c).  The pump finishes one event, repaint and all, *)
(* before it takes the next, so a gesture is a step.                        *)
EXTENDS WindowManager

CONSTANTS Apps, Finder,     \* Finder is the shell's own, always resident
          Tenant,           \* the application loaded from disk, one at a time
          Owner,            \* refCon: the application each window belongs to
          Booted,           \* the process list at boot, the foreground first
          BootWindows,      \* their windows, in the order they are opened
          MaxShown          \* bound on the windows on the screen

ASSUME AppsAssumption ==
    /\ {Finder, Tenant} \subseteq Apps /\ Finder # Tenant
    /\ Owner \in [Windows -> Apps]
    /\ Booted \in Seq(Apps \ {Tenant}) /\ IsInjective(Booted) /\ Contains(Booted, Finder)
    /\ BootWindows \in Seq(Windows) /\ BootWindows # <<>>
    /\ Owner[Last(BootWindows)] = Head(Booted)
    /\ \A i, j \in DOMAIN BootWindows :     \* each opens one at boot
          /\ Contains(Booted, Owner[BootWindows[i]])
          /\ Owner[BootWindows[i]] = Owner[BootWindows[j]] => i = j

VARIABLES wm,       \* the Window Manager's state
          screen,   \* what is painted
          apps,     \* the process list: its head is the foreground application
          told      \* the applications whose last activateEvt said active
vars == <<wm, screen, apps, told>>

\* The operators below take and return the whole state, as one record.
Now == [wm |-> wm, screen |-> screen, apps |-> apps, told |-> told]
Becomes(s) == /\ wm' = s.wm /\ screen' = s.screen /\ apps' = s.apps /\ told' = s.told

\* The places in the list of the windows of an application.
OwnedBy(m, app) == {i \in DOMAIN m.z : Owner[m.z[i]] = app}
----------------------------------------------------------------------------
(* Painting.                                                                *)

\* flair_live_repaint: frames and bare desktop, then the owners' content.
Repaint(s) == [s EXCEPT !.screen = ContentDrawn(s.wm, ChromeDrawn(s.wm, @)),
                        !.wm = Validated(@)]

\* Mutant: no repaint after a switch of applications.
FinishSwitch_NoRepaint(s, before) == s

\* flair_live_finish_tenant_switch: nothing to do unless the head changed.
FinishSwitch(s, before) == IF Head(s.apps) = before THEN s ELSE Repaint(s)
----------------------------------------------------------------------------
(* The process list.                                                        *)

\* Mutant: only the front window of the application is raised.
RaiseGroup_FrontOnly(m, app) ==
    IF OwnedBy(m, app) = {} THEN m ELSE SelectWindow(m, m.z[Min(OwnedBy(m, app))])

\* raise_group: the windows of an application to the front, the backmost first,
\* which leaves them in their order.
RaiseOwn(m, w, app) == IF Owner[w] = app THEN SelectWindow(m, w) ELSE m
RaiseGroup(m, app) ==
    LET n == Len(m.z)
        raised[i \in 0 .. n] ==
            IF i = 0 THEN m ELSE RaiseOwn(raised[i - 1], m.z[n + 1 - i], app)
    IN  raised[n]

\* FlairProcess_sync_active: a front window that is not the foreground's is
\* not drawn active.
LooksActive(s) == s.wm.z # <<>> /\ Head(s.wm.z) \in s.wm.lit
                  /\ Owner[Head(s.wm.z)] # Head(s.apps)
SyncActive(s) ==
    IF ~LooksActive(s) THEN s
    ELSE LET m == s.wm
             w == Head(m.z)
         IN  [s EXCEPT !.wm = Invalidate([m EXCEPT !.lit = @ \ {w}], w, Struct(m, w))]

\* Mutant: the application that loses the foreground is not told.
SwitchForeground_NotTold(s, app) ==
    SyncActive([s EXCEPT !.wm = RaiseGroup(@, app), !.told = @ \cup {app},
                         !.apps = <<app>> \o Unlink(@, app)])

\* switch_foreground: raise, deactivate, activate, promote.
SwitchForeground(s, app) ==
    SyncActive([s EXCEPT !.wm = RaiseGroup(@, app),
                         !.told = (@ \ {Head(s.apps)}) \cup {app},
                         !.apps = <<app>> \o Unlink(@, app)])

\* FlairProcess_activate with the repaint its callers do.
Activate(s, app) ==
    IF app = Head(s.apps) THEN s ELSE FinishSwitch(SwitchForeground(s, app), Head(s.apps))

\* flair_app_dispatch for a press in the title or the content: the owner
\* comes to the foreground, then the window itself to the front.
Dispatch(s, w) ==
    LET switched == IF Owner[w] = Head(s.apps) THEN s ELSE SwitchForeground(s, Owner[w])
    IN  IF w = Head(switched.wm.z) THEN switched
        ELSE [switched EXCEPT !.wm = SelectWindow(@, w)]

DisposeOwn(m, w, app) == IF Owner[w] = app THEN DisposeWindow(m, w) ELSE m
DisposeGroup(m, app) ==
    LET left[i \in 0 .. Len(m.z)] ==
            IF i = 0 THEN m ELSE DisposeOwn(left[i - 1], m.z[i], app)
    IN  left[Len(m.z)]

\* teardown_common: the windows go, and the next application in the list
\* takes over a foreground that is left empty.
TornDown(s, app) ==
    LET gone == [s EXCEPT !.wm = DisposeGroup(@, app),
                          !.apps = Unlink(@, app), !.told = @ \ {app}]
    IN  SyncActive(IF app # Head(s.apps) THEN gone
                   ELSE [gone EXCEPT !.wm = RaiseGroup(@, Head(gone.apps)),
                                     !.told = @ \cup {Head(gone.apps)}])

\* flair_live_sync_foreground: the Finder takes the foreground once one of its
\* windows is in front; otherwise the look of the front window is put right.
SyncForeground(s) ==
    IF s.wm.z # <<>> /\ Owner[Head(s.wm.z)] = Finder /\ Head(s.apps) # Finder
    THEN Activate(s, Finder)
    ELSE IF LooksActive(s) THEN Repaint(SyncActive(s)) ELSE s
----------------------------------------------------------------------------
(* The gestures.                                                            *)

\* The windows opened at boot, one in front of the other.
Opened(f) ==
    LET open[i \in 0 .. Len(BootWindows)] ==
            IF i = 0 THEN NoWindows
            ELSE NewWindow(open[i - 1], BootWindows[i], f[BootWindows[i]])
    IN  open[Len(BootWindows)]

Init ==
    /\ \E f \in [ToSet(BootWindows) -> Frames] :
         LET m == Opened(f)
         IN  /\ wm = Validated(m)
             /\ screen = [p \in Pixels |-> Picture(m, p)]
    /\ apps = Booted
    /\ told = {}

TitleShows(w) == wm.frame[w].lo \in Visible(wm, w)
BodyShows(w)  == Visible(wm, w) \ {wm.frame[w].lo} # {}

ClickContent(w) ==
    /\ BodyShows(w)
    /\ Becomes(SyncForeground(FinishSwitch(Dispatch(Now, w), Head(apps))))

\* The press activates, then the drag moves.  A window dropped where it was
\* is not moved; the repaint is done all the same.
DragTitle(w, f) ==
    LET front == FinishSwitch(Dispatch(Now, w), Head(apps))
        moved == IF f = wm.frame[w] THEN front.wm
                 ELSE LET m == MoveWindow(front.wm, w, f) IN Invalidate(m, w, Struct(m, w))
    IN  /\ TitleShows(w)
        /\ Becomes(SyncForeground(Repaint([front EXCEPT !.wm = moved])))

\* FindWindow: a window that is not hilited has no boxes, its title is all drag.
HasBoxes(w) == w \in wm.lit

Resize(w, f) ==
    /\ HasBoxes(w) /\ (TitleShows(w) \/ BodyShows(w))
    /\ Becomes(SyncForeground(Repaint([Now EXCEPT !.wm = ZoomWindow(@, w, f)])))

RollUp(w) ==
    /\ HasBoxes(w) /\ TitleShows(w)
    /\ Becomes(SyncForeground(Repaint([Now EXCEPT !.wm = CollapseWindow(@, w)])))

\* The close box: a Finder window is disposed of, another application ends.
CloseBox(w) ==
    /\ HasBoxes(w) /\ TitleShows(w)
    /\ Becomes(SyncForeground(Repaint(
           IF Owner[w] = Finder THEN SyncActive([Now EXCEPT !.wm = DisposeWindow(@, w)])
           ELSE TornDown(Now, Owner[w]))))

Room == Len(wm.z) < MaxShown

ClickDesktop ==
    /\ \E p \in Pixels \ Overlay : Picture(wm, p) = Bare
    /\ Becomes(SyncForeground(Activate(Now, Finder)))

\* finder_win_open, from the Finder's desktop, windows, menu or keys: an open
\* folder is brought forward; one that cannot be read is closed again.
FinderOpens(w, f, readable) ==
    LET m == IF w \in Shown(wm) THEN SelectWindow(wm, w)
             ELSE IF readable THEN NewWindow(wm, w, f)
             ELSE DisposeWindow(NewWindow(wm, w, f), w)
    IN  /\ Head(apps) = Finder /\ Owner[w] = Finder /\ (w \in Shown(wm) \/ Room)
        /\ Becomes(SyncForeground(Repaint(SyncActive([Now EXCEPT !.wm = m]))))

\* The Finder loads an application: it registers behind the foreground, opens
\* its first window and comes to the foreground when its entry returns.
Launch(w, f) ==
    /\ Head(apps) = Finder /\ ~Contains(apps, Tenant) /\ Owner[w] = Tenant /\ Room
    /\ Becomes(Activate([Now EXCEPT !.apps = <<Finder, Tenant>> \o Tail(@),
                                    !.wm = NewWindow(@, w, f)], Tenant))

\* A later window, opened while the application handles an event: its window
\* asks again for the foreground, which the application already has.
TenantOpens(w, f) ==
    /\ Head(apps) = Tenant /\ Owner[w] = Tenant /\ w \notin Shown(wm) /\ Room
    /\ Becomes(Activate([Now EXCEPT !.wm = NewWindow(@, w, f)], Tenant))

\* It exits, or crashes, in any event it was given: torn down after it.
TenantEnds ==
    /\ Contains(apps, Tenant)
    /\ Becomes(Repaint(TornDown(Now, Tenant)))

Next ==
    \/ \E w \in Shown(wm) :
         \/ ClickContent(w) \/ RollUp(w) \/ CloseBox(w)
         \/ \E f \in Frames : DragTitle(w, f) \/ Resize(w, f)
    \/ ClickDesktop \/ TenantEnds
    \/ \E w \in Windows, f \in Frames :
         \/ \E readable \in BOOLEAN : FinderOpens(w, f, readable)
         \/ Launch(w, f) \/ TenantOpens(w, f)

Spec == Init /\ [][Next]_vars
----------------------------------------------------------------------------
(* Properties.                                                              *)

\* The state is well formed: each window shown once, by a resident
\* application, and the Finder resident.
TypeOK ==
    /\ wm.z \in Seq(Windows) /\ IsInjective(wm.z) /\ wm.lit \subseteq Shown(wm)
    /\ wm.frame \in [Windows -> Frames] 
    /\ wm.rolled \in [Windows -> Frames \cup {Open}]
    /\ wm.update \in [Windows -> SUBSET Pixels] /\ wm.desk \subseteq Pixels
    /\ DOMAIN screen = Pixels
    /\ IsInjective(apps) /\ Finder \in ToSet(apps) /\ told \subseteq ToSet(apps)
    /\ \A w \in Shown(wm) : Owner[w] \in ToSet(apps)

\* Damage is never lost (window.c, the operations that consume updateRgn): a
\* pixel that does not show what it should is in the region of the window it
\* belongs to, or of the desktop; and where the desktop would be filled under a
\* window (desktop_paint_damage), the window owes the pixel too.
DamageIsOwed ==
    \A p \in Pixels :
        IF p \in Overlay \/ Over(wm, p) = {}
        THEN screen[p] = Picture(wm, p) \/ (p \notin Overlay /\ p \in wm.desk)
        ELSE screen[p] # Picture(wm, p) \/ p \in wm.desk => p \in wm.update[FrontAt(wm, p)]

\* Active looks follow the foreground (FlairProcess_sync_active): only the front
\* window can be hilited, and it is exactly when the foreground owns it.  Nor was
\* an application behind the foreground last told that it is active
\* (switch_foreground, teardown_common: the events come in pairs).
OnlyTheForegroundIsActive ==
    /\ \A w \in Shown(wm) :
          w \in wm.lit <=> w = Head(wm.z) /\ Owner[w] = Head(apps)
    /\ told \subseteq {Head(apps)}

\* Windows stay grouped by application, with the foreground's group in front
\* (process.c raise_group; ADR-0013 3.5); those of one that ended are gone.
GroupsStayTogether ==
    /\ \A w \in Shown(wm) : Owner[w] \in ToSet(apps)
    /\ \A i, j, k \in DOMAIN wm.z :
         i < j /\ j < k /\ Owner[wm.z[i]] = Owner[wm.z[k]] => Owner[wm.z[j]] = Owner[wm.z[i]]
    /\ OwnedBy(wm, Head(apps)) # {} => Owner[Head(wm.z)] = Head(apps)

\* What the pump leaves unpainted is within the windows of the foreground
\* (flair_live_finish_tenant_switch repaints only when the head changes).
StaleOnlyInTheForeground ==
    \A p \in Pixels : screen[p] # Picture(wm, p) =>
        \E w \in Shown(wm) : p \in Struct(wm, w) /\ Owner[w] = Head(apps)

\* process.c:796: a window a click brings to the front "repaints through the
\* ordinary damage cycle", so after an event the screen is up to date.
RaisedWindowIsPainted == \A p \in Pixels : screen[p] = Picture(wm, p)
============================================================================
