----------------------------- MODULE MCDesktop -----------------------------
(* The desktop from the moment NOTES is closed: HELLO in front and the      *)
(* Finder, which has two folders to open; CALC, on disk, has two windows.   *)
(* Four pixels under one of menu bar, and two frames that overlap.          *)
EXTENDS Desktop

OwnerOf == [w \in Windows |-> IF w = "hello" THEN "HELLO"
                              ELSE IF w \in {"root", "apps"} THEN "FINDER" ELSE "CALC"]
BootList == <<"HELLO", "FINDER">>
FirstWindows == <<"hello">>
FrameSet == {[lo |-> 1, hi |-> 3], [lo |-> 2, hi |-> 4]}
============================================================================
