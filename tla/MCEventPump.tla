---------------------------- MODULE MCEventPump -----------------------------
(* EventPump for TLC: an application that admits every event and one that  *)
(* asks only for keys and presses.                                         *)
EXTENDS EventPump
MCMasks == {{"mouseDown", "mouseUp", "keyDown"}, {"mouseDown", "keyDown"}}
=============================================================================
