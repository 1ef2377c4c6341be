----------------------------- MODULE MCHandles -----------------------------
(* Small instance of Handles for TLC: one resident slot, the console, with *)
(* stdout and stderr predefined on it, and two file slots.                 *)
EXTENDS Handles, TLC

MCDefaultJft == [h \in Handles |-> IF h <= LastStd THEN 0 ELSE CLOSED]
MCDeviceRefs == [s \in DeviceSlots |-> LastStd + 1]
MCDeviceOf   == [s \in DeviceSlots |-> "CON"]
MCDevices    == {"CON"}
Interchangeable == Permutations(Psps \ {Shell}) \cup Permutations(Objects)

=============================================================================
