SPECIFICATION Spec
CONSTANTS
  Psps = {shell, a, b}
  Shell = shell
  Objects = {f, g}
  Devices <- MCDevices
  FREE = FREE
  CLOSED = CLOSED
  NumHandles = 4
  NumSlots = 3
  FirstFile = 1
  LastStd = 1
  DefaultJft <- MCDefaultJft
  DeviceRefs <- MCDeviceRefs
  DeviceOf <- MCDeviceOf
  ExecDepth = 2
  MaxExecs = 2
SYMMETRY Interchangeable
INVARIANTS NoHandleDangles
CHECK_DEADLOCK FALSE
