SPECIFICATION Spec
CONSTANTS
  Psps = {shell, a, b}
  Shell = shell
  Objects = {f, g}
  Devices <- MCDevices
  FREE = FREE
  CLOSED = CLOSED
  NumHandles = 3
  NumSlots = 3
  FirstFile = 1
  LastStd = 0
  DefaultJft <- MCDefaultJft
  DeviceRefs <- MCDeviceRefs
  DeviceOf <- MCDeviceOf
  ExecDepth = 2
  MaxExecs = 2
SYMMETRY Interchangeable
INVARIANTS TypeOK FileRefsHonest
PROPERTIES HandleKeepsItsObject
CHECK_DEADLOCK FALSE
