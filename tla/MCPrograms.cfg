SPECIFICATION PSpec
CONSTANTS
  Base = 2
  Ceil = 10
  Owners = {2, 3, 4, 5, 6, 7, 8, 9}
  FREE = FREE
  SYSTEM = SYSTEM
  MinProgram = 1
  MinKeep = 1
  Control = 1
  ExecDepth = 3
INVARIANTS
  RunningKeepTheirMemory
  NoOrphanBlocks
  ResidentImageKept
CHECK_DEADLOCK FALSE
