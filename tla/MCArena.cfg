SPECIFICATION Spec
CONSTANTS
  a = a
  b = b
  Base = 2
  Ceil = 8
  Owners = {a, b}
  FREE = FREE
  SYSTEM = SYSTEM
SYMMETRY Interchangeable
INVARIANTS
  ChainIntact
  NoFreePair
  RefusedOnlyWhenFull
PROPERTY KeepsPromise
CHECK_DEADLOCK FALSE
