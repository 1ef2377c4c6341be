SPECIFICATION Spec
CONSTANTS
  Pixels = {0, 1, 2, 3, 4}
  Overlay = {0}
  Windows = {"hello", "root", "apps", "ledger", "chart"}
  Frames <- FrameSet
  Apps = {"HELLO", "FINDER", "CALC"}
  Finder = "FINDER"
  Tenant = "CALC"
  Owner <- OwnerOf
  Booted <- BootList
  BootWindows <- FirstWindows
  MaxShown = 4
INVARIANTS
  DamageIsOwed
  OnlyTheForegroundIsActive
  GroupsStayTogether
  StaleOnlyInTheForeground
