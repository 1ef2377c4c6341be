SPECIFICATION Spec
CONSTANTS
  NumClusters = 3
  NumSlots = 2
  a = a
  b = b
  Names = {a, b}
  MaxLen = 3
  StaleHandles = FALSE
  Failing = {"zero", "grow", "shrink"}
  Aborted = {"zero", "grow"}
  MaxFaults = 2
SYMMETRY Interchangeable
INVARIANTS VolumeConsistent NoForeignBytes BystandersSurviveACut GrowthSurvivesACut FailuresHarmNoFile
