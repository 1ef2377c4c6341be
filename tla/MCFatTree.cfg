SPECIFICATION Spec
CONSTANTS
  NumClusters = 3
  RootSlots = 2
  ClusterSlots = 3
  a = a
  b = b
  Names = {a, b}
  Failing = {"step", "behind"}
  MaxFaults = 1
  StaleRenames = FALSE
SYMMETRY Interchangeable
INVARIANTS TreeSound NothingLostByACut
PROPERTIES RefusedCallsChangeNothing KeepsPromise
VIEW WithoutGarbage
