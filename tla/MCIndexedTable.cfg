SPECIFICATION Spec
CONSTANTS
  KeysPerPage = 2
  Keys = {0, 2}
  MaxRecords = 5
  MaxPages = 7
  MaxLeft = 6
  UniqueChoices = {TRUE, FALSE}
  FirstTables <- Tables
INVARIANTS
  TreeSound
  IndexAgrees
  SeekFindsFirst
CHECK_DEADLOCK FALSE
