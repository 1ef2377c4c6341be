CONSTANTS
  Cap = 2
  Width = 4
  Kinds = {k, m}
  Payloads = {0, 1}
SPECIFICATION RingSpec
PROPERTY IsAQueue
