SPECIFICATION RingSpec
CONSTANTS
  Capacity = 4
  Modulus = 8
  MaxItems = 13
INVARIANTS
  RingTypeOK
PROPERTIES
  RingReliable
CHECK_DEADLOCK FALSE
