SPECIFICATION Spec
CONSTANTS
  Levels = 2
  Batches = 4
  BatchSize = 2
  MaxStarts = 2
  UsbGate = TRUE
  FieldSize <- FieldSizeDef
  MaxFields <- MaxFieldsDef
INVARIANTS
  TypeOK
  SentExact
  NothingLost
  NoEmptyBatch
PROPERTIES
  HeldFrozen
  NothingFromBefore
CHECK_DEADLOCK FALSE
