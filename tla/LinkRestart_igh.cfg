SPECIFICATION FairSpec
CONSTANTS
  Notifies = TRUE
  PromptClaim = TRUE
  MaxEarly = 1
  Window = 2
  Attempts = 2
  RingSize = 4
  PoolSize = 1
  MaxData = 1
  MaxLosses = 2
INVARIANTS
  TypeOK
  ParsersAligned
  NoStaleCommand
PROPERTIES
  SessionRestored
