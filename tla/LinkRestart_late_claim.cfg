SPECIFICATION Spec
CONSTANTS
  Notifies = TRUE
  PromptClaim = FALSE
  MaxEarly = 0
  Window = 2
  Attempts = 2
  RingSize = 4
  PoolSize = 2
  MaxData = 1
  MaxLosses = 1
PROPERTIES
  FlushesOnlyOldBytes
