SPECIFICATION FairSpec
CONSTANTS
  TxSize = 2
  RxSize = 4
  IndexMod = 8
  MaxIdleCount = 2
  FifoDepth = 1
  MinFragment = 2
  MaxPayload = 2
  TriggerSize = 1
  Backlog = 3
  MaxWrite = 2
  StreamSize = 8
  MaxSwitches = 1
INVARIANTS
  TypeOK
  RxExact
PROPERTIES
  TxExact
  IdleKept
  IdleReported
  UartDelivers
CHECK_DEADLOCK FALSE
