SPECIFICATION FairSpec
CONSTANTS
  Window = 2
  SeqMax = 3
  StallFrames = 2
  PayloadSize = 1
  MaxFaults = 1
  RingSize <- RingSizeDef
  StreamSize <- FourDown
INVARIANTS
  TypeOK
  WindowHoldsUnconsumed
PROPERTIES
  BothReliable
  EverythingArrives
