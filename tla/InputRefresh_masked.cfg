SPECIFICATION Spec
CONSTANTS
  Window = 2
  SeqMax = 3
  StallFrames = 2
  StreamSize = 4
  MaskDoorbell = TRUE
INVARIANTS
  TypeOK
  BuildsNeverInterleave
  UplinkExact
  NoByteDropped
