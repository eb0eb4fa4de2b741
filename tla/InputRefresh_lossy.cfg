SPECIFICATION Spec
CONSTANTS
  Window = 2
  SeqMax = 9
  StallFrames = 4
  StreamSize = 4
  MaskDoorbell = FALSE
INVARIANTS
  UplinkExact
