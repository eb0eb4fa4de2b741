SPECIFICATION FairSpec
CONSTANTS
  short = short
  long = long
  Images <- MCImages
  Size <- MCSize
  First = short
  None = None
  Junk = Junk
  Busy = Busy
  NSlots = 3
  NSectors = 2
  ModeAuto = TRUE
  MaxFaults = 2
INVARIANTS
  TypeOK
  Recoverable
  DfuVerdict
PROPERTIES
  InstallTransparent
  StagedImageBoots
