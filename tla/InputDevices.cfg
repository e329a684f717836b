SPECIFICATION FairSpec
CONSTANTS
  Keys = {k1}
  Buttons = {b1}
  Positions = {}
  None = None
  Capacity = 4
  ReleaseReserve = 3
  ForwardRepeat = TRUE
INVARIANTS
  TypeOK
  HeldAgrees
  Paired
  NothingHeldAtExit
  FailureForgets
PROPERTIES
  ReleasesArrive
  ShutdownEnds
