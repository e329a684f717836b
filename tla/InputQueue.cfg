SPECIFICATION Spec
CONSTANTS
  Keys = {}
  Buttons = {b1}
  Positions = {p1}
  None = None
  Capacity = 6
  ReleaseReserve = 3
  ForwardRepeat = FALSE
INVARIANTS
  HeldAgrees
  Headroom
  ReleaseRoom
  ReserveKept
  ClickLands
