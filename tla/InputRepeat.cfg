SPECIFICATION Spec
CONSTANTS
  Keys = {k1}
  Buttons = {b1}
  Positions = {}
  None = None
  Capacity = 5
  ReleaseReserve = 3
  ForwardRepeat = TRUE
INVARIANT CodesFitReserve
