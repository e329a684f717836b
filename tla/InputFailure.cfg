SPECIFICATION Spec
CONSTANTS
  Keys = {k1}
  Buttons = {b1}
  Positions = {p1}
  None = None
  Capacity = 5
  ReleaseReserve = 3
  ForwardRepeat = FALSE
INVARIANT FailureReleasesAndroid
