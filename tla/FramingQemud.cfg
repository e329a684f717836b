SPECIFICATION Spec
CONSTANTS
  HeaderSize = 4
  Bodies = {0, 1, 3}
  MaxMessages = 2
  MaxRead = 16
INVARIANTS
  QemudDrained
