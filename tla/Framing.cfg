SPECIFICATION Spec
CONSTANTS
  HeaderSize = 4
  Bodies = {0, 1, 3}
  MaxMessages = 3
  MaxRead = 21
INVARIANTS
  TypeOK
  NothingHandledEarly
  RpcDrained
