SPECIFICATION FairSpec
CONSTANTS
  NoBuffer = NoBuffer
  InCapacity = 2
  OutCapacity = 2
  PacketSize = 2
  MaxChunk = 3
  MaxUnits = 6
  BufferSize = 1
INVARIANTS
  TypeOK
  CommandsInOrder
  AllDecoded
  RepliesInOrder
PROPERTIES
  RepliesArrive
  LockFreed
  RenderStops
CHECK_DEADLOCK FALSE
