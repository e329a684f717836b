SPECIFICATION FairSpec
CONSTANTS
  NoBuffer = NoBuffer
  InCapacity = 1
  OutCapacity = 1
  PacketSize = 1
  MaxChunk = 1
  MaxUnits = 1
  BufferSize = 1
PROPERTIES
  StreamStops
CHECK_DEADLOCK FALSE
