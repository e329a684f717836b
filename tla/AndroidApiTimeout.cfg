SPECIFICATION Spec
CONSTANTS
  Calls = {l1, l2}
  Methods <- MCMethods
  Method <- MCMethod
  MaxChannels = 1
  SocketRoom = 1
INVARIANTS
  TimeoutReported
