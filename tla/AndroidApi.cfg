SPECIFICATION FairSpec
CONSTANTS
  Calls = {l1, l2}
  Methods <- MCMethods
  Method <- MCMethod
  MaxChannels = 2
  SocketRoom = 1
INVARIANTS
  TypeOK
  NothingCountedTwice
  WokenMeansSettled
  LateWritesFollowTimeouts
  KnownIdsOnly
PROPERTIES
  CallsReturn
