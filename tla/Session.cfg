SPECIFICATION FairSpec
CONSTANTS
  MaxSessions = 2
  MaxCrashes = 1
INVARIANTS
  TypeOK
  NoOrphan
  StopMeansStopped
PROPERTIES
  ContainerFollowsSession
  LostManagerEndsSession
  StopEnds
