SPECIFICATION FairSpec
CONSTANTS
  MaxSessions = 1
  MaxCrashes = 0
PROPERTIES
  ExitCompletes
