SPECIFICATION FairSpec
CONSTANTS
  MaxSteps = 3
  MaxTurns = 3
  MaxExpiries = 1
PROPERTIES
  DriveEnds
CHECK_DEADLOCK FALSE
