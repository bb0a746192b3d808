SPECIFICATION FairSpec
CONSTANTS
  MaxSteps = 5
  MaxTurns = 4
  MaxExpiries = 2
PROPERTIES
  EndsUnlessACallIsServed
CHECK_DEADLOCK FALSE
