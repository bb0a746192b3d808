SPECIFICATION FairSpec
CONSTANTS
  MaxSteps = 2
  MaxSeconds = 1
  MaxIterations = 2
  MaxBatch = 2
  MaxEvents = 5
  MaxAborts = 1
  MaxTime = 2
INVARIANTS
  TypeOK
  SessionBudget
  DriverMissesNothing
  ReportedArtifactsExist
PROPERTIES
  SpentIsSpent
  LateIsLate
  KeepsTheLoop
  DriveEnds
  GoalIsAnswered
CHECK_DEADLOCK FALSE
