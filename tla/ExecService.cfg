SPECIFICATION FairSpec
CONSTANTS
  c1 = c1
  c2 = c2
  f1 = f1
  Calls <- TwoCalls
  Files <- OneFile
  Ops <- AllOps
  MaxPids = 3
  MaxFaults = 1
INVARIANTS
  TypeOK
  WritesAreReadWhole
  ShellEndsWithItsAnswer
  ReadErrorsAreRaces
PROPERTIES
  WrittenIsThere
  CallsReturn
  ShellsEnd
CHECK_DEADLOCK FALSE
