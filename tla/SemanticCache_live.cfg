SPECIFICATION FairSpec
CONSTANTS
  p1 = p1
  p2 = p2
  p3 = p3
  p4 = p4
  t1 = t1
  t2 = t2
  Procs = {p1, p2, p3, p4}
  Enabled = {p1, p2, p3}
  Usable = {p1, p2, p4}
  Tasks = {t1, t2}
  Requests <- TwoAgents
  Dim <- FourSetups
  Tag <- TagOf
  Sim <- SimFar
  Threshold = 97
  MaxAsks = 2
  MaxFaults = 2
PROPERTIES
  AskedIsAnswered
  FailsOpen
CHECK_DEADLOCK FALSE
