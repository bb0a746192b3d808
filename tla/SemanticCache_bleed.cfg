SPECIFICATION Spec
CONSTANTS
  p1 = p1
  p2 = p2
  p3 = p3
  p4 = p4
  t1 = t1
  t2 = t2
  Procs = {p1, p2}
  Enabled = {p1, p2}
  Usable = {p1, p2}
  Tasks = {t1, t2}
  Requests <- Siblings
  Dim <- OneEmbedder
  Tag <- TagOf
  Sim <- SimNear
  Threshold = 97
  MaxAsks = 2
  MaxFaults = 0
INVARIANTS
  NeverBleeds
CHECK_DEADLOCK FALSE
