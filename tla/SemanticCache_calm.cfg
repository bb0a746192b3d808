SPECIFICATION Spec
CONSTANTS
  p1 = p1
  p2 = p2
  p3 = p3
  p4 = p4
  t1 = t1
  t2 = t2
  Procs = {p1, p2}
  Enabled = {p1, p2}
  Usable = {p1, p2}
  Tasks = {t1, t2}
  Requests <- TwoModels
  Dim <- OneEmbedder
  Tag <- TagOf
  Sim <- SimRounded
  Threshold = 99
  MaxAsks = 4
  MaxFaults = 0
SYMMETRY Symmetry
INVARIANTS
  RepeatSkipsTheModel
  ServedIsSimilar
PROPERTIES
  IdenticalIsServed
CHECK_DEADLOCK FALSE
