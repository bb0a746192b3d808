SPECIFICATION Spec
CONSTANTS
  p1 = p1
  p2 = p2
  p3 = p3
  f1 = f1
  s1 = s1
  any = any
  Procs = {p1}
  Folders = {f1}
  Servers = {s1}
  Verbs <- VerbsOf
  Planes <- TwoPlanes
  Plane <- PlaneOf
  AnyPlane = any
  MaxEdits = 1
INVARIANTS
  OnlyListedVerbs
CHECK_DEADLOCK FALSE
