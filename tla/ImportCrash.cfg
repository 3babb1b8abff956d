CONSTANTS
  e1 = e1
  e2 = e2
  s1 = s1
  s2 = s2
  Lines <- MCLines
  SessionOf <- MCSessionOf
  SourceTime <- MCSourceTime
  Project = p1
  Importers = {i1}
  MaxTime = 1
  MaxStops = 1
SPECIFICATION Spec
INVARIANTS ImportedOnce
