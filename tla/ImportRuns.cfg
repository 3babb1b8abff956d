CONSTANTS
  e1 = e1
  e2 = e2
  s1 = s1
  s2 = s2
  Lines <- MCLines
  SessionOf <- MCSessionOf
  SourceTime <- MCSourceTime
  Project = p1
  Importers = {i1, i2}
  MaxTime = 2
  MaxStops = 2
SPECIFICATION LiveSpec
INVARIANTS RecordedIsStored DoneIsComplete CopiesBounded
PROPERTIES AllImported
