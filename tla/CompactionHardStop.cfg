CONSTANTS
  SessionIds = {s1}
  Project = p1
  Handlers = {h1, h2}
  Mode = "subagent"
  MinObservations = 1
  MaxBlockAttempts = 1
  AttemptTTL = 1
  MaxTime = 2
  MaxObservations = 1
  MaxMemories = 0
  MaxAttempts = 2
SPECIFICATION Spec
INVARIANTS HardStop
SYMMETRY Symmetry
