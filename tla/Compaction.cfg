CONSTANTS
  SessionIds = {s1}
  Project = p1
  Handlers = {h1, h2}
  Mode = "subagent"
  MinObservations = 1
  MaxBlockAttempts = 1
  AttemptTTL = 1
  MaxTime = 2
  MaxObservations = 1
  MaxMemories = 1
  MaxAttempts = 1
SPECIFICATION LiveSpec
INVARIANTS TypeOK BlocksBounded LateStopPasses
PROPERTIES AttemptsSettleOnce CompletedBySave AgentStops
