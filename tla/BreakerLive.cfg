CONSTANTS
  Callers = {c1, c2}
  Threshold = 2
  Cooldown = 2
SPECIFICATION LiveSpec
PROPERTIES Recovers
