CONSTANTS
  SessionIds = {s1, s2}
  Parts = {c1}
  FileIds = {f1, f2, f3}
  FileLists <- OneFile
  Handlers = {h1, h2}
  MaxStash = 2
  MaxEnrich = 1
  MaxThrows = 1
  None = None
  ASession = s1
  AFile = f1
SPECIFICATION LiveSpec
INVARIANTS ObservedOnce InstructionsBounded
PROPERTIES ActiveKept FilesLeaveNamed FilesAreNamed
CHECK_DEADLOCK FALSE
