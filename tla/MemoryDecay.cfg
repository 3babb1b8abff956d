CONSTANTS
  Texts = {t1}
  Workers = {w1}
  Decayers = {d1, d2}
  Tools = {"add", "update", "touch", "forget", "decay"}
  Tiers = {TRUE, FALSE}
  MinImportance = 1
  MaxImportance = 2
  EmbedLimit = 2
  MaxTime = 2
  MaxMemories = 2
  MaxEvents = 2
SPECIFICATION LiveSpec
INVARIANTS TypeOK
PROPERTIES Evicts DecayLowers
