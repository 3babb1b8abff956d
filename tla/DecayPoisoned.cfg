CONSTANTS
  Texts = {t1}
  Workers = {w1}
  Decayers = {d1}
  Tools = {"add", "supersede", "decay"}
  Tiers = {TRUE, FALSE}
  MinImportance = 1
  MaxImportance = 1
  EmbedLimit = 2
  MaxTime = 2
  MaxMemories = 2
  MaxEvents = 3
SPECIFICATION LiveSpec
PROPERTIES Evicts
