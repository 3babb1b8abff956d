CONSTANTS
  Texts = {t1, t2}
  Workers = {w1, w2}
  Decayers = {d1}
  Tools = {"add", "update", "supersede", "forget", "decay", "embed", "rebuild"}
  Tiers = {FALSE}
  MinImportance = 1
  MaxImportance = 1
  EmbedLimit = 2
  MaxTime = 1
  MaxMemories = 2
  MaxEvents = 3
SPECIFICATION Spec
INVARIANTS FtsMatches ReferencesHold AuditIsHistory EmbeddingIsOwn
PROPERTIES ImplementsBank RebuildRestores
SYMMETRY Symmetry
