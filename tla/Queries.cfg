CONSTANTS
  Ids = {1, 2, 3}
  Word = word
  Near = near
  Texts = {word, near}
  Bm25 <- WordScores
  Cosine <- Cosines
  S1 = s1
  SessionIds = {s1, s2}
  Query = {"search", "context", "enrich", "history", "timeline", "export", "verify"}
  Visible <- VisibleWrites
  BM25TopK = 3
  VectorTopK = 2
  FinalTopK = 2
  SearchLimit = 2
  ReadLimit = 2
  SessionLimit = 1
  VerifyLimit = 3
  ScanLimit = 2
  RRFK = 60
  MaxPerSession = 1
  MaxRank = 3
SPECIFICATION Spec
INVARIANTS FusionIsRight NothingHidden SteadyIsFound ExportCloses VerifyExplains TimelineCuts
