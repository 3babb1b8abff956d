CONSTANTS
  SessionIds = {s1, s2}
  Projects = {p1}
  Hashes = {x1}
  Handlers = {h1, h2}
  Routes = {"capture", "start", "end"}
  DedupWindow = 2
  MaxTime = 2
SPECIFICATION Spec
INVARIANTS TypeOK DedupWindowKept CountsAgree AckedIsStored
PROPERTIES ImplementsLog SessionKeepsOrigin
SYMMETRY Symmetry
