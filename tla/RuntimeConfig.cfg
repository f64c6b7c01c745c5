SPECIFICATION FairSpec
CONSTANTS
  core = core
  web = web
  p1 = p1
  p2 = p2
  r1 = r1
  r2 = r2
  g1 = g1
  q1 = q1
  q2 = q2
  Modules = {core, web}
  Available = {core}
  Faulty = {core}
  Paths = {p1, p2}
  RootIds = {r1, r2}
  Patterns = {g1}
  Procs = {q1, q2}
  Stable = {q1}
  MaxImports = 2
  MaxPuts = 1
  None = None
INVARIANTS TypeOK NobodyLeftBetween
PROPERTIES RequestsOwnTheirs RootsConverge
CONSTRAINT OneTable
