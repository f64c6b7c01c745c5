SPECIFICATION MCSpec
CONSTANTS
  p1 = p1
  p2 = p2
  c1 = c1
  sub = sub
  root = root
  i1 = i1
  Projects = {p1, p2}
  Dirs = {sub, root}
  Path <- MCPath
  Clones = {c1}
  Identities = {i1}
  Identity <- MCIdentity
  Target <- MCTarget
  MaxRuns = 2
  MaxAttempts = 2
  Local = Local
  NoRow = NoRow
CHECK_DEADLOCK FALSE
INVARIANT SupersededOnly
