SPECIFICATION MCSpec
CONSTANTS
  r1 = r1
  r2 = r2
  a = a
  b = b
  c = c
  d = d
  e = e
  s = s
  w1 = w1
  w2 = w2
  w3 = w3
  Paths = {r1, r2, a, b, c, d, e, s}
  Roots = {r1, r2}
  Parent <- Tree
  Inside <- Under
  OnDisk = {r1, r2, a, b, c, e, s}
  Steady = {r1, r2, a, b, c, s}
  Terraform = {a, c, e, s}
  Skipped = {s}
  Workers = {w1, w2}
  MaxAttempts = 2
  NoPath = NoPath
CHECK_DEADLOCK FALSE
INVARIANTS TypeOK RegistryMatchesDisk NobodyLeavesEarly
PROPERTIES ProjectsKept AttemptReturns
