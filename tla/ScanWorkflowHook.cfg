SPECIFICATION Spec
CONSTANTS
  p = p
  c1 = c1
  c2 = c2
  s1 = s1
  s2 = s2
  r1 = r1
  r2 = r2
  Parent = p
  Children = {c1}
  MaxAttempts = 1
  Slots = {s1}
  Monitor = Monitor
  Readers = {r1}
  Late = FALSE
  Errors = {}
  Stable = {s1}
  NoJob = NoJob
  NoSlot = NoSlot
INVARIANT ScanFollowsJobs
