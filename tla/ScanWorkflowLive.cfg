SPECIFICATION FairSpec
CONSTANTS
  p = p
  c1 = c1
  c2 = c2
  s1 = s1
  s2 = s2
  r1 = r1
  r2 = r2
  Parent = p
  Children = {c1}
  MaxAttempts = 2
  Slots = {s1}
  Monitor = Monitor
  Readers = {r1}
  Late = TRUE
  Errors = {s1, Monitor}
  Stable = {s1}
  NoJob = NoJob
  NoSlot = NoSlot
PROPERTIES ReadsConverge
