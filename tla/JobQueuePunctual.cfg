SPECIFICATION Spec
CONSTANTS
  j1 = j1
  j2 = j2
  w1 = w1
  w2 = w2
  s1 = s1
  s2 = s2
  k1 = k1
  Jobs = {j1, j2}
  Workers = {w1, w2}
  Slots = {s1, s2}
  Keys = {k1}
  WorkerOf <- OneSlotEach
  KeyOf <- SameResource
  Handled = {j1, j2}
  MaxAttempts = 2
  Lease = 2
  Backoff = 1
  Punctual = TRUE
  Stable = {}
  NoKey = NoKey
  NoJob = NoJob
  NoWorker = NoWorker
SYMMETRY WorkersAndJobsSwap
INVARIANT HandlersExclusive
