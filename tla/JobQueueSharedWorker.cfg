SPECIFICATION Spec
CONSTANTS
  j1 = j1
  j2 = j2
  w1 = w1
  w2 = w2
  s1 = s1
  s2 = s2
  k1 = k1
  Jobs = {j1}
  Workers = {w1, w2}
  Slots = {s1, s2}
  Keys = {k1}
  WorkerOf <- SharedWorker
  KeyOf <- OneResource
  Handled = {j1}
  MaxAttempts = 2
  Lease = 1
  Backoff = 1
  Punctual = FALSE
  Stable = {w1, w2}
  NoKey = NoKey
  NoJob = NoJob
  NoWorker = NoWorker
INVARIANT QueuedIsClaimable
