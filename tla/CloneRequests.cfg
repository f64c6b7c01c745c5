SPECIFICATION MCSpec
CONSTANTS
  a = a
  b = b
  again = again
  p = p
  q = q
  pAgain = pAgain
  i1 = i1
  i2 = i2
  d1 = d1
  key = key
  Requests = {a, b, again, p, q, pAgain}
  Clones = {a, b, again}
  Identities = {i1, i2}
  Targets = {d1}
  Identity <- MCIdentity
  Target <- MCTarget
  PullRow <- MCPullRow
  ByPath = {a, again}
  IdemKey <- MCIdemKey
  MaxAttempts = 2
  Local = Local
  NoCard = NoCard
  NoRow = NoRow
  NoIdem = NoIdem
  Nobody = Nobody
CHECK_DEADLOCK FALSE
INVARIANTS TypeOK ClonesKeepApart CardsFollowClones OneWriterPerDirectory AcceptedTruthfully
PROPERTIES DirectoriesKept NothingLeftReserved
