SPECIFICATION Spec
CONSTANTS
  a = a
  b = b
  c = c
  m = m
  card = card
  project = project
  Dbs = {a, b, c}
  Ctls = {m}
  Facts = {card, project}
  Group <- CardAndProject
  Refers <- Pair
  Follow = FALSE
  Initial = Initial
  None = None
INVARIANT NothingLost
