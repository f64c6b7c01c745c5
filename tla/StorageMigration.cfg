SPECIFICATION Spec
CONSTANTS
  a = a
  b = b
  c = c
  m = m
  card = card
  project = project
  Dbs = {a, b, c}
  Ctls = {m}
  Facts = {card, project}
  Group <- CardAndProject
  Refers <- Pair
  Follow = TRUE
  Initial = Initial
  None = None
SYMMETRY DbsSwap
INVARIANTS TypeOK NothingLost KeysDescribe
PROPERTIES SwitchIsComplete
