SPECIFICATION Spec
CONSTANTS
  p1 = p1
  p2 = p2
  p3 = p3
  p4 = p4
  Procs = {p1, p2, p3}
  Sees <- SameSpace
  Stopping = {p1}
  NoProc = NoProc
  NoFile = NoFile
CHECK_DEADLOCK FALSE
INVARIANT OneHolder
