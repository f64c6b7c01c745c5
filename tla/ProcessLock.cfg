SPECIFICATION FairSpec
CONSTANTS
  p1 = p1
  p2 = p2
  p3 = p3
  p4 = p4
  Procs = {p1, p2, p3, p4}
  Sees <- SameSpace
  Stopping = {p1, p2, p3, p4}
  NoProc = NoProc
  NoFile = NoFile
CHECK_DEADLOCK FALSE
INVARIANTS TypeOK AtMostOneHolder HolderIsDiscoverable
PROPERTIES StaleLockReplaced
