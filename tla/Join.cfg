SPECIFICATION FairSpec
CONSTANTS
  n1 = n1  n2 = n2  n3 = n3
  Node = {n1, n2, n3}
  Seeds <- OneSeed
  Meshed = {}
  Dead = {}
  Timers = {"gossip", "check"}
  Timeout = 1
  MaxBreaks = 0
  MaxCrashes = 0
INVARIANTS
  NoFalseAlarm
  AliveIsVouchedFor
PROPERTIES
  MeshForms
CHECK_DEADLOCK FALSE
