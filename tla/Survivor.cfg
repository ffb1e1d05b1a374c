SPECIFICATION FairSpec
CONSTANTS
  n1 = n1  n2 = n2  n3 = n3
  Node = {n1, n2}
  Seeds <- OneSeed
  Meshed = {}
  Dead = {}
  Timers = {"gossip", "heartbeat", "check"}
  Timeout = 3
  MaxBreaks = 1
  MaxCrashes = 1
INVARIANTS
  KnownIsDialled
PROPERTIES
  MeshForms
  DeadPeerReported
CHECK_DEADLOCK FALSE
