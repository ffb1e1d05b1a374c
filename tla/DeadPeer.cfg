SPECIFICATION FairSpec
CONSTANTS
  n1 = n1  n2 = n2  n3 = n3
  Node = {n1, n2, n3}
  Seeds <- OneSeed
  Meshed = {n1, n2, n3}
  Dead = {n3}
  Timers = {"gossip", "heartbeat", "check"}
  Timeout = 3
  MaxBreaks = 0
  MaxCrashes = 0
PROPERTIES
  DeadPeerReported
CHECK_DEADLOCK FALSE
