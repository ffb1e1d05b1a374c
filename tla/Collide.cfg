SPECIFICATION Spec
CONSTANTS
  n1 = n1  n2 = n2  n3 = n3
  a = a  b = b  c = c
  ann = ann  bea = bea
  k1 = k1  k2 = k2
  Absent = Absent  Remote = Remote  NoName = NoName  NoKey = NoKey
  Node = {n1, n2}
  Session = {a, b, c}
  Name = {ann, bea}
  Key = {k1}
  Host <- TwoHosts
  Wish <- WishContended
  Keyring <- NoKeys
  Linked <- AllLinked
  Typed <- Meddler
  MaxLines = 1
  MaxFaults = 0
INVARIANTS
  LocalEntryHasOwner
  OwnershipInv
  NoKickBeforeLogin
  WhisperReachesAddressee
PROPERTIES
  ImplementsNameTable
CHECK_DEADLOCK FALSE
