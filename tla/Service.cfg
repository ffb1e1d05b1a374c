SPECIFICATION FairSpec
CONSTANTS
  n1 = n1  n2 = n2  n3 = n3
  a = a  b = b  c = c
  ann = ann  bea = bea
  k1 = k1  k2 = k2
  Absent = Absent  Remote = Remote  NoName = NoName  NoKey = NoKey
  Node = {n1, n2}
  Session = {a, b}
  Name = {ann, bea}
  Key = {k1}
  Host <- TwoHosts
  Wish <- WishApart
  Keyring <- NoKeys
  Linked <- AllLinked
  Typed <- Everyday
  MaxLines = 1
  MaxFaults = 0
PROPERTIES
  RequestAnswered
  KickReleases
  LineDelivered
CHECK_DEADLOCK FALSE
