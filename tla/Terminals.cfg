SPECIFICATION FairSpec
CONSTANTS
  a = a  b = b  c = c
  ann = ann  bea = bea
  NoName = NoName  NoKey = NoKey  Nobody = Nobody  Stray = Stray  Garbled = Garbled
  Terminal = {a, b, c}
  Name = {ann, bea}
  Nick <- OneAnn
  Typed <- Whisperer
  Watching = {b}
  Backlog <- OneTimer
  Mortal = {b}
  MaxTyped <- TwoWhispers
INVARIANTS
  TypeOK
  WhispersInOrder
  SealedAsPublished
  ReadByAddressee
  UnreadableHasReason
PROPERTIES
  ImplementsSealedMail
  WhisperSettles
  SidebarsConverge
CHECK_DEADLOCK FALSE
