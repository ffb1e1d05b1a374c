SPECIFICATION Spec
CONSTANTS
  a = a  b = b  c = c
  ann = ann  bea = bea
  NoName = NoName  NoKey = NoKey  Nobody = Nobody  Stray = Stray  Garbled = Garbled
  Terminal = {b, c}
  Name = {ann, bea}
  Nick <- OneAnn
  Typed <- Silent
  Watching = {}
  Backlog <- Never
  Mortal = {}
  MaxTyped <- Never
INVARIANTS
  QueryIsNoName
CHECK_DEADLOCK FALSE
