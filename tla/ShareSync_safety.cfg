\* Two nodes, two shares, two config_updates in progress at once.
CONSTANTS
  n = n
  m = m
  x = x
  y = y
  u1 = u1
  u2 = u2
  MaxEdits = 2
  NoNode = NoNode
  NoRow = NoRow
  Untouched = Untouched
  Node <- TwoNodes
  Share <- TwoShares
  Update <- TwoUpdates
SPECIFICATION Spec
SYMMETRY Interchangeable
INVARIANT
  TypeOK
PROPERTIES
  OwnerKeepsItsShares
  LoneUpdateReplaces
