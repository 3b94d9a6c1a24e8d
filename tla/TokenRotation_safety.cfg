\* Every interleaving of rotation, upgrade, adoption, expiry, prune, owner
\* requests and crashes, with two rotations and two connections.
CONSTANTS
  t0 = t0
  t1 = t1
  t2 = t2
  c1 = c1
  c2 = c2
  Token <- ThreeTokens
  Conn <- TwoConns
  InitialToken = t0
  NoToken = NoToken
  NoConn = NoConn
  MaxReplies = 1
SPECIFICATION Spec
SYMMETRY Interchangeable
INVARIANTS
  TypeOK
  ReferencedTokenNeverExpires
  OnePendingRotation
  ClaimedOnce
  LateRevocationsAreHarmless
PROPERTIES
  OnlyTheOwnerRevokesInPlace
