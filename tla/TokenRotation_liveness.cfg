\* Abandoned rotations are revoked, a valid token reconnects.
CONSTANTS
  t0 = t0
  t1 = t1
  t2 = t2
  c1 = c1
  c2 = c2
  Token <- TwoTokens
  Conn <- TwoConns
  InitialToken = t0
  NoToken = NoToken
  NoConn = NoConn
  MaxReplies = 1
SPECIFICATION FairSpec
PROPERTIES
  AbandonedRotationIsRevoked
  ValidTokenReconnects
