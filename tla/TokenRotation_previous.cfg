\* When the daemon drops previous_node_token.
CONSTANTS
  t0 = t0
  t1 = t1
  t2 = t2
  c1 = c1
  c2 = c2
  Token <- ThreeTokens
  Conn <- TwoConns
  InitialToken = t0
  NoToken = NoToken
  NoConn = NoConn
  MaxReplies = 1
SPECIFICATION UnattendedSpec
INVARIANT
  DiskHoldsALiveToken
