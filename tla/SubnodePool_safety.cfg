\* Two users, recreated and blocked accounts, up to two workers each, a cap of
\* one subnode, three requests.
CONSTANTS
  r1 = r1
  r2 = r2
  r3 = r3
  w1 = w1
  w2 = w2
  w3 = w3
  s1 = s1
  s2 = s2
  a = a
  b = b
  a1 = a1
  a2 = a2
  a3 = a3
  b1 = b1
  NoSubnode = NoSubnode
  NoIdentity = NoIdentity
  Request <- ThreeRequests
  Worker <- ThreeWorkers
  Subnode <- TwoSubnodes
  User <- TwoUsers
  Identity <- Accounts
  UserOf <- Names
  UidBlocked <- BlockedUids
  Max = 2
  Limit = 1
SPECIFICATION Spec
SYMMETRY Interchangeable
INVARIANTS
  WorkersRunAsRequester
  SubnodeWithinMax
  NoRequestIsLost
  QueueWaitsForBusyWorkers
PROPERTIES
  AnsweredIsNotStarted
\* The requests are finitely many, and the hub stops.
CHECK_DEADLOCK FALSE
