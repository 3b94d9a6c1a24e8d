\* Calls routed by what the relay knows, run by what the executors allow.
CONSTANTS
  n = n
  h = h
  k = k
  u = u
  v = v
  s = s
  t = t
  d = d
  e = e
  link = link
  c1 = c1
  c2 = c2
  g = g
  NoShare = NoShare
  NoEnvelope = NoEnvelope
  AnyHost = AnyHost
  NoExecutor = NoExecutor
  Node <- MCNode
  Hub <- MCHub
  User <- MCUser
  Share <- MCShare
  Path <- MCPath
  Real <- MCReal
  Call <- MCCall
  GroupsOf <- MCGroups
  Configs <- MCConfigs
  OwnerOf <- MCOwner
  Filters <- MCFilters
  Requests <- MCRequests
  MaxChanges = 2
SPECIFICATION Spec
INVARIANTS
  RunsWhereAllowed
  CompletedIsAudited
\* The calls are finitely many, and so are the changes.
CHECK_DEADLOCK FALSE
