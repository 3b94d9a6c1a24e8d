\* Two calls to an executor that connects twice.
CONSTANTS
  n = n
  c1 = c1
  c2 = c2
  k1 = k1
  k2 = k2
  NoConn = NoConn
  NoExecutor = NoExecutor
  Executor <- OneExecutor
  Conn <- TwoConns
  OwnerOf <- Owners
  Call <- TwoCalls
  MaxMissed = 1
SPECIFICATION Spec
INVARIANTS
  PendingIsConnected
  LiveIsRegistered
PROPERTIES
  CallsAreKept
  HalfOpenIsDetected
\* Connections and calls are finitely many; a deadlock is the end of a run.
CHECK_DEADLOCK FALSE
