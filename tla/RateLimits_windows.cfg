\* The relay's own rate limits: what a window lets through, refuses and logs.
CONSTANTS
  undefined = undefined
  NoTime = undefined
  Limit <- MCLimit
  Window = 2
  MsgWindow = 3
  MsgMax = 1
  MaxTime = 5
  MaxCalls = 5
SPECIFICATION Spec
INVARIANTS
  AtMostLimit
  RefusedOnlyWhenFull
  FloodIsLogged
  BurstIsBounded
\* The clock and the calls are bounded.
CHECK_DEADLOCK FALSE
