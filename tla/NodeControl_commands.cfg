\* Commands of the CLI beside a daemon that comes and goes.
CONSTANTS
  a = a
  b = b
  e = e
  d = d
  c1 = c1
  c2 = c2
  none = none
  NoToken = none
  NoCli = none
  Token = {a, b, e}
  First = a
  Daemon = d
  Cli = {c1, c2}
  Commands <- MCCommands
  MaxStops = 1
SPECIFICATION ControlSpec
INVARIANTS
  NeverOnlyDead
PROPERTIES
  SuccessRetires
  CommandsEnd
\* The commands are finitely many, and the daemon may be gone for good.
CHECK_DEADLOCK FALSE
