\* Two processes and a lock that a third one has left behind.
CONSTANTS
  p1 = p1
  p2 = p2
  f1 = f1
  f2 = f2
  f3 = f3
  f4 = f4
  f5 = f5
  c1 = c1
  c2 = c2
  asterism = asterism
  other = other
  NoFile = NoFile
  NoToken = NoToken
  NoIssuer = NoIssuer
  Process <- TwoProcesses
  File <- FiveFiles
  Chain <- TwoChains
  Issuer <- TwoIssuers
  MaxRefresh = 3
  MaxCommands = 2
  MaxCrashes = 1
SPECIFICATION FairSpec
INVARIANTS
  OneHolder
  SpentOnlyOnce
  SentToItsIssuer
PROPERTY
  CommandsEnd
CHECK_DEADLOCK FALSE
