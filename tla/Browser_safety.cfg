\* Two shares, two paths, two files opened, two saves.
CONSTANTS
  s1 = s1
  s2 = s2
  x = x
  y = y
  NoShare = NoShare
  NoPath = NoPath
  NoFile = NoFile
  Share <- TwoShares
  Path <- TwoPaths
  MaxOpens = 2
  MaxSaves = 2
SPECIFICATION FairSpec
INVARIANTS
  TypeOK
  ShownUnderItsPath
  TreeIsOfShare
  EditsAreUndisturbed
PROPERTIES
  BusyEnds
CHECK_DEADLOCK FALSE
