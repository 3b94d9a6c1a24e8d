\* Two operations at once on two files or directories, and a third destination.
CONSTANTS
  o1 = o1
  o2 = o2
  i1 = i1
  i2 = i2
  i3 = i3
  i4 = i4
  a = a
  b = b
  c = c
  x = x
  v = v
  w = w
  None = None
  Dir = Dir
  Link = Link
  File = File
  NoInode = NoInode
  Name <- Names
  Op <- TwoOps
  Path <- Paths
  Request <- Requests
  Inode <- FourInodes
  InitialTree <- Trees
SPECIFICATION FilesSpec
SYMMETRY Interchangeable
PROPERTIES
  MovesLoseNothing
  AnswersAreTrue
\* Operations are finitely many; a deadlock is the end of a run.
CHECK_DEADLOCK FALSE
