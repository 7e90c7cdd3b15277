SPECIFICATION Spec
CONSTANTS
  W = 2
  INODES = 4
  FIRST = 2
  BLOCKS = 8
  NBLKS = 2
  NDIRECT = 1
  CHUNK = 3
  Name = {"a", "b"}
  Path <- MCPath
  Sizes = {3, 6}
  Commands = 7
  Depth = 2
INVARIANTS
  BlocksAccounted
  InodesAccounted
  TreeOK
