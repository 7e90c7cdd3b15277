SPECIFICATION Spec
CONSTANTS
  Name = {"a", "b"}
  RAMFS_MAX_FILES = 3
  RAMFS_MAX_DIRENT = 4
  DIRENT_SIZE = 2
  PAGE_SIZE = 1
  NULL = NULL
  Proc <- TreeProc
  InitProc = 1
  NFILES = 1
  FileId <- TreeFileId
  Path <- TreePath
  OFlags <- TreeOFlags
  MaxPos = 0
  MaxDirPos = 2
  MaxLeaks = 1
INVARIANTS
  VnodeRefs
  LinkCounts
  ParentLinks
PROPERTIES
  HeldInodeIsKept
