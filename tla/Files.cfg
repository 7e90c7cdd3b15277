SPECIFICATION Spec
CONSTANTS
  Name = {"a"}
  RAMFS_MAX_FILES = 2
  RAMFS_MAX_DIRENT = 3
  DIRENT_SIZE = 2
  PAGE_SIZE = 1
  NULL = NULL
  Proc <- MCProc
  InitProc = 1
  NFILES = 2
  FileId <- MCFileId
  Path <- FdPath
  OFlags <- FdOFlags
  MaxPos = 2
  MaxDirPos = 2
  MaxLeaks = 1
INVARIANTS
  FileRefs
  OnlyKnownCrashes
