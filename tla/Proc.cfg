SPECIFICATION FairSpec
CONSTANTS
  PROC_MAX_COUNT = 6
  BlockingCleanup = FALSE
  DiskQ     = disk
  TtyQ      = tty
  PageoutdQ = pageoutd_waitq
  RunQ      = kt_runq
  NoQueue   = NoQueue
  NoThread  = NoThread
  Thread    <- MCThread
  WaitQueue <- MCWaitQueue
INVARIANTS
  FamilyTree
  NoHopelessWait
  NoPanic
PROPERTIES
  ZombiesAwaitTheirParent
  ShutdownCompletes
