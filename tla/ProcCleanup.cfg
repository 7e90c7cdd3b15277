SPECIFICATION Spec
CONSTANTS
  PROC_MAX_COUNT = 5
  BlockingCleanup = TRUE
  DiskQ     = disk
  TtyQ      = tty
  PageoutdQ = pageoutd_waitq
  RunQ      = kt_runq
  NoQueue   = NoQueue
  NoThread  = NoThread
  Thread    <- MCThread
  WaitQueue <- MCWaitQueue
PROPERTIES
  NotReapedAlive
CHECK_DEADLOCK FALSE
