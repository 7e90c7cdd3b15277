SPECIFICATION FairSpec
CONSTANTS
  t1 = t1
  t2 = t2
  t3 = t3
  DiskQ    = disk
  TtyQ     = tty
  RunQ     = kt_runq
  NoQueue  = NoQueue
  NoThread = NoThread
  Thread    <- MCThread
  WaitQueue <- Device
INVARIANTS
  NoThreadLost
  LevelsProtect
PROPERTY
  DiskIOReturns
