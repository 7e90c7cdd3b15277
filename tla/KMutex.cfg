SPECIFICATION FairSpec
CONSTANTS
  t1 = t1
  t2 = t2
  t3 = t3
  KmWaitQ  = km_waitq
  DevQ     = devq
  RunQ     = kt_runq
  NoQueue  = NoQueue
  NoThread = NoThread
  Thread     <- MCThread
  WaitQueue  <- MCWaitQueue
  StartOrder <- MCStartOrder
INVARIANTS
  TypeOK
  NoThreadLost
  MutualExclusion
  HandOff
PROPERTIES
  LockCallsReturn
  ImplementsLock
CHECK_DEADLOCK FALSE
