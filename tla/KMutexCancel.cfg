SPECIFICATION Spec
CONSTANTS
  t1 = t1
  t2 = t2
  t3 = t3
  KmWaitQ  = km_waitq
  DevQ     = devq
  RunQ     = kt_runq
  NoQueue  = NoQueue
  NoThread = NoThread
  Thread     <- MCThread
  WaitQueue  <- MCWaitQueue
  StartOrder <- MCStartOrder
INVARIANT
  EINTRMeansNotHolder
CHECK_DEADLOCK FALSE
