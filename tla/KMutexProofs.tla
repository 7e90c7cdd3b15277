---------------------------- MODULE KMutexProofs ----------------------------
(***************************************************************************)
(* The safety of KMutex for every set of threads: no thread is lost, at    *)
(* most one thread is in the critical section, and the mutex implements    *)
(* the lock of MutexSpec.                                                  *)
(***************************************************************************)
EXTENDS KMutex, SchedProofs

\* While threads sleep on km_waitq the mutex has a holder.
WaitersGuarded ==
  (\E t \in Thread : sched.kt_wchan[t] = KmWaitQ) => km_holder # NoThread

\* Mutual exclusion is not inductive: a woken waiter enters without a check,
\* so one must know that it was made the holder when it was woken (HandOff),
\* that cancelling reaches no waiter of kmutex_lock (HandOff), and that a
\* mutex with waiters is never free for the taking (WaitersGuarded).
MutexInv == MutualExclusion /\ HandOff /\ WaitersGuarded

IInv == TypeOK /\ NoThreadLost /\ MutexInv

-----------------------------------------------------------------------------

LEMMA IInvFacts ==
  ASSUME IInv
  PROVE  /\ Sound(sched)
         /\ sched.tq_list \in [Queue -> Seq(Thread)]
         /\ sched.kt_wchan \in [Thread -> Queue \cup {NoQueue}]
         /\ sched.kt_state \in [Thread -> KtState]
         /\ sched.kt_cancelled \in [Thread -> BOOLEAN]
         /\ pc \in [Thread -> Place]
         /\ km_holder \in Thread \cup {NoThread}
         /\ sched.curthr \in Thread => sched.kt_wchan[sched.curthr] = NoQueue
BY DEF IInv, TypeOK, NoThreadLost, QueueDiscipline, Sound, WellFormed,
       SchedState, Accounted

LEMMA QueueFacts ==
  /\ KmWaitQ \in WaitQueue /\ DevQ \in WaitQueue
  /\ KmWaitQ \in Queue /\ DevQ \in Queue /\ RunQ \in Queue
  /\ KmWaitQ # DevQ /\ KmWaitQ # RunQ /\ KmWaitQ # NoQueue
  /\ DevQ # RunQ
  /\ RunQ \notin WaitQueue /\ NoQueue \notin Queue /\ NoThread \notin Thread
BY KMutexAssumption, SchedAssumption DEF Queue

\* A queue is not empty exactly when a thread's kt_wchan names it.
LEMMA WaitersAreListed ==
  ASSUME NEW s, WellFormed(s), NEW q \in Queue
  PROVE  s.tq_list[q] # << >> <=> \E t \in Thread : s.kt_wchan[t] = q
<1>1. s.tq_list[q] \in Seq(Thread)
  BY DEF WellFormed, SchedState
<1>2. ASSUME s.tq_list[q] # << >>
      PROVE  \E t \in Thread : s.kt_wchan[t] = q
  <2>1. PICK h : h = Head(s.tq_list[q])
    OBVIOUS
  <2>2. h \in Thread /\ Contains(s.tq_list[q], h)
    BY <1>1, <1>2, <2>1, TailOfInjective DEF WellFormed, Linked
  <2> QED BY <2>2 DEF WellFormed, Linked
<1>3. ASSUME NEW t \in Thread, s.kt_wchan[t] = q
      PROVE  s.tq_list[q] # << >>
  <2>1. Contains(s.tq_list[q], t)
    BY <1>3 DEF WellFormed, Linked
  <2>2. PICK i \in DOMAIN s.tq_list[q] : s.tq_list[q][i] = t
    BY <1>1, <2>1, LenProperties DEF Contains
  <2> QED BY <1>1, <2>2, EmptySeq
<1> QED BY <1>2, <1>3

\* To keep the invariant, an action must keep the scheduler sound, the types
\* of km_holder and pc, and the conditions on the mutex.
LEMMA IInvNext ==
  ASSUME Sound(sched'), pc' \in [Thread -> Place],
         km_holder' \in Thread \cup {NoThread}, MutexInv'
  PROVE  IInv'
BY DEF IInv, TypeOK, NoThreadLost, QueueDiscipline, Sound, WellFormed

-----------------------------------------------------------------------------
(* The initial state.                                                      *)

LEMMA InitIInv == Init => IInv
<1> SUFFICES ASSUME Init PROVE IInv
  OBVIOUS
<1>1. sched \in SchedState
  <2>1. StartOrder \in Seq(Thread) /\ << >> \in Seq(Thread)
    BY KMutexAssumption
  <2>2. [q \in Queue |-> IF q = RunQ THEN StartOrder ELSE << >>]
          \in [Queue -> Seq(Thread)]
    BY <2>1
  <2> QED BY <2>2 DEF Init, SchedState, Queue, KtState
<1>2. Linked(sched)
  <2>1. ASSUME NEW q \in Queue, q # RunQ
        PROVE  /\ IsInjective(sched.tq_list[q])
               /\ \A t : ~Contains(sched.tq_list[q], t)
    BY <2>1 DEF Init, IsInjective, Contains
  <2>2. IsInjective(sched.tq_list[RunQ])
    BY QueueFacts, KMutexAssumption DEF Init
  <2>3. \A t \in Thread : Contains(sched.tq_list[RunQ], t)
    BY QueueFacts, KMutexAssumption DEF Init
  <2>4. \A t \in Thread : sched.kt_wchan[t] = RunQ
    BY DEF Init
  <2> QED BY <2>1, <2>2, <2>3, <2>4 DEF Linked
<1>3. Accounted(sched)
  BY QueueFacts DEF Init, Accounted, Asleep, KT_RUN, KT_SLEEP,
                    KT_SLEEP_CANCELLABLE
<1>4. TypeOK
  BY <1>1 DEF Init, TypeOK, Place
<1>5. MutexInv
  BY QueueFacts
  DEF Init, MutexInv, MutualExclusion, HandOff, WaitersGuarded, InLock
<1> QED BY <1>2, <1>3, <1>4, <1>5 DEF IInv, NoThreadLost, QueueDiscipline

-----------------------------------------------------------------------------
(* One lemma per action, or per group of actions with the same effect.     *)

\* The CPU switches between threads: Dispatch, Yield, WaitForDevice.
LEMMA DispatchKeepsIInv == IInv /\ Dispatch => IInv'
<1> SUFFICES ASSUME IInv, Dispatch PROVE IInv'
  OBVIOUS
<1>1. PICK t : t = Head(sched.tq_list[RunQ])
  OBVIOUS
<1>2. /\ Sound(sched) /\ sched.curthr = NoThread
      /\ ~sched_queue_empty(sched, RunQ)
      /\ sched' = SwitchIn(sched)
  BY IInvFacts DEF Dispatch
<1>3. /\ Sound(sched')
      /\ t \in Thread
      /\ sched.kt_wchan[t] = RunQ
      /\ Moves(sched, sched', t, NoQueue, KT_RUN)
      /\ KeepsFlags(sched, sched')
  BY <1>1, <1>2, SwitchInIsSound
<1>4. pc' = pc /\ km_holder' = km_holder
  BY DEF Dispatch
<1>5. MutexInv'
  BY <1>3, <1>4, IInvFacts, QueueFacts
  DEF IInv, MutexInv, MutualExclusion, HandOff, WaitersGuarded,
      Moves, KeepsFlags
<1> QED BY <1>3, <1>4, <1>5, IInvFacts, IInvNext

\* Yield and WaitForDevice move the running thread to a queue that is not
\* km_waitq.
LEMMA CPUGivenUp ==
  ASSUME NEW t \in Thread, Yield(t) \/ WaitForDevice(t)
  PROVE  \E q \in Queue, k \in {KT_RUN} \cup Asleep :
           /\ q # KmWaitQ
           /\ q = RunQ <=> k = KT_RUN
           /\ sched' = SleepOn(sched, q, k)
<1>1. CASE Yield(t)
  <2>1. sched' = SleepOn(sched, RunQ, KT_RUN)
    BY <1>1 DEF Yield, sched_make_runnable, SleepOn
  <2> QED BY <2>1, QueueFacts
<1>2. CASE WaitForDevice(t)
  <2>1. sched' = SleepOn(sched, DevQ, KT_SLEEP)
    BY <1>2 DEF WaitForDevice, sched_sleep_on
  <2>2. KT_SLEEP \in Asleep /\ KT_SLEEP # KT_RUN
    BY DEF Asleep, KT_SLEEP, KT_RUN
  <2> QED BY <2>1, <2>2, QueueFacts
<1> QED BY <1>1, <1>2

LEMMA GivingUpTheCPUKeepsIInv ==
  ASSUME NEW t \in Thread, IInv, Yield(t) \/ WaitForDevice(t)
  PROVE  IInv'
<1>1. PICK q \in Queue, k \in {KT_RUN} \cup Asleep :
        /\ q # KmWaitQ
        /\ q = RunQ <=> k = KT_RUN
        /\ sched' = SleepOn(sched, q, k)
  BY CPUGivenUp
<1>2. /\ sched.curthr = t
      /\ pc[t] \in {"outside", "critical"}
      /\ pc' = pc /\ km_holder' = km_holder
  BY DEF Yield, WaitForDevice
<1>3. Sound(sched) /\ sched.curthr = t
  BY <1>2, IInvFacts
<1>4. /\ Sound(sched')
      /\ Moves(sched, sched', t, q, k)
      /\ KeepsFlags(sched, sched')
  BY <1>1, <1>3, LeavingTheCPUIsSound
<1>5. MutexInv'
  <2>1. sched.kt_wchan[t] = NoQueue /\ pc[t] \notin InLock
    BY <1>2, IInvFacts DEF InLock
  <2>2. /\ q # KmWaitQ
        /\ Moves(sched, sched', t, q, k)
        /\ KeepsFlags(sched, sched')
    BY <1>1, <1>4
  <2> QED BY <1>2, <2>1, <2>2, IInvFacts, QueueFacts
          DEF IInv, MutexInv, MutualExclusion, HandOff, WaitersGuarded,
              Moves, KeepsFlags
<1> QED BY <1>2, <1>4, <1>5, IInvFacts, IInvNext

\* The mutex is free and the caller takes it.
LEMMA TakeFreeKeepsIInv ==
  ASSUME NEW t \in Thread, IInv, Runs(t, "outside"), TakeFree(t)
  PROVE  IInv'
<1>1. /\ sched' = sched
      /\ sched.curthr = t
      /\ pc[t] = "outside"
      /\ km_holder = NoThread
      /\ km_holder' = t
      /\ pc' = [pc EXCEPT ![t] = "critical"]
  BY DEF Runs, TakeFree, GoTo
<1>2. sched.kt_wchan[t] = NoQueue
  BY <1>1, IInvFacts
<1>3. MutexInv'
  BY <1>1, <1>2, IInvFacts, QueueFacts
  DEF IInv, MutexInv, MutualExclusion, HandOff, WaitersGuarded,
      Moves, KeepsFlags, InLock
<1> QED BY <1>1, <1>3, IInvFacts, IInvNext DEF Place

\* The mutex is taken and the caller goes to sleep for it.
LEMMA WaitingKeepsIInv ==
  ASSUME NEW t \in Thread, IInv, Runs(t, "outside"),
         km_holder # NoThread, km_holder' = km_holder,
         NEW k \in Asleep, NEW place \in InLock,
         place = "lock" => k = KT_SLEEP,
         sched' = SleepOn(sched, KmWaitQ, k),
         GoTo(t, place)
  PROVE  IInv'
<1>1. /\ sched.curthr = t
      /\ pc[t] = "outside"
      /\ pc' = [pc EXCEPT ![t] = place]
  BY DEF Runs, GoTo
<1>2. /\ Sound(sched) /\ sched.curthr = t
      /\ k \in {KT_RUN} \cup Asleep
      /\ KmWaitQ \in Queue
      /\ KmWaitQ = RunQ <=> k = KT_RUN
  BY <1>1, IInvFacts, QueueFacts
  DEF Asleep, KT_RUN, KT_SLEEP, KT_SLEEP_CANCELLABLE
<1>3. /\ Sound(sched')
      /\ Moves(sched, sched', t, KmWaitQ, k)
      /\ KeepsFlags(sched, sched')
  BY <1>2, LeavingTheCPUIsSound
<1>4. MutexInv'
  BY <1>1, <1>3, IInvFacts, QueueFacts
  DEF IInv, MutexInv, MutualExclusion, HandOff, WaitersGuarded,
      Moves, KeepsFlags, InLock
<1> QED BY <1>1, <1>3, <1>4, IInvFacts, IInvNext DEF Place

\* A lock call returns -EINTR to a cancelled caller.
LEMMA InterruptedKeepsIInv ==
  ASSUME NEW t \in Thread, IInv, sched.curthr = t, sched.kt_cancelled[t],
         pc[t] \in {"outside", "lock_cancellable"}, Interrupted(t)
  PROVE  IInv'
<1>1. /\ pc' = [pc EXCEPT ![t] = "eintr"]
      /\ km_holder' = km_holder
      /\ sched' = ReturnEINTR(sched)
  BY DEF Interrupted, GoTo
<1>2. Sound(sched) /\ sched.curthr = t /\ sched' = ReturnEINTR(sched)
  BY <1>1, IInvFacts
<1>3. /\ Sound(sched')
      /\ Moves(sched, sched', t, NoQueue, KT_EXITED)
      /\ KeepsFlags(sched, sched')
  BY <1>2, ReturnEINTRIsSound
<1>4. MutexInv'
  BY <1>1, <1>3, IInvFacts, QueueFacts
  DEF IInv, MutexInv, MutualExclusion, HandOff, WaitersGuarded,
      Moves, KeepsFlags, InLock
<1> QED BY <1>1, <1>3, <1>4, IInvFacts, IInvNext DEF Place

\* A thread past its sleep in a lock call enters the critical section.
LEMMA EnteringKeepsIInv ==
  ASSUME NEW t \in Thread, IInv, sched.curthr = t, pc[t] \in InLock,
         pc[t] = "lock_cancellable" => ~sched.kt_cancelled[t],
         GoTo(t, "critical"), UNCHANGED <<sched, km_holder>>
  PROVE  IInv'
<1>1. /\ pc' = [pc EXCEPT ![t] = "critical"]
      /\ sched' = sched
      /\ km_holder' = km_holder
  BY DEF GoTo
<1>2. km_holder = t
  BY IInvFacts, QueueFacts DEF IInv, MutexInv, HandOff
<1>3. MutexInv'
  BY <1>1, <1>2, IInvFacts, QueueFacts
  DEF IInv, MutexInv, MutualExclusion, HandOff, WaitersGuarded,
      Moves, KeepsFlags, InLock
<1> QED BY <1>1, <1>3, IInvFacts, IInvNext DEF Place

LEMMA UnlockKeepsIInv ==
  ASSUME NEW t \in Thread, IInv, kmutex_unlock(t)
  PROVE  IInv'
<1>1. /\ sched.curthr = t
      /\ pc[t] = "critical"
      /\ km_holder = t
      /\ pc' = [pc EXCEPT ![t] = "outside"]
      /\ sched' = sched_wakeup_on(sched, KmWaitQ)
  BY DEF kmutex_unlock, Runs, GoTo
<1>2. sched.kt_wchan[t] = NoQueue
  BY <1>1, IInvFacts
<1>3. CASE sched_queue_empty(sched, KmWaitQ)
  <2>1. sched' = sched /\ km_holder' = NoThread
    BY <1>1, <1>3 DEF kmutex_unlock, sched_wakeup_on
  <2>2. \A u \in Thread : sched.kt_wchan[u] # KmWaitQ
    BY <1>3, IInvFacts, QueueFacts, WaitersAreListed
    DEF Sound, sched_queue_empty
  <2>3. MutexInv'
    BY <1>1, <1>2, <2>1, <2>2, IInvFacts, QueueFacts
    DEF IInv, MutexInv, MutualExclusion, HandOff, WaitersGuarded,
      Moves, KeepsFlags, InLock
  <2> QED BY <1>1, <2>1, <2>3, IInvFacts, IInvNext DEF Place
<1>4. CASE ~sched_queue_empty(sched, KmWaitQ)
  <2>1. PICK h : h = Head(sched.tq_list[KmWaitQ])
    OBVIOUS
  <2>2. /\ Sound(sched')
        /\ h \in Thread
        /\ sched.kt_wchan[h] = KmWaitQ
        /\ Moves(sched, sched', h, RunQ, KT_RUN)
        /\ KeepsFlags(sched, sched')
    BY <1>1, <1>4, <2>1, IInvFacts, QueueFacts, WakeupIsSound
  <2>3. km_holder' = h
    BY <1>4, <2>1 DEF kmutex_unlock
  <2>4. MutexInv'
    BY <1>1, <1>2, <2>2, <2>3, IInvFacts, QueueFacts
    DEF IInv, MutexInv, MutualExclusion, HandOff, WaitersGuarded,
      Moves, KeepsFlags, InLock
  <2> QED BY <1>1, <2>2, <2>3, <2>4, IInvFacts, IInvNext DEF Place
<1> QED BY <1>3, <1>4

LEMMA DeviceInterruptKeepsIInv == IInv /\ DeviceInterrupt => IInv'
<1> SUFFICES ASSUME IInv, DeviceInterrupt PROVE IInv'
  OBVIOUS
<1>1. PICK h : h = Head(sched.tq_list[DevQ])
  OBVIOUS
<1>2. /\ sched' = sched_wakeup_on(sched, DevQ)
      /\ ~sched_queue_empty(sched, DevQ)
      /\ pc' = pc /\ km_holder' = km_holder
  BY DEF DeviceInterrupt
<1>3. /\ Sound(sched')
      /\ h \in Thread
      /\ sched.kt_wchan[h] = DevQ
      /\ Moves(sched, sched', h, RunQ, KT_RUN)
      /\ KeepsFlags(sched, sched')
  BY <1>1, <1>2, IInvFacts, QueueFacts, WakeupIsSound
<1>4. MutexInv'
  BY <1>2, <1>3, IInvFacts, QueueFacts
  DEF IInv, MutexInv, MutualExclusion, HandOff, WaitersGuarded,
      Moves, KeepsFlags
<1> QED BY <1>2, <1>3, <1>4, IInvFacts, IInvNext

LEMMA CancelKeepsIInv ==
  ASSUME NEW t \in Thread, NEW u \in Thread, IInv, kthread_cancel(t, u)
  PROVE  IInv'
<1>1. /\ u # sched.curthr
      /\ sched' = sched_cancel(sched, u)
      /\ pc' = pc /\ km_holder' = km_holder
  BY DEF kthread_cancel
<1>2. /\ Sound(sched')
      /\ sched'.kt_cancelled = [sched.kt_cancelled EXCEPT ![u] = TRUE]
      /\ \/ /\ sched'.kt_wchan = sched.kt_wchan
            /\ sched'.kt_state = sched.kt_state
         \/ /\ sched.kt_wchan[u] \in WaitQueue
            /\ sched.kt_state[u] = KT_SLEEP_CANCELLABLE
            /\ Moves(sched, sched', u, RunQ, KT_RUN)
  BY <1>1, IInvFacts, CancelIsSound
<1>3. KT_SLEEP # KT_SLEEP_CANCELLABLE
  BY DEF KT_SLEEP, KT_SLEEP_CANCELLABLE
<1>4. MutexInv'
  BY <1>1, <1>2, <1>3, IInvFacts, QueueFacts
  DEF IInv, MutexInv, MutualExclusion, HandOff, WaitersGuarded,
      Moves, KeepsFlags, InLock
<1> QED BY <1>1, <1>2, <1>4, IInvFacts, IInvNext

LEMMA ExitKeepsIInv ==
  ASSUME NEW t \in Thread, IInv, kthread_exit(t)
  PROVE  IInv'
<1>1. /\ sched.curthr = t
      /\ pc[t] \in {"outside", "eintr"}
      /\ sched' = sched_switch(ThreadExits(sched))
      /\ pc' = [pc EXCEPT ![t] = "exited"]
      /\ km_holder' = km_holder
  BY DEF kthread_exit, GoTo
<1>2. /\ Sound(sched')
      /\ Moves(sched, sched', t, NoQueue, KT_EXITED)
      /\ KeepsFlags(sched, sched')
  BY <1>1, IInvFacts, ExitIsSound
<1>3. sched.kt_wchan[t] = NoQueue
  BY <1>1, IInvFacts
<1>4. MutexInv'
  BY <1>1, <1>2, <1>3, IInvFacts, QueueFacts
  DEF IInv, MutexInv, MutualExclusion, HandOff, WaitersGuarded,
      Moves, KeepsFlags, InLock
<1> QED BY <1>1, <1>2, <1>4, IInvFacts, IInvNext DEF Place

-----------------------------------------------------------------------------
(* Every step keeps the invariant.                                         *)

LEMMA NextKeepsIInv == IInv /\ [Next]_vars => IInv'
<1> SUFFICES ASSUME IInv, [Next]_vars PROVE IInv'
  OBVIOUS
<1>1. CASE Dispatch
  BY <1>1, DispatchKeepsIInv
<1>2. CASE DeviceInterrupt
  BY <1>2, DeviceInterruptKeepsIInv
<1>3. ASSUME NEW t \in Thread, ThreadStep(t) PROVE IInv'
  <2>1. CASE kmutex_lock(t)
    <3>1. CASE Runs(t, "outside") /\ TakeFree(t)
      BY <3>1, TakeFreeKeepsIInv
    <3>2. CASE ~TakeFree(t)
      <4>1. /\ Runs(t, "outside")
            /\ km_holder # NoThread /\ km_holder' = km_holder
            /\ sched' = SleepOn(sched, KmWaitQ, KT_SLEEP)
            /\ GoTo(t, "lock")
        BY <2>1, <3>2 DEF kmutex_lock, sched_sleep_on
      <4>2. KT_SLEEP \in Asleep /\ "lock" \in InLock
        BY DEF Asleep, InLock
      <4> QED BY <4>1, <4>2, WaitingKeepsIInv
    <3> QED BY <2>1, <3>1, <3>2 DEF kmutex_lock
  <2>2. CASE kmutex_lock_Returns(t)
    BY <2>2, EnteringKeepsIInv DEF kmutex_lock_Returns, Runs, InLock
  <2>3. CASE kmutex_lock_cancellable(t)
    <3>1. CASE TakeFree(t)
      BY <2>3, <3>1, TakeFreeKeepsIInv DEF kmutex_lock_cancellable
    <3>2. CASE sched.kt_cancelled[t] /\ Interrupted(t)
      BY <2>3, <3>2, InterruptedKeepsIInv DEF kmutex_lock_cancellable, Runs
    <3>3. CASE ~TakeFree(t) /\ ~(sched.kt_cancelled[t] /\ Interrupted(t))
      <4>1. /\ Runs(t, "outside")
            /\ km_holder # NoThread /\ km_holder' = km_holder
            /\ sched' = SleepOn(sched, KmWaitQ, KT_SLEEP_CANCELLABLE)
            /\ GoTo(t, "lock_cancellable")
        BY <2>3, <3>3 DEF kmutex_lock_cancellable, sched_cancellable_sleep_on
      <4>2. /\ KT_SLEEP_CANCELLABLE \in Asleep
            /\ "lock_cancellable" \in InLock
            /\ "lock_cancellable" # "lock"
        BY DEF Asleep, InLock
      <4> QED BY <4>1, <4>2, WaitingKeepsIInv
    <3> QED BY <3>1, <3>2, <3>3
  <2>4. CASE kmutex_lock_cancellable_Returns(t)
    <3>1. CASE sched.kt_cancelled[t]
      BY <2>4, <3>1, InterruptedKeepsIInv
      DEF kmutex_lock_cancellable_Returns, Runs
    <3>2. CASE ~sched.kt_cancelled[t]
      BY <2>4, <3>2, EnteringKeepsIInv
      DEF kmutex_lock_cancellable_Returns, Runs, InLock
    <3> QED BY <3>1, <3>2
  <2>5. CASE kmutex_unlock(t)
    BY <2>5, UnlockKeepsIInv
  <2>6. CASE Yield(t) \/ WaitForDevice(t)
    BY <2>6, GivingUpTheCPUKeepsIInv
  <2>7. CASE \E u \in Thread : kthread_cancel(t, u)
    BY <2>7, CancelKeepsIInv
  <2>8. CASE kthread_exit(t)
    BY <2>8, ExitKeepsIInv
  <2> QED BY <1>3, <2>1, <2>2, <2>3, <2>4, <2>5, <2>6, <2>7, <2>8
          DEF ThreadStep
<1>4. CASE UNCHANGED vars
  BY <1>4 DEF vars, IInv, TypeOK, NoThreadLost, MutexInv, MutualExclusion,
              HandOff, WaitersGuarded
<1> QED BY <1>1, <1>2, <1>3, <1>4 DEF Next

\* The inductive invariant holds in every reachable state.
THEOREM Invariance == Spec => []IInv
BY InitIInv, NextKeepsIInv, PTL DEF Spec

-----------------------------------------------------------------------------
(* What follows from it.                                                   *)

\* The scheduler, the mutex and the threads' places keep their types.
THEOREM TypeCorrect == Spec => []TypeOK
<1>1. IInv => TypeOK
  BY DEF IInv
<1> QED BY <1>1, Invariance, PTL

\* No thread is lost: at any time it runs, has exited, or is on the queue
\* that will bring it back.
THEOREM NoThreadIsLost == Spec => []NoThreadLost
<1>1. IInv => NoThreadLost
  BY DEF IInv
<1> QED BY <1>1, Invariance, PTL

\* The thread in the critical section is the holder of the mutex.
THEOREM Exclusion == Spec => []MutualExclusion
<1>1. IInv => MutualExclusion
  BY DEF IInv, MutexInv
<1> QED BY <1>1, Invariance, PTL

\* A thread woken in a lock call was made the holder, or was cancelled.
THEOREM Granted == Spec => []HandOff
<1>1. IInv => HandOff
  BY DEF IInv, MutexInv
<1> QED BY <1>1, Invariance, PTL

\* Sleeping waiters have a holder that is not one of them.
THEOREM HolderForWaiters == Spec => []WaitersHaveHolder
<1>1. ASSUME IInv PROVE WaitersHaveHolder
  <2> SUFFICES ASSUME sched.tq_list[KmWaitQ] # << >>
               PROVE  /\ km_holder # NoThread
                      /\ ~Contains(sched.tq_list[KmWaitQ], km_holder)
    BY DEF WaitersHaveHolder
  <2>1. \E t \in Thread : sched.kt_wchan[t] = KmWaitQ
    BY <1>1, IInvFacts, QueueFacts, WaitersAreListed DEF Sound
  <2>2. km_holder \in Thread /\ sched.kt_wchan[km_holder] # KmWaitQ
    BY <1>1, <2>1, IInvFacts DEF IInv, MutexInv, WaitersGuarded, HandOff
  <2> QED BY <1>1, <2>2, IInvFacts, QueueFacts DEF Sound, WellFormed, Linked
<1> QED BY <1>1, Invariance, PTL

-----------------------------------------------------------------------------
(* KMutex implements the lock of MutexSpec: km_holder owns it, and the     *)
(* threads listed on km_waitq wait for it.                                 *)

LEMMA InitIsLockInit == Init => Lock!Init
BY QueueFacts DEF Init, Lock!Init

\* Acts of the scheduler that leave km_waitq and the holder alone.
LEMMA SchedulingIsStutter ==
  ASSUME IInv,
         \/ Dispatch
         \/ DeviceInterrupt
         \/ \E t \in Thread : Yield(t) \/ WaitForDevice(t) \/ kthread_exit(t)
  PROVE  UNCHANGED Lock!vars
<1>1. /\ DOMAIN sched.tq_list = Queue
      /\ Sound(sched)
  BY IInvFacts
<1>2. km_holder' = km_holder
  BY DEF Dispatch, DeviceInterrupt, Yield, WaitForDevice, kthread_exit
<1>3. CASE Dispatch
  <2>1. PICK t : t = Head(sched.tq_list[RunQ])
    OBVIOUS
  <2>2. /\ Sound(sched) /\ sched.curthr = NoThread
        /\ ~sched_queue_empty(sched, RunQ)
        /\ sched' = SwitchIn(sched)
    BY <1>1, <1>3 DEF Dispatch
  <2>3. sched'.tq_list = [sched.tq_list EXCEPT ![RunQ] = Tail(@)]
    BY <2>1, <2>2, SwitchInIsSound
  <2> QED BY <1>1, <1>2, <2>3, QueueFacts DEF Lock!vars
<1>4. CASE DeviceInterrupt
  <2>1. PICK t : t = Head(sched.tq_list[DevQ])
    OBVIOUS
  <2>2. /\ sched' = sched_wakeup_on(sched, DevQ)
        /\ ~sched_queue_empty(sched, DevQ)
    BY <1>4 DEF DeviceInterrupt
  <2>3. \A p \in WaitQueue :
          sched'.tq_list[p] = IF p = DevQ THEN Tail(sched.tq_list[p])
                              ELSE sched.tq_list[p]
    BY <1>1, <2>1, <2>2, QueueFacts, WakeupIsSound
  <2> QED BY <1>2, <2>3, QueueFacts DEF Lock!vars
<1>5. ASSUME NEW t \in Thread, Yield(t) \/ WaitForDevice(t)
      PROVE  UNCHANGED Lock!vars
  <2>1. PICK q \in Queue, k \in {KT_RUN} \cup Asleep :
          /\ q # KmWaitQ
          /\ q = RunQ <=> k = KT_RUN
          /\ sched' = SleepOn(sched, q, k)
    BY <1>5, CPUGivenUp
  <2>2. sched.curthr = t /\ Sound(sched)
    BY <1>1, <1>5 DEF Yield, WaitForDevice
  <2>3. Appends(sched, sched', q, t)
    BY <2>1, <2>2, LeavingTheCPUIsSound
  <2> QED BY <1>1, <1>2, <2>1, <2>3, QueueFacts DEF Appends, Lock!vars
<1>6. ASSUME NEW t \in Thread, kthread_exit(t)
      PROVE  UNCHANGED Lock!vars
  <2>1. sched.curthr = t /\ sched' = sched_switch(ThreadExits(sched))
    BY <1>6 DEF kthread_exit
  <2>2. sched'.tq_list = sched.tq_list
    BY <1>1, <2>1, ExitIsSound
  <2> QED BY <1>2, <2>2 DEF Lock!vars
<1> QED BY <1>3, <1>4, <1>5, <1>6

LEMMA WaitingIsLockWait ==
  ASSUME NEW t \in Thread, IInv, Runs(t, "outside"),
         km_holder # NoThread, km_holder' = km_holder,
         NEW k \in Asleep, sched' = SleepOn(sched, KmWaitQ, k)
  PROVE  Lock!Wait(t)
<1>1. Sound(sched) /\ sched.curthr = t /\ pc[t] = "outside"
  BY IInvFacts DEF Runs
<1>2. /\ k \in {KT_RUN} \cup Asleep
      /\ KmWaitQ \in Queue
      /\ KmWaitQ = RunQ <=> k = KT_RUN
  BY QueueFacts DEF Asleep, KT_RUN, KT_SLEEP, KT_SLEEP_CANCELLABLE
<1>3. Appends(sched, sched', KmWaitQ, t)
  BY <1>1, <1>2, LeavingTheCPUIsSound
<1>4. sched'.tq_list[KmWaitQ] = Append(sched.tq_list[KmWaitQ], t)
  BY <1>3, IInvFacts, QueueFacts DEF Appends
<1>5. km_holder # t
  BY <1>1 DEF IInv, MutexInv, HandOff
<1>6. ~Contains(sched.tq_list[KmWaitQ], t)
  BY <1>1, IInvFacts, QueueFacts DEF Sound, WellFormed, Linked
<1> QED BY <1>4, <1>5, <1>6 DEF Lock!Wait, Lock!Contains, Contains

LEMMA InterruptedIsStutter ==
  ASSUME NEW t \in Thread, IInv, sched.curthr = t, Interrupted(t)
  PROVE  UNCHANGED Lock!vars
<1>1. Sound(sched) /\ sched' = ReturnEINTR(sched)
  BY IInvFacts DEF Interrupted
<1>2. sched'.tq_list = sched.tq_list
  BY <1>1, ReturnEINTRIsSound
<1> QED BY <1>2 DEF Interrupted, Lock!vars

LEMMA UnlockIsRelease ==
  ASSUME NEW t \in Thread, IInv, kmutex_unlock(t)
  PROVE  Lock!Release
<1>1. /\ km_holder = t /\ km_holder # NoThread
      /\ sched' = sched_wakeup_on(sched, KmWaitQ)
  BY QueueFacts DEF kmutex_unlock
<1>2. CASE sched_queue_empty(sched, KmWaitQ)
  <2>1. sched' = sched /\ km_holder' = NoThread
    BY <1>1, <1>2 DEF kmutex_unlock, sched_wakeup_on
  <2> QED BY <1>1, <1>2, <2>1 DEF Lock!Release, sched_queue_empty
<1>3. CASE ~sched_queue_empty(sched, KmWaitQ)
  <2>1. PICK h : h = Head(sched.tq_list[KmWaitQ])
    OBVIOUS
  <2>2. \A p \in WaitQueue :
          sched'.tq_list[p] = IF p = KmWaitQ THEN Tail(sched.tq_list[p])
                              ELSE sched.tq_list[p]
    BY <1>1, <1>3, <2>1, IInvFacts, QueueFacts, WakeupIsSound
  <2>3. km_holder' = Head(sched.tq_list[KmWaitQ])
    BY <1>3 DEF kmutex_unlock
  <2> QED BY <1>1, <1>3, <2>2, <2>3, QueueFacts
          DEF Lock!Release, sched_queue_empty
<1> QED BY <1>2, <1>3

LEMMA CancelIsGiveUp ==
  ASSUME NEW t \in Thread, NEW u \in Thread, IInv, kthread_cancel(t, u)
  PROVE  UNCHANGED Lock!vars
         \/ \E i \in DOMAIN sched.tq_list[KmWaitQ] : Lock!GiveUp(i)
<1>1. /\ u # sched.curthr
      /\ sched' = sched_cancel(sched, u)
      /\ km_holder' = km_holder
  BY DEF kthread_cancel
<1>2. KeepsLists(sched, sched') \/ Unlinks(sched, sched', u)
  BY <1>1, IInvFacts, CancelIsSound
<1>3. CASE sched'.tq_list[KmWaitQ] = sched.tq_list[KmWaitQ]
  BY <1>1, <1>3 DEF Lock!vars
<1>4. CASE sched'.tq_list[KmWaitQ] # sched.tq_list[KmWaitQ]
  <2>1. /\ sched.kt_wchan[u] = KmWaitQ
        /\ sched'.tq_list[KmWaitQ] = Unlink(sched.tq_list[KmWaitQ], u)
    BY <1>2, <1>4, QueueFacts DEF KeepsLists, Unlinks
  <2>2. Contains(sched.tq_list[KmWaitQ], u)
    BY <2>1, IInvFacts, QueueFacts DEF Sound, WellFormed, Linked
  <2>3. PICK i : i = CHOOSE j \in DOMAIN sched.tq_list[KmWaitQ] :
                        sched.tq_list[KmWaitQ][j] = u
    OBVIOUS
  <2>4. i \in DOMAIN sched.tq_list[KmWaitQ]
    BY <2>2, <2>3, IInvFacts, QueueFacts, LenProperties DEF Contains
  <2>5. sched'.tq_list[KmWaitQ] = RemoveAt(sched.tq_list[KmWaitQ], i)
    BY <2>1, <2>3 DEF Unlink
  <2>6. Lock!GiveUp(i)
    BY <1>1, <2>5 DEF Lock!GiveUp, Lock!RemoveAt, RemoveAt
  <2> QED BY <2>4, <2>6
<1> QED BY <1>3, <1>4

LEMMA NextIsLockNext == IInv /\ [Next]_vars => [Lock!Next]_(Lock!vars)
<1> SUFFICES ASSUME IInv, [Next]_vars PROVE [Lock!Next]_(Lock!vars)
  OBVIOUS
<1>1. CASE Dispatch \/ DeviceInterrupt
  BY <1>1, SchedulingIsStutter
<1>2. ASSUME NEW t \in Thread, ThreadStep(t)
      PROVE  [Lock!Next]_(Lock!vars)
  <2>1. CASE TakeFree(t)
    <3>1. Lock!Acquire(t)
      BY <2>1 DEF TakeFree, Lock!Acquire
    <3> QED BY <3>1 DEF Lock!Next
  <2>2. CASE ~TakeFree(t) /\ kmutex_lock(t)
    <3>1. Lock!Wait(t)
      BY <2>2, WaitingIsLockWait
      DEF kmutex_lock, sched_sleep_on, Asleep
    <3> QED BY <3>1 DEF Lock!Next
  <2>3. CASE sched.curthr = t /\ Interrupted(t)
    BY <2>3, InterruptedIsStutter
  <2>4. CASE ~TakeFree(t) /\ ~Interrupted(t) /\ kmutex_lock_cancellable(t)
    <3>1. Lock!Wait(t)
      BY <2>4, WaitingIsLockWait
      DEF kmutex_lock_cancellable, sched_cancellable_sleep_on, Asleep
    <3> QED BY <3>1 DEF Lock!Next
  <2>5. CASE UNCHANGED <<sched, km_holder>>
    BY <2>5 DEF Lock!vars
  <2>6. CASE kmutex_unlock(t)
    BY <2>6, UnlockIsRelease DEF Lock!Next
  <2>7. CASE Yield(t) \/ WaitForDevice(t) \/ kthread_exit(t)
    BY <2>7, SchedulingIsStutter
  <2>8. CASE \E u \in Thread : kthread_cancel(t, u)
    BY <2>8, CancelIsGiveUp DEF Lock!Next
  <2> QED BY <1>2, <2>1, <2>2, <2>3, <2>4, <2>5, <2>6, <2>7, <2>8
          DEF ThreadStep, kmutex_lock_Returns, kmutex_lock_cancellable,
              kmutex_lock_cancellable_Returns, Runs
<1>3. CASE UNCHANGED vars
  BY <1>3 DEF vars, Lock!vars
<1> QED BY <1>1, <1>2, <1>3 DEF Next

\* The mutex over the scheduler's queues is the first-come first-served lock
\* with direct hand-off.
THEOREM Implementation == Spec => ImplementsLock
BY InitIsLockInit, NextIsLockNext, Invariance, PTL
DEF Spec, ImplementsLock, Lock!Spec
=============================================================================
