------------------------------- MODULE KMutex -------------------------------
(***************************************************************************)
(* Kernel mutexes (kernel/proc/kmutex.c) over the scheduler, with the      *)
(* threads that use one mutex.  A thread asks for the mutex with           *)
(* kmutex_lock or kmutex_lock_cancellable, and both inside and outside the *)
(* critical section it may give up the CPU (the test programs do so at     *)
(* every line, the file system sleeps for the disk with its mutex held).   *)
(* Any thread may cancel any other at any time.                            *)
(*                                                                         *)
(* Ownership is handed over: kmutex_unlock makes the thread it wakes the   *)
(* holder, and the woken thread returns from the lock call without looking *)
(* at the mutex again.                                                     *)
(***************************************************************************)
EXTENDS Sched

CONSTANTS
  KmWaitQ,    \* km_waitq of the mutex
  DevQ,       \* the queue of a device the threads wait for
  StartOrder  \* the order in which the threads were made runnable

ASSUME KMutexAssumption ==
  /\ WaitQueue = {KmWaitQ, DevQ}
  /\ KmWaitQ # DevQ
  /\ StartOrder \in Seq(Thread)
  /\ IsInjective(StartOrder)
  /\ \A t \in Thread : Contains(StartOrder, t)

VARIABLES
  sched,      \* the scheduler
  km_holder,  \* the holder, NoThread for NULL
  pc          \* where each thread continues

vars == <<sched, km_holder, pc>>

(* The places of a thread:                                                 *)
(*   outside             does not use the mutex                            *)
(*   lock                sleeps in, or was woken in, kmutex_lock           *)
(*   lock_cancellable    the same in kmutex_lock_cancellable               *)
(*   critical            a lock call has returned 0                        *)
(*   eintr               kmutex_lock_cancellable has returned -EINTR       *)
(*   exited              has called kthread_exit                           *)
InLock == {"lock", "lock_cancellable"}
Place  == {"outside", "critical", "eintr", "exited"} \cup InLock

TypeOK ==
  /\ sched \in SchedState
  /\ km_holder \in Thread \cup {NoThread}
  /\ pc \in [Thread -> Place]

Init ==
  /\ sched = [tq_list      |-> [q \in Queue |-> IF q = RunQ THEN StartOrder
                                                            ELSE << >>],
              kt_wchan     |-> [t \in Thread |-> RunQ],
              kt_state     |-> [t \in Thread |-> KT_RUN],
              kt_cancelled |-> [t \in Thread |-> FALSE],
              curthr       |-> NoThread]
  /\ km_holder = NoThread
  /\ pc = [t \in Thread |-> "outside"]

-----------------------------------------------------------------------------

Runs(t, place) == sched.curthr = t /\ pc[t] = place

GoTo(t, place) == pc' = [pc EXCEPT ![t] = place]

Dispatch ==
  /\ sched.curthr = NoThread
  /\ ~sched_queue_empty(sched, RunQ)
  /\ sched' = SwitchIn(sched)
  /\ UNCHANGED <<km_holder, pc>>

\* The mutex is free: the caller takes it.
TakeFree(t) ==
  /\ km_holder = NoThread
  /\ km_holder' = t
  /\ GoTo(t, "critical")
  /\ UNCHANGED sched

\* The mutex is taken: the caller sleeps on its queue.
kmutex_lock(t) ==
  /\ Runs(t, "outside")
  /\ \/ TakeFree(t)
     \/ /\ km_holder # NoThread
        /\ sched' = sched_sleep_on(sched, KmWaitQ)
        /\ GoTo(t, "lock")
        /\ UNCHANGED km_holder

kmutex_lock_Returns(t) ==
  /\ Runs(t, "lock")
  /\ GoTo(t, "critical")
  /\ UNCHANGED <<sched, km_holder>>

\* The lock call returns -EINTR, and the thread is left in KT_EXITED.
Interrupted(t) ==
  /\ sched' = ReturnEINTR(sched)
  /\ GoTo(t, "eintr")
  /\ UNCHANGED km_holder

kmutex_lock_cancellable(t) ==
  /\ Runs(t, "outside")
  /\ \/ TakeFree(t)
     \/ /\ km_holder # NoThread
        /\ sched.kt_cancelled[t]
        /\ Interrupted(t)
     \/ /\ km_holder # NoThread
        /\ ~sched.kt_cancelled[t]
        /\ sched' = sched_cancellable_sleep_on(sched, KmWaitQ)
        /\ GoTo(t, "lock_cancellable")
        /\ UNCHANGED km_holder

kmutex_lock_cancellable_Returns(t) ==
  /\ Runs(t, "lock_cancellable")
  /\ IF sched.kt_cancelled[t]
     THEN Interrupted(t)
     ELSE GoTo(t, "critical") /\ UNCHANGED <<sched, km_holder>>

\* Seeded fault: the woken waiter is expected to take the mutex itself.
kmutex_unlock_NoHandOff(t) ==
  /\ Runs(t, "critical")
  /\ km_holder = t
  /\ sched' = sched_wakeup_on(sched, KmWaitQ)
  /\ km_holder' = NoThread
  /\ GoTo(t, "outside")

\* Seeded fault: the next holder is read after the wake-up has dequeued it.
kmutex_unlock_ReadsLate(t) ==
  /\ Runs(t, "critical")
  /\ km_holder = t
  /\ sched' = sched_wakeup_on(sched, KmWaitQ)
  /\ km_holder' = IF sched_queue_empty(sched', KmWaitQ)
                  THEN NoThread ELSE Head(sched'.tq_list[KmWaitQ])
  /\ GoTo(t, "outside")

kmutex_unlock(t) ==
  /\ Runs(t, "critical")
  /\ km_holder = t
  /\ sched' = sched_wakeup_on(sched, KmWaitQ)
  /\ km_holder' = IF sched_queue_empty(sched, KmWaitQ)
                  THEN NoThread ELSE Head(sched.tq_list[KmWaitQ])
  /\ GoTo(t, "outside")

\* A thread gives up the CPU: sched_make_runnable(curthr); sched_switch().
Yield(t) ==
  /\ sched.curthr = t
  /\ pc[t] \in {"outside", "critical"}
  /\ sched' = sched_switch(sched_make_runnable(sched, t))
  /\ UNCHANGED <<km_holder, pc>>

\* A thread waits for a device, perhaps with the mutex held.
WaitForDevice(t) ==
  /\ sched.curthr = t
  /\ pc[t] \in {"outside", "critical"}
  /\ sched' = sched_sleep_on(sched, DevQ)
  /\ UNCHANGED <<km_holder, pc>>

\* Seeded fault: the interrupt handler sleeps.
DeviceInterrupt_Sleeps ==
  /\ ~sched_queue_empty(sched, DevQ)
  /\ sched' = sched_wakeup_on(ktqueue_enqueue(sched, KmWaitQ, sched.curthr),
                             DevQ)
  /\ UNCHANGED <<km_holder, pc>>

\* The interrupt of the device wakes the thread that waited longest.
DeviceInterrupt ==
  /\ ~sched_queue_empty(sched, DevQ)
  /\ sched' = sched_wakeup_on(sched, DevQ)
  /\ UNCHANGED <<km_holder, pc>>

\* The running thread cancels another one.
kthread_cancel(t, u) ==
  /\ sched.curthr = t
  /\ pc[t] \in {"outside", "critical"}
  /\ u # t
  /\ pc[u] # "exited"
  /\ ~sched.kt_cancelled[u]
  /\ sched' = sched_cancel(sched, u)
  /\ UNCHANGED <<km_holder, pc>>

\* A thread leaves; one whose lock call was interrupted does nothing else.
kthread_exit(t) ==
  /\ sched.curthr = t
  /\ pc[t] \in {"outside", "eintr"}
  /\ sched' = sched_switch(ThreadExits(sched))
  /\ GoTo(t, "exited")
  /\ UNCHANGED km_holder

ThreadStep(t) ==
  \/ kmutex_lock(t)
  \/ kmutex_lock_Returns(t)
  \/ kmutex_lock_cancellable(t)
  \/ kmutex_lock_cancellable_Returns(t)
  \/ kmutex_unlock(t)
  \/ Yield(t)
  \/ WaitForDevice(t)
  \/ \E u \in Thread : kthread_cancel(t, u)
  \/ kthread_exit(t)

Next ==
  \/ Dispatch
  \/ DeviceInterrupt
  \/ \E t \in Thread : ThreadStep(t)

-----------------------------------------------------------------------------
(* Fairness.  The CPU keeps running what is runnable, and devices answer.  *)
(* Without preemption progress also needs the clients of the mutex: a      *)
(* thread that keeps running gives up the CPU now and then, and one that   *)
(* runs again and again in its critical section unlocks in the end.  The   *)
(* programs that use the mutex do both.                                    *)

Fairness ==
  /\ WF_vars(Dispatch)
  /\ WF_vars(DeviceInterrupt)
  /\ \A t \in Thread :
       /\ WF_vars(ThreadStep(t))
       /\ SF_vars(Yield(t) /\ pc[t] = "outside")
       /\ SF_vars(kmutex_unlock(t))

Spec     == Init /\ [][Next]_vars
FairSpec == Spec /\ Fairness

-----------------------------------------------------------------------------
(* Properties.                                                             *)

\* No thread is forgotten: kt_wchan, the queue lists and kt_state agree, and
\* a thread that neither runs nor exited is on the queue that will bring it
\* back ("otherwise, it will never be run again", sched.c).
NoThreadLost == QueueDiscipline(sched)

\* At most one thread is in the critical section, and it is km_holder, even
\* though a woken waiter never checks that the mutex is its own.
MutualExclusion == \A t \in Thread : pc[t] = "critical" => km_holder = t

\* The hand-off never strands a waiter: while threads sleep on km_waitq there
\* is a holder to wake them, and the holder is not one of the sleepers.
WaitersHaveHolder ==
  sched.tq_list[KmWaitQ] # << >> =>
    /\ km_holder # NoThread
    /\ ~Contains(sched.tq_list[KmWaitQ], km_holder)

\* Ownership travels with the wake-up: a thread that is past its sleep in a
\* lock call already holds the mutex, or has been cancelled; only threads in a
\* lock call sleep on km_waitq, and no thread holds the mutex unawares.
HandOff ==
  /\ \A t \in Thread :
       /\ sched.kt_wchan[t] = KmWaitQ =>
            /\ pc[t] \in InLock
            /\ pc[t] = "lock" => sched.kt_state[t] = KT_SLEEP
       /\ pc[t] \in InLock /\ sched.kt_wchan[t] # KmWaitQ =>
            \/ km_holder = t
            \/ pc[t] = "lock_cancellable" /\ sched.kt_cancelled[t]
       /\ km_holder = t =>
            /\ pc[t] # "outside"
            /\ sched.kt_wchan[t] # KmWaitQ

\* -EINTR from kmutex_lock_cancellable means that the caller does not hold
\* the mutex (kmutex.h).
EINTRMeansNotHolder ==
  \A t \in Thread : pc[t] \in {"eintr", "exited"} => km_holder # t

\* The mutex belongs to a thread that will never unlock it.
Abandoned == \E t \in Thread : km_holder = t /\ pc[t] \in {"eintr", "exited"}

\* A thread inside a lock call gets out of it, with the mutex or with -EINTR,
\* unless the mutex has been abandoned.
LockCallsReturn ==
  \A t \in Thread : pc[t] \in InLock ~> (pc[t] \notin InLock \/ Abandoned)

\* The mutex is a lock with first-come first-served hand-off.
Lock == INSTANCE MutexSpec WITH Nobody  <- NoThread,
                                owner   <- km_holder,
                                waiting <- sched.tq_list[KmWaitQ]
ImplementsLock == Lock!Spec
=============================================================================
