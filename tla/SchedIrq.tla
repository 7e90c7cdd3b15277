------------------------------ MODULE SchedIrq ------------------------------
(***************************************************************************)
(* The scheduler against device interrupts.  The other modules take every  *)
(* scheduler operation as one step.  Here sched_switch, sched_cancel and   *)
(* the sleeps of the device drivers go through the statements between      *)
(* which an interrupt can arrive, with the interrupt priority level and    *)
(* the interrupt flag of the CPU (kernel/proc/sched.c, kthread.c,          *)
(* include/main/interrupt.h).                                              *)
(*                                                                         *)
(* sched.curthr is the thread in whose context the CPU runs: inside the    *)
(* loop of sched_switch that is still the thread that called it.  The      *)
(* drivers are external: only their contract, sleeping with the device     *)
(* masked and waking from the handler, is used.                            *)
(***************************************************************************)
EXTENDS Sched, Integers

CONSTANTS
  DiskQ,  \* the disk, and the queue its handler wakes
  TtyQ    \* the keyboard, and the queue its handler wakes

Device == {DiskQ, TtyQ}

ASSUME SchedIrqAssumption ==
  /\ DiskQ # TtyQ
  /\ WaitQueue = Device
  /\ IsFiniteSet(Thread) /\ Thread # {}

(* Priority classes: the upper half of the interrupt vector.               *)
IPL_LOW  == 0
IPL_HIGH == 15
Class(d) == IF d = DiskQ THEN 13 ELSE 14

VARIABLES
  sched,      \* the scheduler
  tq_size,    \* the tq_size of each queue
  ipl,        \* the interrupt priority level
  intr_on,    \* the interrupt flag
  pending,    \* the devices whose interrupt is raised
  busy,       \* the disk is carrying out an operation
  pc,         \* where each thread continues
  curipl,     \* the local variable of sched_switch, per thread; this and the
              \* next locals go back to a default when they are dead
  dev,        \* the device whose driver the thread is in, or NoQueue
  victim,     \* the thread it cancels
  cancel_q    \* the first argument of ktqueue_remove in sched_cancel

cpu  == <<ipl, intr_on>>
devs == <<pending, busy>>
locs == <<curipl, dev, victim, cancel_q>>
vars == <<sched, tq_size, cpu, devs, pc, locs>>

(* The places of a thread: in its own code (running); in a driver before   *)
(* and after its sleep (sleep, io_done); in sched_switch (mask, test, idle,*)
(* wait, hlt, found, dequeue, switched, where it continues when it is      *)
(* switched in again); in kthread_cancel of another thread (check, call,   *)
(* unlink, count, wake).                                                   *)
InSwitch == {"mask", "test", "idle", "wait", "hlt", "found", "dequeue"}
InCancel == {"check", "call", "unlink", "count", "wake"}

\* One thread runs, the others are runnable, the devices are quiet.  Threads
\* are alike, so one order of them is as good as another.
Init ==
  LET order   == CHOOSE o \in SetToSeqs(Thread) : TRUE
      first   == Head(order)
      waiting == Tail(order)
  IN
    /\ sched = [tq_list      |-> [q \in Queue |-> IF q = RunQ THEN waiting
                                                              ELSE << >>],
                kt_wchan     |-> [t \in Thread |-> IF t = first THEN NoQueue
                                                                ELSE RunQ],
                kt_state     |-> [t \in Thread |-> KT_RUN],
                kt_cancelled |-> [t \in Thread |-> FALSE],
                curthr       |-> first]
    /\ tq_size = [q \in Queue |-> IF q = RunQ THEN Len(waiting) ELSE 0]
    /\ ipl = IPL_LOW
    /\ intr_on = TRUE
    /\ pending = [d \in Device |-> FALSE]
    /\ busy = FALSE
    /\ pc = [t \in Thread |-> IF t = first THEN "running" ELSE "switched"]
    /\ curipl = [t \in Thread |-> IPL_LOW]
    /\ dev = [t \in Thread |-> NoQueue]
    /\ victim = [t \in Thread |-> t]
    /\ cancel_q = [t \in Thread |-> RunQ]

-----------------------------------------------------------------------------

Runs(t, place) == sched.curthr = t /\ pc[t] = place
GoTo(t, place) == pc' = [pc EXCEPT ![t] = place]

\* The scheduler moves to s, and tq_size follows the lists.
Becomes(s) ==
  /\ sched' = s
  /\ tq_size' = [q \in Queue |-> tq_size[q] + Len(s.tq_list[q])
                                            - Len(sched.tq_list[q])]

(* The devices and the interrupt handlers.                                 *)

KeyPress ==
  /\ ~pending[TtyQ]
  /\ pending' = [pending EXCEPT ![TtyQ] = TRUE]
  /\ UNCHANGED <<sched, tq_size, cpu, busy, pc, locs>>

DiskFinishes ==
  /\ busy
  /\ busy' = FALSE
  /\ pending' = [pending EXCEPT ![DiskQ] = TRUE]
  /\ UNCHANGED <<sched, tq_size, cpu, pc, locs>>

\* Seeded fault: the run queue is not looked at again after the wait.
AfterHlt_Found == "found"

\* intr_wait returns, and the condition of the loop is tested again.
AfterHlt == "test"

\* A handler runs to its end with the interrupt flag cleared.
Interrupt(d) ==
  /\ pending[d] /\ intr_on /\ Class(d) > ipl
  /\ pending' = [pending EXCEPT ![d] = FALSE]
  /\ Becomes(sched_wakeup_on(sched, d))
  /\ IF pc[sched.curthr] = "hlt" THEN GoTo(sched.curthr, AfterHlt)
                                 ELSE UNCHANGED pc
  /\ UNCHANGED <<cpu, busy, locs>>

-----------------------------------------------------------------------------
(* A thread in its own code and in the drivers.                            *)

\* It gives up the CPU: sched_make_runnable(curthr), then sched_switch.
Yield(t) ==
  /\ Runs(t, "running")
  /\ sched.kt_state[t] = KT_RUN
  /\ Becomes(sched_make_runnable(sched, t))
  /\ GoTo(t, "mask")
  /\ UNCHANGED <<cpu, devs, locs>>

kthread_exit(t) ==
  /\ Runs(t, "running")
  /\ sched.kt_cancelled[t]
  /\ Becomes(ThreadExits(sched))
  /\ GoTo(t, "mask")
  /\ UNCHANGED <<cpu, devs, locs>>

\* The level at which a driver no longer hears its device.
MaskOf(d) == Class(d)

\* The driver masks its device; a disk operation, of which there is one at a
\* time, is started.
DriverEnter(t, d) ==
  /\ Runs(t, "running")
  /\ sched.kt_state[t] = KT_RUN
  /\ d = DiskQ => \A u \in Thread : dev[u] # DiskQ
  /\ ipl' = MaskOf(d)
  /\ busy' = (busy \/ d = DiskQ)
  /\ dev' = [dev EXCEPT ![t] = d]
  /\ GoTo(t, "sleep")
  /\ UNCHANGED <<sched, tq_size, intr_on, pending, curipl, victim, cancel_q>>

CancelledOnEntry(t) == sched.kt_cancelled[t]

\* The driver's sleep, up to the call of sched_switch: for the disk it is
\* sched_sleep_on, for the keyboard sched_cancellable_sleep_on.
DriverSleep(t) ==
  /\ Runs(t, "sleep")
  /\ \/ /\ dev[t] = DiskQ
        /\ Becomes(ktqueue_enqueue([sched EXCEPT !.kt_state[t] = KT_SLEEP],
                                   DiskQ, t))
        /\ GoTo(t, "mask")
     \/ /\ dev[t] = TtyQ
        /\ ~CancelledOnEntry(t)
        /\ Becomes(ktqueue_enqueue(
                     [sched EXCEPT !.kt_state[t] = KT_SLEEP_CANCELLABLE],
                     TtyQ, t))
        /\ GoTo(t, "mask")
     \/ /\ dev[t] = TtyQ
        /\ CancelledOnEntry(t)
        /\ Becomes(ReturnEINTR(sched))
        /\ GoTo(t, "io_done")
  /\ UNCHANGED <<cpu, devs, locs>>

\* The sleep has returned: the driver restores the level.
DriverLeave(t) ==
  /\ Runs(t, "io_done")
  /\ Becomes(IF dev[t] = TtyQ /\ sched.kt_cancelled[t] THEN ReturnEINTR(sched)
                                                       ELSE sched)
  /\ ipl' = IPL_LOW
  /\ dev' = [dev EXCEPT ![t] = NoQueue]
  /\ GoTo(t, "running")
  /\ UNCHANGED <<intr_on, devs, curipl, victim, cancel_q>>

-----------------------------------------------------------------------------
(* sched_switch.                                                           *)

\* Everything is masked, and the caller's level remembered.
switch_Mask(t) ==
  /\ Runs(t, "mask")
  /\ curipl' = [curipl EXCEPT ![t] = ipl]
  /\ ipl' = IPL_HIGH
  /\ GoTo(t, "test")
  /\ UNCHANGED <<sched, tq_size, intr_on, devs, dev, victim, cancel_q>>

\* The condition of the loop.
switch_Test(t) ==
  /\ Runs(t, "test")
  /\ GoTo(t, IF sched_queue_empty(sched, RunQ) THEN "idle" ELSE "found")
  /\ UNCHANGED <<sched, tq_size, cpu, devs, locs>>

\* intr_disable(); intr_setipl(IPL_LOW);
switch_Unmask(t) ==
  /\ Runs(t, "idle")
  /\ intr_on' = FALSE
  /\ ipl' = IPL_LOW
  /\ GoTo(t, "wait")
  /\ UNCHANGED <<sched, tq_size, devs, locs>>

\* intr_wait(): no interrupt is taken between sti and hlt.
switch_Wait(t) ==
  /\ Runs(t, "wait")
  /\ intr_on' = TRUE
  /\ GoTo(t, "hlt")
  /\ UNCHANGED <<sched, tq_size, ipl, devs, locs>>

switch_Found(t) ==
  /\ Runs(t, "found")
  /\ ipl' = IPL_HIGH
  /\ GoTo(t, "dequeue")
  /\ UNCHANGED <<sched, tq_size, intr_on, devs, locs>>

\* The next thread, perhaps the caller itself, leaves the queue and runs.
switch_Dequeue(t) ==
  /\ Runs(t, "dequeue")
  /\ Becomes(SwitchIn(sched))
  /\ GoTo(t, "switched")
  /\ UNCHANGED <<cpu, devs, locs>>

\* The thread that was switched in restores its own level.
switch_Restore(t) ==
  /\ Runs(t, "switched")
  /\ ipl' = curipl[t]
  /\ curipl' = [curipl EXCEPT ![t] = IPL_LOW]
  /\ GoTo(t, IF dev[t] = NoQueue THEN "running" ELSE "io_done")
  /\ UNCHANGED <<sched, tq_size, intr_on, devs, dev, victim, cancel_q>>

-----------------------------------------------------------------------------
(* kthread_cancel and sched_cancel of another thread, at IPL_LOW.          *)

cancel_Flag(t, u) ==
  /\ Runs(t, "running")
  /\ sched.kt_state[t] = KT_RUN
  /\ u # t
  /\ sched.kt_state[u] # KT_EXITED
  /\ ~sched.kt_cancelled[u]
  /\ sched' = [sched EXCEPT !.kt_cancelled[u] = TRUE]
  /\ victim' = [victim EXCEPT ![t] = u]
  /\ GoTo(t, "check")
  /\ UNCHANGED <<tq_size, cpu, devs, curipl, dev, cancel_q>>

\* The test of kt_state, made twice in the code.
cancel_Check(t) ==
  /\ Runs(t, "check")
  /\ \/ /\ sched.kt_state[victim[t]] = KT_SLEEP_CANCELLABLE
        /\ GoTo(t, "call")
        /\ UNCHANGED victim
     \/ /\ sched.kt_state[victim[t]] # KT_SLEEP_CANCELLABLE
        /\ GoTo(t, "running")
        /\ victim' = [victim EXCEPT ![t] = t]
  /\ UNCHANGED <<sched, tq_size, cpu, devs, curipl, dev, cancel_q>>

\* The arguments of ktqueue_remove are evaluated.
cancel_Call(t) ==
  /\ Runs(t, "call")
  /\ cancel_q' = [cancel_q EXCEPT ![t] = sched.kt_wchan[victim[t]]]
  /\ GoTo(t, "unlink")
  /\ UNCHANGED <<sched, tq_size, cpu, devs, curipl, dev, victim>>

\* Seeded fault: the thread is looked for on the queue of the argument.
list_remove_FromArgument(lists, u, q) == [lists EXCEPT ![q] = Remove(@, u)]

\* list_remove takes a thread off the list it is linked on, whichever it is.
list_remove(lists, u, q) ==
  [r \in Queue |-> IF Contains(lists[r], u) THEN Unlink(lists[r], u)
                                            ELSE lists[r]]

cancel_Unlink(t) ==
  /\ Runs(t, "unlink")
  /\ sched' = [sched EXCEPT
                 !.tq_list = list_remove(@, victim[t], cancel_q[t]),
                 !.kt_wchan[victim[t]] = NoQueue]
  /\ GoTo(t, "count")
  /\ UNCHANGED <<tq_size, cpu, devs, locs>>

cancel_Count(t) ==
  /\ Runs(t, "count")
  /\ tq_size' = [tq_size EXCEPT ![cancel_q[t]] = @ - 1]
  /\ cancel_q' = [cancel_q EXCEPT ![t] = RunQ]
  /\ GoTo(t, "wake")
  /\ UNCHANGED <<sched, cpu, devs, curipl, dev, victim>>

cancel_Wake(t) ==
  /\ Runs(t, "wake")
  /\ Becomes(sched_make_runnable(sched, victim[t]))
  /\ victim' = [victim EXCEPT ![t] = t]
  /\ GoTo(t, "running")
  /\ UNCHANGED <<cpu, devs, curipl, dev, cancel_q>>

ThreadStep(t) ==
  \/ Yield(t)
  \/ kthread_exit(t)
  \/ \E d \in Device : DriverEnter(t, d)
  \/ DriverSleep(t)
  \/ DriverLeave(t)
  \/ switch_Mask(t)
  \/ switch_Test(t)
  \/ switch_Unmask(t)
  \/ switch_Wait(t)
  \/ switch_Found(t)
  \/ switch_Dequeue(t)
  \/ switch_Restore(t)
  \/ \E u \in Thread : cancel_Flag(t, u)
  \/ cancel_Check(t)
  \/ cancel_Call(t)
  \/ cancel_Unlink(t)
  \/ cancel_Count(t)
  \/ cancel_Wake(t)

Next ==
  \/ KeyPress
  \/ DiskFinishes
  \/ \E d \in Device : Interrupt(d)
  \/ \E t \in Thread : ThreadStep(t)

\* The CPU executes.  The interrupt controller holds a request until it is
\* taken, so one that the CPU is open to again and again is taken (strong:
\* the level closes between two such moments).  The disk answers, nobody has
\* to press a key, and a cancelled thread does not go back to its system call
\* forever (kthread_exit is where syscall_handler takes it).
Fairness ==
  /\ WF_vars(DiskFinishes)
  /\ \A d \in Device : SF_vars(Interrupt(d))
  /\ \A t \in Thread : WF_vars(ThreadStep(t)) /\ SF_vars(kthread_exit(t))

Spec     == Init /\ [][Next]_vars
FairSpec == Spec /\ Fairness

-----------------------------------------------------------------------------
(* Properties.                                                             *)

\* The thread has been taken off its queue by sched_cancel and is about to be
\* made runnable.
InFlight(u) == \E t \in Thread : pc[t] \in {"count", "wake"} /\ victim[t] = u

\* Whatever an interrupt comes between, a thread is on the one queue that its
\* kt_wchan names, and a thread that is not running its own code is runnable
\* on the run queue, asleep on a wait queue, exited, or in flight.
NoThreadLost ==
  /\ Linked(sched)
  /\ \A t \in Thread :
       CASE InFlight(t) -> sched.kt_wchan[t] = NoQueue
         [] ~InFlight(t) /\ (t # sched.curthr \/ pc[t] \in InSwitch) ->
              \/ sched.kt_state[t] = KT_RUN /\ sched.kt_wchan[t] = RunQ
              \/ sched.kt_state[t] \in Asleep /\ sched.kt_wchan[t] \in WaitQueue
              \/ sched.kt_state[t] = KT_EXITED /\ sched.kt_wchan[t] = NoQueue
         [] OTHER -> sched.kt_wchan[t] = NoQueue

\* Past its loop sched_switch finds a thread to run, and takes it off the
\* queue with every interrupt masked.
SwitchFindsThread ==
  /\ pc[sched.curthr] \in {"found", "dequeue"} => ~sched_queue_empty(sched, RunQ)
  /\ pc[sched.curthr] = "dequeue" => ipl = IPL_HIGH

\* The interrupt that ends a disk operation cannot come before the thread that
\* started it is on the queue (the hazard named in ata.c): whoever sleeps for
\* the disk will be woken.
DiskSleeperIsServed ==
  ~sched_queue_empty(sched, DiskQ) => busy \/ pending[DiskQ]

\* A cancelled thread does not stay in a cancellable sleep, even if keyboard
\* interrupts come at any point of sched_cancel.
CancelledSleeperWakes ==
  \A u \in Thread :
    sched.kt_cancelled[u] /\ sched.kt_state[u] = KT_SLEEP_CANCELLABLE =>
      \E t \in Thread : pc[t] \in InCancel /\ victim[t] = u

\* What the interrupt levels are for, together.
LevelsProtect == SwitchFindsThread /\ DiskSleeperIsServed /\ CancelledSleeperWakes

\* The CPU halts "if there are no threads on the run queue" (sched.c).
HaltsOnlyWhenIdle ==
  pc[sched.curthr] = "hlt" => sched_queue_empty(sched, RunQ)

\* A thread that enters the disk driver gets out of it, unless the CPU has
\* halted with the run queue not empty.
DiskIOReturns ==
  \A t \in Thread : dev[t] = DiskQ ~> (dev[t] # DiskQ \/ ~HaltsOnlyWhenIdle)
=============================================================================
