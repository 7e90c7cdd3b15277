------------------------------- MODULE Sched -------------------------------
(***************************************************************************)
(* The thread scheduler of the kernel (kernel/proc/sched.c): thread queues *)
(* and the operations that sleep, wake, cancel and switch threads.         *)
(*                                                                         *)
(* The kernel runs on one CPU and is not preemptive, and the run queue is  *)
(* only touched at a raised interrupt level, so every operation between    *)
(* two calls of sched_switch is one step.  SchedIrq checks the places      *)
(* where interrupts matter.  The operations are therefore state functions: *)
(* they take the scheduler's state, a record, and return the next one, and *)
(* the modules that EXTEND this one chain them inside their actions.       *)
(***************************************************************************)
EXTENDS Naturals, Sequences, SequencesExt

CONSTANTS
  Thread,     \* the kthread_t structures
  WaitQueue,  \* every ktqueue_t that threads sleep on
  RunQ,       \* kt_runq
  NoQueue,    \* a NULL kt_wchan
  NoThread    \* no current thread: the CPU is inside the loop of sched_switch

ASSUME SchedAssumption ==
  /\ RunQ \notin WaitQueue
  /\ NoQueue \notin WaitQueue \cup {RunQ}
  /\ NoThread \notin Thread

Queue == WaitQueue \cup {RunQ}

KT_NO_STATE          == "KT_NO_STATE"
KT_RUN               == "KT_RUN"
KT_SLEEP             == "KT_SLEEP"
KT_SLEEP_CANCELLABLE == "KT_SLEEP_CANCELLABLE"
KT_EXITED            == "KT_EXITED"

Asleep   == {KT_SLEEP, KT_SLEEP_CANCELLABLE}
KtState  == {KT_NO_STATE, KT_RUN, KT_EXITED} \cup Asleep

SchedState ==
  [tq_list      : [Queue -> Seq(Thread)],
   kt_wchan     : [Thread -> Queue \cup {NoQueue}],
   kt_state     : [Thread -> KtState],
   kt_cancelled : [Thread -> BOOLEAN],
   curthr       : Thread \cup {NoThread}]

-----------------------------------------------------------------------------
(* Queue manipulation.  A queue is listed in the order its threads leave:  *)
(* the code inserts at the head of the list and removes at its tail.       *)

\* Seeded fault: the thread is inserted at the end that is served first.
ktqueue_enqueue_ServedFirst(s, q, t) ==
  [s EXCEPT !.tq_list[q] = <<t>> \o @, !.kt_wchan[t] = q]

ktqueue_enqueue(s, q, t) ==
  [s EXCEPT !.tq_list[q] = Append(@, t), !.kt_wchan[t] = q]

ktqueue_dequeue(s, q) ==
  [s EXCEPT !.tq_list[q] = Tail(@), !.kt_wchan[Head(s.tq_list[q])] = NoQueue]

Unlink(seq, t) ==
  RemoveAt(seq, CHOOSE i \in DOMAIN seq : seq[i] = t)

ktqueue_remove(s, q, t) ==
  [s EXCEPT !.tq_list[q] = Unlink(@, t), !.kt_wchan[t] = NoQueue]

sched_queue_empty(s, q) == s.tq_list[q] = << >>

-----------------------------------------------------------------------------
(* Operations on threads.                                                  *)

sched_make_runnable(s, t) ==
  ktqueue_enqueue([s EXCEPT !.kt_state[t] = KT_RUN], RunQ, t)

\* The calling thread leaves the CPU: it stays wherever the caller put it.
sched_switch(s) == [s EXCEPT !.curthr = NoThread]

\* sched_switch picks the next thread, and the CPU runs in its context.
SwitchIn(s) ==
  LET newthr == Head(s.tq_list[RunQ])
  IN  [ktqueue_dequeue(s, RunQ) EXCEPT !.kt_state[newthr] = KT_RUN,
                                       !.curthr = newthr]

SleepOn(s, q, how) ==
  sched_switch(ktqueue_enqueue([s EXCEPT !.kt_state[s.curthr] = how],
                               q, s.curthr))

sched_sleep_on(s, q) == SleepOn(s, q, KT_SLEEP)

\* The part of sched_cancellable_sleep_on up to the switch, for a caller
\* that is not cancelled.
sched_cancellable_sleep_on(s, q) == SleepOn(s, q, KT_SLEEP_CANCELLABLE)

\* What sched_cancellable_sleep_on does to a cancelled caller, on entry or
\* when it wakes, as it returns -EINTR (the caller also sets PROC_DEAD).
ReturnEINTR(s) == [s EXCEPT !.kt_state[s.curthr] = KT_EXITED]

sched_wakeup_on(s, q) ==
  IF sched_queue_empty(s, q) THEN s
  ELSE sched_make_runnable(ktqueue_dequeue(s, q), Head(s.tq_list[q]))

\* Seeded fault: a cancelled sleeper is made runnable but stays on its wait queue.
sched_cancel_StaysLinked(s, t) ==
  LET flagged == [s EXCEPT !.kt_cancelled[t] = TRUE]
  IN  IF s.kt_state[t] = KT_SLEEP_CANCELLABLE
      THEN sched_make_runnable(flagged, t)
      ELSE flagged

\* Seeded fault: cancelling ends every sleep.
sched_cancel_AnySleep(s, t) ==
  LET flagged == [s EXCEPT !.kt_cancelled[t] = TRUE]
  IN  IF s.kt_state[t] \in Asleep
      THEN sched_make_runnable(ktqueue_remove(flagged, s.kt_wchan[t], t), t)
      ELSE flagged

sched_cancel(s, t) ==
  LET flagged == [s EXCEPT !.kt_cancelled[t] = TRUE]
  IN  IF s.kt_state[t] = KT_SLEEP_CANCELLABLE
      THEN sched_make_runnable(ktqueue_remove(flagged, s.kt_wchan[t], t), t)
      ELSE flagged

\* What kthread_exit does to the calling thread before the process cleans up.
ThreadExits(s) ==
  [s EXCEPT !.kt_wchan[s.curthr] = NoQueue, !.kt_state[s.curthr] = KT_EXITED]

-----------------------------------------------------------------------------
(* What the callers rely on.                                               *)

\* A queue lists each of its threads once, and a thread is listed on the
\* queue its kt_wchan names and on no other.
Linked(s) ==
  /\ \A q \in Queue : IsInjective(s.tq_list[q])
  /\ \A q \in Queue, t \in Thread :
       Contains(s.tq_list[q], t) <=> s.kt_wchan[t] = q

\* Unless it has exited or was never started, a thread that does not run is
\* on the run queue when runnable and on a wait queue when asleep.
Accounted(s) ==
  \A t \in Thread :
    IF t = s.curthr
    THEN s.kt_wchan[t] = NoQueue /\ s.kt_state[t] \in {KT_RUN, KT_EXITED}
    ELSE /\ s.kt_state[t] = KT_RUN <=> s.kt_wchan[t] = RunQ
         /\ s.kt_state[t] \in Asleep <=> s.kt_wchan[t] \in WaitQueue

QueueDiscipline(s) == Linked(s) /\ Accounted(s)
=============================================================================
