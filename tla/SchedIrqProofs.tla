--------------------------- MODULE SchedIrqProofs ---------------------------
(***************************************************************************)
(* That no interrupt, wherever it arrives in sched_switch, sched_cancel or *)
(* a driver's sleep, loses a thread or finds the scheduler in a state that *)
(* its level should have protected: NoThreadLost and LevelsProtect of      *)
(* SchedIrq, for every number of threads.                                  *)
(***************************************************************************)
EXTENDS SchedIrq, SchedProofs, FiniteSetTheorems

-----------------------------------------------------------------------------
(* The inductive invariant.                                                *)

Place == {"running", "sleep", "io_done", "switched"} \cup InSwitch \cup InCancel
Level == {IPL_LOW, IPL_HIGH} \cup {Class(d) : d \in Device}

TypeOK ==
  /\ sched \in SchedState
  /\ sched.curthr \in Thread
  /\ tq_size \in [Queue -> Int]
  /\ ipl \in Level
  /\ intr_on \in BOOLEAN
  /\ pending \in [Device -> BOOLEAN]
  /\ busy \in BOOLEAN
  /\ pc \in [Thread -> Place]
  /\ curipl \in [Thread -> Level]
  /\ dev \in [Thread -> Device \cup {NoQueue}]
  /\ victim \in [Thread -> Thread]
  /\ cancel_q \in [Thread -> Queue \cup {NoQueue}]

\* Threads that do not have the CPU wait inside sched_switch.
Parked == \A t \in Thread : t # sched.curthr => pc[t] = "switched"

\* A thread cancels another one.
CancelsAnother == pc[sched.curthr] \in InCancel => victim[sched.curthr] # sched.curthr

OnItsQueue(t) ==
  \/ sched.kt_state[t] = KT_RUN /\ sched.kt_wchan[t] = RunQ
  \/ sched.kt_state[t] \in Asleep /\ sched.kt_wchan[t] \in WaitQueue
  \/ sched.kt_state[t] = KT_EXITED /\ sched.kt_wchan[t] = NoQueue

\* The thread is being moved by a cancellation, or runs its own code.
OffQueues(t) ==
  \/ pc[sched.curthr] \in {"count", "wake"} /\ victim[sched.curthr] = t
  \/ t = sched.curthr /\ pc[t] \notin InSwitch

Placed ==
  \A t \in Thread : IF OffQueues(t) THEN sched.kt_wchan[t] = NoQueue
                                    ELSE OnItsQueue(t)

\* One thread at a time uses the disk, only users of the disk sleep on its
\* queue, and from the start of the operation to the sleep the operation or
\* its interrupt is outstanding and masked.
DiskIsOneThreads ==
  /\ \A t, u \in Thread : dev[t] = DiskQ /\ dev[u] = DiskQ => t = u
  /\ \A t \in Thread : sched.kt_wchan[t] = DiskQ => dev[t] = DiskQ
  /\ pc[sched.curthr] = "sleep" /\ dev[sched.curthr] = DiskQ =>
       ipl = Class(DiskQ) /\ (busy \/ pending[DiskQ])

\* What LevelsProtect says of the queues, said of the threads on them.
RunQueueIsSeen ==
  /\ pc[sched.curthr] \in {"found", "dequeue"} =>
       \E t \in Thread : sched.kt_wchan[t] = RunQ
  /\ pc[sched.curthr] = "dequeue" => ipl = IPL_HIGH

DiskWillAnswer ==
  (\E t \in Thread : sched.kt_wchan[t] = DiskQ) => busy \/ pending[DiskQ]

CancelIsUnderWay ==
  \A u \in Thread :
    sched.kt_cancelled[u] /\ sched.kt_state[u] = KT_SLEEP_CANCELLABLE =>
      pc[sched.curthr] \in InCancel /\ victim[sched.curthr] = u

IInv ==
  /\ TypeOK
  /\ Linked(sched)
  /\ Parked
  /\ CancelsAnother
  /\ Placed
  /\ DiskIsOneThreads
  /\ RunQueueIsSeen
  /\ DiskWillAnswer
  /\ CancelIsUnderWay

-----------------------------------------------------------------------------
(* What the steps do to the scheduler.                                     *)

\* An empty queue is one that no kt_wchan names.
LEMMA NobodyOnEmptyQueue ==
  ASSUME IInv, NEW q \in Queue
  PROVE  sched_queue_empty(sched, q) <=> \A t \in Thread : sched.kt_wchan[t] # q
BY EmptyMeansNobody DEF IInv, TypeOK, WellFormed

\* tq_size keeps its type, whatever the scheduler becomes.
LEMMA SizesAreNumbers ==
  ASSUME NEW s \in SchedState, TypeOK, Becomes(s)
  PROVE  tq_size' \in [Queue -> Int]
<1>1. ASSUME NEW q \in Queue
      PROVE  Len(s.tq_list[q]) \in Nat /\ Len(sched.tq_list[q]) \in Nat
  BY LenProperties DEF TypeOK, SchedState
<1>2. ASSUME NEW q \in Queue
      PROVE  tq_size[q] + Len(s.tq_list[q]) - Len(sched.tq_list[q]) \in Int
  <2>1. tq_size[q] \in Int
    BY DEF TypeOK
  <2>2. Len(s.tq_list[q]) \in Nat /\ Len(sched.tq_list[q]) \in Nat
    BY <1>1
  <2>3. \A a \in Int, b, c \in Nat : a + b - c \in Int
    OBVIOUS
  <2> QED BY <2>1, <2>2, <2>3
<1> QED BY <1>2 DEF Becomes

\* list_remove takes a thread off its queue, and ktqueue_remove clears
\* kt_wchan.
LEMMA UnlinkedAnywhere ==
  ASSUME NEW s, WellFormed(s), NEW u \in Thread, NEW q,
         NEW r, r = [s EXCEPT !.tq_list = list_remove(@, u, q),
                              !.kt_wchan[u] = NoQueue]
  PROVE  /\ WellFormed(r)
         /\ SameThreads(s, r)
         /\ r.kt_wchan = [s.kt_wchan EXCEPT ![u] = NoQueue]
<1>1. /\ s.tq_list \in [Queue -> Seq(Thread)]
      /\ s.kt_wchan \in [Thread -> Queue \cup {NoQueue}]
      /\ NoQueue \notin Queue
  BY SchedAssumption DEF WellFormed, SchedState, Queue
<1>2. /\ SameThreads(s, r)
      /\ r.kt_wchan = [s.kt_wchan EXCEPT ![u] = NoQueue]
      /\ r.tq_list = list_remove(s.tq_list, u, q)
  BY DEF WellFormed, SchedState, SameThreads
<1>3. ASSUME NEW p \in Queue
      PROVE  /\ r.tq_list[p] \in Seq(Thread)
             /\ IsInjective(r.tq_list[p])
             /\ \A x : Contains(r.tq_list[p], x) <=>
                         Contains(s.tq_list[p], x) /\ x # u
  <2>1. s.tq_list[p] \in Seq(Thread) /\ IsInjective(s.tq_list[p])
    BY <1>1 DEF WellFormed, Linked
  <2>2. CASE Contains(s.tq_list[p], u)
    <3>1. r.tq_list[p] = Unlink(s.tq_list[p], u)
      BY <1>2, <2>2 DEF list_remove
    <3> QED BY <2>1, <2>2, <3>1, UnlinkOfInjective
  <2>3. CASE ~Contains(s.tq_list[p], u)
    <3>1. r.tq_list[p] = s.tq_list[p]
      BY <1>2, <2>3 DEF list_remove
    <3> QED BY <2>1, <2>3, <3>1
  <2> QED BY <2>2, <2>3
<1>4. r \in SchedState
  <2>1. r.tq_list \in [Queue -> Seq(Thread)]
    BY <1>2, <1>3 DEF list_remove
  <2> QED BY <1>1, <1>2, <2>1 DEF WellFormed, SchedState
<1>5. ASSUME NEW p \in Queue, NEW x \in Thread
      PROVE  Contains(r.tq_list[p], x) <=> r.kt_wchan[x] = p
  <2>1. Contains(s.tq_list[p], x) <=> s.kt_wchan[x] = p
    BY DEF WellFormed, Linked
  <2>2. CASE x = u
    BY <1>1, <1>2, <1>3, <2>2
  <2>3. CASE x # u
    BY <1>1, <1>2, <1>3, <2>1, <2>3
  <2> QED BY <2>2, <2>3
<1> QED BY <1>2, <1>3, <1>4, <1>5 DEF WellFormed, Linked

-----------------------------------------------------------------------------
(* Steps that leave the scheduler alone.                                   *)

\* Masking everything touches neither the queues nor a disk operation.
LEMMA switch_Mask_Keeps ==
  ASSUME IInv, NEW t \in Thread, switch_Mask(t)
  PROVE  IInv'
<1> USE SchedAssumption, SchedIrqAssumption
    DEF switch_Mask, Runs, GoTo, cpu, devs, locs, Place, InSwitch, InCancel
<1>1. TypeOK'
  BY DEF IInv, TypeOK, Level, Class, Device, Queue, IPL_LOW, IPL_HIGH
<1>2. Linked(sched)' /\ Parked' /\ CancelsAnother'
  BY DEF IInv, TypeOK, Parked, CancelsAnother
<1>3. Placed'
  BY DEF IInv, TypeOK, Parked, Placed, OnItsQueue, OffQueues
<1>4. DiskIsOneThreads' /\ DiskWillAnswer'
  BY DEF IInv, TypeOK, DiskIsOneThreads, DiskWillAnswer
<1>5. RunQueueIsSeen'
  BY DEF IInv, TypeOK, RunQueueIsSeen
<1>6. CancelIsUnderWay'
  BY DEF IInv, TypeOK, CancelIsUnderWay
<1> QED BY <1>1, <1>2, <1>3, <1>4, <1>5, <1>6 DEF IInv

\* The loop of sched_switch is left only if the run queue has a thread.
LEMMA switch_Test_Keeps ==
  ASSUME IInv, NEW t \in Thread, switch_Test(t)
  PROVE  IInv'
<1> USE SchedAssumption, SchedIrqAssumption
    DEF switch_Test, Runs, GoTo, cpu, devs, locs, Place, InSwitch, InCancel
<1>1. TypeOK'
  BY DEF IInv, TypeOK, Level, Class, Device, Queue, IPL_LOW, IPL_HIGH
<1>2. Linked(sched)' /\ Parked' /\ CancelsAnother'
  BY DEF IInv, TypeOK, Parked, CancelsAnother
<1>3. Placed'
  BY DEF IInv, TypeOK, Parked, Placed, OnItsQueue, OffQueues
<1>4. DiskIsOneThreads' /\ DiskWillAnswer'
  BY DEF IInv, TypeOK, DiskIsOneThreads, DiskWillAnswer
<1>5. RunQueueIsSeen'
  BY NobodyOnEmptyQueue DEF IInv, TypeOK, RunQueueIsSeen, Queue
<1>6. CancelIsUnderWay'
  BY DEF IInv, TypeOK, CancelIsUnderWay
<1> QED BY <1>1, <1>2, <1>3, <1>4, <1>5, <1>6 DEF IInv

\* Opening the levels moves nobody.
LEMMA switch_Unmask_Keeps ==
  ASSUME IInv, NEW t \in Thread, switch_Unmask(t)
  PROVE  IInv'
<1> USE SchedAssumption, SchedIrqAssumption
    DEF switch_Unmask, Runs, GoTo, cpu, devs, locs, Place, InSwitch, InCancel
<1>1. TypeOK'
  BY DEF IInv, TypeOK, Level, Class, Device, Queue, IPL_LOW, IPL_HIGH
<1>2. Linked(sched)' /\ Parked' /\ CancelsAnother'
  BY DEF IInv, TypeOK, Parked, CancelsAnother
<1>3. Placed'
  BY DEF IInv, TypeOK, Parked, Placed, OnItsQueue, OffQueues
<1>4. DiskIsOneThreads' /\ DiskWillAnswer'
  BY DEF IInv, TypeOK, DiskIsOneThreads, DiskWillAnswer
<1>5. RunQueueIsSeen'
  BY DEF IInv, TypeOK, RunQueueIsSeen
<1>6. CancelIsUnderWay'
  BY DEF IInv, TypeOK, CancelIsUnderWay
<1> QED BY <1>1, <1>2, <1>3, <1>4, <1>5, <1>6 DEF IInv

\* Halting moves nobody.
LEMMA switch_Wait_Keeps ==
  ASSUME IInv, NEW t \in Thread, switch_Wait(t)
  PROVE  IInv'
<1> USE SchedAssumption, SchedIrqAssumption
    DEF switch_Wait, Runs, GoTo, cpu, devs, locs, Place, InSwitch, InCancel
<1>1. TypeOK'
  BY DEF IInv, TypeOK, Level, Class, Device, Queue, IPL_LOW, IPL_HIGH
<1>2. Linked(sched)' /\ Parked' /\ CancelsAnother'
  BY DEF IInv, TypeOK, Parked, CancelsAnother
<1>3. Placed'
  BY DEF IInv, TypeOK, Parked, Placed, OnItsQueue, OffQueues
<1>4. DiskIsOneThreads' /\ DiskWillAnswer'
  BY DEF IInv, TypeOK, DiskIsOneThreads, DiskWillAnswer
<1>5. RunQueueIsSeen'
  BY DEF IInv, TypeOK, RunQueueIsSeen
<1>6. CancelIsUnderWay'
  BY DEF IInv, TypeOK, CancelIsUnderWay
<1> QED BY <1>1, <1>2, <1>3, <1>4, <1>5, <1>6 DEF IInv

\* Masking again: the thread that was seen on the run queue is still there.
LEMMA switch_Found_Keeps ==
  ASSUME IInv, NEW t \in Thread, switch_Found(t)
  PROVE  IInv'
<1> USE SchedAssumption, SchedIrqAssumption
    DEF switch_Found, Runs, GoTo, cpu, devs, locs, Place, InSwitch, InCancel
<1>1. TypeOK'
  BY DEF IInv, TypeOK, Level, Class, Device, Queue, IPL_LOW, IPL_HIGH
<1>2. Linked(sched)' /\ Parked' /\ CancelsAnother'
  BY DEF IInv, TypeOK, Parked, CancelsAnother
<1>3. Placed'
  BY DEF IInv, TypeOK, Parked, Placed, OnItsQueue, OffQueues
<1>4. DiskIsOneThreads' /\ DiskWillAnswer'
  BY DEF IInv, TypeOK, DiskIsOneThreads, DiskWillAnswer
<1>5. RunQueueIsSeen'
  BY DEF IInv, TypeOK, RunQueueIsSeen
<1>6. CancelIsUnderWay'
  BY DEF IInv, TypeOK, CancelIsUnderWay
<1> QED BY <1>1, <1>2, <1>3, <1>4, <1>5, <1>6 DEF IInv

\* The thread that was switched in goes back to its code or its driver.
LEMMA switch_Restore_Keeps ==
  ASSUME IInv, NEW t \in Thread, switch_Restore(t)
  PROVE  IInv'
<1> USE SchedAssumption, SchedIrqAssumption
    DEF switch_Restore, Runs, GoTo, cpu, devs, locs, Place, InSwitch, InCancel
<1>1. TypeOK'
  BY DEF IInv, TypeOK, Level, Class, Device, Queue, IPL_LOW, IPL_HIGH
<1>2. Linked(sched)' /\ Parked' /\ CancelsAnother'
  BY DEF IInv, TypeOK, Parked, CancelsAnother
<1>3. Placed'
  BY DEF IInv, TypeOK, Parked, Placed, OnItsQueue, OffQueues
<1>4. DiskIsOneThreads' /\ DiskWillAnswer'
  BY DEF IInv, TypeOK, DiskIsOneThreads, DiskWillAnswer
<1>5. RunQueueIsSeen'
  BY DEF IInv, TypeOK, RunQueueIsSeen
<1>6. CancelIsUnderWay'
  BY DEF IInv, TypeOK, CancelIsUnderWay
<1> QED BY <1>1, <1>2, <1>3, <1>4, <1>5, <1>6 DEF IInv

\* The second test of kt_state: a thread that was woken meanwhile is left alone.
LEMMA cancel_Check_Keeps ==
  ASSUME IInv, NEW t \in Thread, cancel_Check(t)
  PROVE  IInv'
<1> USE SchedAssumption, SchedIrqAssumption
    DEF cancel_Check, Runs, GoTo, cpu, devs, locs, Place, InSwitch, InCancel
<1>1. TypeOK'
  BY DEF IInv, TypeOK, Level, Class, Device, Queue, IPL_LOW, IPL_HIGH
<1>2. Linked(sched)' /\ Parked' /\ CancelsAnother'
  BY DEF IInv, TypeOK, Parked, CancelsAnother
<1>3. Placed'
  BY DEF IInv, TypeOK, Parked, Placed, OnItsQueue, OffQueues
<1>4. DiskIsOneThreads' /\ DiskWillAnswer'
  BY DEF IInv, TypeOK, DiskIsOneThreads, DiskWillAnswer
<1>5. RunQueueIsSeen'
  BY DEF IInv, TypeOK, RunQueueIsSeen
<1>6. CancelIsUnderWay'
  BY DEF IInv, TypeOK, CancelIsUnderWay
<1> QED BY <1>1, <1>2, <1>3, <1>4, <1>5, <1>6 DEF IInv

\* Evaluating the arguments of ktqueue_remove moves nobody.
LEMMA cancel_Call_Keeps ==
  ASSUME IInv, NEW t \in Thread, cancel_Call(t)
  PROVE  IInv'
<1> USE SchedAssumption, SchedIrqAssumption
    DEF cancel_Call, Runs, GoTo, cpu, devs, locs, Place, InSwitch, InCancel
<1>1. TypeOK'
  BY DEF IInv, TypeOK, SchedState
<1>2. Linked(sched)' /\ Parked' /\ CancelsAnother'
  BY DEF IInv, TypeOK, Parked, CancelsAnother
<1>3. Placed'
  BY DEF IInv, TypeOK, Parked, Placed, OnItsQueue, OffQueues
<1>4. DiskIsOneThreads' /\ DiskWillAnswer'
  BY DEF IInv, TypeOK, DiskIsOneThreads, DiskWillAnswer
<1>5. RunQueueIsSeen'
  BY DEF IInv, TypeOK, RunQueueIsSeen
<1>6. CancelIsUnderWay'
  BY DEF IInv, TypeOK, CancelIsUnderWay
<1> QED BY <1>1, <1>2, <1>3, <1>4, <1>5, <1>6 DEF IInv

\* Only tq_size changes between the unlinking and the wakeup.
LEMMA cancel_Count_Keeps ==
  ASSUME IInv, NEW t \in Thread, cancel_Count(t)
  PROVE  IInv'
<1> USE SchedAssumption, SchedIrqAssumption
    DEF cancel_Count, Runs, GoTo, cpu, devs, locs, Place, InSwitch, InCancel
<1>1. TypeOK'
  <2>1. ASSUME NEW q \in Queue PROVE tq_size'[q] \in Int
    <3>1. tq_size[q] \in Int
      BY DEF IInv, TypeOK
    <3> QED BY <3>1 DEF IInv, TypeOK
  <2>2. tq_size' \in [Queue -> Int]
    BY <2>1 DEF IInv, TypeOK
  <2> QED BY <2>2 DEF IInv, TypeOK, Queue
<1>2. Linked(sched)' /\ Parked' /\ CancelsAnother'
  BY DEF IInv, TypeOK, Parked, CancelsAnother
<1>3. Placed'
  BY DEF IInv, TypeOK, Parked, Placed, OnItsQueue, OffQueues
<1>4. DiskIsOneThreads' /\ DiskWillAnswer'
  BY DEF IInv, TypeOK, DiskIsOneThreads, DiskWillAnswer
<1>5. RunQueueIsSeen'
  BY DEF IInv, TypeOK, RunQueueIsSeen
<1>6. CancelIsUnderWay'
  BY DEF IInv, TypeOK, CancelIsUnderWay
<1> QED BY <1>1, <1>2, <1>3, <1>4, <1>5, <1>6 DEF IInv

\* The operation starts with its interrupt masked, by the only user of the disk.
LEMMA DriverEnter_Keeps ==
  ASSUME IInv, NEW t \in Thread, NEW d \in Device, DriverEnter(t, d)
  PROVE  IInv'
<1> USE SchedAssumption, SchedIrqAssumption
    DEF DriverEnter, MaskOf, Runs, GoTo, cpu, devs, locs, Place, InSwitch, InCancel
<1>1. TypeOK'
  BY DEF IInv, TypeOK, Level, Class, Device, Queue, IPL_LOW, IPL_HIGH
<1>2. Linked(sched)' /\ Parked' /\ CancelsAnother'
  BY DEF IInv, TypeOK, Parked, CancelsAnother
<1>3. Placed'
  BY DEF IInv, TypeOK, Parked, Placed, OnItsQueue, OffQueues
<1>4. DiskIsOneThreads' /\ DiskWillAnswer'
  <2>1. sched.kt_wchan[t] = NoQueue /\ NoQueue # DiskQ
    BY DEF IInv, TypeOK, Placed, OffQueues, Queue, Device
  <2>2. /\ dev \in [Thread -> Device \cup {NoQueue}]
        /\ dev' = [dev EXCEPT ![t] = d]
        /\ d = DiskQ => (\A u \in Thread : dev[u] # DiskQ) /\ busy'
        /\ busy => busy'
        /\ pc' = [pc EXCEPT ![t] = "sleep"]
        /\ ipl' = Class(d) /\ sched' = sched /\ sched.curthr = t
        /\ pending' = pending
    BY DEF IInv, TypeOK
  <2>3. DiskIsOneThreads'
    BY <2>1, <2>2 DEF IInv, DiskIsOneThreads
  <2>4. DiskWillAnswer'
    BY <2>2 DEF IInv, DiskWillAnswer
  <2> QED BY <2>3, <2>4
<1>5. RunQueueIsSeen'
  BY DEF IInv, TypeOK, RunQueueIsSeen
<1>6. CancelIsUnderWay'
  BY DEF IInv, TypeOK, CancelIsUnderWay
<1> QED BY <1>1, <1>2, <1>3, <1>4, <1>5, <1>6 DEF IInv

\* A key press only raises the interrupt.
LEMMA KeyPress_Keeps ==
  ASSUME IInv, KeyPress
  PROVE  IInv'
<1> USE SchedAssumption, SchedIrqAssumption
    DEF KeyPress, Runs, GoTo, cpu, devs, locs, Place, InSwitch, InCancel
<1>1. TypeOK'
  BY DEF IInv, TypeOK, Level, Class, Device, Queue, IPL_LOW, IPL_HIGH
<1>2. Linked(sched)' /\ Parked' /\ CancelsAnother'
  BY DEF IInv, TypeOK, Parked, CancelsAnother
<1>3. Placed'
  BY DEF IInv, TypeOK, Parked, Placed, OnItsQueue, OffQueues
<1>4. DiskIsOneThreads' /\ DiskWillAnswer'
  BY DEF IInv, TypeOK, DiskIsOneThreads, DiskWillAnswer, Device
<1>5. RunQueueIsSeen'
  BY DEF IInv, TypeOK, RunQueueIsSeen
<1>6. CancelIsUnderWay'
  BY DEF IInv, TypeOK, CancelIsUnderWay
<1> QED BY <1>1, <1>2, <1>3, <1>4, <1>5, <1>6 DEF IInv

\* The end of an operation raises the interrupt that was owed.
LEMMA DiskFinishes_Keeps ==
  ASSUME IInv, DiskFinishes
  PROVE  IInv'
<1> USE SchedAssumption, SchedIrqAssumption
    DEF DiskFinishes, Runs, GoTo, cpu, devs, locs, Place, InSwitch, InCancel
<1>1. TypeOK'
  BY DEF IInv, TypeOK, Level, Class, Device, Queue, IPL_LOW, IPL_HIGH
<1>2. Linked(sched)' /\ Parked' /\ CancelsAnother'
  BY DEF IInv, TypeOK, Parked, CancelsAnother
<1>3. Placed'
  BY DEF IInv, TypeOK, Parked, Placed, OnItsQueue, OffQueues
<1>4. DiskIsOneThreads' /\ DiskWillAnswer'
  BY DEF IInv, TypeOK, DiskIsOneThreads, DiskWillAnswer, Device
<1>5. RunQueueIsSeen'
  BY DEF IInv, TypeOK, RunQueueIsSeen
<1>6. CancelIsUnderWay'
  BY DEF IInv, TypeOK, CancelIsUnderWay
<1> QED BY <1>1, <1>2, <1>3, <1>4, <1>5, <1>6 DEF IInv

\* Nothing changes.
LEMMA Stutter_Keeps ==
  ASSUME IInv, UNCHANGED vars
  PROVE  IInv'
<1> USE SchedAssumption, SchedIrqAssumption
    DEF vars, Runs, GoTo, cpu, devs, locs, Place, InSwitch, InCancel
<1>1. TypeOK'
  BY DEF IInv, TypeOK, Level, Class, Device, Queue, IPL_LOW, IPL_HIGH
<1>2. Linked(sched)' /\ Parked' /\ CancelsAnother'
  BY DEF IInv, TypeOK, Parked, CancelsAnother
<1>3. Placed'
  BY DEF IInv, TypeOK, Parked, Placed, OnItsQueue, OffQueues
<1>4. DiskIsOneThreads' /\ DiskWillAnswer'
  BY DEF IInv, TypeOK, DiskIsOneThreads, DiskWillAnswer
<1>5. RunQueueIsSeen'
  BY DEF IInv, TypeOK, RunQueueIsSeen
<1>6. CancelIsUnderWay'
  BY DEF IInv, TypeOK, CancelIsUnderWay
<1> QED BY <1>1, <1>2, <1>3, <1>4, <1>5, <1>6 DEF IInv

-----------------------------------------------------------------------------
(* Steps that change the scheduler.                                        *)

\* A thread that yields is on the run queue before it leaves the CPU.
LEMMA Yield_Keeps ==
  ASSUME IInv, NEW t \in Thread, Yield(t)
  PROVE  IInv'
<1>1. sched.kt_wchan[t] = NoQueue /\ sched.curthr = t /\ WellFormed(sched)
  BY DEF IInv, TypeOK, WellFormed, Placed, OffQueues, InSwitch, Runs, Yield
<1>2. /\ WellFormed(sched')
      /\ sched'.kt_wchan = [sched.kt_wchan EXCEPT ![t] = RunQ]
      /\ sched'.kt_state = [sched.kt_state EXCEPT ![t] = KT_RUN]
      /\ sched'.kt_cancelled = sched.kt_cancelled
      /\ sched'.curthr = t
  <2>1. PICK r : r = sched_make_runnable(sched, t)
    OBVIOUS
  <2>2. /\ WellFormed(r)
        /\ r.kt_wchan = [sched.kt_wchan EXCEPT ![t] = RunQ]
        /\ r.kt_state = [sched.kt_state EXCEPT ![t] = KT_RUN]
        /\ r.kt_cancelled = sched.kt_cancelled
        /\ r.tq_list = [sched.tq_list EXCEPT ![RunQ] = Append(@, t)]
        /\ r.curthr = t
    BY <1>1, <2>1, MakeRunnableKeepsLinks
  <2>3. sched' = r
    BY <2>1 DEF Yield, Becomes
  <2> QED BY <2>2, <2>3
<1> USE SchedAssumption, SchedIrqAssumption
    DEF Yield, Runs, GoTo, cpu, devs, locs, Place, InSwitch, InCancel
<1>3. TypeOK'
  <2>1. Becomes(sched')
    BY DEF Becomes
  <2>2. tq_size' \in [Queue -> Int]
    BY <1>2, <2>1, SizesAreNumbers DEF IInv, WellFormed
  <2> QED BY <1>2, <2>2
          DEF IInv, TypeOK, WellFormed, Level, Class, Device, IPL_LOW, IPL_HIGH
<1>4. Linked(sched)' /\ Parked' /\ CancelsAnother'
  BY <1>2 DEF IInv, TypeOK, WellFormed, Parked, CancelsAnother
<1>5. Placed'
  <2>1. ASSUME NEW x \in Thread
        PROVE  IF OffQueues(x)' THEN sched'.kt_wchan[x] = NoQueue
                                ELSE OnItsQueue(x)'
    <3>1. CASE x = t
      BY <1>1, <1>2, <3>1
      DEF IInv, TypeOK, WellFormed, SchedState, Placed, OnItsQueue, OffQueues,
          CancelsAnother, Asleep, KT_RUN, KT_EXITED, KT_SLEEP, KT_SLEEP_CANCELLABLE
    <3>2. CASE x # t
      BY <1>2, <3>2
      DEF IInv, TypeOK, WellFormed, SchedState, Placed, OnItsQueue, OffQueues,
          CancelsAnother
    <3> QED BY <3>1, <3>2
  <2> QED BY <2>1 DEF Placed
<1>6. DiskIsOneThreads' /\ DiskWillAnswer'
  BY <1>2 DEF IInv, TypeOK, WellFormed, SchedState, DiskIsOneThreads,
     DiskWillAnswer, Device
<1>7. RunQueueIsSeen'
  BY <1>2 DEF IInv, TypeOK, WellFormed, SchedState, RunQueueIsSeen
<1>8. CancelIsUnderWay'
  BY <1>2 DEF IInv, TypeOK, WellFormed, SchedState, CancelIsUnderWay,
     Asleep, KT_RUN, KT_EXITED, KT_SLEEP, KT_SLEEP_CANCELLABLE
<1> QED BY <1>3, <1>4, <1>5, <1>6, <1>7, <1>8 DEF IInv

\* An exiting thread is on no queue.
LEMMA kthread_exit_Keeps ==
  ASSUME IInv, NEW t \in Thread, kthread_exit(t)
  PROVE  IInv'
<1>1. sched.kt_wchan[t] = NoQueue /\ sched.curthr = t /\ WellFormed(sched)
  BY DEF IInv, TypeOK, WellFormed, Placed, OffQueues, InSwitch, Runs, kthread_exit
<1>2. /\ WellFormed(sched')
      /\ sched'.kt_wchan = sched.kt_wchan
      /\ sched'.kt_state = [sched.kt_state EXCEPT ![t] = KT_EXITED]
      /\ sched'.kt_cancelled = sched.kt_cancelled
      /\ sched'.curthr = t
  <2>1. PICK r : r = ThreadExits(sched)
    OBVIOUS
  <2>2. /\ WellFormed(r)
        /\ r.kt_wchan = sched.kt_wchan
        /\ r.kt_state = [sched.kt_state EXCEPT ![t] = KT_EXITED]
        /\ r.kt_cancelled = sched.kt_cancelled
        /\ r.curthr = t
    BY <1>1, <2>1, MarkedExited DEF KeepsFlags
  <2>3. sched' = r
    BY <2>1 DEF kthread_exit, Becomes
  <2> QED BY <2>2, <2>3
<1> USE SchedAssumption, SchedIrqAssumption
    DEF kthread_exit, Runs, GoTo, cpu, devs, locs, Place, InSwitch, InCancel
<1>3. TypeOK'
  <2>1. Becomes(sched')
    BY DEF Becomes
  <2>2. tq_size' \in [Queue -> Int]
    BY <1>2, <2>1, SizesAreNumbers DEF IInv, WellFormed
  <2> QED BY <1>2, <2>2
          DEF IInv, TypeOK, WellFormed, Level, Class, Device, IPL_LOW, IPL_HIGH
<1>4. Linked(sched)' /\ Parked' /\ CancelsAnother'
  BY <1>2 DEF IInv, TypeOK, WellFormed, Parked, CancelsAnother
<1>5. Placed'
  <2>1. ASSUME NEW x \in Thread
        PROVE  IF OffQueues(x)' THEN sched'.kt_wchan[x] = NoQueue
                                ELSE OnItsQueue(x)'
    <3>1. CASE x = t
      BY <1>1, <1>2, <3>1
      DEF IInv, TypeOK, WellFormed, SchedState, Placed, OnItsQueue, OffQueues,
          CancelsAnother, Asleep, KT_RUN, KT_EXITED, KT_SLEEP, KT_SLEEP_CANCELLABLE
    <3>2. CASE x # t
      BY <1>2, <3>2
      DEF IInv, TypeOK, WellFormed, SchedState, Placed, OnItsQueue, OffQueues,
          CancelsAnother
    <3> QED BY <3>1, <3>2
  <2> QED BY <2>1 DEF Placed
<1>6. DiskIsOneThreads' /\ DiskWillAnswer'
  BY <1>2 DEF IInv, TypeOK, WellFormed, SchedState, DiskIsOneThreads,
     DiskWillAnswer, Device
<1>7. RunQueueIsSeen'
  BY <1>2 DEF IInv, TypeOK, WellFormed, SchedState, RunQueueIsSeen
<1>8. CancelIsUnderWay'
  BY <1>2 DEF IInv, TypeOK, WellFormed, SchedState, CancelIsUnderWay,
     Asleep, KT_RUN, KT_EXITED, KT_SLEEP, KT_SLEEP_CANCELLABLE
<1> QED BY <1>3, <1>4, <1>5, <1>6, <1>7, <1>8 DEF IInv

\* The sleep for the disk: the operation is outstanding, and masked until now.
LEMMA DriverSleep_Disk_Keeps ==
  ASSUME IInv, NEW t \in Thread, DriverSleep(t), dev[t] = DiskQ
  PROVE  IInv'
<1>1. sched.kt_wchan[t] = NoQueue /\ sched.curthr = t /\ WellFormed(sched)
  BY DEF IInv, TypeOK, WellFormed, Placed, OffQueues, InSwitch, Runs, DriverSleep
<1>2. /\ WellFormed(sched')
      /\ sched'.kt_wchan = [sched.kt_wchan EXCEPT ![t] = DiskQ]
      /\ sched'.kt_state = [sched.kt_state EXCEPT ![t] = KT_SLEEP]
      /\ sched'.kt_cancelled = sched.kt_cancelled
      /\ sched'.curthr = t
  <2>1. DiskQ \in Queue /\ KT_SLEEP \in Asleep
    BY SchedIrqAssumption DEF Queue, Device, Asleep
  <2>2. PICK r : r = Dozing(sched, DiskQ, t, KT_SLEEP)
    OBVIOUS
  <2>3. /\ WellFormed(r)
        /\ Moves(sched, r, t, DiskQ, KT_SLEEP)
        /\ KeepsFlags(sched, r)
        /\ r.curthr = sched.curthr
    BY <1>1, <2>1, <2>2, FallingAsleep
  <2>4. sched' = r
    BY <2>2, SchedIrqAssumption DEF DriverSleep, Becomes, Dozing
  <2> QED BY <1>1, <2>3, <2>4 DEF Moves, KeepsFlags
<1> USE SchedAssumption, SchedIrqAssumption
    DEF DriverSleep, Runs, GoTo, cpu, devs, locs, Place, InSwitch, InCancel
<1>3. TypeOK'
  <2>1. Becomes(sched')
    BY DEF Becomes
  <2>2. tq_size' \in [Queue -> Int]
    BY <1>2, <2>1, SizesAreNumbers DEF IInv, WellFormed
  <2> QED BY <1>2, <2>2
          DEF IInv, TypeOK, WellFormed, Level, Class, Device, IPL_LOW, IPL_HIGH
<1>4. Linked(sched)' /\ Parked' /\ CancelsAnother'
  BY <1>2 DEF IInv, TypeOK, WellFormed, Parked, CancelsAnother
<1>5. Placed'
  <2>0. /\ pc' = [pc EXCEPT ![t] = "mask"] /\ pc \in [Thread -> Place]
        /\ DiskQ \in WaitQueue /\ DiskQ # RunQ
    BY DEF IInv, TypeOK, Device
  <2>1. ASSUME NEW x \in Thread
        PROVE  IF OffQueues(x)' THEN sched'.kt_wchan[x] = NoQueue
                                ELSE OnItsQueue(x)'
    <3>1. CASE x = t
      BY <1>1, <1>2, <2>0, <3>1
      DEF IInv, TypeOK, WellFormed, SchedState, Placed, OnItsQueue, OffQueues,
          CancelsAnother, Asleep, KT_RUN, KT_EXITED, KT_SLEEP, KT_SLEEP_CANCELLABLE
    <3>2. CASE x # t
      BY <1>2, <3>2
      DEF IInv, TypeOK, WellFormed, SchedState, Placed, OnItsQueue, OffQueues,
          CancelsAnother
    <3> QED BY <3>1, <3>2
  <2> QED BY <2>1 DEF Placed
<1>6. DiskIsOneThreads' /\ DiskWillAnswer'
  BY <1>2 DEF IInv, TypeOK, WellFormed, SchedState, DiskIsOneThreads,
     DiskWillAnswer, Device
<1>7. RunQueueIsSeen'
  BY <1>2 DEF IInv, TypeOK, WellFormed, SchedState, RunQueueIsSeen
<1>8. CancelIsUnderWay'
  BY <1>2 DEF IInv, TypeOK, WellFormed, SchedState, CancelIsUnderWay,
     Asleep, KT_RUN, KT_EXITED, KT_SLEEP, KT_SLEEP_CANCELLABLE
<1> QED BY <1>3, <1>4, <1>5, <1>6, <1>7, <1>8 DEF IInv

\* The cancellable sleep of a thread that is not cancelled.
LEMMA DriverSleep_Tty_Keeps ==
  ASSUME IInv, NEW t \in Thread, DriverSleep(t), dev[t] = TtyQ,
         ~CancelledOnEntry(t)
  PROVE  IInv'
<1>1. sched.kt_wchan[t] = NoQueue /\ sched.curthr = t /\ WellFormed(sched)
  BY DEF IInv, TypeOK, WellFormed, Placed, OffQueues, InSwitch, Runs, DriverSleep
<1>2. /\ WellFormed(sched')
      /\ sched'.kt_wchan = [sched.kt_wchan EXCEPT ![t] = TtyQ]
      /\ sched'.kt_state = [sched.kt_state EXCEPT ![t] = KT_SLEEP_CANCELLABLE]
      /\ sched'.kt_cancelled = sched.kt_cancelled
      /\ sched'.curthr = t
  <2>1. TtyQ \in Queue /\ KT_SLEEP_CANCELLABLE \in Asleep
    BY SchedIrqAssumption DEF Queue, Device, Asleep
  <2>2. PICK r : r = Dozing(sched, TtyQ, t, KT_SLEEP_CANCELLABLE)
    OBVIOUS
  <2>3. /\ WellFormed(r)
        /\ Moves(sched, r, t, TtyQ, KT_SLEEP_CANCELLABLE)
        /\ KeepsFlags(sched, r)
        /\ r.curthr = sched.curthr
    BY <1>1, <2>1, <2>2, FallingAsleep
  <2>4. sched' = r
    BY <2>2, SchedIrqAssumption DEF DriverSleep, Becomes, Dozing
  <2> QED BY <1>1, <2>3, <2>4 DEF Moves, KeepsFlags
<1> USE SchedAssumption, SchedIrqAssumption
    DEF DriverSleep, CancelledOnEntry, Runs, GoTo, cpu, devs, locs, Place, InSwitch, InCancel
<1>3. TypeOK'
  <2>1. Becomes(sched')
    BY DEF Becomes
  <2>2. tq_size' \in [Queue -> Int]
    BY <1>2, <2>1, SizesAreNumbers DEF IInv, WellFormed
  <2> QED BY <1>2, <2>2
          DEF IInv, TypeOK, WellFormed, Level, Class, Device, IPL_LOW, IPL_HIGH
<1>4. Linked(sched)' /\ Parked' /\ CancelsAnother'
  BY <1>2 DEF IInv, TypeOK, WellFormed, Parked, CancelsAnother
<1>5. Placed'
  <2>0. /\ pc' = [pc EXCEPT ![t] = "mask"] /\ pc \in [Thread -> Place]
        /\ TtyQ \in WaitQueue /\ TtyQ # RunQ
    BY DEF IInv, TypeOK, Device
  <2>1. ASSUME NEW x \in Thread
        PROVE  IF OffQueues(x)' THEN sched'.kt_wchan[x] = NoQueue
                                ELSE OnItsQueue(x)'
    <3>1. CASE x = t
      BY <1>1, <1>2, <2>0, <3>1
      DEF IInv, TypeOK, WellFormed, SchedState, Placed, OnItsQueue, OffQueues,
          CancelsAnother, Asleep, KT_RUN, KT_EXITED, KT_SLEEP, KT_SLEEP_CANCELLABLE
    <3>2. CASE x # t
      BY <1>2, <3>2
      DEF IInv, TypeOK, WellFormed, SchedState, Placed, OnItsQueue, OffQueues,
          CancelsAnother
    <3> QED BY <3>1, <3>2
  <2> QED BY <2>1 DEF Placed
<1>6. DiskIsOneThreads' /\ DiskWillAnswer'
  BY <1>2 DEF IInv, TypeOK, WellFormed, SchedState, DiskIsOneThreads,
     DiskWillAnswer, Device
<1>7. RunQueueIsSeen'
  BY <1>2 DEF IInv, TypeOK, WellFormed, SchedState, RunQueueIsSeen
<1>8. CancelIsUnderWay'
  BY <1>2 DEF IInv, TypeOK, WellFormed, SchedState, CancelIsUnderWay,
     Asleep, KT_RUN, KT_EXITED, KT_SLEEP, KT_SLEEP_CANCELLABLE
<1> QED BY <1>3, <1>4, <1>5, <1>6, <1>7, <1>8 DEF IInv

\* A cancelled thread does not begin a cancellable sleep.
LEMMA DriverSleep_Interrupted_Keeps ==
  ASSUME IInv, NEW t \in Thread, DriverSleep(t), dev[t] = TtyQ,
         CancelledOnEntry(t)
  PROVE  IInv'
<1>1. sched.kt_wchan[t] = NoQueue /\ sched.curthr = t /\ WellFormed(sched)
  BY DEF IInv, TypeOK, WellFormed, Placed, OffQueues, InSwitch, Runs, DriverSleep
<1>2. /\ WellFormed(sched')
      /\ sched'.kt_wchan = sched.kt_wchan
      /\ sched'.kt_state = [sched.kt_state EXCEPT ![t] = KT_EXITED]
      /\ sched'.kt_cancelled = sched.kt_cancelled
      /\ sched'.curthr = t
  <2>1. PICK r : r = ReturnEINTR(sched)
    OBVIOUS
  <2>2. /\ WellFormed(r)
        /\ r.kt_wchan = sched.kt_wchan
        /\ r.kt_state = [sched.kt_state EXCEPT ![t] = KT_EXITED]
        /\ r.kt_cancelled = sched.kt_cancelled
        /\ r.curthr = t
    BY <1>1, <2>1, MarkedExited DEF KeepsFlags
  <2>3. sched' = r
    BY <2>1, SchedIrqAssumption DEF DriverSleep, Becomes
  <2> QED BY <2>2, <2>3
<1> USE SchedAssumption, SchedIrqAssumption
    DEF DriverSleep, Runs, GoTo, cpu, devs, locs, Place, InSwitch, InCancel
<1>3. TypeOK'
  <2>1. Becomes(sched')
    BY DEF Becomes
  <2>2. tq_size' \in [Queue -> Int]
    BY <1>2, <2>1, SizesAreNumbers DEF IInv, WellFormed
  <2> QED BY <1>2, <2>2
          DEF IInv, TypeOK, WellFormed, Level, Class, Device, IPL_LOW, IPL_HIGH
<1>4. Linked(sched)' /\ Parked' /\ CancelsAnother'
  BY <1>2 DEF IInv, TypeOK, WellFormed, Parked, CancelsAnother
<1>5. Placed'
  <2>1. ASSUME NEW x \in Thread
        PROVE  IF OffQueues(x)' THEN sched'.kt_wchan[x] = NoQueue
                                ELSE OnItsQueue(x)'
    <3>1. CASE x = t
      BY <1>1, <1>2, <3>1
      DEF IInv, TypeOK, WellFormed, SchedState, Placed, OnItsQueue, OffQueues,
          CancelsAnother, Asleep, KT_RUN, KT_EXITED, KT_SLEEP, KT_SLEEP_CANCELLABLE
    <3>2. CASE x # t
      BY <1>2, <3>2
      DEF IInv, TypeOK, WellFormed, SchedState, Placed, OnItsQueue, OffQueues,
          CancelsAnother
    <3> QED BY <3>1, <3>2
  <2> QED BY <2>1 DEF Placed
<1>6. DiskIsOneThreads' /\ DiskWillAnswer'
  BY <1>2 DEF IInv, TypeOK, WellFormed, SchedState, DiskIsOneThreads,
     DiskWillAnswer, Device
<1>7. RunQueueIsSeen'
  BY <1>2 DEF IInv, TypeOK, WellFormed, SchedState, RunQueueIsSeen
<1>8. CancelIsUnderWay'
  BY <1>2 DEF IInv, TypeOK, WellFormed, SchedState, CancelIsUnderWay,
     Asleep, KT_RUN, KT_EXITED, KT_SLEEP, KT_SLEEP_CANCELLABLE
<1> QED BY <1>3, <1>4, <1>5, <1>6, <1>7, <1>8 DEF IInv

\* A cancelled thread that was woken is marked as exited.
LEMMA DriverLeave_Interrupted_Keeps ==
  ASSUME IInv, NEW t \in Thread, DriverLeave(t),
         dev[t] = TtyQ /\ sched.kt_cancelled[t]
  PROVE  IInv'
<1>1. sched.kt_wchan[t] = NoQueue /\ sched.curthr = t /\ WellFormed(sched)
  BY DEF IInv, TypeOK, WellFormed, Placed, OffQueues, InSwitch, Runs, DriverLeave
<1>2. /\ WellFormed(sched')
      /\ sched'.kt_wchan = sched.kt_wchan
      /\ sched'.kt_state = [sched.kt_state EXCEPT ![t] = KT_EXITED]
      /\ sched'.kt_cancelled = sched.kt_cancelled
      /\ sched'.curthr = t
  <2>1. PICK r : r = ReturnEINTR(sched)
    OBVIOUS
  <2>2. /\ WellFormed(r)
        /\ r.kt_wchan = sched.kt_wchan
        /\ r.kt_state = [sched.kt_state EXCEPT ![t] = KT_EXITED]
        /\ r.kt_cancelled = sched.kt_cancelled
        /\ r.curthr = t
    BY <1>1, <2>1, MarkedExited DEF KeepsFlags
  <2>3. sched' = r
    BY <2>1 DEF DriverLeave, Becomes
  <2> QED BY <2>2, <2>3
<1> USE SchedAssumption, SchedIrqAssumption
    DEF DriverLeave, Runs, GoTo, cpu, devs, locs, Place, InSwitch, InCancel
<1>3. TypeOK'
  <2>1. Becomes(sched')
    BY DEF Becomes
  <2>2. tq_size' \in [Queue -> Int]
    BY <1>2, <2>1, SizesAreNumbers DEF IInv, WellFormed
  <2> QED BY <1>2, <2>2
          DEF IInv, TypeOK, WellFormed, Level, Class, Device, IPL_LOW, IPL_HIGH
<1>4. Linked(sched)' /\ Parked' /\ CancelsAnother'
  BY <1>2 DEF IInv, TypeOK, WellFormed, Parked, CancelsAnother
<1>5. Placed'
  <2>1. ASSUME NEW x \in Thread
        PROVE  IF OffQueues(x)' THEN sched'.kt_wchan[x] = NoQueue
                                ELSE OnItsQueue(x)'
    <3>1. CASE x = t
      BY <1>1, <1>2, <3>1
      DEF IInv, TypeOK, WellFormed, SchedState, Placed, OnItsQueue, OffQueues,
          CancelsAnother, Asleep, KT_RUN, KT_EXITED, KT_SLEEP, KT_SLEEP_CANCELLABLE
    <3>2. CASE x # t
      BY <1>2, <3>2
      DEF IInv, TypeOK, WellFormed, SchedState, Placed, OnItsQueue, OffQueues,
          CancelsAnother
    <3> QED BY <3>1, <3>2
  <2> QED BY <2>1 DEF Placed
<1>6. DiskIsOneThreads' /\ DiskWillAnswer'
  BY <1>2 DEF IInv, TypeOK, WellFormed, SchedState, DiskIsOneThreads,
     DiskWillAnswer, Device
<1>7. RunQueueIsSeen'
  BY <1>2 DEF IInv, TypeOK, WellFormed, SchedState, RunQueueIsSeen
<1>8. CancelIsUnderWay'
  BY <1>2 DEF IInv, TypeOK, WellFormed, SchedState, CancelIsUnderWay,
     Asleep, KT_RUN, KT_EXITED, KT_SLEEP, KT_SLEEP_CANCELLABLE
<1> QED BY <1>3, <1>4, <1>5, <1>6, <1>7, <1>8 DEF IInv

\* The driver's sleep returns and the thread is back in its own code.
LEMMA DriverLeave_Normally_Keeps ==
  ASSUME IInv, NEW t \in Thread, DriverLeave(t),
         ~(dev[t] = TtyQ /\ sched.kt_cancelled[t])
  PROVE  IInv'
<1>1. sched.kt_wchan[t] = NoQueue /\ sched.curthr = t /\ WellFormed(sched)
  BY DEF IInv, TypeOK, WellFormed, Placed, OffQueues, InSwitch, Runs, DriverLeave
<1>2. /\ WellFormed(sched')
      /\ sched'.kt_wchan = sched.kt_wchan
      /\ sched'.kt_state = sched.kt_state
      /\ sched'.kt_cancelled = sched.kt_cancelled
      /\ sched'.curthr = t
  BY <1>1 DEF DriverLeave, Becomes
<1> USE SchedAssumption, SchedIrqAssumption
    DEF DriverLeave, Runs, GoTo, cpu, devs, locs, Place, InSwitch, InCancel
<1>3. TypeOK'
  <2>1. Becomes(sched')
    BY DEF Becomes
  <2>2. tq_size' \in [Queue -> Int]
    BY <1>2, <2>1, SizesAreNumbers DEF IInv, WellFormed
  <2> QED BY <1>2, <2>2
          DEF IInv, TypeOK, WellFormed, Level, Class, Device, IPL_LOW, IPL_HIGH
<1>4. Linked(sched)' /\ Parked' /\ CancelsAnother'
  BY <1>2 DEF IInv, TypeOK, WellFormed, Parked, CancelsAnother
<1>5. Placed'
  <2>1. ASSUME NEW x \in Thread
        PROVE  IF OffQueues(x)' THEN sched'.kt_wchan[x] = NoQueue
                                ELSE OnItsQueue(x)'
    <3>1. CASE x = t
      BY <1>1, <1>2, <3>1
      DEF IInv, TypeOK, WellFormed, SchedState, Placed, OnItsQueue, OffQueues,
          CancelsAnother, Asleep, KT_RUN, KT_EXITED, KT_SLEEP, KT_SLEEP_CANCELLABLE
    <3>2. CASE x # t
      BY <1>2, <3>2
      DEF IInv, TypeOK, WellFormed, SchedState, Placed, OnItsQueue, OffQueues,
          CancelsAnother
    <3> QED BY <3>1, <3>2
  <2> QED BY <2>1 DEF Placed
<1>6. DiskIsOneThreads' /\ DiskWillAnswer'
  <2>1. NoQueue # DiskQ
    BY DEF Device
  <2> QED BY <1>1, <1>2, <2>1 DEF IInv, TypeOK, WellFormed, SchedState,
                 DiskIsOneThreads, DiskWillAnswer
<1>7. RunQueueIsSeen'
  BY <1>2 DEF IInv, TypeOK, WellFormed, SchedState, RunQueueIsSeen
<1>8. CancelIsUnderWay'
  BY <1>2 DEF IInv, TypeOK, WellFormed, SchedState, CancelIsUnderWay,
     Asleep, KT_RUN, KT_EXITED, KT_SLEEP, KT_SLEEP_CANCELLABLE
<1> QED BY <1>3, <1>4, <1>5, <1>6, <1>7, <1>8 DEF IInv

\* The thread that is switched in leaves the run queue, which has one.
LEMMA switch_Dequeue_Keeps ==
  ASSUME IInv, NEW t \in Thread, switch_Dequeue(t)
  PROVE  IInv'
<1>1. /\ WellFormed(sched) /\ sched.curthr = t
      /\ ~sched_queue_empty(sched, RunQ)
  BY NobodyOnEmptyQueue
  DEF IInv, TypeOK, WellFormed, RunQueueIsSeen, switch_Dequeue, Runs, Queue
<1>2. PICK n : n = Head(sched.tq_list[RunQ])
  OBVIOUS
<1>3. /\ WellFormed(sched')
      /\ n \in Thread
      /\ sched.kt_wchan[n] = RunQ
      /\ sched'.curthr = n
      /\ sched'.kt_wchan = [sched.kt_wchan EXCEPT ![n] = NoQueue]
      /\ sched'.kt_state = [sched.kt_state EXCEPT ![n] = KT_RUN]
      /\ sched'.kt_cancelled = sched.kt_cancelled
  <2>1. PICK r : r = SwitchIn(sched)
    OBVIOUS
  <2>2. /\ WellFormed(r)
        /\ n \in Thread
        /\ r.curthr = n
        /\ sched.kt_wchan[n] = RunQ
        /\ Moves(sched, r, n, NoQueue, KT_RUN)
        /\ KeepsFlags(sched, r)
        /\ r.tq_list = [sched.tq_list EXCEPT ![RunQ] = Tail(@)]
    BY <1>1, <1>2, <2>1, SwitchInKeepsLinks
  <2>3. sched' = r
    BY <2>1 DEF switch_Dequeue, Becomes
  <2> QED BY <2>2, <2>3 DEF Moves, KeepsFlags
<1>4. \A u \in Thread : pc'[u] = "switched"
  BY <1>1 DEF IInv, TypeOK, Parked, switch_Dequeue, Runs, GoTo
<1>5. NoQueue # RunQ /\ NoQueue # DiskQ
  BY SchedAssumption, SchedIrqAssumption DEF Device
<1> USE SchedAssumption, SchedIrqAssumption
    DEF switch_Dequeue, Runs, GoTo, cpu, devs, locs, Place, InSwitch, InCancel
<1>6. TypeOK'
  <2>1. Becomes(sched')
    BY DEF Becomes
  <2>2. tq_size' \in [Queue -> Int]
    BY <1>3, <2>1, SizesAreNumbers DEF IInv, WellFormed
  <2> QED BY <1>3, <2>2 DEF IInv, TypeOK, WellFormed, Level, Class, Device, IPL_LOW, IPL_HIGH
<1>7. Linked(sched)' /\ Parked' /\ CancelsAnother'
  BY <1>1, <1>4, <1>5, <1>3 DEF IInv, TypeOK, WellFormed, Parked, CancelsAnother
<1>8. Placed'
  <2>1. ASSUME NEW x \in Thread
        PROVE  IF OffQueues(x)' THEN sched'.kt_wchan[x] = NoQueue
                                ELSE OnItsQueue(x)'
    <3>1. OffQueues(x)' <=> x = n
      BY <1>3, <1>4 DEF OffQueues
    <3>2. CASE x = n
      BY <1>3, <3>1, <3>2 DEF WellFormed, SchedState
    <3>3. CASE x # n
      <4>1. OnItsQueue(x)
        BY <1>1 DEF IInv, TypeOK, Parked, Placed, OffQueues
      <4>2. /\ sched'.kt_wchan[x] = sched.kt_wchan[x]
            /\ sched'.kt_state[x] = sched.kt_state[x]
        BY <1>3, <3>3 DEF IInv, TypeOK, SchedState
      <4> QED BY <3>1, <3>3, <4>1, <4>2 DEF OnItsQueue
    <3> QED BY <3>2, <3>3
  <2> QED BY <2>1 DEF Placed
<1>9. DiskIsOneThreads' /\ DiskWillAnswer'
  BY <1>1, <1>4, <1>5, <1>3 DEF IInv, TypeOK, WellFormed, SchedState, DiskIsOneThreads,
     DiskWillAnswer, Device
<1>10. RunQueueIsSeen'
  BY <1>3, <1>4 DEF RunQueueIsSeen
<1>11. CancelIsUnderWay'
  BY <1>1, <1>4, <1>5, <1>3 DEF IInv, TypeOK, WellFormed, SchedState, CancelIsUnderWay,
     Asleep, KT_RUN, KT_EXITED, KT_SLEEP, KT_SLEEP_CANCELLABLE
<1> QED BY <1>6, <1>7, <1>8, <1>9, <1>10, <1>11 DEF IInv

\* The flag is set and the cancellation begins.
LEMMA cancel_Flag_Keeps ==
  ASSUME IInv, NEW t \in Thread, NEW u \in Thread, cancel_Flag(t, u)
  PROVE  IInv'
<1>1. WellFormed(sched) /\ sched.curthr = t
  BY DEF IInv, TypeOK, WellFormed, cancel_Flag, Runs
<1>2. /\ WellFormed(sched')
      /\ sched'.kt_wchan = sched.kt_wchan
      /\ sched'.kt_state = sched.kt_state
      /\ sched'.kt_cancelled = [sched.kt_cancelled EXCEPT ![u] = TRUE]
      /\ sched'.curthr = t
  <2>1. /\ sched' \in SchedState
        /\ sched'.tq_list = sched.tq_list
        /\ sched'.kt_wchan = sched.kt_wchan
        /\ sched'.kt_state = sched.kt_state
        /\ sched'.kt_cancelled = [sched.kt_cancelled EXCEPT ![u] = TRUE]
        /\ sched'.curthr = t
    BY <1>1 DEF WellFormed, SchedState, cancel_Flag
  <2> QED BY <1>1, <2>1, OtherFieldsKeepLinks
<1> USE SchedAssumption, SchedIrqAssumption
    DEF cancel_Flag, Runs, GoTo, cpu, devs, locs, Place, InSwitch, InCancel
<1>3. TypeOK'
  BY <1>2 DEF IInv, TypeOK, WellFormed, Level, Class, Device, IPL_LOW, IPL_HIGH
<1>4. Linked(sched)' /\ Parked' /\ CancelsAnother'
  BY <1>1, <1>2 DEF IInv, TypeOK, WellFormed, Parked, CancelsAnother
<1>5. Placed'
  <2>1. ASSUME NEW x \in Thread
        PROVE  OffQueues(x)' <=> OffQueues(x)
    BY <1>1, <1>2 DEF IInv, TypeOK, OffQueues
  <2> QED BY <1>2, <2>1 DEF IInv, Placed, OnItsQueue
<1>6. DiskIsOneThreads' /\ DiskWillAnswer'
  BY <1>1, <1>2 DEF IInv, TypeOK, WellFormed, SchedState, DiskIsOneThreads,
     DiskWillAnswer, Device
<1>7. RunQueueIsSeen'
  BY <1>1, <1>2 DEF IInv, TypeOK, WellFormed, SchedState, RunQueueIsSeen
<1>8. CancelIsUnderWay'
  BY <1>1, <1>2 DEF IInv, TypeOK, WellFormed, SchedState, CancelIsUnderWay,
     Asleep, KT_RUN, KT_EXITED, KT_SLEEP, KT_SLEEP_CANCELLABLE
<1> QED BY <1>3, <1>4, <1>5, <1>6, <1>7, <1>8 DEF IInv

\* The cancelled thread is unlinked, whichever queue it is on by now.
LEMMA cancel_Unlink_Keeps ==
  ASSUME IInv, NEW t \in Thread, cancel_Unlink(t)
  PROVE  IInv'
<1>1. /\ WellFormed(sched) /\ sched.curthr = t
      /\ victim[t] \in Thread /\ victim[t] # t
  BY DEF IInv, TypeOK, WellFormed, CancelsAnother, cancel_Unlink, Runs, InCancel
<1>2. PICK v : v = victim[t]
  OBVIOUS
<1>3. /\ WellFormed(sched')
      /\ sched'.kt_wchan = [sched.kt_wchan EXCEPT ![v] = NoQueue]
      /\ sched'.kt_state = sched.kt_state
      /\ sched'.kt_cancelled = sched.kt_cancelled
      /\ sched'.curthr = t
  <2>1. PICK r : r = [sched EXCEPT !.tq_list = list_remove(@, v, cancel_q[t]),
                                  !.kt_wchan[v] = NoQueue]
    OBVIOUS
  <2>2. /\ WellFormed(r)
        /\ SameThreads(sched, r)
        /\ r.kt_wchan = [sched.kt_wchan EXCEPT ![v] = NoQueue]
    <3>1. PICK q : q = cancel_q[t]
      OBVIOUS
    <3>2. v \in Thread
      BY <1>1, <1>2
    <3>3. r = [sched EXCEPT !.tq_list = list_remove(@, v, q), !.kt_wchan[v] = NoQueue]
      BY <2>1, <3>1
    <3> QED BY <1>1, <3>2, <3>3, UnlinkedAnywhere
  <2>3. sched' = r
    BY <1>2, <2>1 DEF cancel_Unlink
  <2> QED BY <1>1, <2>2, <2>3 DEF SameThreads
<1> USE SchedAssumption, SchedIrqAssumption
    DEF cancel_Unlink, Runs, GoTo, cpu, devs, locs, Place, InSwitch, InCancel
<1>4. TypeOK'
  BY <1>3 DEF IInv, TypeOK, WellFormed, Level, Class, Device, IPL_LOW, IPL_HIGH
<1>5. Linked(sched)' /\ Parked' /\ CancelsAnother'
  BY <1>1, <1>2, <1>3 DEF IInv, TypeOK, WellFormed, Parked, CancelsAnother
<1>6. Placed'
  <2>1. ASSUME NEW x \in Thread
        PROVE  IF OffQueues(x)' THEN sched'.kt_wchan[x] = NoQueue
                                ELSE OnItsQueue(x)'
    <3>1. CASE x = v
      BY <1>1, <1>2, <1>3, <3>1
      DEF IInv, TypeOK, WellFormed, SchedState, Placed, OnItsQueue, OffQueues,
          CancelsAnother, Asleep, KT_RUN, KT_EXITED, KT_SLEEP, KT_SLEEP_CANCELLABLE
    <3>2. CASE x # v
      BY <1>1, <1>2, <1>3, <3>2
      DEF IInv, TypeOK, WellFormed, SchedState, Placed, OnItsQueue, OffQueues,
          CancelsAnother
    <3> QED BY <3>1, <3>2
  <2> QED BY <2>1 DEF Placed
<1>7. DiskIsOneThreads' /\ DiskWillAnswer'
  BY <1>1, <1>2, <1>3 DEF IInv, TypeOK, WellFormed, SchedState, DiskIsOneThreads,
     DiskWillAnswer, Device
<1>8. RunQueueIsSeen'
  BY <1>1, <1>2, <1>3 DEF IInv, TypeOK, WellFormed, SchedState, RunQueueIsSeen
<1>9. CancelIsUnderWay'
  BY <1>1, <1>2, <1>3 DEF IInv, TypeOK, WellFormed, SchedState, CancelIsUnderWay,
     Asleep, KT_RUN, KT_EXITED, KT_SLEEP, KT_SLEEP_CANCELLABLE
<1> QED BY <1>4, <1>5, <1>6, <1>7, <1>8, <1>9 DEF IInv

\* The cancelled thread, on no queue, becomes runnable.
LEMMA cancel_Wake_Keeps ==
  ASSUME IInv, NEW t \in Thread, cancel_Wake(t)
  PROVE  IInv'
<1>1. /\ WellFormed(sched) /\ sched.curthr = t
      /\ victim[t] \in Thread /\ victim[t] # t
      /\ sched.kt_wchan[victim[t]] = NoQueue
  BY DEF IInv, TypeOK, WellFormed, CancelsAnother, Placed, OffQueues,
         cancel_Wake, Runs, InCancel
<1>2. PICK v : v = victim[t]
  OBVIOUS
<1>3. /\ WellFormed(sched')
      /\ sched'.kt_wchan = [sched.kt_wchan EXCEPT ![v] = RunQ]
      /\ sched'.kt_state = [sched.kt_state EXCEPT ![v] = KT_RUN]
      /\ sched'.kt_cancelled = sched.kt_cancelled
      /\ sched'.curthr = t
  <2>1. PICK r : r = sched_make_runnable(sched, v)
    OBVIOUS
  <2>2. /\ WellFormed(r)
        /\ r.kt_wchan = [sched.kt_wchan EXCEPT ![v] = RunQ]
        /\ r.kt_state = [sched.kt_state EXCEPT ![v] = KT_RUN]
        /\ r.kt_cancelled = sched.kt_cancelled
        /\ r.curthr = sched.curthr
        /\ r.tq_list = [sched.tq_list EXCEPT ![RunQ] = Append(@, v)]
    BY <1>1, <1>2, <2>1, MakeRunnableKeepsLinks
  <2>3. sched' = r
    BY <1>2, <2>1 DEF cancel_Wake, Becomes
  <2> QED BY <1>1, <2>2, <2>3
<1> USE SchedAssumption, SchedIrqAssumption
    DEF cancel_Wake, Runs, GoTo, cpu, devs, locs, Place, InSwitch, InCancel
<1>4. TypeOK'
  <2>1. Becomes(sched')
    BY DEF Becomes
  <2>2. tq_size' \in [Queue -> Int]
    BY <1>3, <2>1, SizesAreNumbers DEF IInv, WellFormed
  <2> QED BY <1>3, <2>2 DEF IInv, TypeOK, WellFormed, Level, Class, Device, IPL_LOW, IPL_HIGH
<1>5. Linked(sched)' /\ Parked' /\ CancelsAnother'
  BY <1>1, <1>2, <1>3 DEF IInv, TypeOK, WellFormed, Parked, CancelsAnother
<1>6. Placed'
  <2>1. ASSUME NEW x \in Thread
        PROVE  IF OffQueues(x)' THEN sched'.kt_wchan[x] = NoQueue
                                ELSE OnItsQueue(x)'
    <3>1. OffQueues(x)' <=> x = t
      BY <1>1, <1>3 DEF IInv, TypeOK, OffQueues
    <3>2. OffQueues(x) <=> x = t \/ x = v
      BY <1>1, <1>2 DEF IInv, TypeOK, OffQueues
    <3>3. CASE x = v
      BY <1>1, <1>2, <1>3, <3>1, <3>3 DEF WellFormed, SchedState, OnItsQueue
    <3>4. CASE x # v
      <4>1. /\ sched'.kt_wchan[x] = sched.kt_wchan[x]
            /\ sched'.kt_state[x] = sched.kt_state[x]
        BY <1>1, <1>3, <3>4 DEF WellFormed, SchedState
      <4> QED BY <3>1, <3>2, <3>4, <4>1 DEF IInv, Placed, OnItsQueue
    <3> QED BY <3>3, <3>4
  <2> QED BY <2>1 DEF Placed
<1>7. DiskIsOneThreads' /\ DiskWillAnswer'
  BY <1>1, <1>2, <1>3 DEF IInv, TypeOK, WellFormed, SchedState, DiskIsOneThreads,
     DiskWillAnswer, Device
<1>8. RunQueueIsSeen'
  BY <1>1, <1>2, <1>3 DEF IInv, TypeOK, WellFormed, SchedState, RunQueueIsSeen
<1>9. CancelIsUnderWay'
  BY <1>1, <1>2, <1>3 DEF IInv, TypeOK, WellFormed, SchedState, CancelIsUnderWay,
     Asleep, KT_RUN, KT_EXITED, KT_SLEEP, KT_SLEEP_CANCELLABLE
<1> QED BY <1>4, <1>5, <1>6, <1>7, <1>8, <1>9 DEF IInv

\* A handler: its device was not masked, so nobody is between the start of an
\* operation and the sleep for it, and whoever waits is made runnable.
LEMMA Interrupt_Keeps ==
  ASSUME IInv, NEW d \in Device, Interrupt(d)
  PROVE  IInv'
<1>1. /\ WellFormed(sched) /\ sched.curthr \in Thread
      /\ d \in WaitQueue /\ d # RunQ /\ d # NoQueue
  BY SchedAssumption, SchedIrqAssumption DEF IInv, TypeOK, WellFormed
<1>2. /\ WellFormed(sched')
      /\ sched'.kt_cancelled = sched.kt_cancelled
      /\ sched'.curthr = sched.curthr
      /\ \/ /\ \A u \in Thread : sched.kt_wchan[u] # d
            /\ sched'.kt_wchan = sched.kt_wchan
            /\ sched'.kt_state = sched.kt_state
         \/ \E u \in Thread :
              /\ sched.kt_wchan[u] = d
              /\ sched'.kt_wchan = [sched.kt_wchan EXCEPT ![u] = RunQ]
              /\ sched'.kt_state = [sched.kt_state EXCEPT ![u] = KT_RUN]
  <2>1. PICK r : r = sched_wakeup_on(sched, d)
    OBVIOUS
  <2>2. /\ WellFormed(r)
        /\ KeepsFlags(sched, r)
        /\ r.curthr = sched.curthr
        /\ \/ /\ \A t \in Thread : sched.kt_wchan[t] # d
              /\ r.kt_wchan = sched.kt_wchan /\ r.kt_state = sched.kt_state
           \/ \E t \in Thread : sched.kt_wchan[t] = d /\ Moves(sched, r, t, RunQ, KT_RUN)
    BY <1>1, <2>1, HandlerWakes
  <2>3. sched' = r
    BY <2>1 DEF Interrupt, Becomes
  <2> QED BY <2>2, <2>3 DEF Moves, KeepsFlags
<1>3. \A u \in Thread :
        /\ \/ sched'.kt_wchan[u] = sched.kt_wchan[u]
           \/ sched.kt_wchan[u] = d /\ sched'.kt_wchan[u] = RunQ
        /\ \/ sched'.kt_state[u] = sched.kt_state[u]
           \/ sched.kt_wchan[u] = d /\ sched'.kt_state[u] = KT_RUN
        /\ sched'.kt_wchan[u] = sched.kt_wchan[u] => sched'.kt_state[u] = sched.kt_state[u]
  <2> SUFFICES ASSUME NEW u \in Thread
               PROVE  /\ \/ sched'.kt_wchan[u] = sched.kt_wchan[u]
                         \/ sched.kt_wchan[u] = d /\ sched'.kt_wchan[u] = RunQ
                      /\ \/ sched'.kt_state[u] = sched.kt_state[u]
                         \/ sched.kt_wchan[u] = d /\ sched'.kt_state[u] = KT_RUN
                      /\ sched'.kt_wchan[u] = sched.kt_wchan[u]
                         => sched'.kt_state[u] = sched.kt_state[u]
    OBVIOUS
  <2>1. /\ sched.kt_wchan \in [Thread -> Queue \cup {NoQueue}]
        /\ sched.kt_state \in [Thread -> KtState]
    BY <1>1 DEF WellFormed, SchedState
  <2>2. CASE sched'.kt_wchan = sched.kt_wchan /\ sched'.kt_state = sched.kt_state
    BY <2>2
  <2>3. ASSUME NEW w \in Thread, sched.kt_wchan[w] = d,
               sched'.kt_wchan = [sched.kt_wchan EXCEPT ![w] = RunQ],
               sched'.kt_state = [sched.kt_state EXCEPT ![w] = KT_RUN]
        PROVE  /\ u = w => /\ sched'.kt_wchan[u] = RunQ /\ sched'.kt_state[u] = KT_RUN
               /\ u # w => /\ sched'.kt_wchan[u] = sched.kt_wchan[u]
                           /\ sched'.kt_state[u] = sched.kt_state[u]
    BY <2>1, <2>3
  <2> QED BY <1>1, <1>2, <2>2, <2>3
<1>4. \/ pc' = pc
      \/ pc[sched.curthr] = "hlt" /\ pc' = [pc EXCEPT ![sched.curthr] = "test"]
  BY DEF Interrupt, AfterHlt, GoTo
<1> USE SchedAssumption, SchedIrqAssumption
    DEF Interrupt, Runs, GoTo, cpu, devs, locs, Place, InSwitch, InCancel
<1>5. TypeOK'
  <2>1. Becomes(sched')
    BY DEF Becomes
  <2>2. tq_size' \in [Queue -> Int]
    BY <1>1, <1>2, <1>4, <2>1, SizesAreNumbers DEF IInv, WellFormed
  <2> QED BY <1>1, <1>2, <1>4, <2>2 DEF IInv, TypeOK, WellFormed, Level, Class, Device, IPL_LOW, IPL_HIGH
<1>6. Linked(sched)' /\ Parked' /\ CancelsAnother'
  BY <1>1, <1>2, <1>4 DEF IInv, TypeOK, WellFormed, Parked, CancelsAnother
<1>7. Placed'
  <2>1. ASSUME NEW x \in Thread
        PROVE  IF OffQueues(x)' THEN sched'.kt_wchan[x] = NoQueue
                                ELSE OnItsQueue(x)'
    <3>1. OffQueues(x)' <=> OffQueues(x)
      BY <1>1, <1>2, <1>4 DEF IInv, TypeOK, OffQueues
    <3>2. CASE OffQueues(x)
      BY <1>1, <1>3, <3>1, <3>2 DEF IInv, Placed
    <3>3. CASE ~OffQueues(x) /\ sched'.kt_wchan[x] = sched.kt_wchan[x]
      BY <1>3, <3>1, <3>3 DEF IInv, Placed, OnItsQueue
    <3>4. CASE sched.kt_wchan[x] = d /\ sched'.kt_wchan[x] = RunQ
      <4>1. ~OffQueues(x)
        BY <1>1, <3>4 DEF IInv, Placed
      <4>2. sched.kt_state[x] \in Asleep
        BY <1>1, <3>4, <4>1 DEF IInv, Placed, OnItsQueue
      <4>3. sched'.kt_state[x] = KT_RUN
        BY <1>1, <1>2, <3>4 DEF WellFormed, SchedState
      <4> QED BY <3>1, <3>4, <4>1, <4>3 DEF OnItsQueue
    <3> QED BY <1>3, <3>2, <3>3, <3>4
  <2> QED BY <2>1 DEF Placed
<1>8. DiskIsOneThreads' /\ DiskWillAnswer'
  <2>1. NoQueue # DiskQ /\ RunQ # DiskQ /\ dev' = dev /\ ipl' = ipl /\ busy' = busy
        /\ pending' = [pending EXCEPT ![d] = FALSE]
    BY DEF Device
  <2>2. \A u \in Thread : sched'.kt_wchan[u] = DiskQ => sched.kt_wchan[u] = DiskQ
    BY <1>3, <2>1
  <2>3. (pc[sched.curthr] = "sleep")' => pc[sched.curthr] = "sleep"
    BY <1>1, <1>2, <1>4 DEF IInv, TypeOK
  <2>4. CASE d = DiskQ
    <3>1. ~(pc[sched.curthr] = "sleep" /\ dev[sched.curthr] = DiskQ)
      <4>1. Class(d) > ipl
        OBVIOUS
      <4>2. Class(DiskQ) = 13
        BY DEF Class
      <4> QED BY <2>4, <4>1, <4>2 DEF IInv, DiskIsOneThreads
    <3>2. \A u \in Thread : sched'.kt_wchan[u] # DiskQ
      <4>1. \A u, w \in Thread : sched.kt_wchan[u] = DiskQ /\ sched.kt_wchan[w] = DiskQ
                                  => u = w
        BY DEF IInv, DiskIsOneThreads
      <4> QED BY <1>2, <2>1, <2>4, <4>1 DEF IInv, TypeOK, WellFormed, SchedState
    <3> QED BY <1>2, <2>1, <2>2, <2>3, <3>1, <3>2
            DEF IInv, DiskIsOneThreads, DiskWillAnswer
  <2>5. CASE d # DiskQ
    <3>1. pending'[DiskQ] = pending[DiskQ]
      BY <2>1, <2>5 DEF IInv, TypeOK, Device
    <3>0. busy \/ pending[DiskQ] => busy' \/ pending'[DiskQ]
      <4>1. busy \in BOOLEAN /\ pending[DiskQ] \in BOOLEAN
        BY DEF IInv, TypeOK, Device
      <4>2. busy' = busy /\ pending'[DiskQ] = pending[DiskQ]
        BY <2>1, <3>1
      <4> QED BY ONLY <4>1, <4>2
    <3>2. DiskIsOneThreads'
      <4>1. \A x, y \in Thread : dev'[x] = DiskQ /\ dev'[y] = DiskQ => x = y
        BY <2>1 DEF IInv, DiskIsOneThreads
      <4>2. \A x \in Thread : sched'.kt_wchan[x] = DiskQ => dev'[x] = DiskQ
        BY <2>1, <2>2 DEF IInv, DiskIsOneThreads
      <4>3. (pc[sched.curthr] = "sleep")' /\ dev'[sched'.curthr] = DiskQ =>
              ipl' = Class(DiskQ) /\ (busy' \/ pending'[DiskQ])
        <5>1. (pc[sched.curthr] = "sleep")' /\ dev'[sched'.curthr] = DiskQ =>
                ipl = Class(DiskQ) /\ (busy \/ pending[DiskQ])
          BY <1>2, <2>1, <2>3 DEF IInv, DiskIsOneThreads
        <5> QED BY <2>1, <3>0, <5>1
      <4> QED BY <4>1, <4>2, <4>3 DEF DiskIsOneThreads
    <3>3. DiskWillAnswer'
      <4>1. ASSUME NEW x \in Thread, sched'.kt_wchan[x] = DiskQ
            PROVE  busy' \/ pending'[DiskQ]
        <5>1. busy \/ pending[DiskQ]
          BY <2>2, <4>1 DEF IInv, DiskWillAnswer
        <5> QED BY <3>0, <5>1
      <4> QED BY <4>1 DEF DiskWillAnswer
    <3> QED BY <3>2, <3>3
  <2> QED BY <2>4, <2>5
<1>9. RunQueueIsSeen'
  BY <1>1, <1>2, <1>3, <1>4 DEF IInv, TypeOK, RunQueueIsSeen
<1>10. CancelIsUnderWay'
  <2>1. pc[sched.curthr] \in InCancel => pc' = pc
    BY <1>4
  <2>2. \A u \in Thread : sched'.kt_state[u] = KT_SLEEP_CANCELLABLE
                         => sched.kt_state[u] = KT_SLEEP_CANCELLABLE
    BY <1>3 DEF KT_RUN, KT_SLEEP_CANCELLABLE
  <2> QED BY <1>2, <2>1, <2>2 DEF IInv, CancelIsUnderWay
<1> QED BY <1>5, <1>6, <1>7, <1>8, <1>9, <1>10 DEF IInv

-----------------------------------------------------------------------------
(* The invariant.                                                          *)

\* Initially one thread runs and the others, each once, are on the run queue.
LEMMA InitIsSound ==
  Init => IInv
<1> SUFFICES ASSUME Init PROVE IInv
  OBVIOUS
<1> USE SchedAssumption, SchedIrqAssumption
<1>1. PICK order : order = CHOOSE o \in SetToSeqs(Thread) : TRUE
  OBVIOUS
<1>2. /\ order \in [1 .. Cardinality(Thread) -> Thread]
      /\ IsInjective(order)
  <2>1. SetToSeqs(Thread) = Injection(1 .. Cardinality(Thread), Thread)
    BY DEF SetToSeqs, Injection, IsInjective
  <2>2. SetToSeqs(Thread) # {}
    BY <2>1, FS_CardinalityType DEF ExistsBijection, Bijection
  <2>3. order \in SetToSeqs(Thread)
    BY <1>1, <2>2
  <2> QED BY <2>1, <2>3 DEF Injection
<1>3. \A t \in Thread : \E k \in 1 .. Cardinality(Thread) : order[k] = t
  <2>1. order \in Injection(1 .. Cardinality(Thread), Thread)
    BY <1>2 DEF Injection
  <2>2. Cardinality(Thread) \in Nat
    BY FS_CardinalityType
  <2>3. Cardinality(1 .. Cardinality(Thread)) = Cardinality(Thread)
    BY <2>2, FS_Interval
  <2>4. order \in Surjection(1 .. Cardinality(Thread), Thread)
    BY <2>1, <2>3, FS_Injection
  <2> QED BY <2>4 DEF Surjection
<1>4. /\ order \in Seq(Thread)
      /\ order # << >>
      /\ \A t \in Thread : Contains(order, t)
  <2>1. Cardinality(Thread) \in Nat /\ Cardinality(Thread) # 0
    BY FS_CardinalityType, FS_EmptySet
  <2>2. order \in Seq(Thread) /\ Len(order) = Cardinality(Thread)
    BY <1>2, <2>1
  <2> QED BY <1>3, <2>1, <2>2 DEF Contains
<1>5. /\ Head(order) \in Thread
      /\ Tail(order) \in Seq(Thread)
      /\ IsInjective(Tail(order))
      /\ \A x \in Thread : Contains(Tail(order), x) <=> x # Head(order)
  BY <1>2, <1>4, TailOfInjective
<1>6. PICK first, waiting : first = Head(order) /\ waiting = Tail(order)
  OBVIOUS
<1>7. /\ sched = [tq_list      |-> [q \in Queue |-> IF q = RunQ THEN waiting
                                                              ELSE << >>],
                  kt_wchan     |-> [t \in Thread |-> IF t = first THEN NoQueue
                                                                  ELSE RunQ],
                  kt_state     |-> [t \in Thread |-> KT_RUN],
                  kt_cancelled |-> [t \in Thread |-> FALSE],
                  curthr       |-> first]
      /\ tq_size = [q \in Queue |-> IF q = RunQ THEN Len(waiting) ELSE 0]
      /\ pc = [t \in Thread |-> IF t = first THEN "running" ELSE "switched"]
  BY <1>1, <1>6 DEF Init
<1>8. /\ first \in Thread
      /\ waiting \in Seq(Thread)
      /\ IsInjective(waiting)
      /\ \A x \in Thread : Contains(waiting, x) <=> x # first
  BY <1>5, <1>6
<1>9. << >> \in Seq(Thread) /\ IsInjective(<< >>) /\ \A x : ~Contains(<< >>, x)
  BY EmptySeq DEF IsInjective, Contains
<1>10. TypeOK
  <2>1. sched \in SchedState
    <3>1. sched.tq_list \in [Queue -> Seq(Thread)]
      BY <1>7, <1>8, <1>9
    <3> QED BY <1>7, <1>8, <3>1 DEF SchedState, KtState, Queue
  <2>2. tq_size \in [Queue -> Int]
    BY <1>7, <1>8, LenProperties
  <2>3. curipl \in [Thread -> Level] /\ dev \in [Thread -> Device \cup {NoQueue}]
        /\ victim \in [Thread -> Thread] /\ cancel_q \in [Thread -> Queue \cup {NoQueue}]
        /\ pending \in [Device -> BOOLEAN]
        /\ ipl \in Level /\ busy \in BOOLEAN /\ intr_on \in BOOLEAN
    BY DEF Init, Level, Queue
  <2>4. pc \in [Thread -> Place]
    BY <1>7 DEF Place
  <2> QED BY <1>7, <1>8, <2>1, <2>2, <2>3, <2>4 DEF TypeOK
<1>11. Linked(sched)
  BY <1>7, <1>8, <1>9 DEF Linked, Queue
<1>12. Parked /\ CancelsAnother /\ RunQueueIsSeen
  BY <1>7, <1>8 DEF Parked, CancelsAnother, RunQueueIsSeen, InCancel
<1>13. Placed
  BY <1>7, <1>8 DEF Placed, OffQueues, OnItsQueue, InSwitch
<1>14. DiskIsOneThreads /\ DiskWillAnswer
  <2>1. /\ \A t \in Thread : dev[t] # DiskQ /\ sched.kt_wchan[t] # DiskQ
        /\ pc[sched.curthr] # "sleep"
    BY <1>7, <1>8 DEF Init, Device
  <2> QED BY <2>1 DEF DiskIsOneThreads, DiskWillAnswer
<1>15. CancelIsUnderWay
  BY <1>7 DEF CancelIsUnderWay
<1> QED BY <1>10, <1>11, <1>12, <1>13, <1>14, <1>15 DEF IInv

\* Every step keeps the invariant.
LEMMA EveryStepIsSound ==
  IInv /\ [Next]_vars => IInv'
<1> SUFFICES ASSUME IInv, [Next]_vars PROVE IInv'
  OBVIOUS
<1>1. CASE UNCHANGED vars
  BY <1>1, Stutter_Keeps
<1>2. CASE KeyPress
  BY <1>2, KeyPress_Keeps
<1>3. CASE DiskFinishes
  BY <1>3, DiskFinishes_Keeps
<1>4. CASE \E d \in Device : Interrupt(d)
  BY <1>4, Interrupt_Keeps
<1>5. ASSUME NEW t \in Thread, ThreadStep(t)
      PROVE  IInv'
  <2>1. CASE Yield(t)
    BY <2>1, Yield_Keeps
  <2>2. CASE kthread_exit(t)
    BY <2>2, kthread_exit_Keeps
  <2>3. CASE \E d \in Device : DriverEnter(t, d)
    BY <2>3, DriverEnter_Keeps
  <2>4. CASE DriverSleep(t)
    <3>1. dev[t] = DiskQ \/ dev[t] = TtyQ
      BY <2>4 DEF DriverSleep
    <3> QED BY <2>4, <3>1, DriverSleep_Disk_Keeps, DriverSleep_Tty_Keeps,
               DriverSleep_Interrupted_Keeps
  <2>5. CASE DriverLeave(t)
    BY <2>5, DriverLeave_Interrupted_Keeps, DriverLeave_Normally_Keeps
  <2>6. CASE switch_Mask(t) \/ switch_Test(t) \/ switch_Unmask(t) \/ switch_Wait(t)
    BY <2>6, switch_Mask_Keeps, switch_Test_Keeps, switch_Unmask_Keeps,
       switch_Wait_Keeps
  <2>7. CASE switch_Found(t) \/ switch_Dequeue(t) \/ switch_Restore(t)
    BY <2>7, switch_Found_Keeps, switch_Dequeue_Keeps, switch_Restore_Keeps
  <2>8. CASE \E u \in Thread : cancel_Flag(t, u)
    BY <2>8, cancel_Flag_Keeps
  <2>9. CASE cancel_Check(t) \/ cancel_Call(t)
    BY <2>9, cancel_Check_Keeps, cancel_Call_Keeps
  <2>10. CASE cancel_Unlink(t) \/ cancel_Count(t) \/ cancel_Wake(t)
    BY <2>10, cancel_Unlink_Keeps, cancel_Count_Keeps, cancel_Wake_Keeps
  <2> QED BY <1>5, <2>1, <2>2, <2>3, <2>4, <2>5, <2>6, <2>7, <2>8, <2>9, <2>10
          DEF ThreadStep
<1> QED BY <1>1, <1>2, <1>3, <1>4, <1>5 DEF Next

\* The invariant implies that no thread is lost.
LEMMA NobodyIsLost ==
  IInv => NoThreadLost
<1> SUFFICES ASSUME IInv, NEW t \in Thread
             PROVE  CASE InFlight(t) -> sched.kt_wchan[t] = NoQueue
                      [] ~InFlight(t) /\ (t # sched.curthr \/ pc[t] \in InSwitch) ->
                           OnItsQueue(t)
                      [] OTHER -> sched.kt_wchan[t] = NoQueue
  BY DEF NoThreadLost, OnItsQueue, IInv
<1>1. InFlight(t) <=> pc[sched.curthr] \in {"count", "wake"} /\ victim[sched.curthr] = t
  BY DEF InFlight, IInv, TypeOK, Parked
<1>2. IF OffQueues(t) THEN sched.kt_wchan[t] = NoQueue ELSE OnItsQueue(t)
  BY DEF IInv, Placed
<1>3. CASE InFlight(t)
  BY <1>1, <1>2, <1>3 DEF OffQueues
<1>4. CASE ~InFlight(t) /\ (t # sched.curthr \/ pc[t] \in InSwitch)
  <2>1. ~OffQueues(t)
    BY <1>1, <1>4 DEF OffQueues
  <2> QED BY <1>2, <1>4, <2>1
<1>5. CASE ~InFlight(t) /\ t = sched.curthr /\ pc[t] \notin InSwitch
  BY <1>2, <1>5 DEF OffQueues
<1> QED BY <1>3, <1>4, <1>5

\* The invariant implies what the interrupt levels are for.
LEMMA LevelsAreRight ==
  IInv => LevelsProtect
<1> SUFFICES ASSUME IInv
             PROVE  SwitchFindsThread /\ DiskSleeperIsServed /\ CancelledSleeperWakes
  BY DEF LevelsProtect
<1>1. SwitchFindsThread
  <2>1. sched_queue_empty(sched, RunQ) <=> \A t \in Thread : sched.kt_wchan[t] # RunQ
    BY NobodyOnEmptyQueue DEF Queue
  <2> QED BY <2>1 DEF IInv, RunQueueIsSeen, SwitchFindsThread
<1>2. DiskSleeperIsServed
  <2>1. sched_queue_empty(sched, DiskQ) <=> \A t \in Thread : sched.kt_wchan[t] # DiskQ
    BY NobodyOnEmptyQueue, SchedIrqAssumption DEF Queue, Device
  <2> QED BY <2>1 DEF IInv, DiskWillAnswer, DiskSleeperIsServed
<1>3. CancelledSleeperWakes
  BY DEF IInv, TypeOK, CancelIsUnderWay, CancelledSleeperWakes
<1> QED BY <1>1, <1>2, <1>3

-----------------------------------------------------------------------------
(* The theorems.                                                           *)

\* The inductive invariant holds in every reachable state.
THEOREM InvariantHolds == Spec => []IInv
BY InitIsSound, EveryStepIsSound, PTL DEF Spec

\* Whatever an interrupt comes between in sched_switch, sched_cancel and the
\* drivers' sleeps, every thread is where the scheduler will find it.
THEOREM NoThreadIsLost == Spec => []NoThreadLost
BY InvariantHolds, NobodyIsLost, PTL

\* The run queue is only taken from when it is not empty and everything is
\* masked, whoever sleeps for the disk will be woken by it, and a cancelled
\* thread does not stay asleep.
THEOREM LevelsDoProtect == Spec => []LevelsProtect
BY InvariantHolds, LevelsAreRight, PTL
=============================================================================
