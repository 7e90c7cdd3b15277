----------------------------- MODULE ProcProofs -----------------------------
(***************************************************************************)
(* That the processes stay a family tree, that nobody is reaped alive or   *)
(* by a stranger, that no wait in do_waitpid is hopeless and that the      *)
(* assertions of the shutdown hold, for every number of processes.         *)
(***************************************************************************)
EXTENDS Proc, SchedProofs, WellFoundedInduction

-----------------------------------------------------------------------------
(* The inductive invariant.                                                *)

Alive(t) == pc[t] \notin {"free", "gone"}

\* Where each of the four kinds of processes can be.  Idle and init wait for any
\* child, and nobody waits in a proc_cleanup that does not sleep.
Roles ==
  /\ pc[PID_IDLE] \in {"boot", "await init", "vfs_shutdown", "await pageoutd",
                       "halted", "panic"}
  /\ pc[PID_INIT] \in {"user", "sysret", "waitpid", "reaping", "alldone",
                       "cleanup", "gone", "free", "panic"}
  /\ pc[Pageoutd] \in {"daemon", "cleanup", "gone", "free"}
  /\ \A u \in UserPids : pc[u] \in {"user", "sysret", "tty", "waitpid",
                                    "cleanup", "gone", "free", "panic"}
  /\ wpid[PID_IDLE] = AnyChild /\ wpid[PID_INIT] = AnyChild
  /\ BlockingCleanup \/ \A t \in Thread : pc[t] # "cleanup"

\* Every thread is where its state says.  Only a thread whose proc_cleanup has
\* slept leaves the CPU for good without being KT_EXITED.
Scheduled ==
  \A t \in Thread :
    /\ t = sched.curthr => /\ Alive(t)
                           /\ sched.kt_wchan[t] = NoQueue
                           /\ sched.kt_state[t] \in {KT_RUN, KT_EXITED}
    /\ t # sched.curthr /\ Alive(t) =>
         \/ sched.kt_state[t] = KT_RUN /\ sched.kt_wchan[t] = RunQ
         \/ sched.kt_state[t] \in Asleep /\ sched.kt_wchan[t] \in WaitQueue
    /\ pc[t] = "gone" => /\ sched.kt_wchan[t] = NoQueue
                         /\ \/ sched.kt_state[t] = KT_EXITED
                            \/ BlockingCleanup /\ sched.kt_state[t] = KT_RUN
    /\ pc[t] = "free" => /\ sched.kt_wchan[t] = NoQueue
                         /\ sched.kt_state[t] = KT_NO_STATE

\* A thread waits for its own children.
OwnWaits ==
  \A t, q \in Thread : sched.kt_wchan[t] = p_wait(q) => t = q

\* The lists, the pointers and the places tell the same story.
Family ==
  /\ IsInjective(proc_list)
  /\ \A p \in Thread : /\ Contains(proc_list, p) <=> pc[p] # "free"
                       /\ p_state[p] = "PROC_FREE" <=> pc[p] = "free"
  /\ \A p \in Thread : IsInjective(p_children[p])
  /\ \A p, c \in Thread : Contains(p_children[p], c) <=> p_pproc[c] = p
  /\ \A c \in Thread : p_pproc[c] = NoThread <=> c = PID_IDLE \/ pc[c] = "free"
  /\ \A c \in Thread : p_pproc[c] # NoThread => Alive(p_pproc[c])
  /\ p_pproc[PID_INIT] \in {PID_IDLE, NoThread}
  /\ p_pproc[Pageoutd] \in {PID_IDLE, NoThread}
  /\ \A u \in UserPids : p_pproc[u] \notin {PID_IDLE, Pageoutd}

\* On the process list a parent comes before its children, and init before
\* every user process: so there is no cycle, and the eldest user process is a
\* child of init.
Elders ==
  \A i, j \in DOMAIN proc_list :
    \/ p_pproc[proc_list[i]] = proc_list[j]
    \/ proc_list[i] \in UserPids /\ proc_list[j] = PID_INIT
    => j < i

\* The order of the shutdown.
Phases ==
  /\ pc[PID_INIT] \in {"alldone", "cleanup", "gone", "free"} =>
       \A u \in UserPids : pc[u] = "free"
  /\ pc[PID_INIT] \in {"user", "sysret", "waitpid", "reaping", "alldone"} =>
       ~sched.kt_cancelled[PID_INIT]
  /\ pc[PID_IDLE] \in {"boot", "await init"} => pc[PID_INIT] # "free"
  /\ pc[PID_IDLE] \in {"vfs_shutdown", "await pageoutd", "halted"} =>
       pc[PID_INIT] = "free"
  /\ pc[PID_IDLE] \in {"boot", "await init", "vfs_shutdown"} =>
       pc[Pageoutd] = "daemon" /\ ~sched.kt_cancelled[Pageoutd]
  /\ pc[PID_IDLE] = "await pageoutd" => pc[Pageoutd] # "free"
  /\ pc[PID_IDLE] = "halted" => pc[Pageoutd] = "free"
  /\ pc[Pageoutd] = "free" => pc[PID_INIT] = "free"

\* A process is PROC_DEAD from its last step on, or a little earlier: in the
\* system call whose sleep was cancelled, or in a proc_cleanup that sleeps.
Dying ==
  \A c \in Thread :
    /\ pc[c] = "gone" => p_state[c] = "PROC_DEAD"
    /\ p_state[c] = "PROC_DEAD" /\ pc[c] # "gone" =>
         \/ c = sched.curthr /\ pc[c] = "sysret" /\ sched.kt_cancelled[c]
         \/ BlockingCleanup

Orderly == ~BlockingCleanup => NoHopelessWait /\ \A p \in Thread : pc[p] # "panic"

IInv ==
  /\ TypeOK
  /\ Linked(sched)
  /\ Roles
  /\ Scheduled
  /\ OwnWaits
  /\ Family
  /\ Elders
  /\ Phases
  /\ Dying
  /\ Orderly

-----------------------------------------------------------------------------
(* Lists.                                                                  *)

\* A set of numbers has a least one.
LEMMA LeastNumber ==
  ASSUME NEW T \in SUBSET Nat, T # {}
  PROVE  \E n \in T : \A m \in T : n <= m
<1> DEFINE R == {ss \in Nat \X Nat : ss[1] < ss[2]}
<1>1. IsWellFoundedOn(R, Nat)
  BY NatLessThanWellFounded DEF OpToRel
<1>2. \A x, y \in Nat : x < y => <<x, y>> \in R
  OBVIOUS
<1> HIDE DEF R
<1>3. \E x \in T : \A y \in T : ~(<<y, x>> \in R)
  BY <1>1, WFMin
<1>4. PICK x \in T : \A y \in T : ~(<<y, x>> \in R)
  BY <1>3
<1>5. ASSUME NEW m \in T PROVE x <= m
  <2>1. x \in Nat /\ m \in Nat /\ ~(m < x)
    BY <1>2, <1>4
  <2> QED BY <2>1
<1> QED BY <1>5

\* list_remove takes an element off a list on which it is at most once.
LEMMA ListRemoved ==
  ASSUME NEW S, NEW seq \in Seq(S), IsInjective(seq), NEW t
  PROVE  /\ list_remove(seq, t) \in Seq(S)
         /\ IsInjective(list_remove(seq, t))
         /\ \A x : Contains(list_remove(seq, t), x) <=> Contains(seq, x) /\ x # t
<1>1. CASE Contains(seq, t)
  BY <1>1, UnlinkOfInjective DEF list_remove
<1>2. CASE ~Contains(seq, t)
  BY <1>2 DEF list_remove
<1> QED BY <1>1, <1>2

\* Whoever comes before another one still does.
LEMMA RemovingKeepsOrder ==
  ASSUME NEW S, NEW seq \in Seq(S), NEW t,
         NEW i \in DOMAIN list_remove(seq, t), NEW j \in DOMAIN list_remove(seq, t)
  PROVE  \E a, b \in DOMAIN seq : /\ seq[a] = list_remove(seq, t)[i]
                                  /\ seq[b] = list_remove(seq, t)[j]
                                  /\ b < a => j < i
<1>1. DOMAIN seq = 1 .. Len(seq) /\ Len(seq) \in Nat
  BY LenProperties
<1>2. CASE Contains(seq, t)
  <2>1. list_remove(seq, t) = Unlink(seq, t)
    BY <1>2 DEF list_remove
  <2>2. PICK u : u = Unlink(seq, t)
    OBVIOUS
  <2>3. /\ DOMAIN u = 1 .. Len(seq) - 1
        /\ \E k \in 1 .. Len(seq) :
             /\ seq[k] = t
             /\ \A n \in 1 .. Len(seq) - 1 : u[n] = IF n < k THEN seq[n] ELSE seq[n + 1]
    BY <1>2, <2>2, UnlinkClosesGap
  <2>4. PICK k \in 1 .. Len(seq) :
          \A n \in 1 .. Len(seq) - 1 : u[n] = IF n < k THEN seq[n] ELSE seq[n + 1]
    BY <2>3
  <2> DEFINE From(n) == IF n < k THEN n ELSE n + 1
  <2>5. i \in 1 .. Len(seq) - 1 /\ j \in 1 .. Len(seq) - 1
    BY <2>1, <2>2, <2>3
  <2>6. /\ From(i) \in DOMAIN seq /\ From(j) \in DOMAIN seq
        /\ seq[From(i)] = u[i] /\ seq[From(j)] = u[j]
        /\ From(j) < From(i) => j < i
    BY <1>1, <2>4, <2>5
  <2> QED BY <2>1, <2>2, <2>6
<1>3. CASE ~Contains(seq, t)
  <2>1. list_remove(seq, t) = seq
    BY <1>3 DEF list_remove
  <2> QED BY <2>1
<1> QED BY <1>2, <1>3

\* Two lists without a common element, one after the other.
LEMMA ListsJoined ==
  ASSUME NEW S, NEW a \in Seq(S), NEW b \in Seq(S), IsInjective(a), IsInjective(b),
         \A x : ~(Contains(a, x) /\ Contains(b, x))
  PROVE  /\ a \o b \in Seq(S)
         /\ IsInjective(a \o b)
         /\ \A x : Contains(a \o b, x) <=> Contains(a, x) \/ Contains(b, x)
<1>1. PICK u : u = a \o b
  OBVIOUS
<1>2. /\ u \in Seq(S)
      /\ Len(a) \in Nat /\ Len(b) \in Nat
      /\ Len(u) = Len(a) + Len(b)
      /\ DOMAIN u = 1 .. Len(a) + Len(b)
      /\ DOMAIN a = 1 .. Len(a) /\ DOMAIN b = 1 .. Len(b)
      /\ \A i \in 1 .. Len(a) + Len(b) : u[i] = IF i <= Len(a) THEN a[i] ELSE b[i - Len(a)]
  <2>1. /\ u \in Seq(S)
        /\ Len(u) = Len(a) + Len(b)
        /\ \A i \in 1 .. Len(a) + Len(b) : u[i] = IF i <= Len(a) THEN a[i] ELSE b[i - Len(a)]
    BY <1>1, ConcatProperties
  <2> QED BY <2>1, LenProperties
<1>3. ASSUME NEW x
      PROVE  Contains(u, x) <=> Contains(a, x) \/ Contains(b, x)
  <2>1. ASSUME Contains(u, x) PROVE Contains(a, x) \/ Contains(b, x)
    <3>1. PICK i \in 1 .. Len(a) + Len(b) : u[i] = x
      BY <1>2, <2>1 DEF Contains
    <3>2. CASE i <= Len(a)
      BY <1>2, <3>1, <3>2 DEF Contains
    <3>3. CASE ~(i <= Len(a))
      <4>1. i - Len(a) \in 1 .. Len(b) /\ b[i - Len(a)] = x
        BY <1>2, <3>1, <3>3
      <4> QED BY <4>1 DEF Contains
    <3> QED BY <3>2, <3>3
  <2>2. ASSUME Contains(a, x) PROVE Contains(u, x)
    <3>1. PICK i \in 1 .. Len(a) : a[i] = x
      BY <2>2 DEF Contains
    <3>2. i \in 1 .. Len(a) + Len(b) /\ u[i] = x
      BY <1>2, <3>1
    <3> QED BY <1>2, <3>2 DEF Contains
  <2>3. ASSUME Contains(b, x) PROVE Contains(u, x)
    <3>1. PICK i \in 1 .. Len(b) : b[i] = x
      BY <2>3 DEF Contains
    <3>2. Len(a) + i \in 1 .. Len(a) + Len(b) /\ u[Len(a) + i] = x
      BY <1>2, <3>1
    <3> QED BY <1>2, <3>2 DEF Contains
  <2> QED BY <2>1, <2>2, <2>3
<1>4. IsInjective(u)
  <2> SUFFICES ASSUME NEW i \in 1 .. Len(a) + Len(b), NEW j \in 1 .. Len(a) + Len(b),
                      u[i] = u[j]
               PROVE  i = j
    BY <1>2 DEF IsInjective
  <2>1. \A n \in 1 .. Len(a) + Len(b) :
          \/ n \in 1 .. Len(a) /\ u[n] = a[n]
          \/ n - Len(a) \in 1 .. Len(b) /\ u[n] = b[n - Len(a)]
    BY <1>2
  <2>2. \A m \in 1 .. Len(a), n \in 1 .. Len(b) : a[m] # b[n]
    BY DEF Contains
  <2>3. CASE i \in 1 .. Len(a) /\ j \in 1 .. Len(a)
    BY <1>2, <2>3 DEF IsInjective
  <2>4. CASE i \notin 1 .. Len(a) /\ j \notin 1 .. Len(a)
    <3>1. i - Len(a) = j - Len(a)
      BY <1>2, <2>1, <2>4 DEF IsInjective
    <3> QED BY <1>2, <3>1
  <2> QED BY <2>1, <2>2, <2>3, <2>4
<1> QED BY <1>1, <1>2, <1>3, <1>4

-----------------------------------------------------------------------------
(* What a step does to the threads that do not run: it wakes some of them. *)

OnlyWakes(s, r, T) ==
  \A t \in T :
    \/ r.kt_wchan[t] = s.kt_wchan[t] /\ r.kt_state[t] = s.kt_state[t]
    \/ /\ s.kt_wchan[t] \in WaitQueue
       /\ r.kt_wchan[t] = RunQ /\ r.kt_state[t] = KT_RUN

\* Waking twice is waking.
LEMMA WakingComposes ==
  ASSUME NEW s, NEW r, NEW u, NEW T, OnlyWakes(s, r, T), OnlyWakes(r, u, T)
  PROVE  OnlyWakes(s, u, T)
BY SchedAssumption DEF OnlyWakes

\* A thread moved to the run queue is a thread woken.
LEMMA MovingWakes ==
  ASSUME NEW s, WellFormed(s), NEW t \in Thread, s.kt_wchan[t] \in WaitQueue,
         NEW r, Moves(s, r, t, RunQ, KT_RUN)
  PROVE  OnlyWakes(s, r, Thread) /\ r.kt_wchan[t] = RunQ
<1>1. DOMAIN s.kt_wchan = Thread /\ DOMAIN s.kt_state = Thread
  BY DEF WellFormed, SchedState
<1> QED BY <1>1 DEF Moves, OnlyWakes

\* A wake-up wakes one of those that wait on the queue, if there are any.
LEMMA WakeupOnlyWakes ==
  ASSUME NEW s, WellFormed(s), NEW q \in WaitQueue,
         NEW r, r = sched_wakeup_on(s, q)
  PROVE  /\ WellFormed(r)
         /\ KeepsFlags(s, r)
         /\ r.curthr = s.curthr
         /\ OnlyWakes(s, r, Thread)
         /\ \/ \A t \in Thread : s.kt_wchan[t] # q
            \/ \E t \in Thread : s.kt_wchan[t] = q /\ r.kt_wchan[t] = RunQ
<1>1. /\ WellFormed(r)
      /\ KeepsFlags(s, r)
      /\ r.curthr = s.curthr
      /\ \/ /\ \A t \in Thread : s.kt_wchan[t] # q
            /\ r.kt_wchan = s.kt_wchan /\ r.kt_state = s.kt_state
         \/ \E t \in Thread : s.kt_wchan[t] = q /\ Moves(s, r, t, RunQ, KT_RUN)
  BY HandlerWakes
<1>2. CASE r.kt_wchan = s.kt_wchan /\ r.kt_state = s.kt_state
           /\ \A t \in Thread : s.kt_wchan[t] # q
  BY <1>1, <1>2 DEF OnlyWakes
<1>3. ASSUME NEW t \in Thread, s.kt_wchan[t] = q, Moves(s, r, t, RunQ, KT_RUN)
      PROVE  OnlyWakes(s, r, Thread) /\ r.kt_wchan[t] = RunQ
  BY <1>3, MovingWakes
<1> QED BY <1>1, <1>2, <1>3

\* Cancelling sets a flag and wakes at most the thread that is cancelled.
LEMMA CancelOnlyWakes ==
  ASSUME NEW s, WellFormed(s), NEW t \in Thread,
         s.kt_state[t] = KT_SLEEP_CANCELLABLE => s.kt_wchan[t] \in WaitQueue,
         NEW r, r = sched_cancel(s, t)
  PROVE  /\ WellFormed(r)
         /\ r.kt_cancelled = [s.kt_cancelled EXCEPT ![t] = TRUE]
         /\ r.curthr = s.curthr
         /\ OnlyWakes(s, r, Thread)
<1>1. /\ WellFormed(r)
      /\ r.kt_cancelled = [s.kt_cancelled EXCEPT ![t] = TRUE]
      /\ r.curthr = s.curthr
      /\ \/ /\ r.kt_wchan = s.kt_wchan
            /\ r.kt_state = s.kt_state
            /\ KeepsLists(s, r)
         \/ /\ s.kt_wchan[t] \in WaitQueue
            /\ s.kt_state[t] = KT_SLEEP_CANCELLABLE
            /\ Moves(s, r, t, RunQ, KT_RUN)
            /\ Unlinks(s, r, t)
  BY CancelKeepsLinks
<1>2. CASE r.kt_wchan = s.kt_wchan /\ r.kt_state = s.kt_state
  BY <1>1, <1>2 DEF OnlyWakes
<1>3. CASE s.kt_wchan[t] \in WaitQueue /\ Moves(s, r, t, RunQ, KT_RUN)
  BY <1>1, <1>3, MovingWakes
<1> QED BY <1>1, <1>2, <1>3

\* The running thread goes to sleep, or exits.
LEMMA SleepingOnlyMovesCaller ==
  ASSUME NEW s, WellFormed(s), NEW p \in Thread, s.curthr = p,
         s.kt_wchan[p] = NoQueue,
         NEW q \in WaitQueue, NEW k \in Asleep,
         NEW r, r = SleepOn(s, q, k)
  PROVE  /\ WellFormed(r)
         /\ KeepsFlags(s, r)
         /\ r.curthr = NoThread
         /\ OnlyWakes(s, r, Thread \ {p})
         /\ r.kt_wchan[p] = q
         /\ r.kt_state[p] = k
<1>1. q \in Queue /\ k \in {KT_RUN} \cup Asleep
  BY DEF Queue
<1>2. /\ WellFormed(r)
      /\ r.curthr = NoThread
      /\ Moves(s, r, p, q, k)
      /\ KeepsFlags(s, r)
      /\ Appends(s, r, q, p)
  BY <1>1, SleepKeepsLinks
<1>3. DOMAIN s.kt_wchan = Thread /\ DOMAIN s.kt_state = Thread
  BY DEF WellFormed, SchedState
<1> QED BY <1>2, <1>3 DEF Moves, OnlyWakes

\* Leaving the CPU moves nobody else from queue to queue.
LEMMA SwitchingMovesNobody ==
  ASSUME NEW s, WellFormed(s), NEW r, r = sched_switch(s)
  PROVE  /\ WellFormed(r)
         /\ KeepsFlags(s, r)
         /\ r.curthr = NoThread
         /\ r.kt_wchan = s.kt_wchan
         /\ r.kt_state = s.kt_state
<1>1. /\ r \in SchedState
      /\ r.tq_list = s.tq_list
      /\ r.kt_wchan = s.kt_wchan
      /\ r.kt_state = s.kt_state
      /\ r.kt_cancelled = s.kt_cancelled
      /\ r.curthr = NoThread
  BY DEF sched_switch, WellFormed, SchedState
<1> QED BY <1>1, OtherFieldsKeepLinks DEF KeepsFlags

\* An exiting thread wakes its parent, if that waits, and is on no queue.
ExitedAfterWaking(p, parent, s, r) ==
  /\ WellFormed(r)
  /\ KeepsFlags(s, r)
  /\ r.curthr = p
  /\ OnlyWakes(s, r, Thread \ {p})
  /\ r.kt_wchan[p] = NoQueue
  /\ r.kt_state[p] = KT_EXITED
  /\ \/ \A t \in Thread : s.kt_wchan[t] # p_wait(parent)
     \/ \E t \in Thread : s.kt_wchan[t] = p_wait(parent) /\ r.kt_wchan[t] = RunQ

\* That is what kthread_exit does up to proc_cleanup.
LEMMA ExitingWakesParent ==
  ASSUME NEW s, WellFormed(s), NEW p \in Thread, s.curthr = p,
         s.kt_wchan[p] = NoQueue,
         NEW parent \in Thread, parent = p_pproc[p],
         NEW e, e = ThreadExits(s),
         NEW r, r = WakeParent(p, e)
  PROVE  ExitedAfterWaking(p, parent, s, r)
<1>2. /\ WellFormed(e)
      /\ e.kt_wchan = s.kt_wchan
      /\ e.kt_state = [s.kt_state EXCEPT ![p] = KT_EXITED]
      /\ KeepsFlags(s, e)
      /\ e.curthr = s.curthr
  BY MarkedExited
<1>3. PICK q : q = p_wait(parent)
  OBVIOUS
<1>4. q \in WaitQueue /\ r = sched_wakeup_on(e, q)
  BY <1>3, ProcAssumption DEF WakeParent
<1>5. /\ WellFormed(r)
      /\ KeepsFlags(e, r)
      /\ r.curthr = e.curthr
      /\ OnlyWakes(e, r, Thread)
      /\ \/ \A t \in Thread : e.kt_wchan[t] # q
         \/ \E t \in Thread : e.kt_wchan[t] = q /\ r.kt_wchan[t] = RunQ
  BY <1>2, <1>4, WakeupOnlyWakes
<1>6. DOMAIN s.kt_state = Thread
  BY DEF WellFormed, SchedState
<1>7. OnlyWakes(s, r, Thread \ {p})
  BY <1>2, <1>5, <1>6 DEF OnlyWakes
<1>8. r.kt_wchan[p] = NoQueue /\ r.kt_state[p] = KT_EXITED
  BY <1>2, <1>5, <1>6, SchedAssumption DEF OnlyWakes
<1> QED BY <1>2, <1>3, <1>5, <1>7, <1>8 DEF KeepsFlags, ExitedAfterWaking

\* The places of the threads after a step of the running thread p, which stays
\* on the CPU, goes to sleep, or leaves for good.
LEMMA OthersStayScheduled ==
  ASSUME Scheduled, OwnWaits, NEW p \in Thread, sched.curthr = p,
         pc \in [Thread -> Place], pc' \in [Thread -> Place],
         OnlyWakes(sched, sched', Thread \ {p}),
         \A t \in Thread \ {p} : pc'[t] = pc[t],
         \/ /\ sched'.curthr = p
            /\ sched'.kt_wchan[p] = NoQueue
            /\ sched'.kt_state[p] \in {KT_RUN, KT_EXITED}
            /\ pc'[p] \notin {"free", "gone"}
         \/ /\ sched'.curthr = NoThread
            /\ sched'.kt_wchan[p] \in WaitQueue
            /\ \A q \in Thread : sched'.kt_wchan[p] = p_wait(q) => q = p
            /\ sched'.kt_state[p] \in Asleep
            /\ pc'[p] \notin {"free", "gone"}
         \/ /\ sched'.curthr = NoThread
            /\ sched'.kt_wchan[p] = NoQueue
            /\ \/ sched'.kt_state[p] = KT_EXITED
               \/ BlockingCleanup /\ sched'.kt_state[p] = KT_RUN
            /\ pc'[p] = "gone"
  PROVE  Scheduled' /\ OwnWaits'
<1> USE SchedAssumption DEF KT_RUN, KT_EXITED, KT_NO_STATE, Asleep, KT_SLEEP,
                            KT_SLEEP_CANCELLABLE
<1>1. ASSUME NEW q \in Thread
      PROVE  p_wait(q) \in WaitQueue /\ p_wait(q) # NoQueue /\ p_wait(q) # RunQ
  BY ProcAssumption
<1>2. Scheduled'
  <2> SUFFICES ASSUME NEW t \in Thread
               PROVE
    /\ t = sched'.curthr => /\ pc'[t] \notin {"free", "gone"}
                            /\ sched'.kt_wchan[t] = NoQueue
                            /\ sched'.kt_state[t] \in {KT_RUN, KT_EXITED}
    /\ t # sched'.curthr /\ pc'[t] \notin {"free", "gone"} =>
         \/ sched'.kt_state[t] = KT_RUN /\ sched'.kt_wchan[t] = RunQ
         \/ sched'.kt_state[t] \in Asleep /\ sched'.kt_wchan[t] \in WaitQueue
    /\ pc'[t] = "gone" => /\ sched'.kt_wchan[t] = NoQueue
                          /\ \/ sched'.kt_state[t] = KT_EXITED
                             \/ BlockingCleanup /\ sched'.kt_state[t] = KT_RUN
    /\ pc'[t] = "free" => /\ sched'.kt_wchan[t] = NoQueue
                          /\ sched'.kt_state[t] = KT_NO_STATE
    BY DEF Scheduled, Alive
  <2>1. CASE t = p
    BY <2>1
  <2>2. CASE t # p
    BY <2>2 DEF Scheduled, Alive, OnlyWakes
  <2> QED BY <2>1, <2>2
<1>3. OwnWaits'
  <2> SUFFICES ASSUME NEW t \in Thread, NEW q \in Thread, sched'.kt_wchan[t] = p_wait(q)
               PROVE  t = q
    BY DEF OwnWaits
  <2>1. p_wait(q) # NoQueue /\ p_wait(q) # RunQ
    BY <1>1
  <2>2. CASE t = p
    BY <2>1, <2>2
  <2>3. CASE t # p
    BY <2>1, <2>3 DEF OwnWaits, OnlyWakes
  <2> QED BY <2>2, <2>3
<1> QED BY <1>2, <1>3

-----------------------------------------------------------------------------
(* The loop of proc_kill_all over the process list.                        *)

\* Every process that is passed is cancelled or left alone, so the loop wakes
\* threads and sets flags, and nothing else.
Killed(s, r, victims) ==
  /\ WellFormed(r)
  /\ r.curthr = s.curthr
  /\ OnlyWakes(s, r, Thread)
  /\ \A t \in Thread : /\ s.kt_cancelled[t] => r.kt_cancelled[t]
                       /\ t \notin victims => r.kt_cancelled[t] = s.kt_cancelled[t]

\* One more process is cancelled.
LEMMA KillingOneMore ==
  ASSUME NEW s, WellFormed(s), NEW victims,
         \A t \in Thread : s.kt_state[t] \in Asleep => s.kt_wchan[t] \in WaitQueue,
         NEW r, Killed(s, r, victims), NEW v \in Thread, v \in victims,
         NEW u, u = proc_kill(r, v)
  PROVE  Killed(s, u, victims)
<1>1. r.kt_state[v] = KT_SLEEP_CANCELLABLE => r.kt_wchan[v] \in WaitQueue
  BY DEF Killed, OnlyWakes, Asleep, KT_RUN, KT_SLEEP_CANCELLABLE
<1>2. WellFormed(r) /\ u = sched_cancel(r, v)
  BY DEF Killed, proc_kill
<1>3. /\ WellFormed(u)
      /\ u.kt_cancelled = [r.kt_cancelled EXCEPT ![v] = TRUE]
      /\ u.curthr = r.curthr
      /\ OnlyWakes(r, u, Thread)
  BY <1>1, <1>2, CancelOnlyWakes
<1>4. OnlyWakes(s, u, Thread)
  BY <1>3, WakingComposes DEF Killed
<1>5. r.kt_cancelled \in [Thread -> BOOLEAN]
  BY <1>2 DEF WellFormed, SchedState
<1> QED BY <1>3, <1>4, <1>5 DEF Killed

\* The loop of proc_kill_all wakes threads that wait, sets the flags of the
\* victims and clears none, however long the list is.
LEMMA KillingOnlyWakes ==
  ASSUME WellFormed(sched), proc_list \in Seq(Thread),
         \A t \in Thread : sched.kt_state[t] \in Asleep => sched.kt_wchan[t] \in WaitQueue,
         NEW p,
         NEW r, r = proc_kill_all_Cancelled(p)
  PROVE  Killed(sched, r, proc_kill_all_Victims(p))
<1> DEFINE N == Len(proc_list)
           victims == proc_kill_all_Victims(p)
           Next1(s, i) == IF proc_list[i] \in victims THEN proc_kill(s, proc_list[i])
                                                      ELSE s
           Loop(f, n) == [i \in 0 .. n |-> IF i = 0 THEN sched ELSE Next1(f[i - 1], i)]
<1>1. N \in Nat /\ \A i \in 1 .. N : proc_list[i] \in Thread
  BY LenProperties, ElementOfSeq
<1>2. \A n \in Nat : \E f : f = Loop(f, n)
  <2> DEFINE T == {n \in Nat : ~ \E f : f = Loop(f, n)}
  <2> SUFFICES ASSUME T # {} PROVE FALSE
    OBVIOUS
  <2>1. PICK n \in T : \A m \in T : n <= m
    BY LeastNumber
  <2> HIDE DEF Next1
  <2>2. n # 0
    <3>1. \E f : f = Loop(f, 0)
      <4> DEFINE f == [i \in 0 .. 0 |-> sched]
      <4>1. f = Loop(f, 0)
        OBVIOUS
      <4> QED BY <4>1
    <3> QED BY <2>1, <3>1
  <2>3. n - 1 \in Nat /\ n - 1 \notin T
    BY <2>1, <2>2
  <2>4. PICK g : g = Loop(g, n - 1)
    BY <2>3
  <2> DEFINE h == [i \in 0 .. n |-> IF i = n THEN Next1(g[n - 1], n) ELSE g[i]]
  <2>5. ASSUME NEW i \in 0 .. n
        PROVE  h[i] = IF i = 0 THEN sched ELSE Next1(h[i - 1], i)
    <3>1. CASE i = n
      BY <2>2, <2>3, <3>1
    <3>2. CASE i # n /\ i # 0
      <4>1. i \in 0 .. n - 1 /\ i - 1 \in 0 .. n - 1 /\ i - 1 # n /\ i - 1 \in 0 .. n
        BY <2>3, <3>2
      <4>2. g[i] = Next1(g[i - 1], i)
        BY <2>4, <3>2, <4>1
      <4> QED BY <3>2, <4>1, <4>2
    <3>3. CASE i = 0
      <4>1. 0 \in 0 .. n - 1
        BY <2>3
      <4>2. g[0] = sched
        BY <2>4, <4>1
      <4> QED BY <2>2, <3>3, <4>2
    <3> QED BY <3>1, <3>2, <3>3
  <2>6. h = Loop(h, n)
    BY <2>5
  <2> QED BY <2>1, <2>6
<1> DEFINE after == CHOOSE f : f = Loop(f, N)
<1>3. after = Loop(after, N)
  BY <1>1, <1>2
<1>4. proc_kill_all_Cancelled(p) = after[N]
  BY DEF proc_kill_all_Cancelled
<1> HIDE DEF after
<1>5. \A i \in 0 .. N : after[i] = IF i = 0 THEN sched ELSE Next1(after[i - 1], i)
  BY <1>3
<1>6. \A i \in 0 .. N : Killed(sched, after[i], victims)
  <2> DEFINE T == {i \in 0 .. N : ~Killed(sched, after[i], victims)}
  <2> SUFFICES ASSUME T # {} PROVE FALSE
    OBVIOUS
  <2>1. T \in SUBSET Nat
    BY <1>1
  <2>2. PICK n \in T : \A m \in T : n <= m
    BY <2>1, LeastNumber
  <2>3. n # 0
    <3>1. Killed(sched, sched, victims)
      BY DEF Killed, OnlyWakes
    <3>2. after[0] = sched
      BY <1>1, <1>5
    <3> QED BY <2>2, <3>1, <3>2
  <2>4. n \in 1 .. N /\ n - 1 \in 0 .. N /\ n - 1 \notin T
    BY <1>1, <2>2, <2>3
  <2>5. Killed(sched, after[n - 1], victims)
    BY <2>4
  <2>6. after[n] = Next1(after[n - 1], n)
    BY <1>5, <2>4, <2>3
  <2>7. Killed(sched, after[n], victims)
    <3>1. CASE proc_list[n] \in victims
      <4>1. after[n] = proc_kill(after[n - 1], proc_list[n])
        BY <2>6, <3>1
      <4> QED BY <1>1, <2>4, <2>5, <3>1, <4>1, KillingOneMore
    <3>2. CASE proc_list[n] \notin victims
      BY <2>5, <2>6, <3>2
    <3> QED BY <3>1, <3>2
  <2> QED BY <2>2, <2>7
<1> QED BY <1>1, <1>4, <1>6

-----------------------------------------------------------------------------
(* Steps of the running thread p that change neither the family nor the    *)
(* lists.                                                                  *)

\* The three processes of the kernel and the queues are different things.
LEMMA Identities ==
  /\ PID_IDLE \in Thread /\ PID_INIT \in Thread /\ Pageoutd \in Thread
  /\ PID_IDLE # PID_INIT /\ PID_IDLE # Pageoutd /\ PID_INIT # Pageoutd
  /\ \A t \in Thread : t \in UserPids \/ t \in {PID_IDLE, PID_INIT, Pageoutd}
  /\ \A u \in UserPids : u \in Thread /\ u \notin {PID_IDLE, PID_INIT, Pageoutd}
  /\ {DiskQ, TtyQ, PageoutdQ} \subseteq WaitQueue
  /\ \A p \in Thread : /\ p_wait(p) \in WaitQueue
                       /\ p_wait(p) \notin {DiskQ, TtyQ, PageoutdQ, RunQ, NoQueue}
  /\ NoThread \notin Thread
<1>1. \A p \in Thread : p_wait(p) \in WaitQueue /\ p_wait(p) \notin {DiskQ, TtyQ, PageoutdQ}
  BY ProcAssumption
<1> QED BY <1>1, ProcAssumption, SchedAssumption
        DEF UserPids, PID_IDLE, PID_INIT, Pageoutd

\* The running thread is alive and on no queue.
LEMMA RunningThread ==
  ASSUME IInv, NEW p \in Thread, sched.curthr = p
  PROVE  /\ WellFormed(sched)
         /\ pc[p] \notin {"free", "gone"}
         /\ sched.kt_wchan[p] = NoQueue
         /\ sched.kt_state[p] \in {KT_RUN, KT_EXITED}
         /\ \A t \in Thread : sched.kt_state[t] \in Asleep => sched.kt_wchan[t] \in WaitQueue
BY DEF IInv, TypeOK, WellFormed, Scheduled, Alive, Asleep, KT_RUN, KT_EXITED,
       KT_NO_STATE, KT_SLEEP, KT_SLEEP_CANCELLABLE

\* What remains to be shown of a step that leaves the family alone.
Quiet(p, place) ==
  /\ pc' = [pc EXCEPT ![p] = place]
  /\ WellFormed(sched')
  /\ OnlyWakes(sched, sched', Thread \ {p})
  /\ UNCHANGED <<p_pproc, p_children, proc_list>>
  /\ p_status' \in [Thread -> Status]
  /\ kt_retval' \in [Thread -> Status]
  /\ next_pid' \in Thread

\* Such a step of the running thread keeps the invariant.
LEMMA QuietStep ==
  ASSUME IInv, NEW p \in Thread, sched.curthr = p,
         NEW place \in Place \ {"free", "gone"}, Quiet(p, place),
         wpid' \in [Thread -> Thread \cup {AnyChild}],
         p_state' = p_state \/ p_state' = [p_state EXCEPT ![p] = "PROC_DEAD"],
         \/ /\ sched'.curthr = p
            /\ sched'.kt_wchan[p] = NoQueue
            /\ sched'.kt_state[p] \in {KT_RUN, KT_EXITED}
         \/ /\ sched'.curthr = NoThread
            /\ sched'.kt_wchan[p] \in WaitQueue
            /\ \A q \in Thread : sched'.kt_wchan[p] = p_wait(q) => q = p
            /\ sched'.kt_state[p] \in Asleep,
         Roles', Phases', Dying', Orderly'
  PROVE  IInv'
<1>1. /\ pc \in [Thread -> Place]
      /\ pc' \in [Thread -> Place]
      /\ pc[p] \notin {"free", "gone"}
      /\ pc'[p] = place
      /\ \A t \in Thread \ {p} : pc'[t] = pc[t]
  BY RunningThread DEF IInv, TypeOK, Quiet
<1>2. TypeOK' /\ Linked(sched)'
  BY <1>1 DEF IInv, TypeOK, WellFormed, Quiet
<1>3. Scheduled' /\ OwnWaits'
  BY <1>1, OthersStayScheduled DEF IInv, Quiet
<1>4. \A t \in Thread : /\ pc'[t] = "free" <=> pc[t] = "free"
                        /\ pc'[t] \in {"free", "gone"} <=> pc[t] \in {"free", "gone"}
  BY <1>1
<1>5. \A t \in Thread : p_state'[t] = "PROC_FREE" <=> p_state[t] = "PROC_FREE"
  <2>1. p_state[p] # "PROC_FREE" /\ DOMAIN p_state = Thread
    BY <1>1 DEF IInv, TypeOK, Family
  <2> QED BY <2>1
<1>6. /\ p_pproc' = p_pproc /\ p_children' = p_children /\ proc_list' = proc_list
      /\ p_pproc \in [Thread -> Thread \cup {NoThread}]
  BY DEF IInv, TypeOK, Quiet
<1>7. Family'
  <2>1. \A c \in Thread : p_pproc[c] # NoThread => pc'[p_pproc[c]] \notin {"free", "gone"}
    BY <1>4, <1>6 DEF IInv, Family, Alive
  <2> QED BY <1>4, <1>5, <1>6, <2>1 DEF IInv, Family, Alive
<1>8. Elders'
  BY <1>6 DEF IInv, Elders
<1> QED BY <1>2, <1>3, <1>7, <1>8 DEF IInv

\* The waits of the others are as hopeful as before.
LEMMA HopeStays ==
  ASSUME IInv, NoHopelessWait, NEW p \in Thread, NEW place, place # "gone",
         pc' = [pc EXCEPT ![p] = place], p_children' = p_children,
         \A t \in Thread \ {p} : wpid'[t] = wpid[t],
         OnlyWakes(sched, sched', Thread \ {p}),
         sched'.kt_wchan[p] # p_wait(p)
  PROVE  NoHopelessWait'
<1> SUFFICES ASSUME NEW t \in Thread, sched'.kt_wchan[t] = p_wait(t)
             PROVE  (\E c \in Awaited(t, wpid[t]) : pc[c] # "gone")'
  BY DEF NoHopelessWait
<1>1. t # p /\ sched.kt_wchan[t] = p_wait(t)
  BY Identities DEF OnlyWakes
<1>2. PICK c \in Awaited(t, wpid[t]) : pc[c] # "gone"
  BY <1>1 DEF NoHopelessWait
<1>3. pc'[c] # "gone"
  BY <1>2 DEF IInv, TypeOK
<1> QED BY <1>1, <1>2, <1>3 DEF Awaited

\* A system call returns to the program.
LEMMA SyscallReturn_Keeps ==
  ASSUME IInv, NEW p \in Thread, SyscallReturn(p)
  PROVE  IInv'
<1>1. /\ sched.curthr = p /\ pc[p] = "sysret" /\ sched' = sched
      /\ ~sched.kt_cancelled[p]
      /\ UNCHANGED <<family, wpid>>
      /\ pc \in [Thread -> Place]
      /\ pc' = [pc EXCEPT ![p] = "user"]
  BY DEF SyscallReturn, Runs, GoTo, IInv, TypeOK
<1>2. /\ WellFormed(sched) /\ sched.kt_wchan[p] = NoQueue
      /\ sched.kt_state[p] \in {KT_RUN, KT_EXITED}
  BY <1>1, RunningThread
<1>3. Quiet(p, "user") /\ "user" \in Place \ {"free", "gone"}
  BY <1>1, <1>2 DEF Quiet, OnlyWakes, SyscallReturn, family, Place, IInv, TypeOK
<1>4. Roles'
  BY <1>1, Identities DEF IInv, Roles
<1>5. Phases'
  BY <1>1, Identities DEF IInv, Roles, Phases
<1>6. Dying'
  BY <1>1, Identities DEF IInv, Dying, family
<1>7. Orderly'
  <2>1. ASSUME ~BlockingCleanup PROVE NoHopelessWait'
    BY <1>1, <1>2, <1>3, <2>1, HopeStays, Identities DEF IInv, Orderly, Quiet, family
  <2>2. ASSUME ~BlockingCleanup PROVE \A t \in Thread : pc'[t] # "panic"
    BY <1>1, <2>2 DEF IInv, Orderly
  <2> QED BY <2>1, <2>2 DEF Orderly
<1>8. /\ wpid' \in [Thread -> Thread \cup {AnyChild}]
      /\ p_state' = p_state
      /\ sched'.curthr = p
      /\ sched'.kt_wchan[p] = NoQueue
      /\ sched'.kt_state[p] \in {KT_RUN, KT_EXITED}
  BY <1>1, <1>2 DEF IInv, TypeOK, family
<1> QED BY <1>1, <1>3, <1>4, <1>5, <1>6, <1>7, <1>8, QuietStep

-----------------------------------------------------------------------------
(* Steps in which the running thread goes to sleep.                        *)

\* A state of the scheduler that the running thread p brings about before it
\* sleeps or exits: it may have woken and cancelled others.
Reached(p, s) ==
  /\ WellFormed(s)
  /\ s.curthr = p
  /\ s.kt_wchan[p] = NoQueue
  /\ s.kt_state[p] \in {KT_RUN, KT_EXITED}
  /\ OnlyWakes(sched, s, Thread \ {p})

\* Nothing has happened yet.
LEMMA NothingReached ==
  ASSUME IInv, NEW p \in Thread, sched.curthr = p
  PROVE  Reached(p, sched)
BY RunningThread DEF Reached, OnlyWakes

\* A thread that goes to sleep leaves the family alone.  If it sleeps in
\* do_waitpid, it must have a child to wait for.
LEMMA SleepStep ==
  ASSUME IInv, NEW p \in Thread, sched.curthr = p, pc[p] # "sysret",
         NEW s, Reached(p, s),
         NEW q \in WaitQueue, \A t \in Thread : q = p_wait(t) => t = p,
         NEW k \in Asleep, sched' = SleepOn(s, q, k),
         NEW place \in Place \ {"free", "gone", "panic"},
         pc' = [pc EXCEPT ![p] = place],
         UNCHANGED <<family, kt_retval, next_pid>>,
         wpid' \in [Thread -> Thread \cup {AnyChild}],
         \A t \in Thread \ {p} : wpid'[t] = wpid[t],
         \/ q # p_wait(p)
         \/ \E c \in Awaited(p, wpid'[p]) : pc[c] # "gone"
         \/ BlockingCleanup,
         Roles', Phases'
  PROVE  IInv'
<1>1. /\ WellFormed(sched')
      /\ sched'.curthr = NoThread
      /\ OnlyWakes(s, sched', Thread \ {p})
      /\ sched'.kt_wchan[p] = q
      /\ sched'.kt_state[p] = k
  <2>1. PICK r : r = SleepOn(s, q, k)
    OBVIOUS
  <2>2. WellFormed(s) /\ s.curthr = p /\ s.kt_wchan[p] = NoQueue
    BY DEF Reached
  <2>3. /\ WellFormed(r)
        /\ KeepsFlags(s, r)
        /\ r.curthr = NoThread
        /\ OnlyWakes(s, r, Thread \ {p})
        /\ r.kt_wchan[p] = q
        /\ r.kt_state[p] = k
    BY <2>1, <2>2, SleepingOnlyMovesCaller
  <2>4. sched' = r
    BY <2>1
  <2> QED BY <2>3, <2>4
<1>2. OnlyWakes(sched, sched', Thread \ {p})
  BY <1>1, WakingComposes DEF Reached
<1>3. /\ pc \in [Thread -> Place] /\ pc[p] \notin {"free", "gone"}
      /\ p_state' = p_state /\ p_children' = p_children
  BY RunningThread DEF IInv, TypeOK, family
<1>4. Quiet(p, place) /\ place \in Place \ {"free", "gone"}
  BY <1>1, <1>2 DEF Quiet, family, IInv, TypeOK
<1>5. Dying'
  <2> SUFFICES ASSUME NEW c \in Thread
               PROVE  /\ pc'[c] = "gone" => p_state[c] = "PROC_DEAD"
                      /\ p_state[c] = "PROC_DEAD" /\ pc'[c] # "gone" => BlockingCleanup
    BY <1>3 DEF Dying
  <2>1. CASE c = p
    BY <1>3, <2>1 DEF IInv, Dying
  <2>2. CASE c # p
    BY <1>3, <2>2 DEF IInv, Dying
  <2> QED BY <2>1, <2>2
<1>6. Orderly'
  <2>1. ASSUME ~BlockingCleanup PROVE \A t \in Thread : pc'[t] # "panic"
    BY <1>3, <2>1 DEF IInv, Orderly
  <2>2. ASSUME ~BlockingCleanup PROVE NoHopelessWait'
    <3>1. CASE q # p_wait(p)
      BY <1>1, <1>2, <1>3, <2>2, <3>1, HopeStays DEF IInv, Orderly
    <3>2. CASE \E c \in Awaited(p, wpid'[p]) : pc[c] # "gone"
      <4> SUFFICES ASSUME NEW t \in Thread, sched'.kt_wchan[t] = p_wait(t)
                   PROVE  (\E c \in Awaited(t, wpid[t]) : pc[c] # "gone")'
        BY DEF NoHopelessWait
      <4>1. \A c : pc[c] # "gone" => pc'[c] # "gone"
        BY <1>3
      <4>2. CASE t = p
        BY <1>3, <3>2, <4>1, <4>2 DEF Awaited
      <4>3. CASE t # p
        <5>1. sched.kt_wchan[t] = p_wait(t)
          BY <1>2, <4>3, Identities DEF OnlyWakes
        <5>2. PICK c \in Awaited(t, wpid[t]) : pc[c] # "gone"
          BY <2>2, <5>1 DEF IInv, Orderly, NoHopelessWait
        <5> QED BY <1>3, <4>1, <4>3, <5>2 DEF Awaited
      <4> QED BY <4>2, <4>3
    <3> QED BY <2>2, <3>1, <3>2
  <2> QED BY <2>1, <2>2 DEF Orderly
<1>7. \A t \in Thread : q = p_wait(t) => t = p
  OBVIOUS
<1> QED BY <1>1, <1>3, <1>4, <1>5, <1>6, <1>7, QuietStep

\* What the flags say is not touched by a thread that goes to sleep.
LEMMA SleepKeepsFlags ==
  ASSUME NEW p \in Thread, NEW s, Reached(p, s), NEW q \in WaitQueue, NEW k \in Asleep
  PROVE  SleepOn(s, q, k).kt_cancelled = s.kt_cancelled
<1>1. PICK r : r = SleepOn(s, q, k)
  OBVIOUS
<1>2. WellFormed(s) /\ s.curthr = p /\ s.kt_wchan[p] = NoQueue
  BY DEF Reached
<1>3. /\ WellFormed(r)
      /\ KeepsFlags(s, r)
      /\ r.curthr = NoThread
      /\ OnlyWakes(s, r, Thread \ {p})
      /\ r.kt_wchan[p] = q
      /\ r.kt_state[p] = k
  BY <1>1, <1>2, SleepingOnlyMovesCaller
<1> QED BY <1>1, <1>3 DEF KeepsFlags

\* A system call that waits for the disk.
LEMMA DiskIO_Keeps ==
  ASSUME IInv, NEW p \in Thread, DiskIO(p)
  PROVE  IInv'
<1>1. /\ sched.curthr = p /\ pc[p] = "user"
      /\ sched' = SleepOn(sched, DiskQ, KT_SLEEP)
      /\ pc' = [pc EXCEPT ![p] = "sysret"]
      /\ UNCHANGED <<family, kt_retval, next_pid, wpid>>
      /\ pc \in [Thread -> Place]
  BY DEF DiskIO, Runs, GoTo, IInv, TypeOK, sched_sleep_on
<1>2. Reached(p, sched) /\ KT_SLEEP \in Asleep
  BY <1>1, NothingReached DEF Asleep
<1>3. sched'.kt_cancelled = sched.kt_cancelled
  BY <1>1, <1>2, SleepKeepsFlags, Identities
<1>4. /\ DiskQ \in WaitQueue
      /\ \A t \in Thread : DiskQ # p_wait(t)
      /\ "sysret" \in Place \ {"free", "gone", "panic"}
      /\ wpid' = wpid /\ wpid \in [Thread -> Thread \cup {AnyChild}]
  BY <1>1, Identities DEF Place, IInv, TypeOK
<1>5. Roles'
  BY <1>1, Identities DEF IInv, Roles
<1>6. Phases'
  BY <1>1, <1>3, Identities DEF IInv, Roles, Phases
<1> QED BY <1>1, <1>2, <1>4, <1>5, <1>6, SleepStep

\* A read from the terminal, up to its sleep.
LEMMA TtyRead_Keeps ==
  ASSUME IInv, NEW p \in Thread, TtyRead(p)
  PROVE  IInv'
<1>1. /\ sched.curthr = p /\ pc[p] = "user" /\ p \in UserPids
      /\ sched' = SleepOn(sched, TtyQ, KT_SLEEP_CANCELLABLE)
      /\ pc' = [pc EXCEPT ![p] = "tty"]
      /\ UNCHANGED <<family, kt_retval, next_pid, wpid>>
      /\ pc \in [Thread -> Place]
  BY DEF TtyRead, Runs, GoTo, IInv, TypeOK, sched_cancellable_sleep_on
<1>2. Reached(p, sched) /\ KT_SLEEP_CANCELLABLE \in Asleep
  BY <1>1, NothingReached DEF Asleep
<1>3. sched'.kt_cancelled = sched.kt_cancelled
  BY <1>1, <1>2, SleepKeepsFlags, Identities
<1>4. /\ TtyQ \in WaitQueue
      /\ \A t \in Thread : TtyQ # p_wait(t)
      /\ "tty" \in Place \ {"free", "gone", "panic"}
      /\ wpid' = wpid /\ wpid \in [Thread -> Thread \cup {AnyChild}]
  BY <1>1, Identities DEF Place, IInv, TypeOK
<1>5. Roles'
  BY <1>1, Identities DEF IInv, Roles
<1>6. Phases'
  BY <1>1, <1>3, Identities DEF IInv, Roles, Phases
<1> QED BY <1>1, <1>2, <1>4, <1>5, <1>6, SleepStep

\* The read continues: a cancelled reader becomes PROC_DEAD and returns.
LEMMA TtyRead_Continues_Keeps ==
  ASSUME IInv, NEW p \in Thread, TtyRead_Continues(p)
  PROVE  IInv'
<1>1. /\ sched.curthr = p /\ pc[p] = "tty"
      /\ pc' = [pc EXCEPT ![p] = "sysret"]
      /\ UNCHANGED <<p_pproc, p_children, p_status, proc_list, kt_retval, next_pid, wpid>>
      /\ pc \in [Thread -> Place] /\ p_state \in [Thread -> {"PROC_FREE", "PROC_RUNNING", "PROC_DEAD"}]
      /\ \/ /\ sched.kt_cancelled[p]
            /\ sched' = ReturnEINTR(sched)
            /\ p_state' = [p_state EXCEPT ![p] = "PROC_DEAD"]
         \/ ~sched.kt_cancelled[p] /\ sched' = sched /\ p_state' = p_state
  BY DEF TtyRead_Continues, Runs, GoTo, IInv, TypeOK
<1>2. /\ WellFormed(sched) /\ sched.kt_wchan[p] = NoQueue
      /\ sched.kt_state \in [Thread -> KtState]
      /\ sched.kt_state[p] \in {KT_RUN, KT_EXITED}
  BY <1>1, RunningThread DEF WellFormed, SchedState
<1>3. /\ WellFormed(sched')
      /\ sched'.kt_wchan = sched.kt_wchan
      /\ sched'.kt_cancelled = sched.kt_cancelled
      /\ sched'.curthr = p
      /\ sched'.kt_state[p] \in {KT_RUN, KT_EXITED}
      /\ OnlyWakes(sched, sched', Thread \ {p})
  <2>1. CASE sched' = ReturnEINTR(sched)
    <3>1. PICK r : r = ReturnEINTR(sched)
      OBVIOUS
    <3>2. /\ WellFormed(r)
          /\ r.kt_wchan = sched.kt_wchan
          /\ r.kt_state = [sched.kt_state EXCEPT ![p] = KT_EXITED]
          /\ KeepsFlags(sched, r)
          /\ r.curthr = sched.curthr
      BY <1>1, <1>2, <3>1, MarkedExited
    <3>3. sched' = r
      BY <2>1, <3>1
    <3> QED BY <1>1, <1>2, <3>2, <3>3 DEF KeepsFlags, OnlyWakes
  <2>2. CASE sched' = sched
    BY <1>1, <1>2, <2>2 DEF OnlyWakes
  <2> QED BY <1>1, <2>1, <2>2
<1>4. Quiet(p, "sysret") /\ "sysret" \in Place \ {"free", "gone"}
  BY <1>1, <1>3 DEF Quiet, Place, IInv, TypeOK
<1>5. p \in UserPids
  BY <1>1, Identities DEF IInv, Roles
<1>6. Roles'
  BY <1>1, <1>5, Identities DEF IInv, Roles
<1>7. Phases'
  BY <1>1, <1>3, <1>5, Identities DEF IInv, Roles, Phases
<1>8. Dying'
  <2> SUFFICES ASSUME NEW c \in Thread
               PROVE  /\ pc'[c] = "gone" => p_state'[c] = "PROC_DEAD"
                      /\ p_state'[c] = "PROC_DEAD" /\ pc'[c] # "gone" =>
                           \/ c = p /\ pc'[c] = "sysret" /\ sched'.kt_cancelled[c]
                           \/ BlockingCleanup
    BY <1>3 DEF Dying
  <2>1. CASE c = p
    BY <1>1, <1>3, <2>1 DEF IInv, Dying
  <2>2. CASE c # p
    BY <1>1, <2>2 DEF IInv, Dying
  <2> QED BY <2>1, <2>2
<1>9. Orderly'
  <2>1. ASSUME ~BlockingCleanup PROVE \A t \in Thread : pc'[t] # "panic"
    BY <1>1, <2>1 DEF IInv, Orderly
  <2>2. sched'.kt_wchan[p] # p_wait(p)
    BY <1>2, <1>3, Identities
  <2>3. ASSUME ~BlockingCleanup PROVE NoHopelessWait'
    BY <1>1, <1>3, <2>2, <2>3, HopeStays DEF IInv, Orderly
  <2> QED BY <2>1, <2>3 DEF Orderly
<1>10. /\ wpid' \in [Thread -> Thread \cup {AnyChild}]
       /\ p_state' = p_state \/ p_state' = [p_state EXCEPT ![p] = "PROC_DEAD"]
       /\ sched'.kt_wchan[p] = NoQueue
  BY <1>1, <1>2, <1>3 DEF IInv, TypeOK
<1> QED BY <1>1, <1>3, <1>4, <1>6, <1>7, <1>8, <1>9, <1>10, QuietStep

\* The daemon sleeps until it is cancelled.
LEMMA pageoutd_Sleeps_Keeps ==
  ASSUME IInv, pageoutd_run(Pageoutd), ~sched.kt_cancelled[Pageoutd]
  PROVE  IInv'
<1> DEFINE p == Pageoutd
<1>1. /\ sched.curthr = p /\ pc[p] = "daemon" /\ p \in Thread
      /\ sched' = SleepOn(sched, PageoutdQ, KT_SLEEP_CANCELLABLE)
      /\ UNCHANGED <<family, kt_retval, next_pid, wpid>>
      /\ pc \in [Thread -> Place]
      /\ pc' = pc
  BY Identities DEF pageoutd_run, Runs, IInv, TypeOK, sched_cancellable_sleep_on
<1> HIDE DEF p
<1>2. Reached(p, sched) /\ KT_SLEEP_CANCELLABLE \in Asleep
  BY <1>1, NothingReached DEF Asleep
<1>3. sched'.kt_cancelled = sched.kt_cancelled
  BY <1>1, <1>2, SleepKeepsFlags, Identities
<1>4. /\ PageoutdQ \in WaitQueue
      /\ \A t \in Thread : PageoutdQ # p_wait(t)
      /\ "daemon" \in Place \ {"free", "gone", "panic"}
      /\ wpid' = wpid /\ wpid \in [Thread -> Thread \cup {AnyChild}]
      /\ pc' = [pc EXCEPT ![p] = "daemon"]
  <2>1. pc' = [pc EXCEPT ![p] = "daemon"]
    BY <1>1
  <2>2. \A t \in Thread : PageoutdQ # p_wait(t)
    BY Identities
  <2> QED BY <1>1, <2>1, <2>2, Identities DEF Place, IInv, TypeOK
<1>5. Roles'
  BY <1>1 DEF IInv, Roles
<1>6. Phases'
  BY <1>1, <1>3 DEF IInv, Phases
<1>7. /\ \A t \in Thread : PageoutdQ = p_wait(t) => t = p
      /\ PageoutdQ # p_wait(p)
      /\ pc[p] # "sysret"
  BY <1>1, <1>4
<1>8. /\ p \in Thread /\ sched.curthr = p
      /\ sched' = SleepOn(sched, PageoutdQ, KT_SLEEP_CANCELLABLE)
      /\ UNCHANGED <<family, kt_retval, next_pid>>
      /\ \A t \in Thread \ {p} : wpid'[t] = wpid[t]
      /\ wpid' \in [Thread -> Thread \cup {AnyChild}]
  BY <1>1, <1>4
<1> QED BY <1>2, <1>4, <1>5, <1>6, <1>7, <1>8, SleepStep

-----------------------------------------------------------------------------
(* waitpid.                                                                *)

\* The places from which do_waitpid is called or continues, in the scheduler
\* state s: only the idle process has cancelled somebody before, the daemon.
WaitContext(p, pid, s, place) ==
  /\ Reached(p, s)
  /\ pid \in Thread \cup {AnyChild}
  /\ \A t \in Thread \ {Pageoutd} : s.kt_cancelled[t] = sched.kt_cancelled[t]
  /\ \/ /\ p \in UserPids
        /\ pc[p] \in {"user", "waitpid"} /\ place = "waitpid"
        /\ s.kt_cancelled = sched.kt_cancelled
     \/ /\ p = PID_INIT /\ pid = AnyChild
        /\ pc[p] \in {"user", "reaping", "waitpid"} /\ place = "waitpid"
        /\ s.kt_cancelled = sched.kt_cancelled
     \/ /\ p = PID_IDLE /\ pid = AnyChild
        /\ pc[p] \in {"boot", "await init"} /\ place = "await init"
        /\ s.kt_cancelled = sched.kt_cancelled
     \/ /\ p = PID_IDLE /\ pid = AnyChild
        /\ pc[p] \in {"vfs_shutdown", "await pageoutd"} /\ place = "await pageoutd"

\* The running thread stays on the CPU and leaves the family alone.
LEMMA StayStep ==
  ASSUME IInv, NEW p \in Thread, sched.curthr = p, pc[p] # "sysret",
         NEW s, Reached(p, s), sched' = s,
         NEW place \in Place \ {"free", "gone"},
         place = "panic" => BlockingCleanup,
         pc' = [pc EXCEPT ![p] = place],
         UNCHANGED <<family, kt_retval, next_pid, wpid>>,
         Roles', Phases'
  PROVE  IInv'
<1>1. /\ WellFormed(sched')
      /\ sched'.curthr = p
      /\ sched'.kt_wchan[p] = NoQueue
      /\ sched'.kt_state[p] \in {KT_RUN, KT_EXITED}
      /\ OnlyWakes(sched, sched', Thread \ {p})
  BY DEF Reached
<1>2. /\ pc \in [Thread -> Place] /\ pc[p] \notin {"free", "gone"}
      /\ p_state' = p_state /\ p_children' = p_children
      /\ wpid' = wpid /\ wpid \in [Thread -> Thread \cup {AnyChild}]
  BY RunningThread DEF IInv, TypeOK, family
<1>3. Quiet(p, place) /\ place \in Place \ {"free", "gone"}
  BY <1>1 DEF Quiet, family, IInv, TypeOK
<1>4. Dying'
  <2> SUFFICES ASSUME NEW c \in Thread
               PROVE  /\ pc'[c] = "gone" => p_state[c] = "PROC_DEAD"
                      /\ p_state[c] = "PROC_DEAD" /\ pc'[c] # "gone" => BlockingCleanup
    BY <1>2 DEF Dying
  <2>1. CASE c = p
    BY <1>2, <2>1 DEF IInv, Dying
  <2>2. CASE c # p
    BY <1>2, <2>2 DEF IInv, Dying
  <2> QED BY <2>1, <2>2
<1>5. Orderly'
  <2>1. ASSUME ~BlockingCleanup PROVE \A t \in Thread : pc'[t] # "panic"
    BY <1>2, <2>1 DEF IInv, Orderly
  <2>2. sched'.kt_wchan[p] # p_wait(p)
    BY <1>1, Identities
  <2>3. ASSUME ~BlockingCleanup PROVE NoHopelessWait'
    BY <1>1, <1>2, <2>2, <2>3, HopeStays DEF IInv, Orderly
  <2> QED BY <2>1, <2>3 DEF Orderly
<1> QED BY <1>1, <1>2, <1>3, <1>4, <1>5, QuietStep

\* The children that do_waitpid looks at.
LEMMA AwaitedChildren ==
  ASSUME IInv, NEW p \in Thread, NEW pid
  PROVE  /\ \A c : c \in Awaited(p, pid) <=>
                     c \in Thread /\ p_pproc[c] = p /\ pid \in {AnyChild, c}
         /\ \A c \in Awaited(p, pid) : c # p
<1>1. p_children[p] \in Seq(Thread) /\ proc_list \in Seq(Thread)
  BY DEF IInv, TypeOK
<1>2. \A c : c \in ToSet(p_children[p]) <=> Contains(p_children[p], c)
  BY DEF ToSet, Contains
<1>3. \A c : Contains(p_children[p], c) => c \in Thread
  BY <1>1, ElementOfSeq, LenProperties DEF Contains
<1>4. \A c : c \in Awaited(p, pid) <=>
               c \in Thread /\ p_pproc[c] = p /\ pid \in {AnyChild, c}
  BY <1>2, <1>3 DEF Awaited, IInv, Family
<1>5. ASSUME p_pproc[p] = p PROVE FALSE
  <2>1. pc[p] # "free"
    BY <1>5, Identities DEF IInv, Family
  <2>2. PICK i \in DOMAIN proc_list : proc_list[i] = p
    BY <2>1 DEF IInv, Family, Contains
  <2>3. i \in Nat /\ i < i
    BY <1>1, <1>5, <2>2, LenProperties DEF IInv, Elders
  <2> QED BY <2>3
<1> QED BY <1>4, <1>5

\* As long as a user process is there, init has a child: the eldest.
LEMMA InitHasChildren ==
  ASSUME IInv, \A c \in Thread : p_pproc[c] # PID_INIT
  PROVE  \A u \in UserPids : pc[u] = "free"
<1> SUFFICES ASSUME NEW u \in UserPids, pc[u] # "free"
             PROVE  FALSE
  OBVIOUS
<1>1. proc_list \in Seq(Thread) /\ DOMAIN proc_list \in SUBSET Nat
  BY LenProperties DEF IInv, TypeOK
<1> DEFINE T == {i \in DOMAIN proc_list : proc_list[i] \in UserPids}
<1>2. T # {}
  BY Identities DEF IInv, Family, Contains
<1>3. T \in SUBSET Nat
  BY <1>1
<1>4. PICK i \in T : \A j \in T : i <= j
  BY <1>2, <1>3, LeastNumber
<1>5. PICK v : v = proc_list[i]
  OBVIOUS
<1>6. v \in UserPids /\ v \in Thread /\ pc[v] # "free" /\ v # PID_IDLE
  BY <1>4, <1>5, Identities DEF IInv, Family, Contains
<1>7. p_pproc[v] \in Thread /\ p_pproc[v] \notin {PID_IDLE, PID_INIT, Pageoutd}
  BY <1>6 DEF IInv, Family, TypeOK
<1>8. p_pproc[v] \in UserPids /\ pc[p_pproc[v]] # "free"
  BY <1>6, <1>7, Identities DEF IInv, Family, Alive
<1>9. PICK j \in DOMAIN proc_list : proc_list[j] = p_pproc[v]
  BY <1>7, <1>8 DEF IInv, Family, Contains
<1>10. j \in T /\ j < i /\ i \in Nat /\ j \in Nat
  BY <1>1, <1>3, <1>4, <1>5, <1>8, <1>9 DEF IInv, Elders
<1> QED BY <1>4, <1>10

\* The idle process has a child until it has reaped the daemon.
LEMMA IdleHasChildren ==
  ASSUME IInv
  PROVE  /\ pc[PID_IDLE] \in {"boot", "await init"} => p_pproc[PID_INIT] = PID_IDLE
         /\ pc[PID_IDLE] \in {"vfs_shutdown", "await pageoutd"} =>
              p_pproc[Pageoutd] = PID_IDLE
BY Identities DEF IInv, Family, Phases

\* The caller has nobody to wait for.
LEMMA WaitFails ==
  ASSUME IInv, NEW p \in Thread, sched.curthr = p, NEW pid, NEW s, NEW place,
         WaitContext(p, pid, s, place),
         Awaited(p, pid) = {},
         pc' = [pc EXCEPT ![p] = AfterWait(p, ECHILD)],
         sched' = s,
         UNCHANGED <<family, kt_retval, next_pid, wpid>>
  PROVE  IInv'
<1>1. \A c \in Thread : ~(p_pproc[c] = p /\ pid \in {AnyChild, c})
  BY AwaitedChildren
<1>2. p # PID_IDLE
  BY <1>1, IdleHasChildren, Identities DEF WaitContext
<1>3. /\ pc \in [Thread -> Place] /\ wpid' = wpid
      /\ Reached(p, s) /\ pc[p] # "sysret"
      /\ s.kt_cancelled = sched.kt_cancelled
  BY <1>2, Identities DEF IInv, TypeOK, WaitContext
<1>4. \/ /\ p \in UserPids
         /\ AfterWait(p, ECHILD) = "sysret"
      \/ /\ p = PID_INIT
         /\ AfterWait(p, ECHILD) = "alldone"
         /\ \A u \in UserPids : pc[u] = "free"
  <2>1. CASE p \in UserPids
    BY <2>1, Identities DEF WaitContext, AfterWait
  <2>2. CASE p = PID_INIT
    <3>1. \A c \in Thread : p_pproc[c] # PID_INIT
      BY <1>1, <2>2, Identities DEF WaitContext
    <3>2. \A u \in UserPids : pc[u] = "free"
      BY <3>1, InitHasChildren
    <3>3. AfterWait(p, ECHILD) = "alldone"
      BY <2>2, Identities DEF AfterWait, init_main, WaitContext
    <3> QED BY <2>2, <3>2, <3>3
  <2> QED BY <1>2, <2>1, <2>2 DEF WaitContext
<1>5. /\ AfterWait(p, ECHILD) \in Place \ {"free", "gone"}
      /\ AfterWait(p, ECHILD) # "panic"
  BY <1>4 DEF Place
<1>6. Roles'
  BY <1>3, <1>4, Identities DEF IInv, Roles
<1>7. Phases'
  BY <1>3, <1>4, Identities DEF IInv, Roles, Phases, WaitContext
<1> QED BY <1>3, <1>5, <1>6, <1>7, StayStep

\* A dead child of the running thread has left the CPU for good.
LEMMA DeadChildIsGone ==
  ASSUME IInv, NEW p \in Thread, sched.curthr = p, NEW pid,
         NEW s, Reached(p, s), NEW c \in Dead(p, pid)
  PROVE  /\ c \in Thread /\ c # p /\ p_pproc[c] = p /\ pid \in {AnyChild, c}
         /\ ReapAsserts(c, s) => pc[c] = "gone"
         /\ ~ReapAsserts(c, s) => BlockingCleanup
<1>1. /\ c \in Thread /\ c # p /\ p_pproc[c] = p /\ pid \in {AnyChild, c}
      /\ p_state[c] = "PROC_DEAD"
  BY AwaitedChildren DEF Dead
<1>2. pc[c] # "free" /\ pc[c] \in Place
  BY <1>1, Identities DEF IInv, Family, TypeOK
<1>3. s.kt_state[c] = sched.kt_state[c] \/ s.kt_state[c] = KT_RUN
  BY <1>1 DEF Reached, OnlyWakes
<1>4. ASSUME s.kt_state[c] = KT_EXITED PROVE pc[c] = "gone"
  BY <1>1, <1>2, <1>3, <1>4 DEF IInv, Scheduled, Alive, Asleep, KT_RUN, KT_EXITED,
                                KT_SLEEP, KT_SLEEP_CANCELLABLE
<1>5. ASSUME ~BlockingCleanup PROVE s.kt_state[c] = KT_EXITED
  <2>1. pc[c] = "gone"
    BY <1>1, <1>5 DEF IInv, Dying
  <2>2. sched.kt_wchan[c] = NoQueue /\ sched.kt_state[c] = KT_EXITED
    BY <1>1, <1>5, <2>1 DEF IInv, Scheduled
  <2> QED BY <1>1, <2>2, SchedAssumption DEF Reached, OnlyWakes
<1> QED BY <1>1, <1>4, <1>5 DEF ReapAsserts

\* The assertion fails: only when a proc_cleanup has slept.
LEMMA WaitPanics ==
  ASSUME IInv, NEW p \in Thread, sched.curthr = p, NEW pid, NEW s, NEW place,
         WaitContext(p, pid, s, place),
         NEW c \in Dead(p, pid), ~ReapAsserts(c, s),
         pc' = [pc EXCEPT ![p] = "panic"],
         sched' = s,
         UNCHANGED <<family, kt_retval, next_pid, wpid>>
  PROVE  IInv'
<1>1. /\ pc \in [Thread -> Place] /\ wpid' = wpid
      /\ Reached(p, s) /\ pc[p] # "sysret" /\ p # Pageoutd
      /\ \A t \in Thread \ {Pageoutd} : s.kt_cancelled[t] = sched.kt_cancelled[t]
      /\ p = PID_IDLE \/ s.kt_cancelled = sched.kt_cancelled
  BY Identities DEF IInv, TypeOK, WaitContext
<1>2. BlockingCleanup
  BY <1>1, DeadChildIsGone
<1>3. "panic" \in Place \ {"free", "gone"}
  BY DEF Place
<1>4. Roles'
  BY <1>1, Identities DEF IInv, Roles
<1>5. Phases'
  BY <1>1, Identities DEF IInv, Roles, Phases, WaitContext
<1> QED BY <1>1, <1>2, <1>3, <1>4, <1>5, StayStep

\* Nobody that the caller waits for is dead, and it sleeps.
LEMMA WaitSleeps ==
  ASSUME IInv, NEW p \in Thread, sched.curthr = p, NEW pid, NEW s, NEW place,
         WaitContext(p, pid, s, place),
         Awaited(p, pid) # {}, Dead(p, pid) = {},
         sched' = sched_sleep_on(s, p_wait(p)),
         pc' = [pc EXCEPT ![p] = place],
         wpid' = [wpid EXCEPT ![p] = pid],
         UNCHANGED <<family, kt_retval, next_pid>>
  PROVE  IInv'
<1>1. /\ pc \in [Thread -> Place] /\ wpid \in [Thread -> Thread \cup {AnyChild}]
      /\ Reached(p, s) /\ pc[p] # "sysret" /\ p # Pageoutd
      /\ \A t \in Thread \ {Pageoutd} : s.kt_cancelled[t] = sched.kt_cancelled[t]
      /\ p = PID_IDLE \/ s.kt_cancelled = sched.kt_cancelled
      /\ place \in {"waitpid", "await init", "await pageoutd"}
      /\ pid \in Thread \cup {AnyChild}
      /\ p \in UserPids \/ pid = AnyChild
  BY Identities DEF IInv, TypeOK, WaitContext
<1>0. PICK q : q = p_wait(p)
  OBVIOUS
<1>2. /\ KT_SLEEP \in Asleep
      /\ q \in WaitQueue
      /\ \A t \in Thread : q = p_wait(t) => t = p
      /\ sched' = SleepOn(s, q, KT_SLEEP)
      /\ place \in Place \ {"free", "gone", "panic"}
      /\ wpid' \in [Thread -> Thread \cup {AnyChild}]
      /\ \A t \in Thread \ {p} : wpid'[t] = wpid[t]
      /\ wpid'[p] = pid
  BY <1>0, <1>1, Identities DEF Asleep, sched_sleep_on, Place, p_wait
<1>3. \E c \in Awaited(p, wpid'[p]) : pc[c] # "gone"
  <2>1. PICK c \in Awaited(p, pid) : TRUE
    OBVIOUS
  <2>2. c \in Thread /\ p_state[c] # "PROC_DEAD"
    BY <2>1, AwaitedChildren DEF Dead
  <2>3. pc[c] # "gone"
    BY <2>2 DEF IInv, Dying
  <2> QED BY <1>2, <2>1, <2>3
<1>4. sched'.kt_cancelled = s.kt_cancelled
  <2>1. Reached(p, s) /\ q \in WaitQueue /\ KT_SLEEP \in Asleep
    BY <1>1, <1>2
  <2>2. SleepOn(s, q, KT_SLEEP).kt_cancelled = s.kt_cancelled
    BY ONLY p \in Thread, <2>1, SleepKeepsFlags
  <2> QED BY <1>2, <2>2
<1>5. Roles'
  BY <1>1, Identities DEF IInv, Roles, WaitContext
<1>6. Phases'
  BY <1>1, <1>4, Identities DEF IInv, Roles, Phases, WaitContext
<1>7. /\ pc' = [pc EXCEPT ![p] = place]
      /\ UNCHANGED <<family, kt_retval, next_pid>>
  OBVIOUS
<1> QED BY ONLY IInv, p \in Thread, sched.curthr = p, <1>1, <1>2, <1>3, <1>5, <1>6, <1>7,
                SleepStep

\* Where the caller continues after it has reaped c.
LEMMA AfterReaping ==
  ASSUME IInv, NEW p \in Thread, sched.curthr = p, NEW pid, NEW s, NEW place,
         WaitContext(p, pid, s, place),
         NEW c \in Dead(p, pid), pc[c] = "gone"
  PROVE  \/ p \in UserPids /\ AfterWait(p, c) = "sysret"
         \/ p = PID_INIT /\ AfterWait(p, c) = "reaping"
         \/ /\ p = PID_IDLE /\ c = PID_INIT
            /\ pc[p] \in {"boot", "await init"} /\ AfterWait(p, c) = "vfs_shutdown"
         \/ /\ p = PID_IDLE /\ c = Pageoutd
            /\ pc[p] \in {"vfs_shutdown", "await pageoutd"} /\ AfterWait(p, c) = "halted"
<1>1. c \in Thread /\ c # p /\ p_pproc[c] = p
  <2>1. Reached(p, s)
    BY DEF WaitContext
  <2>2. /\ c \in Thread /\ c # p /\ p_pproc[c] = p /\ pid \in {AnyChild, c}
        /\ ReapAsserts(c, s) => pc[c] = "gone"
        /\ ~ReapAsserts(c, s) => BlockingCleanup
    BY <2>1, DeadChildIsGone
  <2> QED BY <2>2
<1>2. CASE p \in UserPids
  BY <1>2, Identities DEF WaitContext, AfterWait
<1>3. CASE p = PID_INIT
  <2>1. c # ECHILD
    BY <1>1, ProcAssumption DEF ECHILD
  <2> QED BY <1>3, <2>1, Identities DEF WaitContext, AfterWait, init_main
<1>4. CASE p = PID_IDLE
  <2>1. c \notin UserPids
    BY <1>1, <1>4 DEF IInv, Family
  <2>2. c = PID_INIT \/ c = Pageoutd
    BY <1>1, <1>4, <2>1, Identities
  <2>3. CASE pc[p] \in {"boot", "await init"}
    <3>1. c = PID_INIT
      BY <1>4, <2>2, <2>3 DEF IInv, Phases
    <3> QED BY <1>4, <2>3, <3>1, Identities DEF AfterWait
  <2>4. CASE pc[p] \in {"vfs_shutdown", "await pageoutd"}
    <3>1. c = Pageoutd
      BY <1>4, <2>2, <2>4 DEF IInv, Phases
    <3> QED BY <1>4, <2>4, <3>1, Identities DEF AfterWait
  <2> QED BY <1>4, <2>3, <2>4, Identities DEF WaitContext
<1> QED BY <1>2, <1>3, <1>4 DEF WaitContext

\* The family without the child that is reaped.
LEMMA ReapedFamily ==
  ASSUME IInv, NEW p \in Thread, NEW c \in Thread, NEW place,
         p_pproc[c] = p, c # p, pc[c] = "gone", pc[p] \notin {"free", "gone"},
         place \notin {"free", "gone"},
         p_children' = [p_children EXCEPT ![p] = list_remove(@, c)],
         proc_list' = list_remove(proc_list, c),
         p_state' = [p_state EXCEPT ![c] = "PROC_FREE"],
         p_pproc' = [p_pproc EXCEPT ![c] = NoThread],
         pc' = [pc EXCEPT ![p] = place, ![c] = "free"]
  PROVE  /\ proc_list' \in Seq(Thread)
         /\ p_children' \in [Thread -> Seq(Thread)]
         /\ Family' /\ Elders'
<1>1. /\ p_children \in [Thread -> Seq(Thread)] /\ proc_list \in Seq(Thread)
      /\ p_pproc \in [Thread -> Thread \cup {NoThread}]
      /\ pc \in [Thread -> Place]
      /\ p_state \in [Thread -> {"PROC_FREE", "PROC_RUNNING", "PROC_DEAD"}]
  BY DEF IInv, TypeOK
<1>2. /\ IsInjective(proc_list)
      /\ \A t \in Thread : IsInjective(p_children[t])
  BY DEF IInv, Family
<1>3. /\ proc_list' \in Seq(Thread)
      /\ IsInjective(proc_list')
      /\ \A x : Contains(proc_list', x) <=> Contains(proc_list, x) /\ x # c
  <2>1. PICK l : l = list_remove(proc_list, c)
    OBVIOUS
  <2>2. /\ l \in Seq(Thread)
        /\ IsInjective(l)
        /\ \A x : Contains(l, x) <=> Contains(proc_list, x) /\ x # c
    BY <1>1, <1>2, <2>1, ListRemoved
  <2>3. proc_list' = l
    BY <2>1
  <2> QED BY <2>2, <2>3
<1>4. PICK m : m = list_remove(p_children[p], c)
  OBVIOUS
<1>5. /\ m \in Seq(Thread)
      /\ IsInjective(m)
      /\ \A x : Contains(m, x) <=> Contains(p_children[p], x) /\ x # c
  BY <1>1, <1>2, <1>4, ListRemoved
<1>6. p_children' = [p_children EXCEPT ![p] = m]
  BY <1>4
<1>7. \A t \in Thread : p_pproc[t] # c
  <2>1. \A t \in Thread : p_pproc[t] # NoThread => Alive(p_pproc[t])
    BY DEF IInv, Family
  <2>2. c # NoThread /\ ~Alive(c)
    BY Identities DEF Alive
  <2> QED BY <2>1, <2>2
<1>8. c # PID_IDLE
  BY Identities DEF IInv, Family
<1>9. ASSUME NEW t \in Thread
      PROVE  /\ pc'[t] = "free" <=> pc[t] = "free" \/ t = c
             /\ Alive(t)' <=> Alive(t)
             /\ p_state'[t] = "PROC_FREE" <=> p_state[t] = "PROC_FREE" \/ t = c
             /\ p_pproc'[t] = IF t = c THEN NoThread ELSE p_pproc[t]
  BY <1>1 DEF Alive
<1>10. Family'
  <2>1. ASSUME NEW t \in Thread
        PROVE  /\ Contains(proc_list', t) <=> pc'[t] # "free"
               /\ p_state'[t] = "PROC_FREE" <=> pc'[t] = "free"
    <3>1. /\ Contains(proc_list, t) <=> pc[t] # "free"
          /\ p_state[t] = "PROC_FREE" <=> pc[t] = "free"
      BY DEF IInv, Family
    <3> QED BY <1>3, <1>9, <3>1
  <2>2. ASSUME NEW t \in Thread PROVE IsInjective(p_children'[t])
    <3>1. p_children'[t] = IF t = p THEN m ELSE p_children[t]
      BY <1>1, <1>6
    <3> QED BY <1>2, <1>5, <3>1
  <2>3. ASSUME NEW t \in Thread, NEW d \in Thread
        PROVE  Contains(p_children'[t], d) <=> p_pproc'[d] = t
    <3>1. p_children'[t] = IF t = p THEN m ELSE p_children[t]
      BY <1>1, <1>6
    <3>2. Contains(p_children[t], d) <=> p_pproc[d] = t
      BY DEF IInv, Family
    <3> QED BY <1>5, <1>9, <3>1, <3>2, Identities
  <2>4. ASSUME NEW d \in Thread
        PROVE  /\ p_pproc'[d] = NoThread <=> d = PID_IDLE \/ pc'[d] = "free"
               /\ p_pproc'[d] # NoThread => Alive(p_pproc[d])'
    <3>1. /\ p_pproc[d] = NoThread <=> d = PID_IDLE \/ pc[d] = "free"
          /\ p_pproc[d] # NoThread => Alive(p_pproc[d])
          /\ p_pproc[d] # NoThread => p_pproc[d] \in Thread
      BY <1>1 DEF IInv, Family
    <3>2. p_pproc'[d] # NoThread => p_pproc'[d] = p_pproc[d] /\ p_pproc[d] \in Thread
      BY <1>9, <3>1
    <3>3. p_pproc'[d] # NoThread => pc'[p_pproc[d]] \notin {"free", "gone"}
      BY <1>9, <3>1, <3>2 DEF Alive
    <3>4. p_pproc'[d] = NoThread <=> d = PID_IDLE \/ pc'[d] = "free"
      <4>1. CASE d = c
        <5>1. p_pproc'[d] = NoThread /\ pc'[d] = "free"
          BY <1>9, <4>1
        <5> QED BY <5>1
      <4>2. CASE d # c
        <5>1. p_pproc'[d] = p_pproc[d]
          BY <1>9, <4>2
        <5>2. pc'[d] = "free" <=> pc[d] = "free"
          BY <1>9, <4>2
        <5> QED BY <3>1, <5>1, <5>2
      <4> QED BY <4>1, <4>2
    <3>5. p_pproc'[d] # NoThread => pc'[p_pproc'[d]] \notin {"free", "gone"}
      BY <3>2, <3>3
    <3> QED BY <3>4, <3>5 DEF Alive
  <2>5. /\ p_pproc'[PID_INIT] \in {PID_IDLE, NoThread}
        /\ p_pproc'[Pageoutd] \in {PID_IDLE, NoThread}
        /\ \A u \in UserPids : p_pproc'[u] \notin {PID_IDLE, Pageoutd}
    BY <1>9, Identities DEF IInv, Family
  <2>6. \A d \in Thread : p_pproc'[d] # NoThread => pc'[p_pproc'[d]] \notin {"free", "gone"}
    BY <1>9, <2>4 DEF Alive
  <2> QED BY <1>3, <2>1, <2>2, <2>3, <2>4, <2>5, <2>6 DEF Family, Alive
<1>11. Elders'
  <2>1. PICK l : l = proc_list'
    OBVIOUS
  <2> SUFFICES ASSUME NEW i \in DOMAIN l, NEW j \in DOMAIN l,
                      \/ p_pproc'[l[i]] = l[j]
                      \/ l[i] \in UserPids /\ l[j] = PID_INIT
               PROVE  j < i
    BY <2>1 DEF Elders
  <2>2. l = list_remove(proc_list, c)
    BY <2>1
  <2>3. \E a, b \in DOMAIN proc_list : /\ proc_list[a] = l[i]
                                       /\ proc_list[b] = l[j]
                                       /\ b < a => j < i
    BY <1>1, <2>2, RemovingKeepsOrder
  <2>4. PICK a, b \in DOMAIN proc_list : /\ proc_list[a] = l[i]
                                         /\ proc_list[b] = l[j]
                                         /\ b < a => j < i
    BY <2>3
  <2>5. l[i] \in Thread /\ l[j] \in Thread
    BY <1>1, <2>4, LenProperties, ElementOfSeq
  <2>6. p_pproc'[l[i]] = l[j] => p_pproc[l[i]] = l[j]
    BY <1>9, <2>5, Identities
  <2>7. b < a
    BY <2>4, <2>6 DEF IInv, Elders
  <2> QED BY <2>4, <2>7
<1> QED BY <1>1, <1>3, <1>5, <1>6, <1>10, <1>11

\* A dead child is reaped.
LEMMA WaitReaps ==
  ASSUME IInv, NEW p \in Thread, sched.curthr = p, NEW pid, NEW s, NEW place,
         WaitContext(p, pid, s, place),
         NEW c \in Dead(p, pid), ReapAsserts(c, s), cleanupDeadProcess(p, c, s),
         UNCHANGED next_pid
  PROVE  IInv'
<1>1. /\ c \in Thread /\ c # p /\ p_pproc[c] = p
      /\ pc[c] = "gone" /\ Reached(p, s)
  <2>1. Reached(p, s)
    BY DEF WaitContext
  <2>2. /\ c \in Thread /\ c # p /\ p_pproc[c] = p /\ pid \in {AnyChild, c}
        /\ ReapAsserts(c, s) => pc[c] = "gone"
        /\ ~ReapAsserts(c, s) => BlockingCleanup
    BY <2>1, DeadChildIsGone
  <2> QED BY <2>1, <2>2
<1>2. PICK next : next = AfterWait(p, c)
  OBVIOUS
<1>3. \/ p \in UserPids /\ next = "sysret"
      \/ p = PID_INIT /\ next = "reaping"
      \/ /\ p = PID_IDLE /\ c = PID_INIT
         /\ pc[p] \in {"boot", "await init"} /\ next = "vfs_shutdown"
      \/ /\ p = PID_IDLE /\ c = Pageoutd
         /\ pc[p] \in {"vfs_shutdown", "await pageoutd"} /\ next = "halted"
  <2>1. \/ p \in UserPids /\ AfterWait(p, c) = "sysret"
        \/ p = PID_INIT /\ AfterWait(p, c) = "reaping"
        \/ /\ p = PID_IDLE /\ c = PID_INIT
           /\ pc[p] \in {"boot", "await init"} /\ AfterWait(p, c) = "vfs_shutdown"
        \/ /\ p = PID_IDLE /\ c = Pageoutd
           /\ pc[p] \in {"vfs_shutdown", "await pageoutd"} /\ AfterWait(p, c) = "halted"
    BY <1>1, AfterReaping
  <2> QED BY <1>2, <2>1
<1>4. next \in Place \ {"free", "gone", "panic"}
  BY <1>3 DEF Place
<1>5. /\ sched' = [s EXCEPT !.kt_state[c] = KT_NO_STATE, !.kt_cancelled[c] = FALSE]
      /\ kt_retval' = [kt_retval EXCEPT ![c] = "zero"]
      /\ p_children' = [p_children EXCEPT ![p] = list_remove(@, c)]
      /\ proc_list' = list_remove(proc_list, c)
      /\ p_state' = [p_state EXCEPT ![c] = "PROC_FREE"]
      /\ p_pproc' = [p_pproc EXCEPT ![c] = NoThread]
      /\ p_status' = [p_status EXCEPT ![c] = "zero"]
      /\ pc' = [pc EXCEPT ![p] = next, ![c] = "free"]
      /\ wpid' = [wpid EXCEPT ![p] = AnyChild, ![c] = AnyChild]
  BY <1>2 DEF cleanupDeadProcess
<1>6. /\ pc \in [Thread -> Place] /\ pc[p] \notin {"free", "gone"}
      /\ wpid \in [Thread -> Thread \cup {AnyChild}]
      /\ p_state \in [Thread -> {"PROC_FREE", "PROC_RUNNING", "PROC_DEAD"}]
      /\ p_pproc \in [Thread -> Thread \cup {NoThread}]
      /\ p_children \in [Thread -> Seq(Thread)]
  BY RunningThread DEF IInv, TypeOK
<1>7. /\ proc_list' \in Seq(Thread)
      /\ p_children' \in [Thread -> Seq(Thread)]
      /\ Family' /\ Elders'
  BY <1>1, <1>4, <1>5, <1>6, ReapedFamily
<1>8. s \in SchedState /\ WellFormed(s)
  BY <1>1 DEF Reached, WellFormed
<1>9. /\ WellFormed(sched')
      /\ sched'.kt_wchan = s.kt_wchan
      /\ sched'.kt_state = [s.kt_state EXCEPT ![c] = KT_NO_STATE]
      /\ sched'.kt_cancelled = [s.kt_cancelled EXCEPT ![c] = FALSE]
      /\ sched'.curthr = p
  <2>1. PICK r : r = [s EXCEPT !.kt_state[c] = KT_NO_STATE, !.kt_cancelled[c] = FALSE]
    OBVIOUS
  <2>2. KT_NO_STATE \in KtState
    BY DEF KtState
  <2>3. /\ r \in SchedState
        /\ r.tq_list = s.tq_list /\ r.kt_wchan = s.kt_wchan /\ r.curthr = s.curthr
        /\ r.kt_state = [s.kt_state EXCEPT ![c] = KT_NO_STATE]
        /\ r.kt_cancelled = [s.kt_cancelled EXCEPT ![c] = FALSE]
    BY <1>8, <2>1, <2>2 DEF SchedState
  <2>4. WellFormed(r)
    BY <1>8, <2>3, OtherFieldsKeepLinks
  <2>5. sched' = r
    BY <1>5, <2>1
  <2> QED BY <1>1, <2>3, <2>4, <2>5 DEF Reached
<1>10. TypeOK' /\ Linked(sched)'
  <2>1. wpid' \in [Thread -> Thread \cup {AnyChild}] /\ pc' \in [Thread -> Place]
    BY <1>4, <1>5, <1>6 DEF Place
  <2>2. /\ kt_retval' \in [Thread -> Status] /\ p_status' \in [Thread -> Status]
        /\ p_state' \in [Thread -> {"PROC_FREE", "PROC_RUNNING", "PROC_DEAD"}]
        /\ p_pproc' \in [Thread -> Thread \cup {NoThread}]
        /\ next_pid' \in Thread
    BY <1>5, <1>6 DEF IInv, TypeOK, Status
  <2> QED BY <1>7, <1>9, <2>1, <2>2 DEF TypeOK, WellFormed
<1>11. sched.kt_wchan[c] = NoQueue /\ s.kt_wchan[c] = NoQueue
  BY <1>1, SchedAssumption DEF IInv, Scheduled, Reached, OnlyWakes
<1>12. \A t \in Thread \ {p, c} :
         /\ pc'[t] = pc[t] /\ p_state'[t] = p_state[t]
         /\ sched'.kt_state[t] = s.kt_state[t] /\ sched'.kt_wchan[t] = s.kt_wchan[t]
         /\ wpid'[t] = wpid[t] /\ p_children'[t] = p_children[t]
         /\ sched'.kt_cancelled[t] = s.kt_cancelled[t]
  BY <1>5, <1>6, <1>8, <1>9 DEF SchedState
<1>13. Scheduled' /\ OwnWaits'
  <2>1. Scheduled'
    <3> SUFFICES ASSUME NEW t \in Thread
                 PROVE
      /\ t = p => /\ pc'[t] \notin {"free", "gone"}
                  /\ sched'.kt_wchan[t] = NoQueue
                  /\ sched'.kt_state[t] \in {KT_RUN, KT_EXITED}
      /\ t # p /\ pc'[t] \notin {"free", "gone"} =>
           \/ sched'.kt_state[t] = KT_RUN /\ sched'.kt_wchan[t] = RunQ
           \/ sched'.kt_state[t] \in Asleep /\ sched'.kt_wchan[t] \in WaitQueue
      /\ pc'[t] = "gone" => /\ sched'.kt_wchan[t] = NoQueue
                            /\ \/ sched'.kt_state[t] = KT_EXITED
                               \/ BlockingCleanup /\ sched'.kt_state[t] = KT_RUN
      /\ pc'[t] = "free" => /\ sched'.kt_wchan[t] = NoQueue
                            /\ sched'.kt_state[t] = KT_NO_STATE
      BY <1>9 DEF Scheduled, Alive
    <3>1. CASE t = p
      BY <1>1, <1>4, <1>5, <1>6, <1>8, <1>9, <3>1 DEF Reached, SchedState
    <3>2. CASE t = c
      BY <1>1, <1>5, <1>6, <1>8, <1>9, <1>11, <3>2 DEF SchedState
    <3>3. CASE t # p /\ t # c
      <4>1. \/ /\ s.kt_wchan[t] = sched.kt_wchan[t]
               /\ s.kt_state[t] = sched.kt_state[t]
            \/ /\ sched.kt_wchan[t] \in WaitQueue
               /\ s.kt_wchan[t] = RunQ /\ s.kt_state[t] = KT_RUN
        BY <1>1, <3>3 DEF Reached, OnlyWakes
      <4> QED BY <1>12, <3>3, <4>1, SchedAssumption DEF IInv, Scheduled, Alive
    <3> QED BY <3>1, <3>2, <3>3
  <2>2. OwnWaits'
    <3> SUFFICES ASSUME NEW t \in Thread, NEW q \in Thread, sched'.kt_wchan[t] = p_wait(q)
                 PROVE  t = q
      BY DEF OwnWaits
    <3>1. p_wait(q) # NoQueue /\ p_wait(q) # RunQ
      BY Identities
    <3>2. t # p /\ s.kt_wchan[t] = p_wait(q)
      BY <1>1, <1>9, <3>1 DEF Reached
    <3>3. sched.kt_wchan[t] = p_wait(q)
      BY <1>1, <3>1, <3>2 DEF Reached, OnlyWakes
    <3> QED BY <3>3 DEF IInv, OwnWaits
  <2> QED BY <2>1, <2>2
<1>14. Roles'
  <2>1. wpid'[PID_IDLE] = AnyChild /\ wpid'[PID_INIT] = AnyChild
    BY <1>5, <1>6, Identities DEF IInv, Roles
  <2>2. c # PID_IDLE
    BY <1>1, Identities DEF IInv, Family
  <2>3. pc'[p] = next /\ pc'[c] = "free"
    BY <1>1, <1>5, <1>6
  <2> QED BY <1>1, <1>3, <1>12, <2>1, <2>2, <2>3, Identities DEF IInv, Roles
<1>15. /\ c # PID_IDLE /\ p # Pageoutd
       /\ pc'[p] = next /\ pc'[c] = "free"
       /\ c = PID_INIT \/ c = Pageoutd => p = PID_IDLE
  <2>1. c # PID_IDLE
    BY <1>1, Identities DEF IInv, Family
  <2>2. c = PID_INIT \/ c = Pageoutd => p = PID_IDLE
    BY <1>1, Identities DEF IInv, Family
  <2>3. p # Pageoutd
    BY <1>3, Identities
  <2> QED BY <1>1, <1>5, <1>6, <2>1, <2>2, <2>3
<1>16. \A t \in Thread \ {Pageoutd} : sched'.kt_cancelled[t] => sched.kt_cancelled[t]
  BY <1>8, <1>9 DEF WaitContext, SchedState
<1>17. Phases'
  <2> USE <1>1, <1>3, <1>12, <1>15, Identities
  <2>1. pc'[PID_INIT] \in {"alldone", "cleanup", "gone", "free"} =>
          \A u \in UserPids : pc'[u] = "free"
    BY DEF IInv, Phases
  <2>2. pc'[PID_INIT] \in {"user", "sysret", "waitpid", "reaping", "alldone"} =>
          ~sched'.kt_cancelled[PID_INIT]
    BY <1>16 DEF IInv, Phases, WaitContext
  <2>3. pc'[PID_IDLE] \in {"boot", "await init"} => pc'[PID_INIT] # "free"
    BY DEF IInv, Phases
  <2>4. pc'[PID_IDLE] \in {"vfs_shutdown", "await pageoutd", "halted"} =>
          pc'[PID_INIT] = "free"
    BY DEF IInv, Phases
  <2>5. ASSUME pc'[PID_IDLE] \in {"boot", "await init", "vfs_shutdown"}
        PROVE  pc'[Pageoutd] = "daemon" /\ ~sched'.kt_cancelled[Pageoutd]
    <3>1. /\ pc[PID_IDLE] \in {"boot", "await init", "vfs_shutdown"}
          /\ p = PID_IDLE => pc[PID_IDLE] \in {"boot", "await init"}
      BY <2>5
    <3>2. c # Pageoutd
      BY <3>1 DEF IInv, Phases
    <3>3. s.kt_cancelled = sched.kt_cancelled
      BY <3>1 DEF WaitContext
    <3> QED BY <3>1, <3>2, <3>3 DEF IInv, Phases
  <2>6. pc'[PID_IDLE] = "await pageoutd" => pc'[Pageoutd] # "free"
    BY DEF IInv, Phases
  <2>7. pc'[PID_IDLE] = "halted" => pc'[Pageoutd] = "free"
    BY DEF IInv, Phases
  <2>8. pc'[Pageoutd] = "free" => pc'[PID_INIT] = "free"
    BY DEF IInv, Phases
  <2> QED BY <2>1, <2>2, <2>3, <2>4, <2>5, <2>6, <2>7, <2>8 DEF Phases
<1>18. Dying'
  <2> SUFFICES ASSUME NEW t \in Thread
               PROVE  /\ pc'[t] = "gone" => p_state'[t] = "PROC_DEAD"
                      /\ p_state'[t] = "PROC_DEAD" /\ pc'[t] # "gone" => BlockingCleanup
    BY DEF Dying
  <2>1. CASE t = c
    BY <1>5, <1>6, <1>15, <2>1
  <2>2. CASE t = p
    <3>1. pc[p] # "sysret" /\ p_state'[p] = p_state[p]
      BY <1>1, <1>5, <1>6 DEF WaitContext
    <3> QED BY <1>4, <1>6, <1>15, <2>2, <3>1 DEF IInv, Dying
  <2>3. CASE t # p /\ t # c
    BY <1>12, <2>3 DEF IInv, Dying
  <2> QED BY <2>1, <2>2, <2>3
<1>19. Orderly'
  <2>1. ASSUME ~BlockingCleanup PROVE \A t \in Thread : pc'[t] # "panic"
    BY <1>4, <1>12, <1>15, <2>1 DEF IInv, Orderly
  <2>2. ASSUME ~BlockingCleanup PROVE NoHopelessWait'
    <3> SUFFICES ASSUME NEW t \in Thread, sched'.kt_wchan[t] = p_wait(t)
                 PROVE  (\E d \in Awaited(t, wpid[t]) : pc[d] # "gone")'
      BY DEF NoHopelessWait
    <3>1. p_wait(t) # NoQueue /\ p_wait(t) # RunQ
      BY Identities
    <3>2. t # p /\ t # c /\ s.kt_wchan[t] = p_wait(t)
      BY <1>1, <1>9, <1>11, <3>1 DEF Reached
    <3>3. sched.kt_wchan[t] = p_wait(t)
      BY <1>1, <3>1, <3>2 DEF Reached, OnlyWakes
    <3>4. PICK d \in Awaited(t, wpid[t]) : pc[d] # "gone"
      BY <2>2, <3>3 DEF IInv, Orderly, NoHopelessWait
    <3>5. pc'[d] # "gone"
      <4>1. d \in Thread
        BY <3>4, AwaitedChildren
      <4> QED BY <1>4, <1>5, <1>6, <3>4, <4>1
    <3> QED BY <1>12, <3>2, <3>4, <3>5 DEF Awaited
  <2> QED BY <2>1, <2>2 DEF Orderly
<1> QED BY <1>7, <1>10, <1>13, <1>14, <1>17, <1>18, <1>19 DEF IInv

\* One pass of do_waitpid.
LEMMA do_waitpid_Keeps ==
  ASSUME IInv, NEW p \in Thread, sched.curthr = p, NEW pid, NEW s, NEW place,
         WaitContext(p, pid, s, place), do_waitpid(p, pid, s, place)
  PROVE  IInv'
<1>1. CASE /\ Awaited(p, pid) = {}
           /\ pc' = [pc EXCEPT ![p] = AfterWait(p, ECHILD)]
           /\ sched' = s
           /\ UNCHANGED <<family, kt_retval, wpid, next_pid>>
  BY <1>1, WaitFails
<1>2. ASSUME NEW c \in FirstDead(p, pid), ReapAsserts(c, s), cleanupDeadProcess(p, c, s),
             UNCHANGED next_pid
      PROVE  IInv'
  <2>1. c \in Dead(p, pid)
    BY <1>2 DEF FirstDead
  <2> QED BY <1>2, <2>1, WaitReaps
<1>3. ASSUME NEW c \in FirstDead(p, pid), ~ReapAsserts(c, s),
             pc' = [pc EXCEPT ![p] = "panic"],
             sched' = s,
             UNCHANGED <<family, kt_retval, wpid, next_pid>>
      PROVE  IInv'
  <2>1. c \in Dead(p, pid)
    BY <1>3 DEF FirstDead
  <2> QED BY <1>3, <2>1, WaitPanics
<1>4. CASE /\ Awaited(p, pid) # {} /\ Dead(p, pid) = {}
           /\ sched' = sched_sleep_on(s, p_wait(p))
           /\ pc' = [pc EXCEPT ![p] = place]
           /\ wpid' = [wpid EXCEPT ![p] = pid]
           /\ UNCHANGED <<family, kt_retval, next_pid>>
  BY <1>4, WaitSleeps
<1> QED BY <1>1, <1>2, <1>3, <1>4 DEF do_waitpid, GoTo

\* waitpid(2) of a user process.
LEMMA sys_waitpid_Keeps ==
  ASSUME IInv, NEW p \in Thread, sys_waitpid(p)
  PROVE  IInv'
<1>1. sched.curthr = p /\ pc[p] = "user" /\ p \in UserPids
  BY DEF sys_waitpid, Runs
<1>2. p_children[p] \in Seq(Thread)
  BY DEF IInv, TypeOK
<1>3. PICK pid \in {AnyChild, p} \cup ToSet(p_children[p]) :
        do_waitpid(p, pid, sched, "waitpid")
  BY DEF sys_waitpid
<1>4. pid \in Thread \cup {AnyChild}
  BY <1>2, <1>3, ElementOfSeq, LenProperties DEF ToSet
<1>5. Reached(p, sched)
  BY <1>1, NothingReached
<1>6. WaitContext(p, pid, sched, "waitpid")
  BY <1>1, <1>4, <1>5 DEF WaitContext
<1> QED BY <1>1, <1>3, <1>6, do_waitpid_Keeps

\* Init waits for its shells.
LEMMA InitWaits_Keeps ==
  ASSUME IInv, NEW p \in Thread, InitWaits(p)
  PROVE  IInv'
<1>1. /\ sched.curthr = p /\ pc[p] \in {"user", "reaping"} /\ p = PID_INIT
      /\ do_waitpid(p, AnyChild, sched, "waitpid")
  BY DEF InitWaits
<1>2. Reached(p, sched)
  BY <1>1, NothingReached
<1>3. WaitContext(p, AnyChild, sched, "waitpid")
  BY <1>1, <1>2 DEF WaitContext
<1> QED BY <1>1, <1>3, do_waitpid_Keeps

\* A thread that was woken looks again.
LEMMA do_waitpid_Continues_Keeps ==
  ASSUME IInv, NEW p \in Thread, do_waitpid_Continues(p)
  PROVE  IInv'
<1>1. /\ sched.curthr = p /\ pc[p] \in {"waitpid", "await init", "await pageoutd"}
      /\ do_waitpid(p, wpid[p], sched, pc[p])
  BY DEF do_waitpid_Continues
<1>2. Reached(p, sched)
  BY <1>1, NothingReached
<1>3. wpid[p] \in Thread \cup {AnyChild}
  BY DEF IInv, TypeOK
<1>4. WaitContext(p, wpid[p], sched, pc[p])
  BY <1>1, <1>2, <1>3, Identities DEF WaitContext, IInv, Roles
<1> QED BY <1>1, <1>4, do_waitpid_Keeps

\* Before it waits for the daemon, the idle process may cancel it.
LEMMA CancelIsReached ==
  ASSUME IInv, NEW p \in Thread, sched.curthr = p, p # Pageoutd,
         NEW s, s = sched_cancel(sched, Pageoutd)
  PROVE  /\ Reached(p, s)
         /\ s.kt_cancelled = [sched.kt_cancelled EXCEPT ![Pageoutd] = TRUE]
<1>1. Reached(p, sched)
  BY NothingReached
<1>2. /\ Pageoutd \in Thread /\ WellFormed(sched)
      /\ sched.kt_state[Pageoutd] = KT_SLEEP_CANCELLABLE =>
           sched.kt_wchan[Pageoutd] \in WaitQueue
  BY RunningThread, Identities DEF Asleep
<1>3. /\ WellFormed(s)
      /\ s.kt_cancelled = [sched.kt_cancelled EXCEPT ![Pageoutd] = TRUE]
      /\ s.curthr = sched.curthr
      /\ OnlyWakes(sched, s, Thread)
  BY <1>2, CancelOnlyWakes
<1>4. Reached(p, s)
  BY <1>1, <1>3, SchedAssumption DEF Reached, OnlyWakes
<1> QED BY <1>3, <1>4

\* The idle process waits for init, and, once it has cancelled it, for the
\* daemon.
LEMMA idleproc_run_Keeps ==
  ASSUME IInv, NEW p \in Thread, idleproc_run(p)
  PROVE  IInv'
<1>1. sched.curthr = p /\ p = PID_IDLE
  BY DEF idleproc_run, Runs
<1>2. Reached(p, sched)
  BY <1>1, NothingReached
<1>3. CASE pc[p] = "boot" /\ do_waitpid(p, AnyChild, sched, "await init")
  <2>1. WaitContext(p, AnyChild, sched, "await init")
    BY <1>1, <1>2, <1>3 DEF WaitContext
  <2> QED BY <1>1, <1>3, <2>1, do_waitpid_Keeps
<1>4. CASE /\ pc[p] = "vfs_shutdown"
           /\ do_waitpid(p, AnyChild, sched_cancel(sched, Pageoutd), "await pageoutd")
  <2>1. PICK s : s = sched_cancel(sched, Pageoutd)
    OBVIOUS
  <2>2. /\ Reached(p, s)
        /\ s.kt_cancelled = [sched.kt_cancelled EXCEPT ![Pageoutd] = TRUE]
    BY <1>1, <2>1, Identities, CancelIsReached
  <2>3. sched.kt_cancelled \in [Thread -> BOOLEAN]
    BY DEF IInv, TypeOK, SchedState
  <2>4. WaitContext(p, AnyChild, s, "await pageoutd")
    BY <1>1, <1>4, <2>2, <2>3 DEF WaitContext
  <2>5. do_waitpid(p, AnyChild, s, "await pageoutd")
    BY <1>4, <2>1
  <2> QED BY <1>1, <2>4, <2>5, do_waitpid_Keeps
<1> QED BY <1>3, <1>4 DEF idleproc_run, Runs

-----------------------------------------------------------------------------
(* Exit.                                                                   *)

\* A thread that exits has cancelled at most itself and user processes.
FlagsGrow(p, s) ==
  /\ \A t \in Thread : sched.kt_cancelled[t] => s.kt_cancelled[t]
  /\ \A t \in {PID_INIT, Pageoutd} \ {p} : s.kt_cancelled[t] = sched.kt_cancelled[t]

\* Who exits: a user process, init when no other process is left that could
\* be its child, and the daemon at the end of the shutdown.
Leaves(p) ==
  \/ p \in UserPids
  \/ p = PID_INIT /\ pc[p] \in {"alldone", "cleanup"}
  \/ p = Pageoutd /\ pc[PID_IDLE] \notin {"boot", "await init", "vfs_shutdown"}

\* Init and the daemon leave no orphans.
LEMMA Orphans ==
  ASSUME IInv, NEW p \in Thread, Leaves(p), NEW c \in Thread, p_pproc[c] = p
  PROVE  /\ p \in UserPids /\ c \in UserPids /\ pc[c] # "free"
         /\ pc[PID_INIT] \notin {"alldone", "cleanup", "gone", "free"}
<1>1. p_pproc[c] # NoThread
  BY Identities
<1>2. c # PID_IDLE /\ pc[c] # "free"
  BY <1>1 DEF IInv, Family
<1>3. p # PID_IDLE
  BY Identities DEF Leaves
<1>4. c \in UserPids
  BY <1>1, <1>2, <1>3, Identities DEF IInv, Family
<1>5. pc[PID_INIT] \notin {"alldone", "cleanup", "gone", "free"}
  BY <1>2, <1>4 DEF IInv, Phases
<1>6. p # Pageoutd
  BY <1>4 DEF IInv, Family
<1> QED BY <1>2, <1>4, <1>5, <1>6 DEF Leaves

\* The family after the orphans have gone to init.
LEMMA BuriedFamily ==
  ASSUME IInv, NEW p \in Thread, Leaves(p), pc[p] \notin {"free", "gone"},
         NEW orphans, orphans = IF p = PID_INIT THEN << >> ELSE p_children[p],
         p_children' = [p_children EXCEPT ![p] = IF p = PID_INIT THEN @ ELSE << >>,
                                          ![PID_INIT] = @ \o orphans],
         p_pproc' = NewParents(orphans),
         p_state' = [p_state EXCEPT ![p] = "PROC_DEAD"],
         pc' = [pc EXCEPT ![p] = "gone"],
         proc_list' = proc_list
  PROVE  /\ p_children' \in [Thread -> Seq(Thread)]
         /\ p_pproc' \in [Thread -> Thread \cup {NoThread}]
         /\ \A c \in Thread : p_pproc'[c] = IF p_pproc[c] = p THEN PID_INIT ELSE p_pproc[c]
         /\ Family' /\ Elders'
<1>1. /\ p_children \in [Thread -> Seq(Thread)] /\ proc_list \in Seq(Thread)
      /\ p_pproc \in [Thread -> Thread \cup {NoThread}]
      /\ pc \in [Thread -> Place]
      /\ p_state \in [Thread -> {"PROC_FREE", "PROC_RUNNING", "PROC_DEAD"}]
  BY DEF IInv, TypeOK
<1>2. /\ \A t \in Thread : IsInjective(p_children[t])
      /\ \A t, c \in Thread : Contains(p_children[t], c) <=> p_pproc[c] = t
  BY DEF IInv, Family
<1>3. \A c : ~Contains(<< >>, c)
  BY DEF Contains
<1>4. \A c \in Thread : Contains(orphans, c) <=> p_pproc[c] = p
  <2>1. CASE p = PID_INIT
    <3>1. \A c \in Thread : p_pproc[c] # p
      BY <2>1, Orphans, Identities
    <3> QED BY <1>3, <2>1, <3>1
  <2>2. CASE p # PID_INIT
    BY <1>2, <2>2
  <2> QED BY <2>1, <2>2
<1>5. \A c \in Thread : p_pproc'[c] = IF p_pproc[c] = p THEN PID_INIT ELSE p_pproc[c]
  BY <1>4 DEF NewParents
<1>6. p_pproc' \in [Thread -> Thread \cup {NoThread}]
  BY <1>1, Identities DEF NewParents
<1>7. PICK m : m = p_children[PID_INIT] \o orphans
  OBVIOUS
<1>8. /\ m \in Seq(Thread)
      /\ IsInjective(m)
      /\ \A x : Contains(m, x) <=> Contains(p_children[PID_INIT], x) \/ Contains(orphans, x)
  <2>1. << >> \in Seq(Thread) /\ IsInjective(<< >>)
    BY DEF IsInjective
  <2>2. /\ orphans \in Seq(Thread) /\ IsInjective(orphans)
        /\ p_children[PID_INIT] \in Seq(Thread) /\ IsInjective(p_children[PID_INIT])
    BY <1>1, <1>2, <2>1, Identities
  <2>3. \A x : ~(Contains(p_children[PID_INIT], x) /\ Contains(orphans, x))
    <3>1. ASSUME NEW x, Contains(p_children[PID_INIT], x), Contains(orphans, x)
          PROVE  FALSE
      <4>1. x \in Thread
        BY <2>2, <3>1, ElementOfSeq, LenProperties DEF Contains
      <4>2. p_pproc[x] = PID_INIT /\ p # PID_INIT /\ p_pproc[x] = p
        BY <1>2, <1>3, <1>4, <3>1, <4>1, Identities
      <4> QED BY <4>2
    <3> QED BY <3>1
  <2> QED BY <1>7, <2>2, <2>3, ListsJoined
<1>9. p_children' = [t \in Thread |-> IF t = PID_INIT THEN m
                                      ELSE IF t = p THEN << >> ELSE p_children[t]]
  <2>1. CASE p = PID_INIT
    BY <1>1, <1>7, <2>1, Identities
  <2>2. CASE p # PID_INIT
    BY <1>1, <1>7, <2>2, Identities
  <2> QED BY <2>1, <2>2
<1>10. p_children' \in [Thread -> Seq(Thread)]
  <2>1. << >> \in Seq(Thread)
    OBVIOUS
  <2>2. \A t \in Thread : (IF t = PID_INIT THEN m
                           ELSE IF t = p THEN << >> ELSE p_children[t]) \in Seq(Thread)
    BY <1>1, <1>8, <2>1
  <2> QED BY <1>9, <2>2
<1>11. ASSUME NEW t \in Thread, NEW c \in Thread
       PROVE  Contains(p_children'[t], c) <=> p_pproc'[c] = t
  <2>1. CASE t = PID_INIT
    <3>1. p_children'[t] = m
      BY <1>9, <2>1
    <3> QED BY <1>2, <1>4, <1>5, <1>8, <2>1, <3>1
  <2>2. CASE t # PID_INIT /\ t = p
    <3>1. p_children'[t] = << >>
      BY <1>9, <2>2
    <3> QED BY <1>3, <1>5, <2>2, <3>1
  <2>3. CASE t # PID_INIT /\ t # p
    <3>1. p_children'[t] = p_children[t]
      BY <1>9, <2>3
    <3> QED BY <1>2, <1>5, <2>3, <3>1
  <2> QED BY <2>1, <2>2, <2>3
<1>12. ASSUME NEW t \in Thread PROVE IsInjective(p_children'[t])
  <2>1. IsInjective(<< >>)
    BY DEF IsInjective
  <2>2. p_children'[t] = m \/ p_children'[t] = << >> \/ p_children'[t] = p_children[t]
    BY <1>9
  <2> QED BY <1>2, <1>8, <2>1, <2>2
<1>13. \A t \in Thread : /\ pc'[t] = "free" <=> pc[t] = "free"
                         /\ t # p => pc'[t] = pc[t]
                         /\ p_state'[t] = "PROC_FREE" <=> p_state[t] = "PROC_FREE"
  <2>1. p_state[p] # "PROC_FREE"
    BY DEF IInv, Family
  <2> QED BY <1>1, <2>1
<1>14. ASSUME NEW c \in Thread
       PROVE  /\ p_pproc'[c] = NoThread <=> c = PID_IDLE \/ pc'[c] = "free"
              /\ p_pproc'[c] # NoThread => pc'[p_pproc'[c]] \notin {"free", "gone"}
  <2>1. /\ p_pproc[c] = NoThread <=> c = PID_IDLE \/ pc[c] = "free"
        /\ p_pproc[c] # NoThread => pc[p_pproc[c]] \notin {"free", "gone"}
        /\ p_pproc[c] # NoThread => p_pproc[c] \in Thread
    BY <1>1 DEF IInv, Family, Alive
  <2>2. CASE p_pproc[c] = p
    <3>1. /\ p \in UserPids
          /\ pc[PID_INIT] \notin {"alldone", "cleanup", "gone", "free"}
      BY <2>2, Orphans
    <3>2. p_pproc'[c] = PID_INIT /\ PID_INIT # p
      BY <1>5, <2>2, <3>1, Identities
    <3>3. pc'[PID_INIT] = pc[PID_INIT] /\ PID_INIT # NoThread /\ p # NoThread
      BY <1>13, <3>2, Identities
    <3>4. c # PID_IDLE /\ pc'[c] # "free"
      BY <1>13, <2>1, <2>2, <3>3
    <3> QED BY <3>1, <3>2, <3>3, <3>4
  <2>3. CASE p_pproc[c] # p
    <3>1. p_pproc'[c] = p_pproc[c]
      BY <1>5, <2>3
    <3> QED BY <1>13, <2>1, <2>3, <3>1
  <2> QED BY <2>2, <2>3
<1>15. Family'
  <2>1. IsInjective(proc_list')
    BY DEF IInv, Family
  <2>2. ASSUME NEW t \in Thread
        PROVE  /\ Contains(proc_list', t) <=> pc'[t] # "free"
               /\ p_state'[t] = "PROC_FREE" <=> pc'[t] = "free"
    <3>1. /\ Contains(proc_list, t) <=> pc[t] # "free"
          /\ p_state[t] = "PROC_FREE" <=> pc[t] = "free"
      BY DEF IInv, Family
    <3> QED BY <1>13, <3>1
  <2>3. p # PID_IDLE
    BY Identities DEF Leaves
  <2>4. p_pproc[PID_INIT] # p /\ p_pproc[Pageoutd] # p
    BY <2>3, Identities DEF IInv, Family
  <2>5. /\ p_pproc'[PID_INIT] \in {PID_IDLE, NoThread}
        /\ p_pproc'[Pageoutd] \in {PID_IDLE, NoThread}
    BY <1>5, <2>4, Identities DEF IInv, Family
  <2>6. \A u \in UserPids : p_pproc'[u] \notin {PID_IDLE, Pageoutd}
    BY <1>5, Identities DEF IInv, Family
  <2> QED BY <1>11, <1>12, <1>14, <2>1, <2>2, <2>5, <2>6 DEF Family, Alive
<1>16. Elders'
  <2> SUFFICES ASSUME NEW i \in DOMAIN proc_list, NEW j \in DOMAIN proc_list,
                      \/ p_pproc'[proc_list[i]] = proc_list[j]
                      \/ proc_list[i] \in UserPids /\ proc_list[j] = PID_INIT
               PROVE  j < i
    BY DEF Elders
  <2>1. proc_list[i] \in Thread
    BY <1>1, LenProperties, ElementOfSeq
  <2>2. \/ p_pproc[proc_list[i]] = proc_list[j]
        \/ proc_list[i] \in UserPids /\ proc_list[j] = PID_INIT
    <3>1. CASE p_pproc[proc_list[i]] = p
      <4>1. proc_list[i] \in UserPids
        BY <2>1, <3>1, Orphans
      <4>2. p_pproc'[proc_list[i]] = PID_INIT
        BY <1>5, <2>1, <3>1
      <4> QED BY <4>1, <4>2
    <3>2. CASE p_pproc[proc_list[i]] # p
      <4>1. p_pproc'[proc_list[i]] = p_pproc[proc_list[i]]
        BY <1>5, <2>1, <3>2
      <4> QED BY <4>1
    <3> QED BY <3>1, <3>2
  <2> QED BY <2>2 DEF IInv, Elders
<1> QED BY <1>5, <1>6, <1>10, <1>15, <1>16

\* The last steps of a thread: its parent does not wait for nothing any more,
\* its orphans go to init, and it leaves the CPU.
LEMMA Bury_Keeps ==
  ASSUME IInv, NEW p \in Thread, sched.curthr = p, Leaves(p),
         NEW w, Reached(p, w), FlagsGrow(p, w),
         w.kt_state[p] = KT_EXITED \/ (BlockingCleanup /\ w.kt_state[p] = KT_RUN),
         BlockingCleanup \/ w.kt_wchan[p_pproc[p]] # p_wait(p_pproc[p]),
         NEW retval \in Status, kt_retval' \in [Thread -> Status],
         Bury(p, w, retval)
  PROVE  IInv'
<1>1. /\ pc \in [Thread -> Place] /\ pc[p] \notin {"free", "gone"}
      /\ wpid \in [Thread -> Thread \cup {AnyChild}]
      /\ p_state \in [Thread -> {"PROC_FREE", "PROC_RUNNING", "PROC_DEAD"}]
      /\ p_status \in [Thread -> Status]
  BY RunningThread DEF IInv, TypeOK
<1>2. PICK orphans : orphans = IF p = PID_INIT THEN << >> ELSE p_children[p]
  OBVIOUS
<1>3. /\ sched' = sched_switch(w)
      /\ p_children' = [p_children EXCEPT ![p] = IF p = PID_INIT THEN @ ELSE << >>,
                                          ![PID_INIT] = @ \o orphans]
      /\ p_pproc' = NewParents(orphans)
      /\ p_status' = [p_status EXCEPT ![p] = retval]
      /\ p_state' = [p_state EXCEPT ![p] = "PROC_DEAD"]
      /\ pc' = [pc EXCEPT ![p] = "gone"]
      /\ proc_list' = proc_list /\ next_pid' = next_pid /\ wpid' = wpid
  BY <1>2 DEF Bury, GoTo
<1>4. /\ p_children' \in [Thread -> Seq(Thread)]
      /\ p_pproc' \in [Thread -> Thread \cup {NoThread}]
      /\ \A c \in Thread : p_pproc'[c] = IF p_pproc[c] = p THEN PID_INIT ELSE p_pproc[c]
      /\ Family' /\ Elders'
  BY <1>1, <1>2, <1>3, BuriedFamily
<1>5. /\ WellFormed(sched')
      /\ sched'.kt_cancelled = w.kt_cancelled
      /\ sched'.curthr = NoThread
      /\ sched'.kt_wchan = w.kt_wchan
      /\ sched'.kt_state = w.kt_state
  <2>1. PICK r : r = sched_switch(w)
    OBVIOUS
  <2>2. WellFormed(w)
    BY DEF Reached
  <2>3. /\ WellFormed(r)
        /\ KeepsFlags(w, r)
        /\ r.curthr = NoThread
        /\ r.kt_wchan = w.kt_wchan
        /\ r.kt_state = w.kt_state
    BY <2>1, <2>2, SwitchingMovesNobody
  <2>4. sched' = r
    BY <1>3, <2>1
  <2> QED BY <2>3, <2>4 DEF KeepsFlags
<1>6. TypeOK' /\ Linked(sched)'
  <2>1. pc' \in [Thread -> Place]
    BY <1>1, <1>3 DEF Place
  <2>2. /\ p_state' \in [Thread -> {"PROC_FREE", "PROC_RUNNING", "PROC_DEAD"}]
        /\ p_status' \in [Thread -> Status]
        /\ proc_list' \in Seq(Thread) /\ next_pid' \in Thread
        /\ wpid' \in [Thread -> Thread \cup {AnyChild}]
    BY <1>1, <1>3 DEF IInv, TypeOK
  <2> QED BY <1>4, <1>5, <2>1, <2>2 DEF TypeOK, WellFormed
<1>7. /\ \A t \in Thread \ {p} : pc'[t] = pc[t]
      /\ pc'[p] = "gone"
      /\ pc' \in [Thread -> Place]
  BY <1>1, <1>3 DEF Place
<1>8. OnlyWakes(sched, sched', Thread \ {p})
  BY <1>5 DEF Reached, OnlyWakes
<1>9. Scheduled' /\ OwnWaits'
  <2>1. /\ sched'.kt_wchan[p] = NoQueue
        /\ sched'.kt_state[p] = KT_EXITED \/ (BlockingCleanup /\ sched'.kt_state[p] = KT_RUN)
    BY <1>5 DEF Reached
  <2>2. /\ sched'.curthr = NoThread
        /\ sched'.kt_wchan[p] = NoQueue
        /\ \/ sched'.kt_state[p] = KT_EXITED
           \/ BlockingCleanup /\ sched'.kt_state[p] = KT_RUN
        /\ pc'[p] = "gone"
    BY <1>5, <1>7, <2>1
  <2> QED BY <1>1, <1>7, <1>8, <2>2, OthersStayScheduled DEF IInv
<1>10. p # PID_IDLE
  BY Identities DEF Leaves
<1>11. Roles'
  BY <1>3, <1>7, <1>10, Identities DEF IInv, Roles, Leaves
<1>12. Phases'
  <2> USE <1>1, <1>7, <1>10, Identities
  <2>1. pc'[PID_INIT] \in {"alldone", "cleanup", "gone", "free"} =>
          \A u \in UserPids : pc'[u] = "free"
    BY DEF IInv, Phases, Leaves
  <2>2. pc'[PID_INIT] \in {"user", "sysret", "waitpid", "reaping", "alldone"} =>
          ~sched'.kt_cancelled[PID_INIT]
    <3>1. pc'[PID_INIT] \notin {"gone"} => PID_INIT \in {PID_INIT, Pageoutd} \ {p}
      OBVIOUS
    <3>2. pc'[PID_INIT] \notin {"gone"} =>
            sched'.kt_cancelled[PID_INIT] = sched.kt_cancelled[PID_INIT]
      BY <1>5, <3>1 DEF FlagsGrow
    <3> QED BY <3>2 DEF IInv, Phases
  <2>3. pc'[PID_IDLE] \in {"boot", "await init"} => pc'[PID_INIT] # "free"
    BY DEF IInv, Phases
  <2>4. pc'[PID_IDLE] \in {"vfs_shutdown", "await pageoutd", "halted"} =>
          pc'[PID_INIT] = "free"
    BY DEF IInv, Phases
  <2>5. pc'[PID_IDLE] \in {"boot", "await init", "vfs_shutdown"} =>
          pc'[Pageoutd] = "daemon" /\ ~sched'.kt_cancelled[Pageoutd]
    <3>1. ASSUME pc'[PID_IDLE] \in {"boot", "await init", "vfs_shutdown"}
          PROVE  pc'[Pageoutd] = "daemon" /\ ~sched'.kt_cancelled[Pageoutd]
      <4>1. p # Pageoutd /\ pc[PID_IDLE] \in {"boot", "await init", "vfs_shutdown"}
        BY <3>1 DEF Leaves
      <4>2. sched'.kt_cancelled[Pageoutd] = sched.kt_cancelled[Pageoutd]
        BY <1>5, <4>1 DEF FlagsGrow
      <4> QED BY <4>1, <4>2 DEF IInv, Phases
    <3> QED BY <3>1
  <2>6. pc'[PID_IDLE] = "await pageoutd" => pc'[Pageoutd] # "free"
    BY DEF IInv, Phases
  <2>7. pc'[PID_IDLE] = "halted" => pc'[Pageoutd] = "free"
    BY DEF IInv, Phases
  <2>8. pc'[Pageoutd] = "free" => pc'[PID_INIT] = "free"
    BY DEF IInv, Phases
  <2> QED BY <2>1, <2>2, <2>3, <2>4, <2>5, <2>6, <2>7, <2>8 DEF Phases
<1>13. Dying'
  <2> SUFFICES ASSUME NEW c \in Thread
               PROVE  /\ pc'[c] = "gone" => p_state'[c] = "PROC_DEAD"
                      /\ p_state'[c] = "PROC_DEAD" /\ pc'[c] # "gone" => BlockingCleanup
    BY DEF Dying
  <2>1. CASE c = p
    BY <1>1, <1>3, <1>7, <2>1
  <2>2. CASE c # p
    <3>1. p_state'[c] = p_state[c]
      BY <1>1, <1>3, <2>2
    <3> QED BY <1>7, <2>2, <3>1 DEF IInv, Dying
  <2> QED BY <2>1, <2>2
<1>14. Orderly'
  <2>1. ASSUME ~BlockingCleanup PROVE \A t \in Thread : pc'[t] # "panic"
    BY <1>7, <2>1 DEF IInv, Orderly
  <2>2. ASSUME ~BlockingCleanup PROVE NoHopelessWait'
    <3> SUFFICES ASSUME NEW t \in Thread, sched'.kt_wchan[t] = p_wait(t)
                 PROVE  (\E d \in Awaited(t, wpid[t]) : pc[d] # "gone")'
      BY DEF NoHopelessWait
    <3>1. w.kt_wchan[t] = p_wait(t)
      BY <1>5
    <3>2. t # p
      BY <3>1, Identities DEF Reached
    <3>3. sched.kt_wchan[t] = p_wait(t)
      BY <3>1, <3>2, Identities DEF Reached, OnlyWakes
    <3>4. PICK d \in Awaited(t, wpid[t]) : pc[d] # "gone"
      BY <2>2, <3>3 DEF IInv, Orderly, NoHopelessWait
    <3>5. d \in Thread /\ p_pproc[d] = t /\ wpid[t] \in {AnyChild, d}
      BY <3>4, AwaitedChildren
    <3>6. d # p
      BY <2>2, <3>1, <3>5
    <3>7. pc'[d] # "gone"
      BY <1>7, <3>4, <3>5, <3>6
    <3>8. p_pproc'[d] = t
      BY <1>4, <3>2, <3>5
    <3>9. Contains(p_children'[t], d)
      BY <1>4, <3>5, <3>8 DEF Family
    <3>10. d \in Awaited(t, wpid[t])'
      BY <1>3, <3>5, <3>9 DEF Awaited, Contains, ToSet
    <3> QED BY <3>7, <3>10
  <2> QED BY <2>1, <2>2 DEF Orderly
<1> QED BY <1>4, <1>6, <1>9, <1>11, <1>12, <1>13, <1>14 DEF IInv

\* The end of a process that proc_cleanup had put to sleep.
LEMMA proc_cleanup_Continues_Keeps ==
  ASSUME IInv, NEW p \in Thread, proc_cleanup_Continues(p)
  PROVE  IInv'
<1>1. /\ sched.curthr = p /\ pc[p] = "cleanup" /\ kt_retval' = kt_retval
      /\ Bury(p, sched, p_status[p])
  BY DEF proc_cleanup_Continues, Runs
<1>2. Reached(p, sched)
  BY <1>1, NothingReached
<1>3. Leaves(p)
  BY <1>1, Identities DEF IInv, Roles, Phases, Leaves
<1>4. FlagsGrow(p, sched)
  BY DEF FlagsGrow
<1>5. sched.kt_state[p] = KT_EXITED \/ (BlockingCleanup /\ sched.kt_state[p] = KT_RUN)
  BY <1>1, <1>2 DEF Reached, IInv, Roles
<1>6. p_status[p] \in Status /\ kt_retval' \in [Thread -> Status]
  BY <1>1 DEF IInv, TypeOK
<1>7. BlockingCleanup \/ sched.kt_wchan[p_pproc[p]] # p_wait(p_pproc[p])
  BY <1>1 DEF IInv, Roles
<1> QED BY <1>1, <1>2, <1>3, <1>4, <1>5, <1>6, <1>7, Bury_Keeps

\* A thread exits: it wakes its parent, and is buried or waits for the disk.
LEMMA kthread_exit_Keeps ==
  ASSUME IInv, NEW p \in Thread, sched.curthr = p,
         \/ p \in UserPids
         \/ p = PID_INIT /\ pc[p] = "alldone"
         \/ p = Pageoutd /\ sched.kt_cancelled[p],
         NEW s, Reached(p, s), FlagsGrow(p, s),
         NEW retvals \in [Thread -> Status], NEW retval \in Status,
         kthread_exit(p, s, retvals, retval)
  PROVE  IInv'
<1>1. PICK w : w = WakeParent(p, ThreadExits(s))
  OBVIOUS
<1>2. /\ kt_retval' = [retvals EXCEPT ![p] = retval]
      /\ \/ Bury(p, w, retval)
         \/ /\ BlockingCleanup
            /\ sched' = sched_sleep_on(w, DiskQ)
            /\ p_status' = [p_status EXCEPT ![p] = retval]
            /\ pc' = [pc EXCEPT ![p] = "cleanup"]
            /\ UNCHANGED <<p_state, p_pproc, p_children, proc_list, next_pid, wpid>>
  BY <1>1 DEF kthread_exit, GoTo
<1>3. /\ pc \in [Thread -> Place] /\ pc[p] \notin {"free", "gone"}
      /\ p_pproc \in [Thread -> Thread \cup {NoThread}]
      /\ p_status \in [Thread -> Status]
  BY RunningThread DEF IInv, TypeOK
<1>4. p # PID_IDLE
  BY Identities
<1>5. p_pproc[p] \in Thread /\ p_pproc[p] # p
  <2>1. p_pproc[p] \in Thread
    BY <1>3, <1>4 DEF IInv, Family
  <2>2. ASSUME p_pproc[p] = p PROVE FALSE
    BY <2>2, AwaitedChildren
  <2> QED BY <2>1, <2>2
<1> PICK parent \in Thread : parent = p_pproc[p]
  BY <1>5
<1>6. WellFormed(s) /\ s.curthr = p /\ s.kt_wchan[p] = NoQueue
  BY DEF Reached
<1>7. /\ WellFormed(w)
      /\ KeepsFlags(s, w)
      /\ w.curthr = p
      /\ OnlyWakes(s, w, Thread \ {p})
      /\ w.kt_wchan[p] = NoQueue
      /\ w.kt_state[p] = KT_EXITED
      /\ \/ \A t \in Thread : s.kt_wchan[t] # p_wait(parent)
         \/ \E t \in Thread : /\ s.kt_wchan[t] = p_wait(parent)
                              /\ w.kt_wchan[t] = RunQ
  <2>1. PICK e : e = ThreadExits(s)
    OBVIOUS
  <2>2. PICK r : r = WakeParent(p, e)
    OBVIOUS
  <2>3. ExitedAfterWaking(p, parent, s, r)
    BY <1>6, <2>1, <2>2, ExitingWakesParent
  <2> QED BY <1>1, <2>1, <2>2, <2>3 DEF ExitedAfterWaking
<1>8. OnlyWakes(sched, w, Thread \ {p})
  <2>1. OnlyWakes(sched, s, Thread \ {p})
    BY DEF Reached
  <2> QED BY <1>7, <2>1, WakingComposes
<1>9. Reached(p, w)
  BY <1>7, <1>8 DEF Reached
<1>10. FlagsGrow(p, w)
  BY <1>7 DEF FlagsGrow, KeepsFlags
<1>11. w.kt_wchan[p_pproc[p]] # p_wait(p_pproc[p])
  <2>1. p_wait(parent) # NoQueue /\ p_wait(parent) # RunQ
    BY <1>5, Identities
  <2>2. s.kt_wchan[parent] # p_wait(parent) => w.kt_wchan[parent] # p_wait(parent)
    BY <1>5, <1>7, <2>1 DEF OnlyWakes
  <2>3. ASSUME NEW t \in Thread, s.kt_wchan[t] = p_wait(parent), w.kt_wchan[t] = RunQ
        PROVE  t = parent
    <3>1. t # p
      BY <1>6, <2>1, <2>3
    <3>2. sched.kt_wchan[t] = p_wait(parent)
      BY <2>1, <2>3, <3>1 DEF Reached, OnlyWakes
    <3> QED BY <1>5, <3>2 DEF IInv, OwnWaits
  <2> QED BY <1>5, <1>7, <2>1, <2>2, <2>3
<1>12. Leaves(p)
  BY DEF Leaves, IInv, Phases
<1>13. kt_retval' \in [Thread -> Status]
  BY <1>2
<1>14. CASE Bury(p, w, retval)
  BY <1>7, <1>9, <1>10, <1>11, <1>12, <1>13, <1>14, Bury_Keeps
<1>15. CASE /\ BlockingCleanup
            /\ sched' = sched_sleep_on(w, DiskQ)
            /\ p_status' = [p_status EXCEPT ![p] = retval]
            /\ pc' = [pc EXCEPT ![p] = "cleanup"]
            /\ UNCHANGED <<p_state, p_pproc, p_children, proc_list, next_pid, wpid>>
  <2>1. DiskQ \in WaitQueue /\ KT_SLEEP \in Asleep /\ \A t \in Thread : DiskQ # p_wait(t)
    BY Identities DEF Asleep
  <2>q. PICK q \in WaitQueue, k \in Asleep : q = DiskQ /\ k = KT_SLEEP
    BY <2>1
  <2>r. PICK r : r = SleepOn(w, q, k)
    OBVIOUS
  <2>2. q = DiskQ /\ k = KT_SLEEP /\ r = SleepOn(w, q, k)
    BY <2>q, <2>r
  <2>0. WellFormed(w) /\ w.curthr = p /\ w.kt_wchan[p] = NoQueue
    BY <1>7
  <2>3. /\ WellFormed(r)
        /\ KeepsFlags(w, r)
        /\ r.curthr = NoThread
        /\ OnlyWakes(w, r, Thread \ {p})
        /\ r.kt_wchan[p] = q
        /\ r.kt_state[p] = k
    BY ONLY p \in Thread, <2>0, <2>1, <2>2, SleepingOnlyMovesCaller
  <2>4. sched' = r
    BY <1>15, <2>2 DEF sched_sleep_on
  <2>5. OnlyWakes(sched, sched', Thread \ {p})
    BY <1>8, <2>3, <2>4, WakingComposes
  <2>6. "cleanup" \in Place \ {"free", "gone"}
    BY DEF Place
  <2>7. Quiet(p, "cleanup")
    BY <1>3, <1>13, <1>15, <2>3, <2>4, <2>5 DEF Quiet, IInv, TypeOK
  <2>8. Roles'
    BY <1>3, <1>15, Identities DEF IInv, Roles
  <2>9. Phases'
    <3> USE <1>3, <1>4, <1>12, <1>15, Identities
    <3>1. sched'.kt_cancelled = w.kt_cancelled
      BY <2>3, <2>4 DEF KeepsFlags
    <3>2. \A t \in {PID_INIT, Pageoutd} \ {p} :
            sched'.kt_cancelled[t] = sched.kt_cancelled[t]
      BY <1>10, <3>1 DEF FlagsGrow
    <3>3. \A t \in Thread \ {p} : pc'[t] = pc[t]
      OBVIOUS
    <3>4. pc'[p] = "cleanup"
      OBVIOUS
    <3>5. pc'[PID_INIT] \in {"alldone", "cleanup", "gone", "free"} =>
            \A u \in UserPids : pc'[u] = "free"
      BY <3>3, <3>4 DEF IInv, Phases, Leaves
    <3>6. pc'[PID_INIT] \in {"user", "sysret", "waitpid", "reaping", "alldone"} =>
            ~sched'.kt_cancelled[PID_INIT]
      <4>1. ASSUME pc'[PID_INIT] # "cleanup"
            PROVE  /\ pc'[PID_INIT] = pc[PID_INIT]
                   /\ sched'.kt_cancelled[PID_INIT] = sched.kt_cancelled[PID_INIT]
        BY <3>2, <3>3, <3>4, <4>1
      <4> QED BY <4>1 DEF IInv, Phases
    <3>7. ASSUME pc'[PID_IDLE] \in {"boot", "await init", "vfs_shutdown"}
          PROVE  pc'[Pageoutd] = "daemon" /\ ~sched'.kt_cancelled[Pageoutd]
      <4>1. p # Pageoutd /\ pc[PID_IDLE] \in {"boot", "await init", "vfs_shutdown"}
        BY <3>3, <3>7 DEF Leaves
      <4>2. /\ pc'[Pageoutd] = pc[Pageoutd]
            /\ sched'.kt_cancelled[Pageoutd] = sched.kt_cancelled[Pageoutd]
        BY <3>2, <3>3, <4>1
      <4> QED BY <4>1, <4>2 DEF IInv, Phases
    <3>8. /\ pc'[PID_IDLE] \in {"boot", "await init"} => pc'[PID_INIT] # "free"
          /\ pc'[PID_IDLE] \in {"vfs_shutdown", "await pageoutd", "halted"} =>
               pc'[PID_INIT] = "free"
          /\ pc'[PID_IDLE] = "await pageoutd" => pc'[Pageoutd] # "free"
          /\ pc'[PID_IDLE] = "halted" => pc'[Pageoutd] = "free"
          /\ pc'[Pageoutd] = "free" => pc'[PID_INIT] = "free"
      BY <3>3, <3>4 DEF IInv, Phases
    <3> QED BY <3>5, <3>6, <3>7, <3>8 DEF Phases
  <2>10. Dying'
    <3> SUFFICES ASSUME NEW c \in Thread
                 PROVE  pc'[c] = "gone" => p_state'[c] = "PROC_DEAD"
      BY <1>15 DEF Dying
    <3> QED BY <1>3, <1>15 DEF IInv, Dying
  <2>11. Orderly'
    BY <1>15 DEF Orderly
  <2>12. /\ wpid' \in [Thread -> Thread \cup {AnyChild}] /\ p_state' = p_state
         /\ sched'.curthr = NoThread
         /\ sched'.kt_wchan[p] \in WaitQueue
         /\ \A t \in Thread : sched'.kt_wchan[p] = p_wait(t) => t = p
         /\ sched'.kt_state[p] \in Asleep
    BY <1>15, <2>1, <2>2, <2>3, <2>4 DEF IInv, TypeOK
  <2> QED BY <2>6, <2>7, <2>8, <2>9, <2>10, <2>11, <2>12, QuietStep
<1> QED BY <1>2, <1>14, <1>15

\* A thread that has set its own flag has still only woken others.
LEMMA FlagIsReached ==
  ASSUME NEW p \in Thread, NEW s, Reached(p, s), FlagsGrow(p, s),
         NEW r, r = [s EXCEPT !.kt_cancelled[p] = TRUE]
  PROVE  Reached(p, r) /\ FlagsGrow(p, r)
<1>1. s \in SchedState /\ WellFormed(s)
  BY DEF Reached, WellFormed
<1>2. /\ r \in SchedState
      /\ r.tq_list = s.tq_list /\ r.kt_wchan = s.kt_wchan /\ r.curthr = s.curthr
      /\ r.kt_state = s.kt_state
      /\ r.kt_cancelled = [s.kt_cancelled EXCEPT ![p] = TRUE]
  BY <1>1 DEF SchedState
<1>3. WellFormed(r)
  BY <1>1, <1>2, OtherFieldsKeepLinks
<1>4. s.kt_cancelled \in [Thread -> BOOLEAN]
  BY <1>1 DEF SchedState
<1>5. Reached(p, r)
  BY <1>2, <1>3 DEF Reached, OnlyWakes
<1>6. FlagsGrow(p, r)
  BY <1>2, <1>4, Identities DEF FlagsGrow
<1> QED BY <1>5, <1>6

\* exit(2), and the return of init.
LEMMA Exit_Keeps ==
  ASSUME IInv, NEW p \in Thread, Exit(p)
  PROVE  IInv'
<1>1. /\ sched.curthr = p
      /\ p \in UserPids \/ (p = PID_INIT /\ pc[p] = "alldone")
      /\ \E status \in {"zero", "code"} : do_exit(p, sched, kt_retval, status)
  BY Identities DEF Exit, Runs, IInv, Roles
<1>2. PICK status \in {"zero", "code"} : do_exit(p, sched, kt_retval, status)
  BY <1>1
<1>3. PICK s : s = [sched EXCEPT !.kt_cancelled[p] = TRUE]
  OBVIOUS
<1>4. Reached(p, sched) /\ FlagsGrow(p, sched)
  BY <1>1, NothingReached DEF FlagsGrow
<1>5. Reached(p, s) /\ FlagsGrow(p, s)
  BY <1>3, <1>4, FlagIsReached
<1>6. kthread_exit(p, s, kt_retval, status)
  BY <1>2, <1>3 DEF do_exit
<1>7. kt_retval \in [Thread -> Status] /\ status \in Status
  BY DEF IInv, TypeOK, Status
<1> QED BY <1>1, <1>5, <1>6, <1>7, kthread_exit_Keeps

\* The exit of a cancelled thread at a system call.
LEMMA SyscallTrap_Keeps ==
  ASSUME IInv, NEW p \in Thread, SyscallTrap(p)
  PROVE  IInv'
<1>1. /\ sched.curthr = p /\ pc[p] \in {"user", "sysret"} /\ sched.kt_cancelled[p]
      /\ kthread_exit(p, sched, kt_retval, kt_retval[p])
  BY DEF SyscallTrap
<1>2. p \in UserPids
  BY <1>1, Identities DEF IInv, Roles, Phases
<1>3. Reached(p, sched) /\ FlagsGrow(p, sched)
  BY <1>1, NothingReached DEF FlagsGrow
<1>4. kt_retval \in [Thread -> Status] /\ kt_retval[p] \in Status
  BY DEF IInv, TypeOK
<1> QED BY <1>1, <1>2, <1>3, <1>4, kthread_exit_Keeps

\* halt(2).
LEMMA proc_kill_all_Keeps ==
  ASSUME IInv, NEW p \in Thread, proc_kill_all(p)
  PROVE  IInv'
<1> DEFINE victims == proc_kill_all_Victims(p)
           retvals == [q \in Thread |-> IF q \in victims THEN "stack address"
                                        ELSE kt_retval[q]]
<1>1. /\ sched.curthr = p /\ p \in UserPids
      /\ do_exit(p, proc_kill_all_Cancelled(p), retvals, p_status[p])
  BY DEF proc_kill_all, Runs
<1>2. PICK s : s = proc_kill_all_Cancelled(p)
  OBVIOUS
<1>3. PICK r : r = [s EXCEPT !.kt_cancelled[p] = TRUE]
  OBVIOUS
<1>4. /\ WellFormed(sched) /\ proc_list \in Seq(Thread)
      /\ \A t \in Thread : sched.kt_state[t] \in Asleep => sched.kt_wchan[t] \in WaitQueue
  BY <1>1, RunningThread DEF IInv, TypeOK
<1>5. Killed(sched, s, proc_kill_all_Victims(p))
  BY <1>2, <1>4, KillingOnlyWakes
<1>6. PID_INIT \notin victims /\ Pageoutd \notin victims
  <2>1. \A q \in Thread : q \in victims => pc[q] # "free" /\ p_pproc[q] # PID_IDLE
    BY DEF proc_kill_all_Victims, IInv, Family, ToSet, Contains
  <2>2. \A q \in Thread : q \in victims /\ q # PID_IDLE => p_pproc[q] # NoThread
    BY <2>1 DEF IInv, Family
  <2> QED BY <2>1, <2>2, Identities DEF IInv, Family
<1>7. Reached(p, sched)
  BY <1>1, NothingReached
<1>8. Reached(p, s)
  BY <1>5, <1>7, SchedAssumption DEF Killed, Reached, OnlyWakes
<1>9. FlagsGrow(p, s)
  BY <1>5, <1>6, Identities DEF Killed, FlagsGrow
<1>10. Reached(p, r) /\ FlagsGrow(p, r)
  BY <1>3, <1>8, <1>9, FlagIsReached
<1>11. retvals \in [Thread -> Status] /\ p_status[p] \in Status
  BY DEF IInv, TypeOK, Status
<1>12. kthread_exit(p, r, retvals, p_status[p])
  BY <1>1, <1>2, <1>3 DEF do_exit
<1> HIDE DEF retvals
<1> QED BY <1>1, <1>10, <1>11, <1>12, kthread_exit_Keeps

\* The daemon sleeps, or exits when it is cancelled.
LEMMA pageoutd_run_Keeps ==
  ASSUME IInv, NEW p \in Thread, pageoutd_run(p)
  PROVE  IInv'
<1>1. sched.curthr = p /\ p = Pageoutd
  BY DEF pageoutd_run, Runs
<1>2. CASE ~sched.kt_cancelled[p]
  BY <1>1, <1>2, pageoutd_Sleeps_Keeps
<1>3. CASE sched.kt_cancelled[p]
  <2>1. PICK s : s = ReturnEINTR(sched)
    OBVIOUS
  <2>2. Reached(p, sched) /\ WellFormed(sched) /\ sched.kt_wchan[p] = NoQueue
    BY <1>1, NothingReached, RunningThread
  <2>3. /\ WellFormed(s)
        /\ s.kt_wchan = sched.kt_wchan
        /\ s.kt_state = [sched.kt_state EXCEPT ![p] = KT_EXITED]
        /\ KeepsFlags(sched, s)
        /\ s.curthr = sched.curthr
    BY <1>1, <2>1, <2>2, MarkedExited
  <2>4. DOMAIN sched.kt_state = Thread
    BY <2>2 DEF WellFormed, SchedState
  <2>5. Reached(p, s)
    BY <1>1, <2>2, <2>3, <2>4 DEF Reached, OnlyWakes
  <2>6. FlagsGrow(p, s)
    BY <2>3 DEF FlagsGrow, KeepsFlags
  <2>7. kthread_exit(p, s, kt_retval, "zero")
    BY <1>3, <2>1 DEF pageoutd_run
  <2>8. kt_retval \in [Thread -> Status] /\ "zero" \in Status
    BY DEF IInv, TypeOK, Status
  <2> QED BY <1>1, <1>3, <2>5, <2>6, <2>7, <2>8, kthread_exit_Keeps
<1> QED BY <1>2, <1>3

-----------------------------------------------------------------------------
(* Creation.                                                               *)

\* Only a user process or init forks, and the pid it gets is a user's.
LEMMA ForkedPid ==
  ASSUME IInv, NEW p \in Thread, pc[p] = "user", NEW pid \in Thread, _proc_getid(pid)
  PROVE  /\ p \in UserPids \cup {PID_INIT}
         /\ ~Contains(proc_list, pid) /\ pc[pid] = "free" /\ pid # p
         /\ pid \in UserPids
         /\ pc[PID_INIT] \notin {"alldone", "cleanup", "gone", "free"}
<1>1. p \in UserPids \cup {PID_INIT}
  BY Identities DEF IInv, Roles
<1>2. ~Contains(proc_list, pid)
  BY DEF _proc_getid
<1>3. pc[pid] = "free" /\ pid # p
  BY <1>2 DEF IInv, Family
<1>4. pc[PID_INIT] \notin {"alldone", "cleanup", "gone", "free"}
  BY <1>1 DEF IInv, Phases
<1>5. pid # PID_IDLE /\ pid # PID_INIT /\ pid # Pageoutd
  BY <1>3, <1>4 DEF IInv, Roles, Phases
<1> QED BY <1>1, <1>2, <1>3, <1>4, <1>5, Identities

\* The family with the new process.
LEMMA ForkedFamily ==
  ASSUME IInv, NEW p \in Thread, pc[p] = "user",
         NEW pid \in UserPids, ~Contains(proc_list, pid), pc[pid] = "free",
         p \in UserPids \cup {PID_INIT},
         proc_create(pid, p), pc' = [pc EXCEPT ![pid] = "user"]
  PROVE  /\ proc_list' \in Seq(Thread)
         /\ p_children' \in [Thread -> Seq(Thread)]
         /\ \A t, c \in Thread : p_pproc[c] = t => p_pproc'[c] = t
         /\ Family' /\ Elders'
<1>1. /\ p_children \in [Thread -> Seq(Thread)] /\ proc_list \in Seq(Thread)
      /\ p_pproc \in [Thread -> Thread \cup {NoThread}]
      /\ pc \in [Thread -> Place]
      /\ p_state \in [Thread -> {"PROC_FREE", "PROC_RUNNING", "PROC_DEAD"}]
  BY DEF IInv, TypeOK
<1>2. /\ p_state' = [p_state EXCEPT ![pid] = "PROC_RUNNING"]
      /\ p_pproc' = [p_pproc EXCEPT ![pid] = p]
      /\ p_children' = [p_children EXCEPT ![pid] = << >>, ![p] = Append(@, pid)]
      /\ proc_list' = Append(proc_list, pid)
      /\ pid \in Thread /\ pid # p
  BY Identities DEF proc_create
<1>3. p_pproc[pid] = NoThread
  BY <1>2 DEF IInv, Family
<1>4. \A c \in Thread : p_pproc[c] # pid
  <2>1. \A c \in Thread : p_pproc[c] # NoThread => Alive(p_pproc[c])
    BY DEF IInv, Family
  <2>2. pid # NoThread /\ ~Alive(pid)
    BY <1>2, Identities DEF Alive
  <2> QED BY <2>1, <2>2
<1>5. /\ \A t \in Thread : IsInjective(p_children[t])
      /\ \A t, c \in Thread : Contains(p_children[t], c) <=> p_pproc[c] = t
      /\ IsInjective(proc_list)
  BY DEF IInv, Family
<1>6. PICK m : m = Append(p_children[p], pid)
  OBVIOUS
<1>7. /\ m \in Seq(Thread) /\ IsInjective(m)
      /\ \A x : Contains(m, x) <=> Contains(p_children[p], x) \/ x = pid
  <2>1. p_children[p] \in Seq(Thread) /\ IsInjective(p_children[p])
    BY <1>1, <1>5
  <2>2. ~Contains(p_children[p], pid)
    BY <1>2, <1>3, <1>5, Identities
  <2> QED BY <1>2, <1>6, <2>1, <2>2, AppendFresh
<1>8. PICK l : l = Append(proc_list, pid)
  OBVIOUS
<1>9. /\ l \in Seq(Thread) /\ IsInjective(l)
      /\ \A x : Contains(l, x) <=> Contains(proc_list, x) \/ x = pid
  BY <1>1, <1>2, <1>5, <1>8, AppendFresh
<1>10. p_children' = [t \in Thread |-> IF t = p THEN m
                                       ELSE IF t = pid THEN << >> ELSE p_children[t]]
  BY <1>1, <1>2, <1>6
<1>11. p_children' \in [Thread -> Seq(Thread)]
  <2>1. << >> \in Seq(Thread)
    OBVIOUS
  <2>2. \A t \in Thread : (IF t = p THEN m
                           ELSE IF t = pid THEN << >> ELSE p_children[t]) \in Seq(Thread)
    BY <1>1, <1>7, <2>1
  <2> QED BY <1>10, <2>2
<1>12. ASSUME NEW t \in Thread
       PROVE  /\ t # pid => /\ p_pproc'[t] = p_pproc[t]
                            /\ pc'[t] = pc[t]
                            /\ p_state'[t] = p_state[t]
              /\ p_pproc'[pid] = p /\ pc'[pid] = "user" /\ p_state'[pid] = "PROC_RUNNING"
  BY <1>1, <1>2
<1>13. ASSUME NEW t \in Thread, NEW c \in Thread
       PROVE  Contains(p_children'[t], c) <=> p_pproc'[c] = t
  <2>1. CASE t = p
    <3>1. p_children'[t] = m
      BY <1>10, <2>1
    <3> QED BY <1>5, <1>7, <1>12, <2>1, <3>1
  <2>2. CASE t = pid
    <3>1. p_children'[t] = << >> /\ ~Contains(<< >>, c)
      BY <1>2, <1>10, <2>2 DEF Contains
    <3> QED BY <1>2, <1>4, <1>12, <2>2, <3>1
  <2>3. CASE t # p /\ t # pid
    <3>1. p_children'[t] = p_children[t]
      BY <1>10, <2>3
    <3> QED BY <1>2, <1>3, <1>5, <1>12, <2>3, <3>1, Identities
  <2> QED BY <2>1, <2>2, <2>3
<1>14. ASSUME NEW t \in Thread PROVE IsInjective(p_children'[t])
  <2>1. IsInjective(<< >>)
    BY DEF IsInjective
  <2>2. p_children'[t] = m \/ p_children'[t] = << >> \/ p_children'[t] = p_children[t]
    BY <1>10
  <2> QED BY <1>5, <1>7, <2>1, <2>2
<1>15. Family'
  <2>1. IsInjective(proc_list')
    BY <1>2, <1>8, <1>9
  <2>2. ASSUME NEW t \in Thread
        PROVE  /\ Contains(proc_list', t) <=> pc'[t] # "free"
               /\ p_state'[t] = "PROC_FREE" <=> pc'[t] = "free"
    <3>1. /\ Contains(proc_list, t) <=> pc[t] # "free"
          /\ p_state[t] = "PROC_FREE" <=> pc[t] = "free"
      BY DEF IInv, Family
    <3>2. Contains(proc_list', t) <=> Contains(proc_list, t) \/ t = pid
      BY <1>2, <1>8, <1>9
    <3> QED BY <1>12, <3>1, <3>2
  <2>3. ASSUME NEW c \in Thread
        PROVE  /\ p_pproc'[c] = NoThread <=> c = PID_IDLE \/ pc'[c] = "free"
               /\ p_pproc'[c] # NoThread => pc'[p_pproc'[c]] \notin {"free", "gone"}
    <3>1. CASE c = pid
      <4>1. p_pproc'[c] = p /\ pc'[c] = "user" /\ pc'[p] = "user"
        BY <1>2, <1>12, <3>1
      <4> QED BY <3>1, <4>1, Identities
    <3>2. CASE c # pid
      <4>1. /\ p_pproc[c] = NoThread <=> c = PID_IDLE \/ pc[c] = "free"
            /\ p_pproc[c] # NoThread => pc[p_pproc[c]] \notin {"free", "gone"}
            /\ p_pproc[c] # NoThread => p_pproc[c] \in Thread
        BY <1>1 DEF IInv, Family, Alive
      <4>2. p_pproc'[c] = p_pproc[c] /\ pc'[c] = pc[c]
        BY <1>12, <3>2
      <4> QED BY <1>4, <1>12, <4>1, <4>2
    <3> QED BY <3>1, <3>2
  <2>4. /\ p_pproc'[PID_INIT] \in {PID_IDLE, NoThread}
        /\ p_pproc'[Pageoutd] \in {PID_IDLE, NoThread}
    BY <1>12, Identities DEF IInv, Family
  <2>5. ASSUME NEW u \in UserPids PROVE p_pproc'[u] \notin {PID_IDLE, Pageoutd}
    BY <1>12, Identities DEF IInv, Family
  <2> QED BY <1>13, <1>14, <2>1, <2>2, <2>3, <2>4, <2>5 DEF Family, Alive
<1>16. Elders'
  <2> SUFFICES ASSUME NEW i \in DOMAIN l, NEW j \in DOMAIN l,
                      \/ p_pproc'[l[i]] = l[j]
                      \/ l[i] \in UserPids /\ l[j] = PID_INIT
               PROVE  j < i
    BY <1>2, <1>8 DEF Elders
  <2>1. /\ Len(proc_list) \in Nat
        /\ DOMAIN proc_list = 1 .. Len(proc_list)
        /\ DOMAIN l = 1 .. Len(proc_list) + 1
        /\ \A n \in 1 .. Len(proc_list) : l[n] = proc_list[n] /\ l[n] # pid
        /\ l[Len(proc_list) + 1] = pid
    <3>1. /\ Len(l) = Len(proc_list) + 1
          /\ \A n \in 1 .. Len(proc_list) : l[n] = proc_list[n]
          /\ l[Len(proc_list) + 1] = pid
      BY <1>1, <1>2, <1>8, AppendProperties
    <3>2. DOMAIN l = 1 .. Len(l) /\ DOMAIN proc_list = 1 .. Len(proc_list)
          /\ Len(proc_list) \in Nat
      BY <1>1, <1>9, LenProperties
    <3>3. \A n \in 1 .. Len(proc_list) : proc_list[n] # pid
      BY <3>2 DEF Contains
    <3> QED BY <3>1, <3>2, <3>3
  <2>2. l[i] \in Thread /\ l[j] \in Thread
    BY <1>9, LenProperties, ElementOfSeq
  <2>3. l[j] # pid
    BY <1>2, <1>4, <1>12, <2>2, Identities
  <2>4. j \in 1 .. Len(proc_list)
    BY <2>1, <2>3
  <2>5. CASE i = Len(proc_list) + 1
    BY <2>1, <2>4, <2>5
  <2>6. CASE i \in 1 .. Len(proc_list)
    <3>1. l[i] = proc_list[i] /\ l[j] = proc_list[j] /\ l[i] # pid
      BY <2>1, <2>4, <2>6
    <3>2. p_pproc'[l[i]] = p_pproc[l[i]]
      BY <1>12, <2>2, <3>1
    <3> QED BY <2>1, <2>4, <2>6, <3>1, <3>2 DEF IInv, Elders
  <2> QED BY <2>1, <2>5, <2>6
<1>17. \A t, c \in Thread : p_pproc[c] = t => p_pproc'[c] = t
  BY <1>3, <1>12, Identities
<1> QED BY <1>2, <1>8, <1>9, <1>11, <1>15, <1>16, <1>17

\* fork(2).
LEMMA do_fork_Keeps ==
  ASSUME IInv, NEW p \in Thread, do_fork(p)
  PROVE  IInv'
<1>1. /\ sched.curthr = p /\ pc[p] = "user" /\ ~sched.kt_cancelled[p]
      /\ wpid' = wpid
  BY DEF do_fork, Runs
<1>2. PICK pid \in Thread : _proc_getid(pid) /\ proc_create(pid, p) /\ kthread_clone(pid, p)
  BY DEF do_fork
<1>3. /\ p \in UserPids \cup {PID_INIT}
      /\ ~Contains(proc_list, pid) /\ pc[pid] = "free" /\ pid # p
      /\ pid \in UserPids
      /\ pc[PID_INIT] \notin {"alldone", "cleanup", "gone", "free"}
  BY <1>1, <1>2, ForkedPid
<1>4. PICK s : s = [sched EXCEPT !.kt_cancelled[pid] = sched.kt_cancelled[p]]
  OBVIOUS
<1>5. /\ pc' = [pc EXCEPT ![pid] = "user"]
      /\ kt_retval' = [kt_retval EXCEPT ![pid] = kt_retval[p]]
      /\ sched' = sched_make_runnable(s, pid)
  BY <1>2, <1>4 DEF kthread_clone
<1>6. /\ next_pid' = NextAfter(pid)
      /\ p_state' = [p_state EXCEPT ![pid] = "PROC_RUNNING"]
      /\ p_status' = [p_status EXCEPT ![pid] = "zero"]
      /\ p_pproc' = [p_pproc EXCEPT ![pid] = p]
  BY <1>2 DEF proc_create
<1>7. /\ WellFormed(sched) /\ sched \in SchedState
      /\ pc \in [Thread -> Place]
      /\ p_state \in [Thread -> {"PROC_FREE", "PROC_RUNNING", "PROC_DEAD"}]
      /\ p_pproc \in [Thread -> Thread \cup {NoThread}]
      /\ kt_retval \in [Thread -> Status] /\ p_status \in [Thread -> Status]
  BY <1>1, RunningThread DEF IInv, TypeOK
<1>8. /\ proc_list' \in Seq(Thread)
      /\ p_children' \in [Thread -> Seq(Thread)]
      /\ \A t, c \in Thread : p_pproc[c] = t => p_pproc'[c] = t
      /\ Family' /\ Elders'
  BY <1>1, <1>2, <1>3, <1>5, ForkedFamily
<1>9. sched.kt_wchan[pid] = NoQueue
  BY <1>3 DEF IInv, Scheduled
<1>10. /\ s \in SchedState
       /\ s.tq_list = sched.tq_list /\ s.kt_wchan = sched.kt_wchan
       /\ s.curthr = sched.curthr /\ s.kt_state = sched.kt_state
       /\ s.kt_cancelled = [sched.kt_cancelled EXCEPT ![pid] = sched.kt_cancelled[p]]
  <2>1. sched.kt_cancelled[p] \in BOOLEAN
    BY <1>7 DEF SchedState
  <2> QED BY <1>4, <1>7, <2>1 DEF SchedState
<1>11. WellFormed(s)
  BY <1>7, <1>10, OtherFieldsKeepLinks
<1>12. /\ WellFormed(sched')
       /\ sched'.kt_wchan = [sched.kt_wchan EXCEPT ![pid] = RunQ]
       /\ sched'.kt_state = [sched.kt_state EXCEPT ![pid] = KT_RUN]
       /\ sched'.kt_cancelled = s.kt_cancelled
       /\ sched'.curthr = p
  <2>1. PICK r : r = sched_make_runnable(s, pid)
    OBVIOUS
  <2>2. s.kt_wchan[pid] = NoQueue
    BY <1>9, <1>10
  <2>3. /\ WellFormed(r)
        /\ r.kt_wchan = [s.kt_wchan EXCEPT ![pid] = RunQ]
        /\ r.kt_state = [s.kt_state EXCEPT ![pid] = KT_RUN]
        /\ r.kt_cancelled = s.kt_cancelled
        /\ r.curthr = s.curthr
        /\ r.tq_list = [s.tq_list EXCEPT ![RunQ] = Append(@, pid)]
    BY <1>11, <2>1, <2>2, MakeRunnableKeepsLinks
  <2>4. sched' = r
    BY <1>5, <2>1
  <2> QED BY <1>1, <1>10, <2>3, <2>4
<1>13. \A t \in Thread :
         /\ t # pid => /\ pc'[t] = pc[t] /\ p_state'[t] = p_state[t]
                       /\ sched'.kt_wchan[t] = sched.kt_wchan[t]
                       /\ sched'.kt_state[t] = sched.kt_state[t]
                       /\ sched'.kt_cancelled[t] = sched.kt_cancelled[t]
         /\ pc'[pid] = "user" /\ p_state'[pid] = "PROC_RUNNING"
         /\ sched'.kt_wchan[pid] = RunQ /\ sched'.kt_state[pid] = KT_RUN
  BY <1>5, <1>6, <1>7, <1>10, <1>12 DEF SchedState
<1>14. TypeOK' /\ Linked(sched)'
  <2>1. next_pid' \in Thread
    <3>1. /\ PROC_MAX_COUNT \in Nat /\ PROC_MAX_COUNT > 0
          /\ Thread = 0 .. PROC_MAX_COUNT - 1 /\ pid \in Nat
      BY ProcAssumption DEF Pageoutd
    <3> QED BY <1>6, <3>1 DEF NextAfter
  <2>2. /\ pc' \in [Thread -> Place]
        /\ p_state' \in [Thread -> {"PROC_FREE", "PROC_RUNNING", "PROC_DEAD"}]
        /\ p_pproc' \in [Thread -> Thread \cup {NoThread}]
        /\ kt_retval' \in [Thread -> Status] /\ p_status' \in [Thread -> Status]
        /\ wpid' \in [Thread -> Thread \cup {AnyChild}]
    BY <1>1, <1>5, <1>6, <1>7 DEF IInv, TypeOK, Place, Status
  <2> QED BY <1>8, <1>12, <2>1, <2>2 DEF TypeOK, WellFormed
<1>15. Scheduled' /\ OwnWaits'
  <2>1. Scheduled'
    <3> SUFFICES ASSUME NEW t \in Thread
                 PROVE
      /\ t = p => /\ pc'[t] \notin {"free", "gone"}
                  /\ sched'.kt_wchan[t] = NoQueue
                  /\ sched'.kt_state[t] \in {KT_RUN, KT_EXITED}
      /\ t # p /\ pc'[t] \notin {"free", "gone"} =>
           \/ sched'.kt_state[t] = KT_RUN /\ sched'.kt_wchan[t] = RunQ
           \/ sched'.kt_state[t] \in Asleep /\ sched'.kt_wchan[t] \in WaitQueue
      /\ pc'[t] = "gone" => /\ sched'.kt_wchan[t] = NoQueue
                            /\ \/ sched'.kt_state[t] = KT_EXITED
                               \/ BlockingCleanup /\ sched'.kt_state[t] = KT_RUN
      /\ pc'[t] = "free" => /\ sched'.kt_wchan[t] = NoQueue
                            /\ sched'.kt_state[t] = KT_NO_STATE
      BY <1>12 DEF Scheduled, Alive
    <3>1. CASE t = pid
      BY <1>3, <1>13, <3>1
    <3>2. CASE t # pid
      BY <1>1, <1>13, <3>2 DEF IInv, Scheduled, Alive
    <3> QED BY <3>1, <3>2
  <2>2. OwnWaits'
    <3> SUFFICES ASSUME NEW t \in Thread, NEW q \in Thread, sched'.kt_wchan[t] = p_wait(q)
                 PROVE  t = q
      BY DEF OwnWaits
    <3>1. p_wait(q) # RunQ
      BY Identities
    <3> QED BY <1>13, <3>1 DEF IInv, OwnWaits
  <2> QED BY <2>1, <2>2
<1>16. pid \notin {PID_IDLE, PID_INIT, Pageoutd} /\ {PID_IDLE, PID_INIT, Pageoutd} \subseteq Thread
  BY <1>3, Identities
<1>17. Roles'
  <2>1. /\ pc'[PID_IDLE] = pc[PID_IDLE] /\ pc'[PID_INIT] = pc[PID_INIT]
        /\ pc'[Pageoutd] = pc[Pageoutd]
    BY <1>13, <1>16
  <2>2. \A u \in UserPids : pc'[u] = pc[u] \/ pc'[u] = "user"
    BY <1>13, Identities
  <2>3. BlockingCleanup \/ \A t \in Thread : pc'[t] # "cleanup"
    BY <1>13 DEF IInv, Roles
  <2> QED BY <1>1, <2>1, <2>2, <2>3 DEF IInv, Roles
<1>18. Phases'
  BY <1>3, <1>13, <1>16 DEF IInv, Phases
<1>19. Dying'
  <2> SUFFICES ASSUME NEW c \in Thread
               PROVE  /\ pc'[c] = "gone" => p_state'[c] = "PROC_DEAD"
                      /\ p_state'[c] = "PROC_DEAD" /\ pc'[c] # "gone" => BlockingCleanup
    BY DEF Dying
  <2>1. CASE c = pid
    BY <1>13, <2>1
  <2>2. CASE c # pid
    BY <1>1, <1>13, <2>2 DEF IInv, Dying
  <2> QED BY <2>1, <2>2
<1>20. Orderly'
  <2>1. ASSUME ~BlockingCleanup PROVE \A t \in Thread : pc'[t] # "panic"
    BY <1>13, <2>1 DEF IInv, Orderly
  <2>2. ASSUME ~BlockingCleanup PROVE NoHopelessWait'
    <3> SUFFICES ASSUME NEW t \in Thread, sched'.kt_wchan[t] = p_wait(t)
                 PROVE  (\E d \in Awaited(t, wpid[t]) : pc[d] # "gone")'
      BY DEF NoHopelessWait
    <3>1. sched.kt_wchan[t] = p_wait(t)
      BY <1>13, Identities
    <3>2. PICK d \in Awaited(t, wpid[t]) : pc[d] # "gone"
      BY <2>2, <3>1 DEF IInv, Orderly, NoHopelessWait
    <3>3. d \in Thread /\ p_pproc[d] = t /\ wpid[t] \in {AnyChild, d}
      BY <3>2, AwaitedChildren
    <3>4. pc'[d] # "gone" /\ p_pproc'[d] = t
      BY <1>8, <1>13, <3>2, <3>3
    <3>5. Contains(p_children'[t], d)
      BY <1>8, <3>3, <3>4 DEF Family
    <3>6. d \in Awaited(t, wpid[t])'
      BY <1>1, <3>3, <3>5 DEF Awaited, Contains, ToSet
    <3> QED BY <3>4, <3>6
  <2> QED BY <2>1, <2>2 DEF Orderly
<1> QED BY <1>8, <1>14, <1>15, <1>17, <1>18, <1>19, <1>20 DEF IInv

-----------------------------------------------------------------------------
(* The CPU, the devices and the stopped machine.                           *)

\* A step of the scheduler alone: nobody is put on a wait queue.
LEMMA SchedulerStep ==
  ASSUME IInv, WellFormed(sched'), sched'.kt_cancelled = sched.kt_cancelled,
         sched'.curthr = sched.curthr \/ sched.curthr = NoThread,
         \A t \in Thread : sched'.kt_wchan[t] \in {sched.kt_wchan[t], RunQ, NoQueue},
         UNCHANGED <<family, kt_retval, next_pid, pc, wpid>>,
         Scheduled'
  PROVE  IInv'
<1>1. /\ p_state' = p_state /\ p_pproc' = p_pproc /\ p_children' = p_children
      /\ p_status' = p_status /\ proc_list' = proc_list /\ kt_retval' = kt_retval
      /\ next_pid' = next_pid /\ pc' = pc /\ wpid' = wpid
  BY DEF family
<1>2. TypeOK' /\ Linked(sched)'
  BY <1>1 DEF IInv, TypeOK, WellFormed
<1>3. Roles' /\ Family' /\ Elders'
  <2>1. Roles'
    BY <1>1 DEF IInv, Roles
  <2>2. \A c \in Thread : p_pproc[c] # NoThread => Alive(p_pproc[c])'
    BY <1>1 DEF IInv, Family, Alive
  <2>3. Family'
    BY <1>1, <2>2 DEF IInv, Family
  <2>4. Elders'
    BY <1>1 DEF IInv, Elders
  <2> QED BY <2>1, <2>3, <2>4
<1>4. Phases'
  <2>1. Phases /\ pc' = pc
    BY <1>1 DEF IInv
  <2>2. /\ sched'.kt_cancelled[PID_INIT] = sched.kt_cancelled[PID_INIT]
        /\ sched'.kt_cancelled[Pageoutd] = sched.kt_cancelled[Pageoutd]
    OBVIOUS
  <2> QED BY <2>1, <2>2 DEF Phases
<1>5. OwnWaits'
  BY Identities DEF IInv, OwnWaits
<1>6. Dying'
  BY <1>1, Identities DEF IInv, Dying
<1>7. Orderly'
  <2>1. ASSUME ~BlockingCleanup PROVE NoHopelessWait'
    <3> SUFFICES ASSUME NEW t \in Thread, sched'.kt_wchan[t] = p_wait(t)
                 PROVE  (\E c \in Awaited(t, wpid[t]) : pc[c] # "gone")'
      BY DEF NoHopelessWait
    <3>1. sched.kt_wchan[t] = p_wait(t)
      BY Identities
    <3>2. PICK c \in Awaited(t, wpid[t]) : pc[c] # "gone"
      BY <2>1, <3>1 DEF IInv, Orderly, NoHopelessWait
    <3> QED BY <1>1, <3>2 DEF Awaited
  <2> QED BY <1>1, <2>1 DEF IInv, Orderly
<1> QED BY <1>2, <1>3, <1>4, <1>5, <1>6, <1>7 DEF IInv

\* The CPU takes up the next thread.
LEMMA Dispatch_Keeps ==
  ASSUME IInv, Dispatch
  PROVE  IInv'
<1>1. /\ sched.curthr = NoThread /\ ~sched_queue_empty(sched, RunQ)
      /\ WellFormed(sched) /\ pc' = pc
      /\ UNCHANGED <<family, kt_retval, next_pid, pc, wpid>>
  BY DEF Dispatch, IInv, TypeOK, WellFormed
<1>2. PICK t : t = Head(sched.tq_list[RunQ])
  OBVIOUS
<1>3. PICK r : r = SwitchIn(sched)
  OBVIOUS
<1>4. /\ WellFormed(r)
      /\ t \in Thread
      /\ r.curthr = t
      /\ sched.kt_wchan[t] = RunQ
      /\ Moves(sched, r, t, NoQueue, KT_RUN)
      /\ KeepsFlags(sched, r)
  <2>1. /\ WellFormed(r)
        /\ t \in Thread
        /\ r.curthr = t
        /\ sched.kt_wchan[t] = RunQ
        /\ Moves(sched, r, t, NoQueue, KT_RUN)
        /\ KeepsFlags(sched, r)
        /\ r.tq_list = [sched.tq_list EXCEPT ![RunQ] = Tail(@)]
    BY <1>1, <1>2, <1>3, SwitchInKeepsLinks
  <2> QED BY <2>1
<1>5. sched' = r
  BY <1>3 DEF Dispatch
<1>6. DOMAIN sched.kt_wchan = Thread /\ DOMAIN sched.kt_state = Thread
  BY <1>1 DEF WellFormed, SchedState
<1>7. \A x \in Thread : /\ sched'.kt_wchan[x] = IF x = t THEN NoQueue ELSE sched.kt_wchan[x]
                        /\ sched'.kt_state[x] = IF x = t THEN KT_RUN ELSE sched.kt_state[x]
  BY <1>4, <1>5, <1>6 DEF Moves
<1>8. pc[t] \notin {"free", "gone"}
  BY <1>4, SchedAssumption DEF IInv, Scheduled
<1>9. Scheduled'
  <2> SUFFICES ASSUME NEW x \in Thread
               PROVE
    /\ x = t => /\ pc[x] \notin {"free", "gone"}
                /\ sched'.kt_wchan[x] = NoQueue
                /\ sched'.kt_state[x] \in {KT_RUN, KT_EXITED}
    /\ x # t /\ pc[x] \notin {"free", "gone"} =>
         \/ sched'.kt_state[x] = KT_RUN /\ sched'.kt_wchan[x] = RunQ
         \/ sched'.kt_state[x] \in Asleep /\ sched'.kt_wchan[x] \in WaitQueue
    /\ pc[x] = "gone" => /\ sched'.kt_wchan[x] = NoQueue
                         /\ \/ sched'.kt_state[x] = KT_EXITED
                            \/ BlockingCleanup /\ sched'.kt_state[x] = KT_RUN
    /\ pc[x] = "free" => /\ sched'.kt_wchan[x] = NoQueue
                         /\ sched'.kt_state[x] = KT_NO_STATE
    BY <1>1, <1>4, <1>5 DEF Scheduled, Alive
  <2>1. CASE x = t
    BY <1>7, <1>8, <2>1
  <2>2. CASE x # t
    BY <1>1, <1>7, <2>2, Identities DEF IInv, Scheduled, Alive
  <2> QED BY <2>1, <2>2
<1>10. /\ WellFormed(sched') /\ sched'.kt_cancelled = sched.kt_cancelled
       /\ \A x \in Thread : sched'.kt_wchan[x] \in {sched.kt_wchan[x], RunQ, NoQueue}
  BY <1>4, <1>5, <1>7 DEF KeepsFlags
<1> QED BY <1>1, <1>9, <1>10, SchedulerStep

\* A device answers.
LEMMA Interrupt_Keeps ==
  ASSUME IInv, NEW q \in WaitQueue, Interrupt(q)
  PROVE  IInv'
<1>1. /\ WellFormed(sched) /\ pc' = pc
      /\ UNCHANGED <<family, kt_retval, next_pid, pc, wpid>>
  BY DEF Interrupt, IInv, TypeOK, WellFormed
<1>2. PICK r : r = sched_wakeup_on(sched, q)
  OBVIOUS
<1>3. /\ WellFormed(r)
      /\ KeepsFlags(sched, r)
      /\ r.curthr = sched.curthr
      /\ OnlyWakes(sched, r, Thread)
      /\ \/ \A t \in Thread : sched.kt_wchan[t] # q
         \/ \E t \in Thread : sched.kt_wchan[t] = q /\ r.kt_wchan[t] = RunQ
  BY <1>1, <1>2, WakeupOnlyWakes
<1>4. sched' = r
  BY <1>2 DEF Interrupt
<1>5. ASSUME NEW x \in Thread
      PROVE  \/ sched'.kt_wchan[x] = sched.kt_wchan[x] /\ sched'.kt_state[x] = sched.kt_state[x]
             \/ /\ sched.kt_wchan[x] \in WaitQueue
                /\ sched'.kt_wchan[x] = RunQ /\ sched'.kt_state[x] = KT_RUN
  BY <1>3, <1>4 DEF OnlyWakes
<1>6. Scheduled'
  <2> SUFFICES ASSUME NEW x \in Thread
               PROVE
    /\ x = sched.curthr => /\ pc[x] \notin {"free", "gone"}
                           /\ sched'.kt_wchan[x] = NoQueue
                           /\ sched'.kt_state[x] \in {KT_RUN, KT_EXITED}
    /\ x # sched.curthr /\ pc[x] \notin {"free", "gone"} =>
         \/ sched'.kt_state[x] = KT_RUN /\ sched'.kt_wchan[x] = RunQ
         \/ sched'.kt_state[x] \in Asleep /\ sched'.kt_wchan[x] \in WaitQueue
    /\ pc[x] = "gone" => /\ sched'.kt_wchan[x] = NoQueue
                         /\ \/ sched'.kt_state[x] = KT_EXITED
                            \/ BlockingCleanup /\ sched'.kt_state[x] = KT_RUN
    /\ pc[x] = "free" => /\ sched'.kt_wchan[x] = NoQueue
                         /\ sched'.kt_state[x] = KT_NO_STATE
    BY <1>1, <1>3, <1>4 DEF Scheduled, Alive
  <2> QED BY <1>5, SchedAssumption DEF IInv, Scheduled, Alive
<1>7. /\ WellFormed(sched') /\ sched'.kt_cancelled = sched.kt_cancelled
      /\ sched'.curthr = sched.curthr
      /\ \A x \in Thread : sched'.kt_wchan[x] \in {sched.kt_wchan[x], RunQ, NoQueue}
  BY <1>3, <1>4, <1>5 DEF KeepsFlags
<1> QED BY <1>1, <1>6, <1>7, SchedulerStep

\* Nothing happens.
LEMMA NothingChanges ==
  ASSUME IInv, UNCHANGED vars
  PROVE  IInv'
<1>1. /\ sched' = sched /\ kt_retval' = kt_retval /\ next_pid' = next_pid
      /\ pc' = pc /\ wpid' = wpid
      /\ UNCHANGED <<family, kt_retval, next_pid, pc, wpid>>
  BY DEF vars
<1>2. Scheduled'
  BY <1>1 DEF IInv, Scheduled, Alive
<1>3. WellFormed(sched')
  BY <1>1 DEF IInv, TypeOK, WellFormed
<1> QED BY <1>1, <1>2, <1>3, SchedulerStep

-----------------------------------------------------------------------------
(* The theorems.                                                           *)

\* The machine starts with a family of three.
LEMMA InitialFamily ==
  ASSUME Init
  PROVE  IInv
<1>1. /\ {PID_IDLE, PID_INIT, Pageoutd} \subseteq Thread
      /\ PID_IDLE # PID_INIT /\ PID_IDLE # Pageoutd /\ PID_INIT # Pageoutd
      /\ RunQ \in Queue /\ NoQueue \notin Queue /\ NoThread \notin Thread
      /\ RunQ \notin WaitQueue
      /\ \A u \in UserPids : u \in Thread /\ u \notin {PID_IDLE, PID_INIT, Pageoutd}
  BY Identities, SchedAssumption DEF Queue
<1>2. ASSUME NEW q \in Queue
      PROVE  sched.tq_list[q] = IF q = RunQ THEN <<Pageoutd, PID_INIT>> ELSE << >>
  BY DEF Init
<1>3. ASSUME NEW t \in Thread
      PROVE  /\ sched.kt_wchan[t] = IF t \in {PID_INIT, Pageoutd} THEN RunQ ELSE NoQueue
             /\ sched.kt_state[t] = IF t \in {PID_IDLE, PID_INIT, Pageoutd}
                                    THEN KT_RUN ELSE KT_NO_STATE
             /\ sched.kt_cancelled[t] = FALSE
             /\ p_state[t] = IF t \in {PID_IDLE, PID_INIT, Pageoutd}
                             THEN "PROC_RUNNING" ELSE "PROC_FREE"
             /\ p_pproc[t] = IF t \in {PID_INIT, Pageoutd} THEN PID_IDLE ELSE NoThread
             /\ p_children[t] = IF t = PID_IDLE THEN <<PID_INIT, Pageoutd>> ELSE << >>
             /\ wpid[t] = AnyChild
  BY DEF Init
<1>4. ASSUME NEW t \in Thread
      PROVE  /\ t = PID_IDLE => pc[t] = "boot"
             /\ t = PID_INIT => pc[t] = "user"
             /\ t = Pageoutd => pc[t] = "daemon"
             /\ t \notin {PID_IDLE, PID_INIT, Pageoutd} => pc[t] = "free"
  BY <1>1 DEF Init
<1>5. proc_list = <<PID_IDLE, PID_INIT, Pageoutd>> /\ sched.curthr = PID_IDLE
  BY DEF Init
<1>6. /\ \A x : ~Contains(<< >>, x)
      /\ \A a, b, x : Contains(<<a, b>>, x) <=> x \in {a, b}
      /\ \A a, b, c, x : Contains(<<a, b, c>>, x) <=> x \in {a, b, c}
  BY DEF Contains
<1>7. /\ IsInjective(<< >>)
      /\ \A a, b : a # b => IsInjective(<<a, b>>)
      /\ \A a, b, c : a # b /\ a # c /\ b # c => IsInjective(<<a, b, c>>)
  BY DEF IsInjective
<1>8. TypeOK
  <2>1. sched \in SchedState
    <3>1. sched.tq_list \in [Queue -> Seq(Thread)]
      <4>1. << >> \in Seq(Thread) /\ <<Pageoutd, PID_INIT>> \in Seq(Thread)
        BY <1>1
      <4> QED BY <4>1 DEF Init
    <3>2. sched.kt_wchan \in [Thread -> Queue \cup {NoQueue}]
      BY <1>1 DEF Init
    <3>3. sched.kt_state \in [Thread -> KtState]
      BY DEF Init, KtState
    <3>4. sched.kt_cancelled \in [Thread -> BOOLEAN]
      BY DEF Init
    <3>5. sched.curthr \in Thread \cup {NoThread}
      BY <1>1, <1>5
    <3>6. sched = [tq_list |-> sched.tq_list, kt_wchan |-> sched.kt_wchan,
                   kt_state |-> sched.kt_state, kt_cancelled |-> sched.kt_cancelled,
                   curthr |-> sched.curthr]
      BY DEF Init
    <3> QED BY <3>1, <3>2, <3>3, <3>4, <3>5, <3>6 DEF SchedState
  <2>2. p_children \in [Thread -> Seq(Thread)]
    <3>1. << >> \in Seq(Thread) /\ <<PID_INIT, Pageoutd>> \in Seq(Thread)
      BY <1>1
    <3> QED BY <3>1 DEF Init
  <2>3. proc_list \in Seq(Thread)
    BY <1>1, <1>5
  <2>4. next_pid \in Thread
    <3>1. /\ PROC_MAX_COUNT \in Nat /\ PROC_MAX_COUNT > 0 /\ Pageoutd \in Nat
          /\ Thread = 0 .. PROC_MAX_COUNT - 1
      BY ProcAssumption DEF Pageoutd
    <3>2. next_pid = (Pageoutd + 1) % PROC_MAX_COUNT
      BY DEF Init
    <3> QED BY <3>1, <3>2
  <2>5. pc \in [Thread -> Place]
    <3>1. \A t \in Thread : pc[t] \in Place
      BY <1>4 DEF Place
    <3>2. pc = [t \in Thread |-> pc[t]]
      BY DEF Init
    <3> QED BY <3>1, <3>2
  <2>6. /\ p_state \in [Thread -> {"PROC_FREE", "PROC_RUNNING", "PROC_DEAD"}]
        /\ p_pproc \in [Thread -> Thread \cup {NoThread}]
        /\ p_status \in [Thread -> Status]
        /\ kt_retval \in [Thread -> Status]
        /\ wpid \in [Thread -> Thread \cup {AnyChild}]
    BY <1>1 DEF Init, Status
  <2> QED BY <2>1, <2>2, <2>3, <2>4, <2>5, <2>6 DEF TypeOK
<1>9. Linked(sched)
  <2>1. ASSUME NEW q \in Queue, NEW t \in Thread
        PROVE  /\ IsInjective(sched.tq_list[q])
               /\ Contains(sched.tq_list[q], t) <=> sched.kt_wchan[t] = q
    <3>1. CASE q = RunQ
      <4>1. sched.tq_list[q] = <<Pageoutd, PID_INIT>>
        BY <1>2, <3>1
      <4>2. /\ IsInjective(<<Pageoutd, PID_INIT>>)
            /\ Contains(<<Pageoutd, PID_INIT>>, t) <=> t \in {PID_INIT, Pageoutd}
        BY <1>1, <1>6, <1>7
      <4>3. sched.kt_wchan[t] = RunQ <=> t \in {PID_INIT, Pageoutd}
        BY <1>1, <1>3
      <4> QED BY <3>1, <4>1, <4>2, <4>3
    <3>2. CASE q # RunQ
      <4>1. sched.tq_list[q] = << >>
        BY <1>2, <3>2
      <4>2. sched.kt_wchan[t] # q
        BY <1>1, <1>3, <3>2
      <4>3. IsInjective(<< >>) /\ ~Contains(<< >>, t)
        BY <1>6, <1>7
      <4> QED BY <4>1, <4>2, <4>3
    <3> QED BY <3>1, <3>2
  <2>2. \E t : t \in Thread
    BY <1>1
  <2> QED BY <2>1, <2>2 DEF Linked
<1>10. Roles
  BY <1>1, <1>3, <1>4 DEF Roles
<1>11. Scheduled
  BY <1>1, <1>3, <1>4, <1>5 DEF Scheduled, Alive
<1>12. OwnWaits
  BY <1>3, Identities DEF OwnWaits
<1>13. Family
  <2>1. IsInjective(proc_list)
    BY <1>1, <1>5, <1>7
  <2>2. ASSUME NEW t \in Thread
        PROVE  /\ Contains(proc_list, t) <=> pc[t] # "free"
               /\ p_state[t] = "PROC_FREE" <=> pc[t] = "free"
    <3>1. pc[t] = "free" <=> t \notin {PID_IDLE, PID_INIT, Pageoutd}
      BY <1>4
    <3>2. Contains(proc_list, t) <=> t \in {PID_IDLE, PID_INIT, Pageoutd}
      BY <1>5, <1>6
    <3>3. p_state[t] = "PROC_FREE" <=> t \notin {PID_IDLE, PID_INIT, Pageoutd}
      BY <1>3
    <3> QED BY <3>1, <3>2, <3>3
  <2>3. ASSUME NEW t \in Thread, NEW c \in Thread
        PROVE  /\ IsInjective(p_children[t])
               /\ Contains(p_children[t], c) <=> p_pproc[c] = t
    <3>0. p_pproc[c] = IF c \in {PID_INIT, Pageoutd} THEN PID_IDLE ELSE NoThread
      BY <1>3
    <3>1. CASE t = PID_IDLE
      <4>1. p_children[t] = <<PID_INIT, Pageoutd>>
        BY <1>3, <3>1
      <4>2. /\ IsInjective(<<PID_INIT, Pageoutd>>)
            /\ Contains(<<PID_INIT, Pageoutd>>, c) <=> c \in {PID_INIT, Pageoutd}
        BY <1>1, <1>6, <1>7
      <4>3. p_pproc[c] = PID_IDLE <=> c \in {PID_INIT, Pageoutd}
        BY <1>1, <3>0
      <4> QED BY <3>1, <4>1, <4>2, <4>3
    <3>2. CASE t # PID_IDLE
      <4>1. p_children[t] = << >>
        BY <1>3, <3>2
      <4>2. p_pproc[c] # t
        BY <1>1, <3>0, <3>2
      <4>3. IsInjective(<< >>) /\ ~Contains(<< >>, c)
        BY <1>6, <1>7
      <4> QED BY <4>1, <4>2, <4>3
    <3> QED BY <3>1, <3>2
  <2>4. ASSUME NEW c \in Thread
        PROVE  /\ p_pproc[c] = NoThread <=> c = PID_IDLE \/ pc[c] = "free"
               /\ p_pproc[c] # NoThread => Alive(p_pproc[c])
    <3>0. p_pproc[c] = IF c \in {PID_INIT, Pageoutd} THEN PID_IDLE ELSE NoThread
      BY <1>3
    <3>1. pc[c] = "free" <=> c \notin {PID_IDLE, PID_INIT, Pageoutd}
      BY <1>4
    <3>2. pc[PID_IDLE] = "boot" /\ PID_IDLE # NoThread
      BY <1>1, <1>4
    <3> QED BY <1>1, <3>0, <3>1, <3>2 DEF Alive
  <2>5. /\ p_pproc[PID_INIT] \in {PID_IDLE, NoThread}
        /\ p_pproc[Pageoutd] \in {PID_IDLE, NoThread}
        /\ \A u \in UserPids : p_pproc[u] \notin {PID_IDLE, Pageoutd}
    <3>1. \A c \in Thread :
            p_pproc[c] = IF c \in {PID_INIT, Pageoutd} THEN PID_IDLE ELSE NoThread
      BY <1>3
    <3>2. PID_IDLE # NoThread /\ Pageoutd # NoThread
      BY <1>1
    <3> QED BY <1>1, <3>1, <3>2
  <2> QED BY <1>1, <2>1, <2>2, <2>3, <2>4, <2>5 DEF Family
<1>14. Elders
  <2>1. /\ DOMAIN proc_list = 1 .. 3
        /\ proc_list[1] = PID_IDLE /\ proc_list[2] = PID_INIT /\ proc_list[3] = Pageoutd
    BY <1>5
  <2>2. /\ p_pproc[PID_IDLE] = NoThread
        /\ p_pproc[PID_INIT] = PID_IDLE /\ p_pproc[Pageoutd] = PID_IDLE
    BY <1>1, <1>3
  <2> SUFFICES ASSUME NEW i \in 1 .. 3, NEW j \in 1 .. 3,
                      \/ p_pproc[proc_list[i]] = proc_list[j]
                      \/ proc_list[i] \in UserPids /\ proc_list[j] = PID_INIT
               PROVE  j < i
    BY <2>1 DEF Elders
  <2>3. i \in {1, 2, 3} /\ j \in {1, 2, 3}
    OBVIOUS
  <2>4. i # 1 /\ j = 1
    BY <1>1, <2>1, <2>2, <2>3
  <2> QED BY <2>3, <2>4
<1>15. Phases
  BY <1>1, <1>3, <1>4 DEF Phases
<1>16. Dying
  BY <1>1, <1>3, <1>4 DEF Dying
<1>17. Orderly
  <2>1. NoHopelessWait
    BY <1>3, Identities DEF NoHopelessWait
  <2> QED BY <1>4, <2>1 DEF Orderly
<1> QED BY <1>8, <1>9, <1>10, <1>11, <1>12, <1>13, <1>14, <1>15, <1>16, <1>17 DEF IInv

\* Every step keeps the invariant.
LEMMA StepKeepsInvariant ==
  ASSUME IInv, [Next]_vars
  PROVE  IInv'
<1>1. CASE Dispatch
  BY <1>1, Dispatch_Keeps
<1>2. CASE Interrupt(DiskQ) \/ Interrupt(TtyQ)
  BY <1>2, Interrupt_Keeps, Identities
<1>3. ASSUME NEW p \in Thread, ProcStep(p) PROVE IInv'
  <2>1. CASE do_fork(p)
    BY <2>1, do_fork_Keeps
  <2>2. CASE Exit(p)
    BY <2>2, Exit_Keeps
  <2>3. CASE proc_cleanup_Continues(p)
    BY <2>3, proc_cleanup_Continues_Keeps
  <2>4. CASE SyscallTrap(p)
    BY <2>4, SyscallTrap_Keeps
  <2>5. CASE SyscallReturn(p)
    BY <2>5, SyscallReturn_Keeps
  <2>6. CASE sys_waitpid(p)
    BY <2>6, sys_waitpid_Keeps
  <2>7. CASE InitWaits(p)
    BY <2>7, InitWaits_Keeps
  <2>8. CASE do_waitpid_Continues(p)
    BY <2>8, do_waitpid_Continues_Keeps
  <2>9. CASE DiskIO(p)
    BY <2>9, DiskIO_Keeps
  <2>10. CASE TtyRead(p)
    BY <2>10, TtyRead_Keeps
  <2>11. CASE TtyRead_Continues(p)
    BY <2>11, TtyRead_Continues_Keeps
  <2>12. CASE proc_kill_all(p)
    BY <2>12, proc_kill_all_Keeps
  <2>13. CASE idleproc_run(p)
    BY <2>13, idleproc_run_Keeps
  <2>14. CASE pageoutd_run(p)
    BY <2>14, pageoutd_run_Keeps
  <2> QED BY <1>3, <2>1, <2>2, <2>3, <2>4, <2>5, <2>6, <2>7, <2>8, <2>9, <2>10, <2>11,
             <2>12, <2>13, <2>14 DEF ProcStep
<1>4. CASE Off \/ UNCHANGED vars
  BY <1>4, NothingChanges DEF Off
<1> QED BY <1>1, <1>2, <1>3, <1>4 DEF Next

\* The inductive invariant holds in every reachable state.
THEOREM InvariantHolds == Spec => []IInv
<1>1. Init => IInv
  BY InitialFamily
<1>2. IInv /\ [Next]_vars => IInv'
  BY StepKeepsInvariant
<1> QED BY <1>1, <1>2, PTL DEF Spec

\* The children lists, the parent pointers, the process list and the slots in
\* use always tell the same story, whatever is forked, killed, reaped or
\* inherited by init (proc_create, proc_cleanup, cleanupDeadProcess).
THEOREM FamilyTreeHolds == Spec => []FamilyTree
<1>1. IInv => FamilyTree
  <2> SUFFICES ASSUME IInv PROVE FamilyTree
    OBVIOUS
  <2>1. ASSUME NEW c \in Thread, p_pproc[c] # NoThread
        PROVE  p_state[c] # "PROC_FREE" /\ pc[p_pproc[c]] \notin {"gone", "free"}
    BY <2>1 DEF IInv, Family, Alive
  <2>2. \A c \in Thread \ {PID_IDLE} : p_state[c] # "PROC_FREE" => p_pproc[c] # NoThread
    BY DEF IInv, Family
  <2>3. \A p \in Thread : Contains(proc_list, p) <=> p_state[p] # "PROC_FREE"
    BY DEF IInv, Family
  <2> QED BY <2>1, <2>2, <2>3 DEF IInv, Family, FamilyTree
<1> QED BY <1>1, InvariantHolds, PTL

\* Unless closing files in proc_cleanup can sleep, every process that sleeps in
\* do_waitpid has a child that has yet to exit and wake it.
THEOREM NoWaitIsHopeless ==
  ASSUME BlockingCleanup = FALSE
  PROVE  Spec => []NoHopelessWait
<1>1. IInv => NoHopelessWait
  BY DEF IInv, Orderly
<1> QED BY <1>1, InvariantHolds, PTL

\* Unless closing files in proc_cleanup can sleep, the assertions on who is
\* reaped, and when, hold, and the machine halts with idle as its only process.
THEOREM NobodyPanics ==
  ASSUME BlockingCleanup = FALSE
  PROVE  Spec => []NoPanic
<1>1. IInv => NoPanic
  <2> SUFFICES ASSUME IInv PROVE NoPanic
    OBVIOUS
  <2>1. \A p \in Thread : pc[p] # "panic"
    BY DEF IInv, Orderly
  <2>2. ASSUME pc[PID_IDLE] = "halted" PROVE proc_list = <<PID_IDLE>>
    <3>1. /\ proc_list \in Seq(Thread) /\ IsInjective(proc_list)
          /\ pc[PID_IDLE] # "free"
      BY <2>2, Identities DEF IInv, TypeOK, Family
    <3>2. \A t \in Thread : Contains(proc_list, t) <=> t = PID_IDLE
      BY <2>2, Identities DEF IInv, Family, Phases
    <3>3. /\ Len(proc_list) \in Nat /\ DOMAIN proc_list = 1 .. Len(proc_list)
          /\ \A i \in 1 .. Len(proc_list) : proc_list[i] \in Thread
      BY <3>1, LenProperties, ElementOfSeq
    <3>4. \A i \in 1 .. Len(proc_list) : proc_list[i] = PID_IDLE
      BY <3>2, <3>3 DEF Contains
    <3>5. \A i, j \in 1 .. Len(proc_list) : i = j
      BY <3>1, <3>3, <3>4 DEF IsInjective
    <3>6. Len(proc_list) # 0
      BY <3>2, <3>3, Identities DEF Contains
    <3>7. Len(proc_list) = 1
      <4>1. ASSUME Len(proc_list) > 1 PROVE FALSE
        <5>1. 1 \in 1 .. Len(proc_list) /\ 2 \in 1 .. Len(proc_list)
          BY <3>3, <4>1
        <5> QED BY <3>5, <5>1
      <4> QED BY <3>3, <3>6, <4>1
    <3> QED BY <3>1, <3>4, <3>7
  <2> QED BY <2>1, <2>2 DEF NoPanic
<1> QED BY <1>1, InvariantHolds, PTL

-----------------------------------------------------------------------------
(* Which processes a step is about.                                        *)

\* A step leaves a process where it is, with its state and its exit status.
Untouched(t) == /\ pc'[t] = pc[t] /\ p_state'[t] = p_state[t]
                /\ p_status'[t] = p_status[t]

\* The running thread goes on, and may die, alone.
Alone(p) ==
  /\ pc'[p] # "free"
  /\ \A t \in Thread \ {p} : Untouched(t)

\* The running thread disposes of a child that has exited.
Reaps(p) ==
  \E c \in Thread :
    /\ pc[c] = "gone" /\ p_pproc[c] = p /\ pc'[c] = "free"
    /\ pc'[p] # "free"
    /\ \A t \in Thread \ {p, c} : Untouched(t)

\* The running thread fills a free slot.
Forks(p) ==
  \E c \in Thread : /\ pc[c] = "free" /\ pc'[c] # "free"
                    /\ \A t \in Thread \ {c} : Untouched(t)

\* A pass of do_waitpid touches the caller and at most one dead child.
LEMMA do_waitpid_Touches ==
  ASSUME IInv, NEW p \in Thread, sched.curthr = p, NEW pid, NEW s, Reached(p, s),
         NEW place, place # "free", do_waitpid(p, pid, s, place)
  PROVE  Alone(p) \/ Reaps(p)
<1>1. /\ DOMAIN pc = Thread /\ DOMAIN p_state = Thread /\ DOMAIN p_status = Thread
      /\ pc[p] # "free"
  BY RunningThread DEF IInv, TypeOK
<1>2. \A ret : AfterWait(p, ret) # "free"
  BY DEF AfterWait, init_main
<1>3. ASSUME UNCHANGED family,
             NEW next, next # "free", pc' = [pc EXCEPT ![p] = next]
      PROVE  Alone(p)
  BY <1>1, <1>3 DEF family, Alone, Untouched
<1>4. ASSUME NEW c \in FirstDead(p, pid), ReapAsserts(c, s), cleanupDeadProcess(p, c, s)
      PROVE  Reaps(p)
  <2>1. c \in Dead(p, pid)
    BY DEF FirstDead
  <2>2. /\ c \in Thread /\ c # p /\ p_pproc[c] = p /\ pid \in {AnyChild, c}
        /\ ReapAsserts(c, s) => pc[c] = "gone"
        /\ ~ReapAsserts(c, s) => BlockingCleanup
    BY <2>1, DeadChildIsGone
  <2>3. PICK next : next = AfterWait(p, c)
    OBVIOUS
  <2>4. /\ pc' = [pc EXCEPT ![p] = next, ![c] = "free"]
        /\ p_state' = [p_state EXCEPT ![c] = "PROC_FREE"]
        /\ p_status' = [p_status EXCEPT ![c] = "zero"]
    BY <1>4, <2>3 DEF cleanupDeadProcess
  <2> QED BY <1>1, <1>2, <1>4, <2>2, <2>3, <2>4 DEF Reaps, Untouched
<1>5. CASE UNCHANGED family /\ GoTo(p, AfterWait(p, ECHILD))
  <2>1. PICK next : next = AfterWait(p, ECHILD)
    OBVIOUS
  <2> QED BY <1>2, <1>3, <1>5, <2>1 DEF GoTo
<1>6. CASE UNCHANGED family /\ (GoTo(p, "panic") \/ GoTo(p, place))
  BY <1>3, <1>6 DEF GoTo
<1> QED BY <1>4, <1>5, <1>6 DEF do_waitpid

\* An exit touches nobody but the exiting process, whether or not it sleeps.
LEMMA kthread_exit_Touches ==
  ASSUME IInv, NEW p \in Thread, sched.curthr = p, NEW s, NEW retvals, NEW retval,
         kthread_exit(p, s, retvals, retval)
  PROVE  Alone(p)
<1>1. DOMAIN pc = Thread /\ DOMAIN p_state = Thread /\ DOMAIN p_status = Thread
  BY DEF IInv, TypeOK
<1>2. /\ pc' = [pc EXCEPT ![p] = "gone"] \/ pc' = [pc EXCEPT ![p] = "cleanup"]
      /\ p_state' = p_state \/ p_state' = [p_state EXCEPT ![p] = "PROC_DEAD"]
      /\ p_status' = [p_status EXCEPT ![p] = retval]
  BY DEF kthread_exit, Bury, GoTo
<1> QED BY <1>1, <1>2 DEF Alone, Untouched

\* A step of a process goes on alone, reaps a child or forks one.
LEMMA ProcStepTouches ==
  ASSUME IInv, NEW p \in Thread, ProcStep(p)
  PROVE  sched.curthr = p /\ (Alone(p) \/ Reaps(p) \/ Forks(p))
<1>1. sched.curthr = p
  BY DEF ProcStep, do_fork, Exit, proc_cleanup_Continues, SyscallTrap, SyscallReturn,
         sys_waitpid, InitWaits, do_waitpid_Continues, DiskIO, TtyRead,
         TtyRead_Continues, proc_kill_all, idleproc_run, pageoutd_run, Runs
<1>2. /\ DOMAIN pc = Thread /\ DOMAIN p_state = Thread /\ DOMAIN p_status = Thread
      /\ pc[p] # "free"
  BY <1>1, RunningThread DEF IInv, TypeOK
<1>3. Reached(p, sched)
  BY <1>1, NothingReached
<1>4. CASE do_fork(p)
  <2>1. pc[p] = "user"
    BY <1>4 DEF do_fork, Runs
  <2>2. PICK c \in Thread : _proc_getid(c) /\ proc_create(c, p) /\ kthread_clone(c, p)
    BY <1>4 DEF do_fork
  <2>3. pc[c] = "free"
    BY <2>1, <2>2, ForkedPid
  <2>4. /\ pc' = [pc EXCEPT ![c] = "user"]
        /\ p_state' = [p_state EXCEPT ![c] = "PROC_RUNNING"]
        /\ p_status' = [p_status EXCEPT ![c] = "zero"]
    BY <2>2 DEF proc_create, kthread_clone
  <2>5. Forks(p)
    BY <1>2, <2>3, <2>4 DEF Forks, Untouched
  <2> QED BY <1>1, <2>5
<1>5. ASSUME NEW s, NEW retvals, NEW retval, kthread_exit(p, s, retvals, retval)
      PROVE  Alone(p)
  BY <1>1, <1>5, kthread_exit_Touches
<1>6. CASE Exit(p) \/ SyscallTrap(p) \/ proc_kill_all(p)
  BY <1>1, <1>5, <1>6 DEF Exit, SyscallTrap, proc_kill_all, do_exit
<1>7. CASE proc_cleanup_Continues(p)
  <2>1. /\ pc' = [pc EXCEPT ![p] = "gone"]
        /\ p_state' = [p_state EXCEPT ![p] = "PROC_DEAD"]
        /\ \E retval : p_status' = [p_status EXCEPT ![p] = retval]
    BY <1>7 DEF proc_cleanup_Continues, Bury, GoTo
  <2> QED BY <1>1, <1>2, <2>1 DEF Alone, Untouched
<1>8. CASE SyscallReturn(p) \/ DiskIO(p) \/ TtyRead(p)
  <2>1. /\ UNCHANGED family
        /\ \E next \in {"user", "sysret", "tty"} : pc' = [pc EXCEPT ![p] = next]
    BY <1>8 DEF SyscallReturn, DiskIO, TtyRead, GoTo
  <2> QED BY <1>1, <1>2, <2>1 DEF family, Alone, Untouched
<1>9. CASE TtyRead_Continues(p)
  <2>1. /\ p_state' = p_state \/ p_state' = [p_state EXCEPT ![p] = "PROC_DEAD"]
        /\ p_status' = p_status
        /\ pc' = [pc EXCEPT ![p] = "sysret"]
    BY <1>9 DEF TtyRead_Continues, GoTo
  <2> QED BY <1>1, <1>2, <2>1 DEF Alone, Untouched
<1>10. CASE pageoutd_run(p)
  <2>1. CASE UNCHANGED <<family, pc>>
    BY <1>1, <1>2, <2>1 DEF family, Alone, Untouched
  <2> QED BY <1>1, <1>5, <1>10, <2>1 DEF pageoutd_run
<1>11. CASE sys_waitpid(p) \/ InitWaits(p) \/ do_waitpid_Continues(p)
  <2>1. \E pid, place : place # "free" /\ do_waitpid(p, pid, sched, place)
    BY <1>2, <1>11 DEF sys_waitpid, InitWaits, do_waitpid_Continues
  <2> QED BY <1>1, <1>3, <2>1, do_waitpid_Touches
<1>12. CASE idleproc_run(p)
  <2>1. PICK pid, place, s : /\ place # "free"
                             /\ s = sched \/ s = sched_cancel(sched, Pageoutd)
                             /\ do_waitpid(p, pid, s, place)
    BY <1>12 DEF idleproc_run
  <2>2. p # Pageoutd
    BY <1>12, Identities DEF idleproc_run
  <2>3. Reached(p, s)
    BY <1>1, <1>3, <2>1, <2>2, CancelIsReached
  <2> QED BY <1>1, <2>1, <2>3, do_waitpid_Touches
<1> QED BY <1>1, <1>4, <1>6, <1>7, <1>8, <1>9, <1>10, <1>11, <1>12 DEF ProcStep

\* What a step does to any process: it stays put, runs itself, is created, or
\* is reaped by its running parent.
LEMMA FateOfAProcess ==
  ASSUME IInv, [Next]_vars, NEW c \in Thread
  PROVE  \/ Untouched(c)
         \/ pc[c] \notin {"free", "gone"} /\ pc'[c] # "free"
         \/ pc[c] = "free" /\ pc'[c] # "free"
         \/ pc[c] = "gone" /\ pc'[c] = "free" /\ sched.curthr = p_pproc[c]
<1>1. CASE Dispatch \/ Interrupt(DiskQ) \/ Interrupt(TtyQ) \/ Off \/ UNCHANGED vars
  BY <1>1 DEF Dispatch, Interrupt, Off, vars, family, Untouched
<1>2. ASSUME NEW p \in Thread, ProcStep(p)
      PROVE  \/ Untouched(c)
             \/ pc[c] \notin {"free", "gone"} /\ pc'[c] # "free"
             \/ pc[c] = "free" /\ pc'[c] # "free"
             \/ pc[c] = "gone" /\ pc'[c] = "free" /\ sched.curthr = p_pproc[c]
  <2>1. sched.curthr = p /\ (Alone(p) \/ Reaps(p) \/ Forks(p))
    BY <1>2, ProcStepTouches
  <2>2. pc[p] \notin {"free", "gone"}
    BY <2>1, RunningThread
  <2>3. CASE Alone(p)
    BY <2>2, <2>3 DEF Alone
  <2>4. CASE Reaps(p)
    BY <2>1, <2>2, <2>4 DEF Reaps
  <2>5. CASE Forks(p)
    BY <2>5 DEF Forks
  <2> QED BY <2>1, <2>3, <2>4, <2>5
<1> QED BY <1>1, <1>2 DEF Next

\* No process is freed before its thread has left the CPU for good, even if a
\* cancelled sleep has made it PROC_DEAD early (cleanupDeadProcess).
THEOREM NobodyIsReapedAlive == Spec => NotReapedAlive
<1>1. IInv /\ [Next]_vars =>
        [\A c \in Thread : pc'[c] = "free" => pc[c] \in {"free", "gone"}]_vars
  <2> SUFFICES ASSUME IInv, [Next]_vars, NEW c \in Thread, pc'[c] = "free"
               PROVE  pc[c] \in {"free", "gone"}
    OBVIOUS
  <2> QED BY FateOfAProcess DEF Untouched
<1> QED BY <1>1, InvariantHolds, PTL DEF Spec, NotReapedAlive

\* Nobody but its running parent disposes of a zombie, and until then its exit
\* status stays (do_waitpid, cleanupDeadProcess).
THEOREM ZombiesKeepTheirStatus == Spec => ZombiesAwaitTheirParent
<1>1. IInv /\ [Next]_vars =>
        [\A c \in Thread :
           pc[c] = "gone" =>
             \/ pc'[c] = "gone" /\ p_state'[c] = "PROC_DEAD"
                                /\ p_status'[c] = p_status[c]
             \/ pc'[c] = "free" /\ sched.curthr = p_pproc[c]]_vars
  <2> SUFFICES ASSUME IInv, [Next]_vars, NEW c \in Thread, pc[c] = "gone"
               PROVE  \/ pc'[c] = "gone" /\ p_state'[c] = "PROC_DEAD"
                                         /\ p_status'[c] = p_status[c]
                      \/ pc'[c] = "free" /\ sched.curthr = p_pproc[c]
    OBVIOUS
  <2>1. p_state[c] = "PROC_DEAD"
    BY DEF IInv, Dying
  <2> QED BY <2>1, FateOfAProcess DEF Untouched
<1> QED BY <1>1, InvariantHolds, PTL DEF Spec, ZombiesAwaitTheirParent
=============================================================================
