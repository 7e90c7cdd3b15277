-------------------------------- MODULE Proc --------------------------------
(***************************************************************************)
(* Processes (kernel/proc/proc.c, kthread.c, fork.c): creation, exit,      *)
(* waitpid, cancellation and the orderly shutdown of the machine, with the *)
(* processes that make it up: the idle process and the init process        *)
(* (kernel/main/kmain.c, user/sbin/init.c), the pageout daemon             *)
(* (kernel/mm/pframe.c) and user processes that make system calls.         *)
(*                                                                         *)
(* A process has one thread, so processes, threads and pids are the same   *)
(* numbers.  A process slot that is not in use is PROC_FREE.               *)
(***************************************************************************)
EXTENDS Sched, Integers

CONSTANTS
  PROC_MAX_COUNT,
  DiskQ,           \* where threads wait for the disk
  TtyQ,            \* where threads wait for the keyboard
  PageoutdQ,       \* pageoutd_waitq
  BlockingCleanup  \* whether closing files in proc_cleanup may sleep

PID_IDLE  == 0
PID_INIT  == 1
Pageoutd  == 2

p_wait(p) == <<"p_wait", p>>

ASSUME ProcAssumption ==
  /\ PROC_MAX_COUNT \in Nat
  /\ PROC_MAX_COUNT > Pageoutd
  /\ Thread = 0 .. PROC_MAX_COUNT - 1
  /\ WaitQueue = {p_wait(p) : p \in Thread} \cup {DiskQ, TtyQ, PageoutdQ}
  /\ {DiskQ, TtyQ, PageoutdQ} \cap {p_wait(p) : p \in Thread} = {}
  /\ BlockingCleanup \in BOOLEAN

UserPids == Thread \ {PID_IDLE, PID_INIT, Pageoutd}
AnyChild == -1
ECHILD   == -10

(* Exit statuses: what a normal end and an exit(2) give, and what is left  *)
(* of the address of proc_kill's own parameter when it is read as an int.  *)
Status == {"zero", "code", "stack address"}

VARIABLES
  sched,       \* the scheduler
  p_state,     \* PROC_FREE, PROC_RUNNING or PROC_DEAD
  p_pproc,     \* the parent, NoThread for none
  p_children,  \* the children, oldest first
  p_status,    \* the exit status
  kt_retval,   \* the return value of the thread
  proc_list,   \* _proc_list
  next_pid,    \* where the search for a free pid starts
  pc,          \* where each thread continues
  wpid         \* the pid argument of the last do_waitpid

family == <<p_state, p_pproc, p_children, p_status, proc_list>>
vars   == <<sched, family, kt_retval, next_pid, pc, wpid>>

(* The places of a thread:                                                 *)
(*   user             runs a program                                       *)
(*   sysret           a system call has been dispatched and returns        *)
(*   tty              is inside a read from the terminal                   *)
(*   waitpid          is inside do_waitpid                                 *)
(*   cleanup          is inside proc_cleanup, past the wake-up             *)
(*   gone             has made its last sched_switch                       *)
(*   panic            has failed an assertion: the machine stops           *)
(* of init:  reaping, alldone                                              *)
(* of idle:  boot, await init, vfs_shutdown, await pageoutd, halted        *)
(* of pageoutd:  daemon                                                    *)
Place ==
  {"free", "user", "sysret", "tty", "waitpid", "cleanup", "gone", "panic",
   "reaping", "alldone", "boot", "await init", "vfs_shutdown",
   "await pageoutd", "halted", "daemon"}

TypeOK ==
  /\ sched \in SchedState
  /\ p_state \in [Thread -> {"PROC_FREE", "PROC_RUNNING", "PROC_DEAD"}]
  /\ p_pproc \in [Thread -> Thread \cup {NoThread}]
  /\ p_children \in [Thread -> Seq(Thread)]
  /\ p_status \in [Thread -> Status]
  /\ kt_retval \in [Thread -> Status]
  /\ proc_list \in Seq(Thread)
  /\ next_pid \in Thread
  /\ pc \in [Thread -> Place]
  /\ wpid \in [Thread -> Thread \cup {AnyChild}]

(* The idle process has created init and the daemon, made them runnable,   *)
(* and is about to wait for init.                                          *)
Init ==
  LET Created == {PID_IDLE, PID_INIT, Pageoutd}
      Queued  == {PID_INIT, Pageoutd}
  IN
  /\ sched = [tq_list      |-> [q \in Queue |-> IF q = RunQ
                                                THEN <<Pageoutd, PID_INIT>>
                                                ELSE << >>],
              kt_wchan     |-> [t \in Thread |-> IF t \in Queued THEN RunQ
                                                                 ELSE NoQueue],
              kt_state     |-> [t \in Thread |-> IF t \in Created
                                                 THEN KT_RUN ELSE KT_NO_STATE],
              kt_cancelled |-> [t \in Thread |-> FALSE],
              curthr       |-> PID_IDLE]
  /\ p_state = [p \in Thread |-> IF p \in Created THEN "PROC_RUNNING"
                                                  ELSE "PROC_FREE"]
  /\ p_pproc = [p \in Thread |-> IF p \in Queued THEN PID_IDLE ELSE NoThread]
  /\ p_children = [p \in Thread |-> IF p = PID_IDLE THEN <<PID_INIT, Pageoutd>>
                                                    ELSE << >>]
  /\ p_status = [p \in Thread |-> "zero"]
  /\ kt_retval = [p \in Thread |-> "zero"]
  /\ proc_list = <<PID_IDLE, PID_INIT, Pageoutd>>
  /\ next_pid = (Pageoutd + 1) % PROC_MAX_COUNT
  /\ pc = [p \in Thread |-> CASE p = PID_IDLE -> "boot"
                              [] p = PID_INIT -> "user"
                              [] p = Pageoutd -> "daemon"
                              [] OTHER        -> "free"]
  /\ wpid = [p \in Thread |-> AnyChild]

-----------------------------------------------------------------------------
(* The CPU and the devices.                                                *)

Runs(p, place)  == sched.curthr = p /\ pc[p] = place
GoTo(p, place)  == pc' = [pc EXCEPT ![p] = place]
Stopped         == \E p \in Thread : pc[p] \in {"panic", "halted"}

Dispatch ==
  /\ sched.curthr = NoThread
  /\ ~sched_queue_empty(sched, RunQ)
  /\ sched' = SwitchIn(sched)
  /\ UNCHANGED <<family, kt_retval, next_pid, pc, wpid>>

Interrupt(q) ==
  /\ ~Stopped
  /\ ~sched_queue_empty(sched, q)
  /\ sched' = sched_wakeup_on(sched, q)
  /\ UNCHANGED <<family, kt_retval, next_pid, pc, wpid>>

-----------------------------------------------------------------------------
(* Creation.                                                               *)

\* The pids _proc_getid tries, in its order, are next_pid, next_pid + 1, ...
Tried(i) == (next_pid + i) % PROC_MAX_COUNT

\* _proc_getid returns pid, the first one that no process has.
\* Bound: a process is created only while some pid is free.
_proc_getid(pid) ==
  LET Free(i) == ~Contains(proc_list, Tried(i))
  IN  \E i \in Thread : /\ pid = Tried(i)
                        /\ Free(i) /\ \A j \in 0 .. i - 1 : ~Free(j)

NextAfter(pid) == (pid + 1) % PROC_MAX_COUNT

proc_create(pid, parent) ==
  /\ next_pid' = NextAfter(pid)
  /\ p_state' = [p_state EXCEPT ![pid] = "PROC_RUNNING"]
  /\ p_pproc' = [p_pproc EXCEPT ![pid] = parent]
  /\ p_children' = [p_children EXCEPT ![pid] = << >>,
                                      ![parent] = Append(@, pid)]
  /\ p_status' = [p_status EXCEPT ![pid] = "zero"]
  /\ proc_list' = Append(proc_list, pid)

\* The new thread, and the end of do_fork, which makes it runnable.
kthread_clone(pid, thr) ==
  /\ kt_retval' = [kt_retval EXCEPT ![pid] = kt_retval[thr]]
  /\ pc' = [pc EXCEPT ![pid] = "user"]
  /\ sched' = sched_make_runnable(
                [sched EXCEPT !.kt_cancelled[pid] = sched.kt_cancelled[thr]],
                pid)

\* fork(2), by a user process or by init while it starts the shells.
do_fork(p) ==
  /\ Runs(p, "user")
  /\ ~sched.kt_cancelled[p]
  /\ \E pid \in Thread :
       _proc_getid(pid) /\ proc_create(pid, p) /\ kthread_clone(pid, p)
  /\ UNCHANGED wpid

-----------------------------------------------------------------------------
(* Exit.                                                                   *)

\* Seeded fault: orphans move to the list of init but keep their parent.
NewParents_Kept(orphans) == p_pproc

NewParents(orphans) ==
  [c \in Thread |-> IF Contains(orphans, c) THEN PID_INIT ELSE p_pproc[c]]

\* proc_cleanup, once the files are closed, and the last sched_switch.  The
\* exiting thread runs in the scheduler state s with the return value retval.
Bury(p, s, retval) ==
  LET orphans == IF p = PID_INIT THEN << >> ELSE p_children[p]
  IN
  /\ sched' = sched_switch(s)
  /\ p_children' =
       [p_children EXCEPT
          ![p]        = IF p = PID_INIT THEN @ ELSE << >>,
          ![PID_INIT] = @ \o orphans]
  /\ p_pproc' = NewParents(orphans)
  /\ p_status' = [p_status EXCEPT ![p] = retval]
  /\ p_state' = [p_state EXCEPT ![p] = "PROC_DEAD"]
  /\ GoTo(p, "gone")
  /\ UNCHANGED <<proc_list, next_pid, wpid>>

\* Seeded fault: a parent that has been cancelled is not woken.
WakeParent_NotCancelled(p, s) ==
  IF s.kt_cancelled[p_pproc[p]] THEN s
  ELSE sched_wakeup_on(s, p_wait(p_pproc[p]))

WakeParent(p, s) == sched_wakeup_on(s, p_wait(p_pproc[p]))

\* The parent is woken first, and then the files are closed, which may sleep
\* (p_status then keeps the argument of proc_cleanup).
kthread_exit(p, s, retvals, retval) ==
  LET woken == WakeParent(p, ThreadExits(s))
  IN
  /\ kt_retval' = [retvals EXCEPT ![p] = retval]
  /\ \/ Bury(p, woken, retval)
     \/ /\ BlockingCleanup
        /\ sched' = sched_sleep_on(woken, DiskQ)
        /\ p_status' = [p_status EXCEPT ![p] = retval]
        /\ GoTo(p, "cleanup")
        /\ UNCHANGED <<p_state, p_pproc, p_children, proc_list, next_pid, wpid>>

proc_cleanup_Continues(p) ==
  /\ Runs(p, "cleanup")
  /\ Bury(p, sched, p_status[p])
  /\ UNCHANGED kt_retval

do_exit(p, s, retvals, status) ==
  kthread_exit(p, [s EXCEPT !.kt_cancelled[p] = TRUE], retvals, status)

\* exit(2) of a user process, and init's return once it has no more children.
Exit(p) ==
  \/ /\ Runs(p, "user")
     /\ p \in UserPids
     /\ ~sched.kt_cancelled[p]
     /\ \E status \in {"zero", "code"} : do_exit(p, sched, kt_retval, status)
  \/ Runs(p, "alldone") /\ do_exit(p, sched, kt_retval, "zero")

\* A cancelled thread leaves at its next system call, or as one returns.
SyscallTrap(p) ==
  /\ sched.curthr = p
  /\ pc[p] \in {"user", "sysret"}
  /\ sched.kt_cancelled[p]
  /\ kthread_exit(p, sched, kt_retval, kt_retval[p])

\* A system call of a thread that is not cancelled returns to the program.
SyscallReturn(p) ==
  /\ Runs(p, "sysret")
  /\ ~sched.kt_cancelled[p]
  /\ GoTo(p, "user")
  /\ UNCHANGED <<sched, family, kt_retval, next_pid, wpid>>

-----------------------------------------------------------------------------
(* waitpid.                                                                *)

\* The children that do_waitpid looks at, and those of them that are dead.
Awaited(p, pid) == {c \in ToSet(p_children[p]) : pid \in {AnyChild, c}}
Dead(p, pid)    == {c \in Awaited(p, pid) : p_state[c] = "PROC_DEAD"}

\* Seeded fault: the scan goes through all processes.
FirstDead_OfAnyone(p, pid) ==
  {c \in ToSet(proc_list) : pid \in {AnyChild, c} /\ p_state[c] = "PROC_DEAD"}

\* The dead child that comes first in the list, if there is one.
FirstDead(p, pid) ==
  LET list == p_children[p]
  IN  {c \in Dead(p, pid) :
         \E i \in DOMAIN list : /\ list[i] = c
                               /\ \A j \in 1 .. i - 1 : list[j] \notin Dead(p, pid)}

\* The loop of init ends when it has no more children.
init_main(ret) == IF ret = ECHILD THEN "alldone" ELSE "reaping"

\* Where the caller of do_waitpid continues with the value it returned.
AfterWait(p, ret) ==
  CASE p = PID_INIT         -> init_main(ret)
    [] pc[p] = "boot"       -> IF ret = PID_INIT THEN "vfs_shutdown" ELSE "panic"
    [] pc[p] = "await init" -> IF ret = PID_INIT THEN "vfs_shutdown" ELSE "panic"
    [] pc[p] \in {"vfs_shutdown", "await pageoutd"}
                            -> IF ret = Pageoutd THEN "halted" ELSE "panic"
    [] OTHER                -> "sysret"

\* list_remove takes a process off the list it is on.
list_remove(list, c) == IF Contains(list, c) THEN Unlink(list, c) ELSE list

\* The dead child c of p leaves the lists and its slot is free again.
cleanupDeadProcess(p, c, s) ==
  /\ sched' = [s EXCEPT !.kt_state[c] = KT_NO_STATE, !.kt_cancelled[c] = FALSE]
  /\ kt_retval' = [kt_retval EXCEPT ![c] = "zero"]
  /\ p_children' = [p_children EXCEPT ![p] = list_remove(@, c)]
  /\ proc_list' = list_remove(proc_list, c)
  /\ p_state' = [p_state EXCEPT ![c] = "PROC_FREE"]
  /\ p_pproc' = [p_pproc EXCEPT ![c] = NoThread]
  /\ p_status' = [p_status EXCEPT ![c] = "zero"]
  /\ pc' = [pc EXCEPT ![p] = AfterWait(p, c), ![c] = "free"]
  /\ wpid' = [wpid EXCEPT ![p] = AnyChild, ![c] = AnyChild]

\* Seeded fault: the thread to be freed is not looked at.
ReapAsserts_Nothing(c, s) == TRUE

\* The assertion of cleanupDeadProcess.
ReapAsserts(c, s) == s.kt_state[c] = KT_EXITED

\* One pass over the children, at the call or after a wake-up, by the running
\* thread p in the scheduler state s.  A caller that has to sleep continues
\* at place.
do_waitpid(p, pid, s, place) ==
  /\ UNCHANGED next_pid
  /\ \/ /\ Awaited(p, pid) = {}
        /\ GoTo(p, AfterWait(p, ECHILD))
        /\ sched' = s
        /\ UNCHANGED <<family, kt_retval, wpid>>
     \/ \E c \in FirstDead(p, pid) :
          ReapAsserts(c, s) /\ cleanupDeadProcess(p, c, s)
     \/ /\ \E c \in FirstDead(p, pid) : ~ReapAsserts(c, s)
        /\ GoTo(p, "panic")
        /\ sched' = s
        /\ UNCHANGED <<family, kt_retval, wpid>>
     \/ /\ Awaited(p, pid) # {}
        /\ Dead(p, pid) = {}
        /\ sched' = sched_sleep_on(s, p_wait(p))
        /\ GoTo(p, place)
        /\ wpid' = [wpid EXCEPT ![p] = pid]
        /\ UNCHANGED <<family, kt_retval>>

\* A user process waits for any child, for a given one, or for a stranger.
sys_waitpid(p) ==
  /\ Runs(p, "user")
  /\ p \in UserPids
  /\ ~sched.kt_cancelled[p]
  /\ \E pid \in {AnyChild, p} \cup ToSet(p_children[p]) :
       do_waitpid(p, pid, sched, "waitpid")

\* Init has started its shells, or has reaped a child, and waits.
InitWaits(p) ==
  /\ p = PID_INIT
  /\ sched.curthr = p
  /\ pc[p] \in {"user", "reaping"}
  /\ do_waitpid(p, AnyChild, sched, "waitpid")

do_waitpid_Continues(p) ==
  /\ sched.curthr = p
  /\ pc[p] \in {"waitpid", "await init", "await pageoutd"}
  /\ do_waitpid(p, wpid[p], sched, pc[p])

-----------------------------------------------------------------------------
(* The devices, as system calls use them.                                  *)

\* A system call that waits for the disk.
DiskIO(p) ==
  /\ Runs(p, "user")
  /\ ~sched.kt_cancelled[p]
  /\ sched' = sched_sleep_on(sched, DiskQ)
  /\ GoTo(p, "sysret")
  /\ UNCHANGED <<family, kt_retval, next_pid, wpid>>

\* A read from the terminal can be cancelled.
TtyRead(p) ==
  /\ Runs(p, "user")
  /\ p \in UserPids
  /\ ~sched.kt_cancelled[p]
  /\ sched' = sched_cancellable_sleep_on(sched, TtyQ)
  /\ GoTo(p, "tty")
  /\ UNCHANGED <<family, kt_retval, next_pid, wpid>>

\* A cancelled reader is PROC_DEAD before it has exited.
TtyRead_Continues(p) ==
  /\ Runs(p, "tty")
  /\ IF sched.kt_cancelled[p]
     THEN /\ sched' = ReturnEINTR(sched)
          /\ p_state' = [p_state EXCEPT ![p] = "PROC_DEAD"]
     ELSE UNCHANGED <<sched, p_state>>
  /\ GoTo(p, "sysret")
  /\ UNCHANGED <<p_pproc, p_children, p_status, proc_list, kt_retval,
                 next_pid, wpid>>

-----------------------------------------------------------------------------
(* Shutdown.                                                               *)

\* Seeded fault: the children of the idle process are killed as well.
proc_kill_all_Victims_All(p) == ToSet(proc_list) \ {PID_IDLE, p}

\* Neither the idle process nor one of its children, nor the caller.
proc_kill_all_Victims(p) ==
  {q \in ToSet(proc_list) : q \notin {PID_IDLE, p} /\ p_pproc[q] # PID_IDLE}

\* Seeded fault: a killed process that sleeps is not woken.
proc_kill_OnlyFlags(s, p) == [s EXCEPT !.kt_cancelled[p] = TRUE]

\* The effect on the scheduler of killing another process.
proc_kill(s, p) == sched_cancel(s, p)

\* The scheduler after the loop over _proc_list.
proc_kill_all_Cancelled(p) ==
  LET after[i \in 0 .. Len(proc_list)] ==
        IF i = 0 THEN sched
        ELSE IF proc_list[i] \in proc_kill_all_Victims(p)
             THEN proc_kill(after[i - 1], proc_list[i])
             ELSE after[i - 1]
  IN  after[Len(proc_list)]

\* halt(2): every victim gets the address of proc_kill's parameter as return
\* value and is cancelled; then the caller exits.
proc_kill_all(p) ==
  /\ Runs(p, "user")
  /\ p \in UserPids
  /\ ~sched.kt_cancelled[p]
  /\ do_exit(p, proc_kill_all_Cancelled(p),
             [q \in Thread |-> IF q \in proc_kill_all_Victims(p)
                              THEN "stack address" ELSE kt_retval[q]],
             p_status[p])

\* The idle process waits for init, shuts the file system down, cancels the
\* daemon and waits for it: do_waitpid has to return these two in this order.
idleproc_run(p) ==
  /\ p = PID_IDLE
  /\ \/ /\ Runs(p, "boot")
        /\ do_waitpid(p, AnyChild, sched, "await init")
     \/ /\ Runs(p, "vfs_shutdown")
        /\ do_waitpid(p, AnyChild, sched_cancel(sched, Pageoutd),
                      "await pageoutd")

\* The daemon has enough free pages: it sleeps until it is cancelled.
pageoutd_run(p) ==
  /\ p = Pageoutd
  /\ Runs(p, "daemon")
  /\ IF sched.kt_cancelled[p]
     THEN kthread_exit(p, ReturnEINTR(sched), kt_retval, "zero")
     ELSE /\ sched' = sched_cancellable_sleep_on(sched, PageoutdQ)
          /\ UNCHANGED <<family, kt_retval, next_pid, pc, wpid>>

-----------------------------------------------------------------------------

ProcStep(p) ==
  \/ do_fork(p)
  \/ Exit(p)
  \/ proc_cleanup_Continues(p)
  \/ SyscallTrap(p)
  \/ SyscallReturn(p)
  \/ sys_waitpid(p)
  \/ InitWaits(p)
  \/ do_waitpid_Continues(p)
  \/ DiskIO(p)
  \/ TtyRead(p)
  \/ TtyRead_Continues(p)
  \/ proc_kill_all(p)
  \/ idleproc_run(p)
  \/ pageoutd_run(p)

\* The machine has stopped: it is halted or has failed an assertion.
Off == Stopped /\ UNCHANGED vars

Next ==
  \/ Dispatch
  \/ Interrupt(DiskQ)
  \/ Interrupt(TtyQ)
  \/ \E p \in Thread : ProcStep(p)
  \/ Off

(* The CPU runs what is runnable and the disk answers; nobody has to press *)
(* a key.                                                                  *)
Fairness ==
  /\ WF_vars(Dispatch)
  /\ WF_vars(Interrupt(DiskQ))
  /\ \A p \in Thread : WF_vars(ProcStep(p))

Spec     == Init /\ [][Next]_vars
FairSpec == Spec /\ Fairness

-----------------------------------------------------------------------------
(* Properties.                                                             *)

\* The children lists, the parent pointers, the process list and the pids
\* tell the same story: every process but idle is listed once, under a
\* parent that has not made its own exit.
FamilyTree ==
  /\ TypeOK
  /\ IsInjective(proc_list)
  /\ \A p \in Thread : Contains(proc_list, p) <=> p_state[p] # "PROC_FREE"
  /\ \A p \in Thread : IsInjective(p_children[p])
  /\ \A p, c \in Thread : Contains(p_children[p], c) <=> p_pproc[c] = p
  /\ \A c \in Thread :
       p_pproc[c] # NoThread => /\ p_state[c] # "PROC_FREE"
                                /\ pc[p_pproc[c]] \notin {"gone", "free"}
  /\ \A c \in Thread \ {PID_IDLE} :
       p_state[c] # "PROC_FREE" => p_pproc[c] # NoThread

\* A process that sleeps in do_waitpid still has a child it waits for that has
\* not exited: no wake-up by an exiting child has been missed for good.
NoHopelessWait ==
  \A p \in Thread :
    sched.kt_wchan[p] = p_wait(p) =>
      \E c \in Awaited(p, wpid[p]) : pc[c] # "gone"

\* Idle's waits return init first and then the daemon, and a reaped thread has
\* exited (KASSERTs of kmain.c, pframe.c and proc.c); when the machine halts, no
\* process is left, not even a zombie.
NoPanic ==
  /\ \A p \in Thread : pc[p] # "panic"
  /\ pc[PID_IDLE] = "halted" => proc_list = <<PID_IDLE>>

\* An exited process keeps its exit status until the process that was its
\* parent at that moment disposes of it, in its own context.
ZombiesAwaitTheirParent ==
  [][\A c \in Thread :
       pc[c] = "gone" =>
         \/ pc'[c] = "gone" /\ p_state'[c] = "PROC_DEAD" /\ p_status'[c] = p_status[c]
         \/ pc'[c] = "free" /\ sched.curthr = p_pproc[c]]_vars

\* A process is only freed after its thread has left the CPU for good: its
\* PROC_DEAD alone, which a cancelled sleep sets early and a sleeping
\* proc_cleanup sets late, does not get it reaped.
NotReapedAlive ==
  [][\A c \in Thread : pc'[c] = "free" => pc[c] \in {"free", "gone"}]_vars

\* halt(2) completes: once every user process is cancelled or dead and init
\* only waits, the machine halts.
AllCancelled ==
  /\ \A p \in UserPids : \/ p_state[p] # "PROC_RUNNING"
                          \/ sched.kt_cancelled[p]
  /\ pc[PID_INIT] = "waitpid"
ShutdownCompletes == AllCancelled ~> pc[PID_IDLE] = "halted"

=============================================================================
