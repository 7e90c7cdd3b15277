----------------------------- MODULE MutexSpec -----------------------------
(***************************************************************************)
(* What a sleeping lock with direct hand-off promises, without any word of *)
(* queues or scheduling.  A thread that finds the lock taken starts to     *)
(* wait; the owner that releases it makes the longest waiting thread the   *)
(* owner in the same step, so the lock is never free while somebody waits  *)
(* and nobody overtakes; a waiter may give up.                             *)
(***************************************************************************)
EXTENDS Naturals, Sequences, SequencesExt

CONSTANTS Thread, Nobody

VARIABLES owner, waiting

vars == <<owner, waiting>>

TypeOK ==
  /\ owner \in Thread \cup {Nobody}
  /\ waiting \in Seq(Thread)

Init == owner = Nobody /\ waiting = << >>

Acquire(t) ==
  /\ owner = Nobody
  /\ owner' = t
  /\ UNCHANGED waiting

Wait(t) ==
  /\ owner \notin {t, Nobody}
  /\ ~Contains(waiting, t)
  /\ waiting' = Append(waiting, t)
  /\ UNCHANGED owner

Release ==
  /\ owner # Nobody
  /\ IF waiting = << >>
     THEN owner' = Nobody /\ UNCHANGED waiting
     ELSE owner' = Head(waiting) /\ waiting' = Tail(waiting)

GiveUp(i) ==
  /\ waiting' = RemoveAt(waiting, i)
  /\ UNCHANGED owner

Next ==
  \/ \E t \in Thread : Acquire(t) \/ Wait(t)
  \/ Release
  \/ \E i \in DOMAIN waiting : GiveUp(i)

Spec == Init /\ [][Next]_vars
=============================================================================
