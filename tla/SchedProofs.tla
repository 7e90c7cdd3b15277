---------------------------- MODULE SchedProofs ----------------------------
(***************************************************************************)
(* Lemmas about the operations of Sched, for every set of threads and      *)
(* queues: each keeps the scheduler's state well formed and the queue      *)
(* lists in agreement with kt_wchan, and changes kt_wchan of no thread but *)
(* the one it moves.                                                       *)
(***************************************************************************)
EXTENDS Sched, SequenceTheorems, TLAPS

-----------------------------------------------------------------------------
(* Sequences without repetition.                                           *)

LEMMA AppendFresh ==
  ASSUME NEW S, NEW seq \in Seq(S), IsInjective(seq),
         NEW e \in S, ~Contains(seq, e)
  PROVE  /\ Append(seq, e) \in Seq(S)
         /\ IsInjective(Append(seq, e))
         /\ \A x : Contains(Append(seq, e), x) <=> Contains(seq, x) \/ x = e
<1>1. /\ Append(seq, e) \in Seq(S)
      /\ Len(Append(seq, e)) = Len(seq) + 1
      /\ \A i \in 1 .. Len(seq) : Append(seq, e)[i] = seq[i]
      /\ Append(seq, e)[Len(seq) + 1] = e
      /\ DOMAIN Append(seq, e) = 1 .. Len(seq) + 1
      /\ DOMAIN seq = 1 .. Len(seq)
      /\ Len(seq) \in Nat
  BY AppendProperties, LenProperties
<1>2. IsInjective(Append(seq, e))
  BY <1>1 DEF IsInjective, Contains
<1>3. ASSUME NEW x
      PROVE  Contains(Append(seq, e), x) <=> Contains(seq, x) \/ x = e
  BY <1>1 DEF Contains
<1> QED BY <1>1, <1>2, <1>3

LEMMA TailOfInjective ==
  ASSUME NEW S, NEW seq \in Seq(S), IsInjective(seq), seq # << >>
  PROVE  /\ Head(seq) \in S
         /\ Contains(seq, Head(seq))
         /\ Tail(seq) \in Seq(S)
         /\ IsInjective(Tail(seq))
         /\ \A x : Contains(Tail(seq), x) <=> Contains(seq, x) /\ x # Head(seq)
<1>1. /\ Tail(seq) \in Seq(S)
      /\ Len(seq) \in Nat \ {0}
      /\ Len(Tail(seq)) = Len(seq) - 1
      /\ \A i \in 1 .. Len(Tail(seq)) : Tail(seq)[i] = seq[i + 1]
      /\ Head(seq) = seq[1]
      /\ Head(seq) \in S
      /\ DOMAIN Tail(seq) = 1 .. Len(seq) - 1
      /\ DOMAIN seq = 1 .. Len(seq)
  BY HeadTailProperties, LenProperties, EmptySeq
<1>2. IsInjective(Tail(seq))
  BY <1>1 DEF IsInjective
<1>3. ASSUME NEW x
      PROVE  Contains(Tail(seq), x) <=> Contains(seq, x) /\ x # Head(seq)
  <2>1. ASSUME Contains(Tail(seq), x)
        PROVE  Contains(seq, x) /\ x # Head(seq)
    BY <1>1, <2>1 DEF Contains, IsInjective
  <2>2. ASSUME Contains(seq, x), x # Head(seq)
        PROVE  Contains(Tail(seq), x)
    <3>1. PICK i \in 1 .. Len(seq) : seq[i] = x
      BY <2>2 DEF Contains
    <3>2. i # 1 /\ i - 1 \in 1 .. Len(Tail(seq)) /\ Tail(seq)[i - 1] = x
      BY <1>1, <2>2, <3>1
    <3> QED BY <3>2 DEF Contains
  <2> QED BY <2>1, <2>2
<1>4. Contains(seq, Head(seq))
  BY <1>1 DEF Contains
<1> QED BY <1>1, <1>2, <1>3, <1>4

\* Taking an element off a list closes the gap.
LEMMA UnlinkClosesGap ==
  ASSUME NEW S, NEW seq \in Seq(S), NEW t, Contains(seq, t)
  PROVE  /\ Unlink(seq, t) \in Seq(S)
         /\ Len(Unlink(seq, t)) = Len(seq) - 1
         /\ DOMAIN Unlink(seq, t) = 1 .. Len(seq) - 1
         /\ \E k \in 1 .. Len(seq) :
              /\ seq[k] = t
              /\ \A i \in 1 .. Len(seq) - 1 :
                   Unlink(seq, t)[i] = IF i < k THEN seq[i] ELSE seq[i + 1]
<1> DEFINE k == CHOOSE i \in DOMAIN seq : seq[i] = t
           a == SubSeq(seq, 1, k - 1)
           b == SubSeq(seq, k + 1, Len(seq))
<1>1. /\ Len(seq) \in Nat
      /\ DOMAIN seq = 1 .. Len(seq)
      /\ \A i \in 1 .. Len(seq) : seq[i] \in S
  BY LenProperties, ElementOfSeq
<1>2. k \in 1 .. Len(seq) /\ seq[k] = t
  BY <1>1 DEF Contains
<1>3. /\ a \in Seq(S)
      /\ Len(a) = k - 1
      /\ \A i \in 1 .. k - 1 : a[i] = seq[i]
  BY <1>1, <1>2, SubSeqProperties
<1>4. /\ b \in Seq(S)
      /\ Len(b) = Len(seq) - k
      /\ \A i \in 1 .. Len(seq) - k : b[i] = seq[k + i]
  BY <1>1, <1>2, SubSeqProperties
<1> DEFINE u == a \o b
<1>5. Unlink(seq, t) = u
  BY DEF Unlink, RemoveAt
<1> HIDE DEF k, a, b
<1>6. /\ u \in Seq(S)
      /\ Len(u) = Len(seq) - 1
      /\ DOMAIN u = 1 .. Len(seq) - 1
      /\ \A i \in 1 .. Len(seq) - 1 :
           u[i] = IF i < k THEN seq[i] ELSE seq[i + 1]
  <2>1. /\ u \in Seq(S)
        /\ Len(u) = Len(a) + Len(b)
        /\ \A i \in 1 .. Len(a) + Len(b) :
             u[i] = IF i <= Len(a) THEN a[i] ELSE b[i - Len(a)]
    BY <1>3, <1>4, ConcatProperties
  <2> HIDE DEF u
  <2>2. Len(u) = Len(seq) - 1 /\ DOMAIN u = 1 .. Len(seq) - 1
    BY <1>1, <1>2, <1>3, <1>4, <2>1, LenProperties
  <2>3. ASSUME NEW i \in 1 .. Len(seq) - 1
        PROVE  u[i] = IF i < k THEN seq[i] ELSE seq[i + 1]
    <3>1. CASE i < k
      <4>1. i \in 1 .. Len(a) + Len(b) /\ i <= Len(a) /\ i \in 1 .. k - 1
        BY <1>1, <1>2, <1>3, <1>4, <3>1
      <4>2. u[i] = a[i] /\ a[i] = seq[i]
        BY <1>3, <2>1, <4>1
      <4> QED BY <4>2, <3>1
    <3>2. CASE ~(i < k)
      <4>1. i - (k - 1) \in 1 .. Len(seq) - k /\ k + (i - (k - 1)) = i + 1
        BY <1>1, <1>2, <3>2
      <4>2. b[i - (k - 1)] = seq[i + 1]
        BY <1>4, <4>1
      <4>3. u[i] = b[i - (k - 1)]
        BY <1>1, <1>2, <1>3, <1>4, <2>1, <3>2
      <4> QED BY <4>2, <4>3, <3>2
    <3> QED BY <3>1, <3>2
  <2> QED BY <2>1, <2>2, <2>3
<1> HIDE DEF u
<1> QED BY <1>2, <1>5, <1>6

LEMMA UnlinkOfInjective ==
  ASSUME NEW S, NEW seq \in Seq(S), IsInjective(seq),
         NEW t, Contains(seq, t)
  PROVE  /\ Unlink(seq, t) \in Seq(S)
         /\ IsInjective(Unlink(seq, t))
         /\ \A x : Contains(Unlink(seq, t), x) <=> Contains(seq, x) /\ x # t
<1>1. /\ Len(seq) \in Nat
      /\ DOMAIN seq = 1 .. Len(seq)
      /\ \A i \in 1 .. Len(seq) : seq[i] \in S
  BY LenProperties, ElementOfSeq
<1>2. PICK u : u = Unlink(seq, t)
  OBVIOUS
<1>3. PICK k \in 1 .. Len(seq) :
        /\ seq[k] = t
        /\ \A i \in 1 .. Len(seq) - 1 : u[i] = IF i < k THEN seq[i] ELSE seq[i + 1]
  BY <1>2, UnlinkClosesGap
<1>4. k \in 1 .. Len(seq) /\ seq[k] = t
  BY <1>3
<1>6. /\ u \in Seq(S)
      /\ Len(u) = Len(seq) - 1
      /\ DOMAIN u = 1 .. Len(seq) - 1
      /\ \A i \in 1 .. Len(seq) - 1 : u[i] = IF i < k THEN seq[i] ELSE seq[i + 1]
  BY <1>2, <1>3, UnlinkClosesGap
<1>7. IsInjective(u)
  BY <1>1, <1>4, <1>6 DEF IsInjective
<1>8. ASSUME NEW x
      PROVE  Contains(u, x) <=> Contains(seq, x) /\ x # t
  <2>1. ASSUME Contains(u, x) PROVE Contains(seq, x) /\ x # t
    BY <1>1, <1>4, <1>6, <2>1 DEF Contains, IsInjective
  <2>2. ASSUME Contains(seq, x), x # t PROVE Contains(u, x)
    <3>1. PICK i \in 1 .. Len(seq) : seq[i] = x
      BY <2>2 DEF Contains
    <3>2. CASE i < k
      BY <1>1, <1>4, <1>6, <3>1, <3>2 DEF Contains
    <3>3. CASE i > k
      <4>1. i - 1 \in 1 .. Len(u) /\ u[i - 1] = x
        BY <1>1, <1>4, <1>6, <3>1, <3>3
      <4> QED BY <4>1 DEF Contains
    <3>4. i # k
      BY <1>4, <2>2, <3>1
    <3> QED BY <1>4, <3>1, <3>2, <3>3, <3>4
  <2> QED BY <2>1, <2>2
<1> QED BY <1>2, <1>6, <1>7, <1>8

-----------------------------------------------------------------------------
(* Queue operations.  They change tq_list and kt_wchan only.               *)

WellFormed(s) == s \in SchedState /\ Linked(s)

SameThreads(s, r) ==
  /\ r.kt_state = s.kt_state
  /\ r.kt_cancelled = s.kt_cancelled
  /\ r.curthr = s.curthr

\* Enqueueing a thread that is on no queue.
LEMMA EnqueueKeepsLinks ==
  ASSUME NEW s, WellFormed(s), NEW q \in Queue, NEW t \in Thread,
         s.kt_wchan[t] = NoQueue,
         NEW r, r = ktqueue_enqueue(s, q, t)
  PROVE  /\ WellFormed(r)
         /\ SameThreads(s, r)
         /\ r.kt_wchan = [s.kt_wchan EXCEPT ![t] = q]
         /\ r.tq_list = [s.tq_list EXCEPT ![q] = Append(@, t)]
<1>1. /\ s.tq_list \in [Queue -> Seq(Thread)]
      /\ s.kt_wchan \in [Thread -> Queue \cup {NoQueue}]
      /\ NoQueue \notin Queue
  BY SchedAssumption DEF WellFormed, SchedState, Queue
<1>2. /\ SameThreads(s, r)
      /\ r.kt_wchan = [s.kt_wchan EXCEPT ![t] = q]
      /\ r.tq_list = [s.tq_list EXCEPT ![q] = Append(@, t)]
  BY DEF WellFormed, SchedState, ktqueue_enqueue, SameThreads
<1>3. ~Contains(s.tq_list[q], t) /\ IsInjective(s.tq_list[q])
  BY <1>1 DEF WellFormed, Linked
<1>4. /\ Append(s.tq_list[q], t) \in Seq(Thread)
      /\ IsInjective(Append(s.tq_list[q], t))
      /\ \A x : Contains(Append(s.tq_list[q], t), x)
                  <=> Contains(s.tq_list[q], x) \/ x = t
  BY <1>1, <1>3, AppendFresh
<1>5. r \in SchedState
  <2>1. r.tq_list \in [Queue -> Seq(Thread)]
    BY <1>1, <1>2, <1>4
  <2> QED BY <1>1, <1>2, <2>1
          DEF WellFormed, SchedState, ktqueue_enqueue
<1>6. Linked(r)
  <2>1. \A p \in Queue : IsInjective(r.tq_list[p])
    BY <1>1, <1>2, <1>4 DEF WellFormed, Linked
  <2>2. ASSUME NEW p \in Queue, NEW x \in Thread
        PROVE  Contains(r.tq_list[p], x) <=> r.kt_wchan[x] = p
    <3>1. Contains(s.tq_list[p], x) <=> s.kt_wchan[x] = p
      BY DEF WellFormed, Linked
    <3>2. CASE p = q
      BY <1>1, <1>2, <1>4, <3>1, <3>2
    <3>3. CASE p # q
      BY <1>1, <1>2, <3>1, <3>3
    <3> QED BY <3>2, <3>3
  <2> QED BY <2>1, <2>2 DEF Linked
<1> QED BY <1>2, <1>5, <1>6 DEF WellFormed

\* Taking the thread that waited longest off a queue that is not empty.
LEMMA DequeueKeepsLinks ==
  ASSUME NEW s, WellFormed(s), NEW q \in Queue, ~sched_queue_empty(s, q),
         NEW t, t = Head(s.tq_list[q]),
         NEW r, r = ktqueue_dequeue(s, q)
  PROVE  /\ WellFormed(r)
         /\ SameThreads(s, r)
         /\ t \in Thread
         /\ s.kt_wchan[t] = q
         /\ r.kt_wchan = [s.kt_wchan EXCEPT ![t] = NoQueue]
         /\ r.tq_list = [s.tq_list EXCEPT ![q] = Tail(@)]
<1>1. /\ s.tq_list \in [Queue -> Seq(Thread)]
      /\ s.kt_wchan \in [Thread -> Queue \cup {NoQueue}]
      /\ NoQueue \notin Queue
      /\ s.tq_list[q] # << >>
  BY SchedAssumption
  DEF WellFormed, SchedState, Queue, sched_queue_empty
<1>2. /\ SameThreads(s, r)
      /\ r.kt_wchan = [s.kt_wchan EXCEPT ![t] = NoQueue]
      /\ r.tq_list = [s.tq_list EXCEPT ![q] = Tail(@)]
  BY DEF WellFormed, SchedState, ktqueue_dequeue, SameThreads
<1>3. IsInjective(s.tq_list[q])
  BY DEF WellFormed, Linked
<1>4. /\ t \in Thread
      /\ Contains(s.tq_list[q], t)
      /\ Tail(s.tq_list[q]) \in Seq(Thread)
      /\ IsInjective(Tail(s.tq_list[q]))
      /\ \A x : Contains(Tail(s.tq_list[q]), x)
                  <=> Contains(s.tq_list[q], x) /\ x # t
  BY <1>1, <1>3, TailOfInjective
<1>5. r \in SchedState
  <2>1. r.tq_list \in [Queue -> Seq(Thread)]
    BY <1>1, <1>2, <1>4
  <2> QED BY <1>1, <1>2, <1>4, <2>1
          DEF WellFormed, SchedState, ktqueue_dequeue
<1>6. s.kt_wchan[t] = q
  BY <1>4 DEF WellFormed, Linked
<1>7. Linked(r)
  <2>1. \A p \in Queue : IsInjective(r.tq_list[p])
    BY <1>1, <1>2, <1>4 DEF WellFormed, Linked
  <2>2. ASSUME NEW p \in Queue, NEW x \in Thread
        PROVE  Contains(r.tq_list[p], x) <=> r.kt_wchan[x] = p
    <3>1. Contains(s.tq_list[p], x) <=> s.kt_wchan[x] = p
      BY DEF WellFormed, Linked
    <3>2. CASE p = q
      BY <1>1, <1>2, <1>4, <3>1, <3>2
    <3>3. CASE p # q
      BY <1>1, <1>2, <1>6, <3>1, <3>3
    <3> QED BY <3>2, <3>3
  <2> QED BY <2>1, <2>2 DEF Linked
<1> QED BY <1>2, <1>4, <1>5, <1>6, <1>7 DEF WellFormed

\* Unlinking a thread from the queue it is on.
LEMMA RemoveKeepsLinks ==
  ASSUME NEW s, WellFormed(s), NEW t \in Thread, s.kt_wchan[t] \in Queue,
         NEW q, q = s.kt_wchan[t],
         NEW r, r = ktqueue_remove(s, q, t)
  PROVE  /\ WellFormed(r)
         /\ SameThreads(s, r)
         /\ r.kt_wchan = [s.kt_wchan EXCEPT ![t] = NoQueue]
         /\ r.tq_list = [s.tq_list EXCEPT ![q] = Unlink(@, t)]
<1>1. /\ s.tq_list \in [Queue -> Seq(Thread)]
      /\ s.kt_wchan \in [Thread -> Queue \cup {NoQueue}]
      /\ NoQueue \notin Queue
      /\ q \in Queue
  BY SchedAssumption DEF WellFormed, SchedState, Queue
<1>2. /\ SameThreads(s, r)
      /\ r.kt_wchan = [s.kt_wchan EXCEPT ![t] = NoQueue]
      /\ r.tq_list = [s.tq_list EXCEPT ![q] = Unlink(@, t)]
  BY DEF WellFormed, SchedState, ktqueue_remove, SameThreads
<1>3. Contains(s.tq_list[q], t) /\ IsInjective(s.tq_list[q])
  BY <1>1 DEF WellFormed, Linked
<1>4. /\ Unlink(s.tq_list[q], t) \in Seq(Thread)
      /\ IsInjective(Unlink(s.tq_list[q], t))
      /\ \A x : Contains(Unlink(s.tq_list[q], t), x)
                  <=> Contains(s.tq_list[q], x) /\ x # t
  BY <1>1, <1>3, UnlinkOfInjective
<1>5. r \in SchedState
  <2>1. r.tq_list \in [Queue -> Seq(Thread)]
    BY <1>1, <1>2, <1>4
  <2> QED BY <1>1, <1>2, <2>1
          DEF WellFormed, SchedState, ktqueue_remove
<1>6. Linked(r)
  <2>1. \A p \in Queue : IsInjective(r.tq_list[p])
    BY <1>1, <1>2, <1>4 DEF WellFormed, Linked
  <2>2. ASSUME NEW p \in Queue, NEW x \in Thread
        PROVE  Contains(r.tq_list[p], x) <=> r.kt_wchan[x] = p
    <3>1. Contains(s.tq_list[p], x) <=> s.kt_wchan[x] = p
      BY DEF WellFormed, Linked
    <3>2. CASE p = q
      BY <1>1, <1>2, <1>4, <3>1, <3>2
    <3>3. CASE p # q
      BY <1>1, <1>2, <3>1, <3>3
    <3> QED BY <3>2, <3>3
  <2> QED BY <2>1, <2>2 DEF Linked
<1> QED BY <1>2, <1>5, <1>6 DEF WellFormed

-----------------------------------------------------------------------------
(* Operations on threads.  From a state in which every thread is accounted *)
(* for, each leads to another one and moves at most one thread.            *)

Sound(s) == WellFormed(s) /\ Accounted(s)

\* Thread t goes to queue q, or to none, in state k, and nobody else moves.
Moves(s, r, t, q, k) ==
  /\ r.kt_wchan = [s.kt_wchan EXCEPT ![t] = q]
  /\ r.kt_state = [s.kt_state EXCEPT ![t] = k]

KeepsFlags(s, r) == r.kt_cancelled = s.kt_cancelled

KeepsLists(s, r) == r.tq_list = s.tq_list

Unlinks(s, r, t) ==
  \A p \in WaitQueue :
    r.tq_list[p] = IF p = s.kt_wchan[t] THEN Unlink(s.tq_list[p], t)
                   ELSE s.tq_list[p]

Appends(s, r, q, t) == r.tq_list = [s.tq_list EXCEPT ![q] = Append(@, t)]

\* Operations that set other fields than tq_list and kt_wchan keep the links.
LEMMA OtherFieldsKeepLinks ==
  ASSUME NEW s, WellFormed(s), NEW r \in SchedState,
         r.tq_list = s.tq_list, r.kt_wchan = s.kt_wchan
  PROVE  WellFormed(r)
BY DEF WellFormed, Linked

\* A queue is empty when no thread waits on it.
LEMMA EmptyMeansNobody ==
  ASSUME NEW s, WellFormed(s), NEW q \in Queue
  PROVE  sched_queue_empty(s, q) <=> \A t \in Thread : s.kt_wchan[t] # q
<1>1. s.tq_list[q] \in Seq(Thread)
  BY DEF WellFormed, SchedState
<1>2. \A t \in Thread : Contains(s.tq_list[q], t) <=> s.kt_wchan[t] = q
  BY DEF WellFormed, Linked
<1>3. s.tq_list[q] = << >> <=> \A t \in Thread : ~Contains(s.tq_list[q], t)
  <2>1. ASSUME s.tq_list[q] # << >>
        PROVE  \E t \in Thread : Contains(s.tq_list[q], t)
    BY <1>1, <2>1, TailOfInjective DEF WellFormed, Linked
  <2>2. ASSUME s.tq_list[q] = << >>, NEW t \in Thread
        PROVE  ~Contains(s.tq_list[q], t)
    BY <2>2 DEF Contains
  <2> QED BY <2>1, <2>2
<1> QED BY <1>2, <1>3 DEF sched_queue_empty

\* The CPU takes the first thread of the run queue.
LEMMA SwitchInKeepsLinks ==
  ASSUME NEW s, WellFormed(s), ~sched_queue_empty(s, RunQ),
         NEW t, t = Head(s.tq_list[RunQ]),
         NEW r, r = SwitchIn(s)
  PROVE  /\ WellFormed(r)
         /\ t \in Thread
         /\ r.curthr = t
         /\ s.kt_wchan[t] = RunQ
         /\ Moves(s, r, t, NoQueue, KT_RUN)
         /\ KeepsFlags(s, r)
         /\ r.tq_list = [s.tq_list EXCEPT ![RunQ] = Tail(@)]
<1>1. PICK d : d = ktqueue_dequeue(s, RunQ)
  OBVIOUS
<1>2. RunQ \in Queue
  BY DEF Queue
<1>3. /\ WellFormed(d)
      /\ SameThreads(s, d)
      /\ t \in Thread
      /\ s.kt_wchan[t] = RunQ
      /\ d.kt_wchan = [s.kt_wchan EXCEPT ![t] = NoQueue]
      /\ d.tq_list = [s.tq_list EXCEPT ![RunQ] = Tail(@)]
  BY <1>1, <1>2, DequeueKeepsLinks
<1>4. /\ r \in SchedState
      /\ r.kt_wchan = d.kt_wchan
      /\ r.tq_list = d.tq_list
      /\ r.kt_state = [d.kt_state EXCEPT ![t] = KT_RUN]
      /\ r.kt_cancelled = d.kt_cancelled
      /\ r.curthr = t
  BY <1>1, <1>3 DEF SwitchIn, WellFormed, SchedState, KtState
<1>5. WellFormed(r)
  BY <1>3, <1>4, OtherFieldsKeepLinks
<1> QED BY <1>3, <1>4, <1>5 DEF SameThreads, Moves, KeepsFlags

LEMMA SwitchInIsSound ==
  ASSUME NEW s, Sound(s), s.curthr = NoThread, ~sched_queue_empty(s, RunQ),
         NEW t, t = Head(s.tq_list[RunQ]),
         NEW r, r = SwitchIn(s)
  PROVE  /\ Sound(r)
         /\ t \in Thread
         /\ r.curthr = t
         /\ s.kt_wchan[t] = RunQ
         /\ Moves(s, r, t, NoQueue, KT_RUN)
         /\ KeepsFlags(s, r)
         /\ r.tq_list = [s.tq_list EXCEPT ![RunQ] = Tail(@)]
<1>1. /\ WellFormed(r)
      /\ t \in Thread
      /\ r.curthr = t
      /\ s.kt_wchan[t] = RunQ
      /\ Moves(s, r, t, NoQueue, KT_RUN)
      /\ KeepsFlags(s, r)
      /\ r.tq_list = [s.tq_list EXCEPT ![RunQ] = Tail(@)]
  BY SwitchInKeepsLinks DEF Sound
<1>2. Accounted(r)
  BY <1>1, SchedAssumption
  DEF Accounted, Sound, WellFormed, SchedState, Moves, Asleep,
      KT_RUN, KT_EXITED, KT_SLEEP, KT_SLEEP_CANCELLABLE, Queue
<1> QED BY <1>1, <1>2 DEF Sound

\* A thread on no queue goes to sleep, without leaving the CPU yet.
Dozing(s, q, t, k) == ktqueue_enqueue([s EXCEPT !.kt_state[t] = k], q, t)

\* The thread ends up on the queue with the state of its sleep.
LEMMA FallingAsleep ==
  ASSUME NEW s, WellFormed(s), NEW t \in Thread, s.kt_wchan[t] = NoQueue,
         NEW q \in Queue, NEW k \in {KT_RUN} \cup Asleep,
         NEW r, r = Dozing(s, q, t, k)
  PROVE  /\ WellFormed(r)
         /\ Moves(s, r, t, q, k)
         /\ KeepsFlags(s, r)
         /\ r.curthr = s.curthr
         /\ Appends(s, r, q, t)
<1>1. PICK m : m = [s EXCEPT !.kt_state[t] = k]
  OBVIOUS
<1>2. /\ m \in SchedState
      /\ m.kt_wchan = s.kt_wchan
      /\ m.tq_list = s.tq_list
      /\ m.kt_state = [s.kt_state EXCEPT ![t] = k]
      /\ m.kt_cancelled = s.kt_cancelled
      /\ m.curthr = s.curthr
  BY <1>1 DEF WellFormed, SchedState, KtState, Asleep
<1>3. WellFormed(m) /\ m.kt_wchan[t] = NoQueue
  BY <1>2, OtherFieldsKeepLinks
<1>4. PICK e : e = ktqueue_enqueue(m, q, t)
  OBVIOUS
<1>5. /\ WellFormed(e)
      /\ SameThreads(m, e)
      /\ e.kt_wchan = [m.kt_wchan EXCEPT ![t] = q]
      /\ e.tq_list = [m.tq_list EXCEPT ![q] = Append(@, t)]
  BY <1>3, <1>4, EnqueueKeepsLinks
<1>6. r = e
  BY <1>1, <1>4 DEF Dozing
<1> QED BY <1>2, <1>5, <1>6 DEF SameThreads, Moves, KeepsFlags, Appends

\* The calling thread is made runnable or goes to sleep, on queue q, and
\* leaves the CPU.
LEMMA SleepKeepsLinks ==
  ASSUME NEW s, WellFormed(s), NEW t \in Thread, s.curthr = t,
         s.kt_wchan[t] = NoQueue,
         NEW q \in Queue, NEW k \in {KT_RUN} \cup Asleep,
         NEW r, r = SleepOn(s, q, k)
  PROVE  /\ WellFormed(r)
         /\ r.curthr = NoThread
         /\ Moves(s, r, t, q, k)
         /\ KeepsFlags(s, r)
         /\ Appends(s, r, q, t)
<1>1. PICK e : e = Dozing(s, q, t, k)
  OBVIOUS
<1>2. /\ WellFormed(e)
      /\ Moves(s, e, t, q, k)
      /\ KeepsFlags(s, e)
      /\ e.curthr = s.curthr
      /\ Appends(s, e, q, t)
  BY <1>1, FallingAsleep
<1>3. r = [e EXCEPT !.curthr = NoThread]
  BY <1>1 DEF SleepOn, sched_switch, Dozing
<1>4. /\ r \in SchedState
      /\ r.kt_wchan = e.kt_wchan
      /\ r.tq_list = e.tq_list
      /\ r.kt_state = e.kt_state
      /\ r.kt_cancelled = e.kt_cancelled
      /\ r.curthr = NoThread
  BY <1>2, <1>3 DEF WellFormed, SchedState
<1>5. WellFormed(r)
  BY <1>2, <1>4, OtherFieldsKeepLinks
<1> QED BY <1>2, <1>4, <1>5 DEF Moves, KeepsFlags, Appends

\* If it is on the queue that its state calls for, every thread is.
LEMMA LeavingTheCPUIsSound ==
  ASSUME NEW s, Sound(s), NEW t \in Thread, s.curthr = t,
         NEW q \in Queue, NEW k \in {KT_RUN} \cup Asleep,
         q = RunQ <=> k = KT_RUN,
         NEW r, r = SleepOn(s, q, k)
  PROVE  /\ Sound(r)
         /\ r.curthr = NoThread
         /\ Moves(s, r, t, q, k)
         /\ KeepsFlags(s, r)
         /\ Appends(s, r, q, t)
<1>1. WellFormed(s) /\ s.kt_wchan[t] = NoQueue
  BY DEF Sound, Accounted
<1>2. /\ WellFormed(r)
      /\ r.curthr = NoThread
      /\ Moves(s, r, t, q, k)
      /\ KeepsFlags(s, r)
      /\ Appends(s, r, q, t)
  BY <1>1, SleepKeepsLinks
<1>3. ASSUME NEW x \in Thread
      PROVE  /\ r.kt_state[x] = KT_RUN <=> r.kt_wchan[x] = RunQ
             /\ r.kt_state[x] \in Asleep <=> r.kt_wchan[x] \in WaitQueue
  <2>1. /\ r.kt_state = [s.kt_state EXCEPT ![t] = k]
        /\ r.kt_wchan = [s.kt_wchan EXCEPT ![t] = q]
        /\ DOMAIN s.kt_state = Thread
        /\ DOMAIN s.kt_wchan = Thread
    BY <1>2 DEF Moves, Sound, WellFormed, SchedState
  <2>2. CASE x = t
    BY <2>1, <2>2, SchedAssumption
    DEF Asleep, KT_RUN, KT_SLEEP, KT_SLEEP_CANCELLABLE, Queue
  <2>3. CASE x # t
    BY <2>1, <2>3 DEF Sound, Accounted
  <2> QED BY <2>2, <2>3
<1>4. Accounted(r)
  BY <1>2, <1>3, SchedAssumption DEF Accounted
<1> QED BY <1>2, <1>4 DEF Sound

\* Waking a thread that sleeps: it moves to the run queue.
LEMMA MakeRunnableKeepsLinks ==
  ASSUME NEW s, WellFormed(s), NEW t \in Thread, s.kt_wchan[t] = NoQueue,
         NEW r, r = sched_make_runnable(s, t)
  PROVE  /\ WellFormed(r)
         /\ r.kt_wchan = [s.kt_wchan EXCEPT ![t] = RunQ]
         /\ r.kt_state = [s.kt_state EXCEPT ![t] = KT_RUN]
         /\ r.kt_cancelled = s.kt_cancelled
         /\ r.curthr = s.curthr
         /\ r.tq_list = [s.tq_list EXCEPT ![RunQ] = Append(@, t)]
<1>1. PICK m : m = [s EXCEPT !.kt_state[t] = KT_RUN]
  OBVIOUS
<1>2. /\ m \in SchedState
      /\ m.kt_wchan = s.kt_wchan
      /\ m.tq_list = s.tq_list
      /\ m.kt_state = [s.kt_state EXCEPT ![t] = KT_RUN]
      /\ m.kt_cancelled = s.kt_cancelled
      /\ m.curthr = s.curthr
  BY <1>1 DEF WellFormed, SchedState, KtState
<1>3. WellFormed(m) /\ m.kt_wchan[t] = NoQueue
  BY <1>2, OtherFieldsKeepLinks
<1>4. r = ktqueue_enqueue(m, RunQ, t) /\ RunQ \in Queue
  BY <1>1 DEF sched_make_runnable, Queue
<1>5. /\ WellFormed(r)
      /\ SameThreads(m, r)
      /\ r.kt_wchan = [m.kt_wchan EXCEPT ![t] = RunQ]
      /\ r.tq_list = [m.tq_list EXCEPT ![RunQ] = Append(@, t)]
  BY <1>3, <1>4, EnqueueKeepsLinks
<1> QED BY <1>2, <1>5 DEF SameThreads

LEMMA WokenThreadIsAccounted ==
  ASSUME NEW s, Sound(s), NEW t \in Thread, s.kt_wchan[t] \in WaitQueue,
         NEW r, WellFormed(r), r.curthr = s.curthr,
         r.kt_wchan = [s.kt_wchan EXCEPT ![t] = RunQ],
         r.kt_state = [s.kt_state EXCEPT ![t] = KT_RUN]
  PROVE  Sound(r)
<1>1. DOMAIN s.kt_state = Thread /\ DOMAIN s.kt_wchan = Thread
  BY DEF Sound, WellFormed, SchedState
<1>2. t # s.curthr
  BY SchedAssumption DEF Sound, Accounted
<1>3. ASSUME NEW x \in Thread, x # s.curthr
      PROVE  /\ r.kt_state[x] = KT_RUN <=> r.kt_wchan[x] = RunQ
             /\ r.kt_state[x] \in Asleep <=> r.kt_wchan[x] \in WaitQueue
  <2>1. CASE x = t
    BY <1>1, <2>1, SchedAssumption
    DEF Asleep, KT_RUN, KT_SLEEP, KT_SLEEP_CANCELLABLE
  <2>2. CASE x # t
    BY <1>1, <1>3, <2>2 DEF Sound, Accounted
  <2> QED BY <2>1, <2>2
<1>4. ASSUME NEW x \in Thread, x = s.curthr
      PROVE  r.kt_wchan[x] = NoQueue /\ r.kt_state[x] \in {KT_RUN, KT_EXITED}
  BY <1>1, <1>2, <1>4 DEF Sound, Accounted
<1>5. Accounted(r)
  BY <1>3, <1>4 DEF Accounted
<1> QED BY <1>5 DEF Sound

\* Waking the thread that waited longest on a queue that is not empty.
LEMMA WakeupKeepsLinks ==
  ASSUME NEW s, WellFormed(s), NEW q \in WaitQueue, ~sched_queue_empty(s, q),
         NEW t, t = Head(s.tq_list[q]),
         NEW r, r = sched_wakeup_on(s, q)
  PROVE  /\ WellFormed(r)
         /\ t \in Thread
         /\ s.kt_wchan[t] = q
         /\ Moves(s, r, t, RunQ, KT_RUN)
         /\ KeepsFlags(s, r)
         /\ r.curthr = s.curthr
         /\ \A p \in WaitQueue : r.tq_list[p] = IF p = q THEN Tail(s.tq_list[p])
                                                ELSE s.tq_list[p]
<1>1. PICK d : d = ktqueue_dequeue(s, q)
  OBVIOUS
<1>2. q \in Queue
  BY DEF Queue
<1>3. /\ WellFormed(d)
      /\ SameThreads(s, d)
      /\ t \in Thread
      /\ s.kt_wchan[t] = q
      /\ d.kt_wchan = [s.kt_wchan EXCEPT ![t] = NoQueue]
      /\ d.tq_list = [s.tq_list EXCEPT ![q] = Tail(@)]
  BY <1>1, <1>2, DequeueKeepsLinks
<1>4. DOMAIN s.kt_wchan = Thread /\ DOMAIN s.tq_list = Queue
  BY DEF WellFormed, SchedState
<1>5. /\ WellFormed(d)
      /\ t \in Thread
      /\ d.kt_wchan[t] = NoQueue
      /\ r = sched_make_runnable(d, t)
  BY <1>1, <1>4, <1>3 DEF sched_wakeup_on
<1>6. /\ WellFormed(r)
      /\ r.kt_wchan = [d.kt_wchan EXCEPT ![t] = RunQ]
      /\ r.kt_state = [d.kt_state EXCEPT ![t] = KT_RUN]
      /\ r.kt_cancelled = d.kt_cancelled
      /\ r.curthr = d.curthr
      /\ r.tq_list = [d.tq_list EXCEPT ![RunQ] = Append(@, t)]
  BY <1>5, MakeRunnableKeepsLinks
<1>7. /\ r.kt_wchan = [s.kt_wchan EXCEPT ![t] = RunQ]
      /\ r.kt_state = [s.kt_state EXCEPT ![t] = KT_RUN]
      /\ r.kt_cancelled = s.kt_cancelled
      /\ r.curthr = s.curthr
  BY <1>4, <1>3, <1>6 DEF SameThreads
<1>8. \A p \in WaitQueue : r.tq_list[p] = IF p = q THEN Tail(s.tq_list[p])
                                          ELSE s.tq_list[p]
  BY <1>4, <1>2, <1>3, <1>6, SchedAssumption DEF Queue
<1> QED BY <1>3, <1>6, <1>7, <1>8 DEF Moves, KeepsFlags

\* A handler wakes the first thread that waits for its device, if any.
LEMMA HandlerWakes ==
  ASSUME NEW s, WellFormed(s), NEW q \in WaitQueue,
         NEW r, r = sched_wakeup_on(s, q)
  PROVE  /\ WellFormed(r)
         /\ KeepsFlags(s, r)
         /\ r.curthr = s.curthr
         /\ \/ /\ \A t \in Thread : s.kt_wchan[t] # q
               /\ r.kt_wchan = s.kt_wchan /\ r.kt_state = s.kt_state
            \/ \E t \in Thread : s.kt_wchan[t] = q /\ Moves(s, r, t, RunQ, KT_RUN)
<1>1. CASE sched_queue_empty(s, q)
  <2>1. \A t \in Thread : s.kt_wchan[t] # q
    BY <1>1, EmptyMeansNobody DEF Queue
  <2> QED BY <1>1, <2>1 DEF sched_wakeup_on, KeepsFlags
<1>2. CASE ~sched_queue_empty(s, q)
  BY <1>2, WakeupKeepsLinks
<1> QED BY <1>1, <1>2

LEMMA WakeupIsSound ==
  ASSUME NEW s, Sound(s), NEW q \in WaitQueue, ~sched_queue_empty(s, q),
         NEW t, t = Head(s.tq_list[q]),
         NEW r, r = sched_wakeup_on(s, q)
  PROVE  /\ Sound(r)
         /\ t \in Thread
         /\ s.kt_wchan[t] = q
         /\ Moves(s, r, t, RunQ, KT_RUN)
         /\ KeepsFlags(s, r)
         /\ r.curthr = s.curthr
         /\ \A p \in WaitQueue : r.tq_list[p] = IF p = q THEN Tail(s.tq_list[p])
                                                ELSE s.tq_list[p]
<1>1. /\ WellFormed(r)
      /\ t \in Thread
      /\ s.kt_wchan[t] = q
      /\ Moves(s, r, t, RunQ, KT_RUN)
      /\ KeepsFlags(s, r)
      /\ r.curthr = s.curthr
      /\ \A p \in WaitQueue : r.tq_list[p] = IF p = q THEN Tail(s.tq_list[p])
                                             ELSE s.tq_list[p]
  BY WakeupKeepsLinks DEF Sound
<1>2. Sound(r)
  <2>1. t \in Thread /\ s.kt_wchan[t] \in WaitQueue /\ WellFormed(r)
    BY <1>1
  <2> QED BY <1>1, <2>1, WokenThreadIsAccounted DEF Moves
<1> QED BY <1>1, <1>2

\* Cancelling flags the thread and takes it off its queue when the sleep
\* may be cancelled.
LEMMA CancelKeepsLinks ==
  ASSUME NEW s, WellFormed(s), NEW t \in Thread,
         s.kt_state[t] = KT_SLEEP_CANCELLABLE => s.kt_wchan[t] \in WaitQueue,
         NEW r, r = sched_cancel(s, t)
  PROVE  /\ WellFormed(r)
         /\ r.kt_cancelled = [s.kt_cancelled EXCEPT ![t] = TRUE]
         /\ r.curthr = s.curthr
         /\ \/ /\ r.kt_wchan = s.kt_wchan
               /\ r.kt_state = s.kt_state
               /\ KeepsLists(s, r)
            \/ /\ s.kt_wchan[t] \in WaitQueue
               /\ s.kt_state[t] = KT_SLEEP_CANCELLABLE
               /\ Moves(s, r, t, RunQ, KT_RUN)
               /\ Unlinks(s, r, t)
<1>1. PICK f : f = [s EXCEPT !.kt_cancelled[t] = TRUE]
  OBVIOUS
<1>2. /\ f \in SchedState
      /\ f.kt_wchan = s.kt_wchan
      /\ f.tq_list = s.tq_list
      /\ f.kt_state = s.kt_state
      /\ f.kt_cancelled = [s.kt_cancelled EXCEPT ![t] = TRUE]
      /\ f.curthr = s.curthr
  BY <1>1 DEF WellFormed, SchedState
<1>3. WellFormed(f)
  BY <1>2, OtherFieldsKeepLinks
<1>4. CASE s.kt_state[t] # KT_SLEEP_CANCELLABLE
  <2>1. r = f
    BY <1>1, <1>4 DEF sched_cancel
  <2> QED BY <1>2, <1>3, <1>4, <2>1 DEF KeepsLists
<1>5. CASE s.kt_state[t] = KT_SLEEP_CANCELLABLE
  <2>1. PICK q : q = s.kt_wchan[t]
    OBVIOUS
  <2>2. q \in WaitQueue /\ q \in Queue
    BY <1>5, <2>1 DEF Queue
  <2>3. PICK d : d = ktqueue_remove(f, q, t)
    OBVIOUS
  <2>4. /\ WellFormed(d)
        /\ SameThreads(f, d)
        /\ d.kt_wchan = [f.kt_wchan EXCEPT ![t] = NoQueue]
        /\ d.tq_list = [f.tq_list EXCEPT ![q] = Unlink(@, t)]
    BY <1>2, <1>3, <2>1, <2>2, <2>3, RemoveKeepsLinks
  <2>5. d.kt_wchan[t] = NoQueue /\ WellFormed(d)
    BY <1>3, <2>4 DEF WellFormed, SchedState
  <2>6. r = sched_make_runnable(d, t)
    BY <1>1, <1>5, <1>2, <2>1, <2>3 DEF sched_cancel
  <2>7. /\ WellFormed(r)
        /\ r.kt_wchan = [d.kt_wchan EXCEPT ![t] = RunQ]
        /\ r.kt_state = [d.kt_state EXCEPT ![t] = KT_RUN]
        /\ r.kt_cancelled = d.kt_cancelled
        /\ r.curthr = d.curthr
        /\ r.tq_list = [d.tq_list EXCEPT ![RunQ] = Append(@, t)]
    BY <2>5, <2>6, MakeRunnableKeepsLinks
  <2>8. /\ r.kt_wchan = [s.kt_wchan EXCEPT ![t] = RunQ]
        /\ r.kt_state = [s.kt_state EXCEPT ![t] = KT_RUN]
        /\ r.kt_cancelled = [s.kt_cancelled EXCEPT ![t] = TRUE]
        /\ r.curthr = s.curthr
    BY <1>2, <2>4, <2>7 DEF SameThreads, SchedState
  <2>9. \A p \in WaitQueue :
           r.tq_list[p] = IF p = q THEN Unlink(s.tq_list[p], t)
                          ELSE s.tq_list[p]
    BY <1>2, <2>2, <2>4, <2>7, SchedAssumption DEF Queue, SchedState
  <2> QED BY <1>5, <2>1, <2>2, <2>7, <2>8, <2>9 DEF Moves, Unlinks
<1> QED BY <1>4, <1>5

LEMMA CancelIsSound ==
  ASSUME NEW s, Sound(s), NEW t \in Thread, t # s.curthr,
         NEW r, r = sched_cancel(s, t)
  PROVE  /\ Sound(r)
         /\ r.kt_cancelled = [s.kt_cancelled EXCEPT ![t] = TRUE]
         /\ r.curthr = s.curthr
         /\ \/ /\ r.kt_wchan = s.kt_wchan
               /\ r.kt_state = s.kt_state
               /\ KeepsLists(s, r)
            \/ /\ s.kt_wchan[t] \in WaitQueue
               /\ s.kt_state[t] = KT_SLEEP_CANCELLABLE
               /\ Moves(s, r, t, RunQ, KT_RUN)
               /\ Unlinks(s, r, t)
<1>1. /\ WellFormed(s)
      /\ s.kt_state[t] = KT_SLEEP_CANCELLABLE => s.kt_wchan[t] \in WaitQueue
  BY DEF Sound, Accounted, Asleep
<1>2. /\ WellFormed(r)
      /\ r.kt_cancelled = [s.kt_cancelled EXCEPT ![t] = TRUE]
      /\ r.curthr = s.curthr
      /\ \/ /\ r.kt_wchan = s.kt_wchan
            /\ r.kt_state = s.kt_state
            /\ KeepsLists(s, r)
         \/ /\ s.kt_wchan[t] \in WaitQueue
            /\ s.kt_state[t] = KT_SLEEP_CANCELLABLE
            /\ Moves(s, r, t, RunQ, KT_RUN)
            /\ Unlinks(s, r, t)
  BY <1>1, CancelKeepsLinks
<1>3. CASE r.kt_wchan = s.kt_wchan /\ r.kt_state = s.kt_state
  BY <1>2, <1>3 DEF Sound, Accounted
<1>4. CASE s.kt_wchan[t] \in WaitQueue /\ Moves(s, r, t, RunQ, KT_RUN)
  <2>1. Sound(r)
    BY <1>2, <1>4, WokenThreadIsAccounted DEF Moves
  <2> QED BY <1>2, <2>1
<1> QED BY <1>2, <1>3, <1>4

\* The calling thread exits or is left in KT_EXITED by an interrupted sleep.
LEMMA ExitIsSound ==
  ASSUME NEW s, Sound(s), NEW t \in Thread, s.curthr = t,
         NEW r, r = sched_switch(ThreadExits(s))
  PROVE  /\ Sound(r)
         /\ r.curthr = NoThread
         /\ Moves(s, r, t, NoQueue, KT_EXITED)
         /\ KeepsFlags(s, r)
         /\ r.tq_list = s.tq_list
<1>1. s.kt_wchan[t] = NoQueue
  BY DEF Sound, Accounted
<1>2. /\ r \in SchedState
      /\ r.kt_wchan = s.kt_wchan
      /\ r.tq_list = s.tq_list
      /\ r.kt_state = [s.kt_state EXCEPT ![t] = KT_EXITED]
      /\ r.kt_cancelled = s.kt_cancelled
      /\ r.curthr = NoThread
  BY <1>1 DEF Sound, WellFormed, SchedState, sched_switch, ThreadExits, KtState
<1>3. WellFormed(r)
  BY <1>2, OtherFieldsKeepLinks DEF Sound
<1>4. ASSUME NEW x \in Thread
      PROVE  /\ r.kt_state[x] = KT_RUN <=> r.kt_wchan[x] = RunQ
             /\ r.kt_state[x] \in Asleep <=> r.kt_wchan[x] \in WaitQueue
  <2>1. CASE x = t
    BY <1>1, <1>2, <2>1, SchedAssumption
    DEF Sound, WellFormed, SchedState, Asleep, KT_RUN, KT_EXITED, KT_SLEEP,
        KT_SLEEP_CANCELLABLE
  <2>2. CASE x # t
    BY <1>2, <2>2 DEF Sound, WellFormed, SchedState, Accounted
  <2> QED BY <2>1, <2>2
<1>5. Accounted(r)
  BY <1>2, <1>4, SchedAssumption DEF Accounted
<1>6. Moves(s, r, t, NoQueue, KT_EXITED)
  BY <1>1, <1>2 DEF Moves, Sound, WellFormed, SchedState
<1> QED BY <1>2, <1>3, <1>5, <1>6 DEF Sound, KeepsFlags

\* The current thread is marked as exited.
LEMMA MarkedExited ==
  ASSUME NEW s, WellFormed(s), NEW t \in Thread, s.curthr = t,
         s.kt_wchan[t] = NoQueue,
         NEW r, r = ReturnEINTR(s) \/ r = ThreadExits(s)
  PROVE  /\ WellFormed(r)
         /\ r.kt_wchan = s.kt_wchan
         /\ r.kt_state = [s.kt_state EXCEPT ![t] = KT_EXITED]
         /\ KeepsFlags(s, r)
         /\ r.curthr = s.curthr
<1>1. /\ r \in SchedState
      /\ r.kt_wchan = s.kt_wchan
      /\ r.tq_list = s.tq_list
      /\ r.kt_state = [s.kt_state EXCEPT ![t] = KT_EXITED]
      /\ r.kt_cancelled = s.kt_cancelled
      /\ r.curthr = s.curthr
  <2>1. CASE r = ReturnEINTR(s)
    BY <2>1 DEF WellFormed, SchedState, ReturnEINTR, KtState
  <2>2. CASE r = ThreadExits(s)
    BY <2>2 DEF WellFormed, SchedState, ThreadExits, KtState
  <2> QED BY <2>1, <2>2
<1> QED BY <1>1, OtherFieldsKeepLinks DEF KeepsFlags

LEMMA ReturnEINTRIsSound ==
  ASSUME NEW s, Sound(s), NEW t \in Thread, s.curthr = t,
         NEW r, r = ReturnEINTR(s)
  PROVE  /\ Sound(r)
         /\ r.curthr = s.curthr
         /\ Moves(s, r, t, NoQueue, KT_EXITED)
         /\ KeepsFlags(s, r)
         /\ r.tq_list = s.tq_list
<1>1. /\ r \in SchedState
      /\ r.kt_wchan = s.kt_wchan
      /\ r.tq_list = s.tq_list
      /\ r.kt_state = [s.kt_state EXCEPT ![t] = KT_EXITED]
      /\ r.kt_cancelled = s.kt_cancelled
      /\ r.curthr = s.curthr
  BY DEF Sound, WellFormed, SchedState, ReturnEINTR, KtState
<1>2. WellFormed(r)
  BY <1>1, OtherFieldsKeepLinks DEF Sound
<1>3. Accounted(r)
  BY <1>1 DEF Sound, WellFormed, SchedState, Accounted
<1>4. Moves(s, r, t, NoQueue, KT_EXITED)
  BY <1>1 DEF Moves, Sound, WellFormed, SchedState, Accounted
<1> QED BY <1>1, <1>2, <1>3, <1>4 DEF Sound, KeepsFlags
=============================================================================
