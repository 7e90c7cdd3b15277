------------------------- MODULE TokenBucketProofs -------------------------
(***************************************************************************)
(* Proofs about TokenBucket, for any number of packets and servers and any *)
(* bucket: the types, mutual exclusion up to the first dropped packet,     *)
(* that no packet waits for tokens that are there, that packets are served *)
(* in order and seen by a server, and that none is left at the end.        *)
(***************************************************************************)
EXTENDS TokenBucket, FiniteSetTheorems, SequenceTheorems, TLAPS

(* What each thread holds where it is.                                     *)
Places ==
  /\ pc["token"] \in {"in", "added", "moving", "entered", "check"} => mutex_locked["token"]
  /\ pc["packet"] \in {"in", "queued", "moving", "entered"} => mutex_locked["packet"]
  /\ (pc["packet"] \in {"check", "unlock"} /\ dropped = {}) => mutex_locked["packet"]
  /\ \A t \in Source : pc[t] = "moving" => hand[t] \in Packet
  /\ \A s \in Server : pc[s] \in {"serving", "depart"} => hand[s] \in Packet
  /\ cancelled # {} => controlcflag

(* How far PacketArrival has come.                                         *)
Unqueued == IF pc["packet"] \in {"lock", "in"} THEN 1 ELSE 0
Counts ==
  /\ pc["packet"] \in {"read", "sleep"} => packets_generated < num
  /\ pc["packet"] \in {"lock", "in", "drop"} => packets_generated > 0
  /\ q1_to_q2 + Len(Q1) + Unqueued <= packets_generated

(* Without a data race one thread at most works on the queues,             *)
OneInSection ==
  IF crash = "data race" THEN \E t \in Thread : InSection(t)
  ELSE \A t, u \in Thread : InSection(t) /\ InSection(u) => t = u

(* and only it may have an eligible packet in sight.                       *)
Waits ==
  (crash # "data race" /\ ~controlcflag) =>
     IF pc["token"] = "added" THEN Q1 # <<>> => num_tokens <= required_tokens[Head(Q1)]
     ELSE Eligible(Q1, num_tokens) => pc["packet"] = "queued" /\ Len(Q1) = 1

IInv == TypeOK /\ Places /\ Counts /\ MutualExclusion /\ OneInSection /\ Waits

-----------------------------------------------------------------------------
(* Where a thread goes on with the mutex.                                  *)
LEMMA LockedValues ==
  /\ DOMAIN Locked = {"lock", "look_lock", "woken", "serving", "remove_lock"}
  /\ Locked["lock"] = "in" /\ Locked["look_lock"] = "look" /\ Locked["woken"] = "awake"
  /\ Locked["serving"] = "depart" /\ Locked["remove_lock"] = "remove"
BY DEF Locked

(* The elements of a sequence of packets are packets, and dropping its     *)
(* first leaves one shorter.                                               *)
LEMMA PacketSequences ==
  ASSUME NEW q \in Seq(Packet)
  PROVE  /\ ToSet(q) \subseteq Packet
         /\ \A p \in Packet : Append(q, p) \in Seq(Packet) /\ Len(Append(q, p)) = Len(q) + 1
         /\ q # <<>> => /\ Head(q) \in Packet /\ Tail(q) \in Seq(Packet)
                        /\ Len(Tail(q)) = Len(q) - 1 /\ Len(q) > 0
  <1>1. \A i \in DOMAIN q : q[i] \in Packet
    OBVIOUS
  <1>2. ToSet(q) \subseteq Packet
    BY <1>1 DEF ToSet
  <1>3. \A p \in Packet : Append(q, p) \in Seq(Packet) /\ Len(Append(q, p)) = Len(q) + 1
    OBVIOUS
  <1>4. ASSUME q # <<>>
        PROVE  Head(q) \in Packet /\ Tail(q) \in Seq(Packet) /\ Len(Tail(q)) = Len(q) - 1 /\ Len(q) > 0
    BY <1>4
  <1>. QED  BY <1>2, <1>3, <1>4

(* Who takes the mutex, and where it goes on.                              *)
LockStep(t) ==
  \/ /\ t \in Source /\ pc[t] = "lock" /\ pc' = [pc EXCEPT ![t] = "in"]
     /\ mutex_locked' = [mutex_locked EXCEPT ![t] = TRUE]
  \/ /\ t = "handler" /\ pc[t] = "remove_lock" /\ pc' = [pc EXCEPT ![t] = "remove"]
     /\ UNCHANGED mutex_locked
  \/ /\ t \in Server /\ UNCHANGED mutex_locked
     /\ \/ pc[t] = "look_lock" /\ pc' = [pc EXCEPT ![t] = "look"]
        \/ pc[t] = "woken" /\ pc' = [pc EXCEPT ![t] = "awake"]
        \/ pc[t] = "serving" /\ pc' = [pc EXCEPT ![t] = "depart"]

(* That is what pthread_mutex_lock does.                                   *)
LEMMA LockSteps ==
  ASSUME TypeOK, NEW t \in Thread, pthread_mutex_lock(t)
  PROVE  LockStep(t)
  <1>1. /\ pc[t] \in DOMAIN Locked /\ pc' = [pc EXCEPT ![t] = Locked[pc[t]]]
        /\ mutex_locked' = IF t \in Source THEN [mutex_locked EXCEPT ![t] = TRUE] ELSE mutex_locked
    BY DEF pthread_mutex_lock
  <1>2. CASE t = "token"
    <2>1. pc[t] = "lock"
      BY <1>1, <1>2, LockedValues DEF TypeOK
    <2>. QED  BY <1>1, <1>2, <2>1, LockedValues DEF Source, LockStep
  <1>3. CASE t = "packet"
    <2>1. pc[t] = "lock"
      BY <1>1, <1>3, LockedValues DEF TypeOK
    <2>. QED  BY <1>1, <1>3, <2>1, LockedValues DEF Source, LockStep
  <1>4. CASE t = "handler"
    <2>1. pc[t] = "remove_lock"
      BY <1>1, <1>4, LockedValues DEF TypeOK
    <2>. QED  BY <1>1, <1>4, <2>1, LockedValues DEF Source, LockStep
  <1>5. CASE t \in Server
    <2>1. pc[t] \in {"look_lock", "woken", "serving"} /\ t \notin Source
      BY <1>1, <1>5, LockedValues, TokenBucketAssumption DEF TypeOK, Source
    <2>. QED  BY <1>1, <1>5, <2>1, LockedValues DEF LockStep
  <1>. QED  BY <1>2, <1>3, <1>4, <1>5 DEF Thread, LockStep

(* What a source does that moves the first packet of Q1.                   *)
LeaveStep(t) ==
  /\ Q1 # <<>> /\ Head(Q1) \in Packet /\ required_tokens[Head(Q1)] \in Nat \ {0}
  /\ required_tokens[Head(Q1)] <= num_tokens /\ num_tokens' = num_tokens - required_tokens[Head(Q1)]
  /\ Q1' = Tail(Q1) /\ Q1' \in Seq(Packet) /\ Len(Q1') = Len(Q1) - 1 /\ num_tokens' \in 0 .. B
  /\ q1_to_q2' = q1_to_q2 + 1 /\ q1_to_q2' \in 0 .. num /\ flag' \in [Source -> BOOLEAN]
  /\ hand' \in [Thread -> Packet \cup {NoPacket}] /\ hand' = [hand EXCEPT ![t] = Head(Q1)]
  /\ pc' = [pc EXCEPT ![t] = "moving"] /\ Q2' = Q2

(* That is what LeaveQ1 does.                                              *)
LEMMA LeaveSteps ==
  ASSUME TypeOK, Counts, NEW t \in Source, LeaveQ1(t, num_tokens)
  PROVE  LeaveStep(t)
  <1>1. Q1 # <<>> /\ required_tokens[Head(Q1)] <= num_tokens
    BY DEF LeaveQ1, Eligible
  <1>2. Head(Q1) \in Packet /\ Tail(Q1) \in Seq(Packet) /\ Len(Tail(Q1)) = Len(Q1) - 1 /\ Len(Q1) > 0
    BY <1>1, PacketSequences DEF TypeOK
  <1>3. required_tokens[Head(Q1)] \in Nat \ {0}
    BY <1>2, TokenBucketAssumption DEF TypeOK
  <1>4. num_tokens - required_tokens[Head(Q1)] \in 0 .. B
    BY <1>1, <1>3, TokenBucketAssumption DEF TypeOK
  <1>5. q1_to_q2 + 1 \in 0 .. num
    <2>1. Len(Q1) \in Nat /\ Unqueued \in {0, 1} /\ packets_generated \in 0 .. num /\ q1_to_q2 \in 0 .. num
      BY DEF TypeOK, Unqueued
    <2>. QED  BY <2>1, <1>2, TokenBucketAssumption DEF Counts
  <1>6. [hand EXCEPT ![t] = Head(Q1)] \in [Thread -> Packet \cup {NoPacket}]
    BY <1>2 DEF TypeOK, Thread, Source
  <1>7. flag' \in [Source -> BOOLEAN]
    BY DEF LeaveQ1, TypeOK
  <1>. QED  BY <1>1, <1>2, <1>3, <1>4, <1>5, <1>6, <1>7 DEF LeaveQ1, LeaveStep

-----------------------------------------------------------------------------
(* Every action keeps the invariant. *)

(* A thread takes the mutex.                                               *)
LEMMA LockKeeps ==
  ASSUME IInv, NEW t \in Thread, pthread_mutex_lock(t)
  PROVE  IInv'
  <1>0. LockStep(t)
    BY LockSteps DEF IInv
  <1>1. TypeOK'
    <2>1. mutex_locked' \in [Source -> BOOLEAN] /\ m' \in Thread \cup {NoThread}
      BY <1>0 DEF LockStep, IInv, TypeOK, pthread_mutex_lock
    <2>2. /\ DOMAIN pc' = Thread /\ pc'["token"] \in {pc["token"], "in"} /\ pc'["packet"] \in {pc["packet"], "in"}
          /\ pc'["handler"] \in {pc["handler"], "remove"}
      BY <1>0, TokenBucketAssumption DEF LockStep, IInv, TypeOK, Thread, Source
    <2>3. \A s \in Server : pc'[s] \in {pc[s], "look", "awake", "depart"}
      BY <1>0, TokenBucketAssumption DEF LockStep, IInv, TypeOK, Thread, Source
    <2>. QED  BY <2>1, <2>2, <2>3 DEF IInv, TypeOK, pthread_mutex_lock, queues, counts, flags, input
  <1>2. Places'
    <2>1. CASE t \in Source
      BY <1>0, <2>1, TokenBucketAssumption DEF LockStep, IInv, TypeOK, Places, pthread_mutex_lock, Thread,
         Source,
         queues, counts, flags
    <2>2. CASE t \notin Source
      <3>1. \A u \in Source : pc'[u] = pc[u]
        BY <1>0, <2>2 DEF LockStep, IInv, TypeOK, Thread, Source
      <3>2. \A u \in Server : pc'[u] \in {"serving", "depart"} => pc[u] \in {"serving", "depart"}
        BY <1>0, <2>2, TokenBucketAssumption DEF LockStep, IInv, TypeOK, Thread, Source
      <3>. QED  BY <1>0, <2>2, <3>1, <3>2 DEF LockStep, IInv, Places, pthread_mutex_lock, Source, queues,
                   counts, flags
    <2>. QED  BY <2>1, <2>2
  <1>3. Counts'
    BY LockedValues, TokenBucketAssumption DEF IInv, TypeOK, Counts, Unqueued, pthread_mutex_lock, Thread,
       Source, Packet, Up, queues, counts, flags, input
  <1>4. MutualExclusion'
    BY LockedValues, TokenBucketAssumption DEF IInv, TypeOK, Places, MutualExclusion, InSection,
       pthread_mutex_lock, Thread, Source, Packet, Up, queues, counts, flags, input
  <1>5. OneInSection'
    <2>1. \A u \in Thread \ {t} : InSection(u)' => InSection(u)
      BY <1>0, TokenBucketAssumption DEF LockStep, IInv, TypeOK, InSection, Thread, Source
    <2>2. InSection(t)'
      BY <1>0, TokenBucketAssumption DEF LockStep, IInv, TypeOK, InSection, Thread, Source
    <2>3. crash' = (IF \E u \in Thread \ {t} : InSection(u) THEN "data race" ELSE crash) /\ crash = "none"
      BY DEF pthread_mutex_lock, Up
    <2>. QED  BY <2>1, <2>2, <2>3 DEF OneInSection
  <1>6. Waits'
    BY LockedValues, TokenBucketAssumption DEF IInv, TypeOK, Places, OneInSection, InSection, Waits,
       Eligible, pthread_mutex_lock, Thread, Source, Packet, Up, queues, counts, flags, input
  <1>. QED  BY <1>1, <1>2, <1>3, <1>4, <1>5, <1>6 DEF IInv

(* A waiting server wakes up for no reason.                                *)
LEMMA SpuriousKeeps ==
  ASSUME IInv, NEW s \in Server, SpuriousWakeup(s)
  PROVE  IInv'
  <1>1. TypeOK'
    BY TokenBucketAssumption DEF IInv, TypeOK, Places, Counts, SpuriousWakeup, Thread, Source, Packet, Up,
       queues, counts, flags, input
  <1>2. Places'
    BY TokenBucketAssumption DEF IInv, TypeOK, Places, SpuriousWakeup, Thread, Source, Packet, Up, queues,
       counts, flags, input
  <1>3. Counts'
    BY TokenBucketAssumption DEF IInv, TypeOK, Counts, Unqueued, SpuriousWakeup, Thread, Source, Packet, Up,
       queues, counts, flags, input
  <1>4. MutualExclusion'
    BY TokenBucketAssumption DEF IInv, TypeOK, Places, MutualExclusion, InSection, SpuriousWakeup, Thread,
       Source, Packet, Up, queues, counts, flags, input
  <1>5. OneInSection'
    BY TokenBucketAssumption DEF IInv, TypeOK, Places, OneInSection, InSection, SpuriousWakeup, Thread,
       Source, Packet, Up, queues, counts, flags, input
  <1>6. Waits'
    BY TokenBucketAssumption DEF IInv, TypeOK, Places, OneInSection, InSection, Waits, Eligible,
       SpuriousWakeup, Thread, Source, Packet, Up, queues, counts, flags, input
  <1>. QED  BY <1>1, <1>2, <1>3, <1>4, <1>5, <1>6 DEF IInv

(* A packet enters Q2.                                                     *)
LEMMA EnterQ2Keeps ==
  ASSUME IInv, NEW t \in Source, EnterQ2(t)
  PROVE  IInv'
  <1>1. TypeOK'
    BY PacketSequences, TokenBucketAssumption DEF IInv, TypeOK, Places, Counts, EnterQ2, Thread, Source,
       Packet, Up, queues, counts, flags, input
  <1>2. Places'
    BY PacketSequences, TokenBucketAssumption DEF IInv, TypeOK, Places, EnterQ2, Thread, Source, Packet, Up,
       queues, counts, flags, input
  <1>3. Counts'
    BY PacketSequences, TokenBucketAssumption DEF IInv, TypeOK, Counts, Unqueued, EnterQ2, Thread, Source,
       Packet, Up, queues, counts, flags, input
  <1>4. MutualExclusion'
    BY PacketSequences, TokenBucketAssumption DEF IInv, TypeOK, Places, MutualExclusion, InSection, EnterQ2,
       Thread, Source, Packet, Up, queues, counts, flags, input
  <1>5. OneInSection'
    BY PacketSequences, TokenBucketAssumption DEF IInv, TypeOK, Places, OneInSection, InSection, EnterQ2,
       Thread, Source, Packet, Up, queues, counts, flags, input
  <1>6. Waits'
    BY PacketSequences, TokenBucketAssumption DEF IInv, TypeOK, Places, OneInSection, InSection, Waits,
       Eligible, EnterQ2, Thread, Source, Packet, Up, queues, counts, flags, input
  <1>. QED  BY <1>1, <1>2, <1>3, <1>4, <1>5, <1>6 DEF IInv

(* The servers are woken.                                                  *)
LEMMA SignalKeeps ==
  ASSUME IInv, NEW t \in Source, SignalServers(t)
  PROVE  IInv'
  <1>1. TypeOK'
    BY TokenBucketAssumption DEF IInv, TypeOK, Places, Counts, SignalServers, Broadcast, Waiting, Thread,
       Source, Packet, Up, queues, counts, flags, input
  <1>2. Places'
    BY TokenBucketAssumption DEF IInv, TypeOK, Places, SignalServers, Broadcast, Waiting, Thread, Source,
       Packet, Up, queues, counts, flags, input
  <1>3. Counts'
    BY TokenBucketAssumption DEF IInv, TypeOK, Counts, Unqueued, SignalServers, Broadcast, Waiting, Thread,
       Source, Packet, Up, queues, counts, flags, input
  <1>4. MutualExclusion'
    BY TokenBucketAssumption DEF IInv, TypeOK, Places, MutualExclusion, InSection, SignalServers, Broadcast,
       Waiting, Thread, Source, Packet, Up, queues, counts, flags, input
  <1>5. OneInSection'
    BY TokenBucketAssumption DEF IInv, TypeOK, Places, OneInSection, InSection, SignalServers, Broadcast,
       Waiting, Thread, Source, Packet, Up, queues, counts, flags, input
  <1>6. Waits'
    BY TokenBucketAssumption DEF IInv, TypeOK, Places, OneInSection, InSection, Waits, Eligible,
       SignalServers, Broadcast, Waiting, Thread, Source, Packet, Up, queues, counts, flags, input
  <1>. QED  BY <1>1, <1>2, <1>3, <1>4, <1>5, <1>6 DEF IInv

(* A cancelled thread dies.                                                *)
LEMMA CancelledKeeps ==
  ASSUME IInv, NEW t \in Source, Cancelled(t)
  PROVE  IInv'
  <1>1. TypeOK'
    BY TokenBucketAssumption DEF IInv, TypeOK, Places, Counts, Cancelled, Thread, Source, Packet, Up,
       NoPacket, queues, counts, flags, input
  <1>2. Places'
    BY TokenBucketAssumption DEF IInv, TypeOK, Places, Cancelled, Thread, Source, Packet, Up, NoPacket,
       queues, counts, flags, input
  <1>3. Counts'
    BY TokenBucketAssumption DEF IInv, TypeOK, Counts, Unqueued, Cancelled, Thread, Source, Packet, Up,
       NoPacket, queues, counts, flags, input
  <1>4. MutualExclusion'
    BY TokenBucketAssumption DEF IInv, TypeOK, Places, MutualExclusion, InSection, Cancelled, Thread, Source,
       Packet, Up, NoPacket, queues, counts, flags, input
  <1>5. OneInSection'
    BY TokenBucketAssumption DEF IInv, TypeOK, Places, OneInSection, InSection, Cancelled, Thread, Source,
       Packet, Up, NoPacket, queues, counts, flags, input
  <1>6. Waits'
    BY TokenBucketAssumption DEF IInv, TypeOK, Places, OneInSection, InSection, Waits, Eligible, Cancelled,
       Thread, Source, Packet, Up, NoPacket, queues, counts, flags, input
  <1>. QED  BY <1>1, <1>2, <1>3, <1>4, <1>5, <1>6 DEF IInv

(* It gives its mutex back.                                                *)
LEMMA CleanupKeeps ==
  ASSUME IInv, NEW t \in Source, cleanup(t)
  PROVE  IInv'
  <1>1. TypeOK'
    BY TokenBucketAssumption DEF IInv, TypeOK, Places, Counts, cleanup, Thread, Source, Packet, Up, queues,
       counts, flags, input
  <1>2. Places'
    BY TokenBucketAssumption DEF IInv, TypeOK, Places, cleanup, Thread, Source, Packet, Up, queues, counts,
       flags, input
  <1>3. Counts'
    BY TokenBucketAssumption DEF IInv, TypeOK, Counts, Unqueued, cleanup, Thread, Source, Packet, Up, queues,
       counts, flags, input
  <1>4. MutualExclusion'
    BY TokenBucketAssumption DEF IInv, TypeOK, Places, MutualExclusion, InSection, cleanup, Thread, Source,
       Packet, Up, queues, counts, flags, input
  <1>5. OneInSection'
    BY TokenBucketAssumption DEF IInv, TypeOK, Places, OneInSection, InSection, cleanup, Thread, Source,
       Packet, Up, queues, counts, flags, input
  <1>6. Waits'
    BY TokenBucketAssumption DEF IInv, TypeOK, Places, OneInSection, InSection, Waits, Eligible, cleanup,
       Thread, Source, Packet, Up, queues, counts, flags, input
  <1>. QED  BY <1>1, <1>2, <1>3, <1>4, <1>5, <1>6 DEF IInv

(* It has closed the file.                                                 *)
LEMMA ClosedKeeps ==
  ASSUME IInv, NEW t \in Source, cleanup_Closed(t)
  PROVE  IInv'
  <1>1. TypeOK'
    BY TokenBucketAssumption DEF IInv, TypeOK, Places, Counts, cleanup_Closed, Thread, Source, Packet, Up,
       queues, counts, flags, input
  <1>2. Places'
    BY TokenBucketAssumption DEF IInv, TypeOK, Places, cleanup_Closed, Thread, Source, Packet, Up, queues,
       counts, flags, input
  <1>3. Counts'
    BY TokenBucketAssumption DEF IInv, TypeOK, Counts, Unqueued, cleanup_Closed, Thread, Source, Packet, Up,
       queues, counts, flags, input
  <1>4. MutualExclusion'
    BY TokenBucketAssumption DEF IInv, TypeOK, Places, MutualExclusion, InSection, cleanup_Closed, Thread,
       Source, Packet, Up, queues, counts, flags, input
  <1>5. OneInSection'
    BY TokenBucketAssumption DEF IInv, TypeOK, Places, OneInSection, InSection, cleanup_Closed, Thread,
       Source, Packet, Up, queues, counts, flags, input
  <1>6. Waits'
    BY TokenBucketAssumption DEF IInv, TypeOK, Places, OneInSection, InSection, Waits, Eligible,
       cleanup_Closed, Thread, Source, Packet, Up, queues, counts, flags, input
  <1>. QED  BY <1>1, <1>2, <1>3, <1>4, <1>5, <1>6 DEF IInv

(* A token arrives.                                                        *)
LEMMA NextTokenKeeps ==
  ASSUME IInv, NextToken
  PROVE  IInv'
  <1>1. TypeOK'
    BY TokenBucketAssumption DEF IInv, TypeOK, Places, Counts, NextToken, Thread, Source, Packet, Up, queues,
       counts, flags, input
  <1>2. Places'
    BY TokenBucketAssumption DEF IInv, TypeOK, Places, NextToken, Thread, Source, Packet, Up, queues, counts,
       flags, input
  <1>3. Counts'
    BY TokenBucketAssumption DEF IInv, TypeOK, Counts, Unqueued, NextToken, Thread, Source, Packet, Up,
       queues, counts, flags, input
  <1>4. MutualExclusion'
    BY TokenBucketAssumption DEF IInv, TypeOK, Places, MutualExclusion, InSection, NextToken, Thread, Source,
       Packet, Up, queues, counts, flags, input
  <1>5. OneInSection'
    BY TokenBucketAssumption DEF IInv, TypeOK, Places, OneInSection, InSection, NextToken, Thread, Source,
       Packet, Up, queues, counts, flags, input
  <1>6. Waits'
    BY TokenBucketAssumption DEF IInv, TypeOK, Places, OneInSection, InSection, Waits, Eligible, NextToken,
       Thread, Source, Packet, Up, queues, counts, flags, input
  <1>. QED  BY <1>1, <1>2, <1>3, <1>4, <1>5, <1>6 DEF IInv

(* It falls into the bucket.                                               *)
LEMMA AddTokenKeeps ==
  ASSUME IInv, AddToken
  PROVE  IInv'
  <1>1. TypeOK'
    BY TokenBucketAssumption DEF IInv, TypeOK, Places, Counts, AddToken, Thread, Source, Packet, Up, queues,
       counts, flags, input
  <1>2. Places'
    BY TokenBucketAssumption DEF IInv, TypeOK, Places, AddToken, Thread, Source, Packet, Up, queues, counts,
       flags, input
  <1>3. Counts'
    BY TokenBucketAssumption DEF IInv, TypeOK, Counts, Unqueued, AddToken, Thread, Source, Packet, Up,
       queues, counts, flags, input
  <1>4. MutualExclusion'
    BY TokenBucketAssumption DEF IInv, TypeOK, Places, MutualExclusion, InSection, AddToken, Thread, Source,
       Packet, Up, queues, counts, flags, input
  <1>5. OneInSection'
    BY TokenBucketAssumption DEF IInv, TypeOK, Places, OneInSection, InSection, AddToken, Thread, Source,
       Packet, Up, queues, counts, flags, input
  <1>6. Waits'
    <2>1. pc["packet"] # "queued" \/ crash = "data race"
      BY DEF IInv, AddToken, Places, OneInSection, InSection, Thread, Source
    <2>2. Q1 # <<>> => Head(Q1) \in Packet
      BY PacketSequences DEF IInv, TypeOK
    <2>3. Q1 # <<>> => required_tokens[Head(Q1)] \in Nat
      BY <2>2, TokenBucketAssumption DEF IInv, TypeOK
    <2>4. ASSUME crash # "data race", ~controlcflag
          PROVE  (Q1 # <<>> => num_tokens <= required_tokens[Head(Q1)])'
      <3>1. ~Eligible(Q1, num_tokens)
        BY <2>1, <2>4 DEF IInv, Waits, AddToken
      <3>2. /\ num_tokens \in Nat /\ num_tokens' \in {num_tokens, num_tokens + 1}
            /\ Q1' = Q1 /\ required_tokens' = required_tokens
        BY TokenBucketAssumption DEF IInv, TypeOK, AddToken, input
      <3>. QED  BY <2>3, <3>1, <3>2 DEF Eligible
    <2>5. pc'["token"] = "added" /\ crash' = crash /\ controlcflag' = controlcflag
      BY DEF IInv, TypeOK, AddToken, Thread, flags
    <2>. QED  BY <2>4, <2>5 DEF Waits
  <1>. QED  BY <1>1, <1>2, <1>3, <1>4, <1>5, <1>6 DEF IInv

(* The thread of the tokens looks at Q1.                                   *)
LEMMA TokenMovesKeeps ==
  ASSUME IInv, TokenMoves
  PROVE  IInv'
  <1>0. LeaveQ1("token", num_tokens) => LeaveStep("token")
    BY LeaveSteps DEF IInv, Source
  <1>1. TypeOK'
    <2>1. CASE LeaveQ1("token", num_tokens)
      BY <2>1, <1>0, TokenBucketAssumption DEF LeaveStep, IInv, TypeOK, TokenMoves, Thread, Source, Packet,
         counts, flags, input
    <2>2. CASE ~Eligible(Q1, num_tokens)
      BY <2>2, TokenBucketAssumption DEF IInv, TypeOK, TokenMoves, LeaveQ1, Thread, Source, queues, counts,
         flags, input
    <2>. QED  BY <2>1, <2>2 DEF TokenMoves
  <1>2. Places'
    <2>1. CASE LeaveQ1("token", num_tokens)
      BY <2>1, <1>0, TokenBucketAssumption DEF LeaveStep, IInv, TypeOK, Places, TokenMoves, Thread, Source,
         counts, flags
    <2>2. CASE ~Eligible(Q1, num_tokens)
      BY <2>2, TokenBucketAssumption DEF IInv, TypeOK, Places, TokenMoves, LeaveQ1, Thread, Source, queues,
         counts, flags
    <2>. QED  BY <2>1, <2>2 DEF TokenMoves
  <1>3. Counts'
    BY PacketSequences, TokenBucketAssumption DEF IInv, TypeOK, Counts, Unqueued, TokenMoves, LeaveQ1,
       Eligible, Thread, Source, Packet, Up, queues, counts, flags, input
  <1>4. MutualExclusion'
    BY PacketSequences, TokenBucketAssumption DEF IInv, TypeOK, Places, MutualExclusion, InSection,
       TokenMoves, LeaveQ1, Eligible, Thread, Source, Packet, Up, queues, counts, flags, input
  <1>5. OneInSection'
    BY PacketSequences, TokenBucketAssumption DEF IInv, TypeOK, Places, OneInSection, InSection, TokenMoves,
       LeaveQ1, Eligible, Thread, Source, Packet, Up, queues, counts, flags, input
  <1>6. Waits'
    <2>1. CASE LeaveQ1("token", num_tokens)
      <3>1. pc' = [pc EXCEPT !["token"] = "moving"] /\ Q1' = Tail(Q1) /\ Q1' \in Seq(Packet)
        BY <2>1, <1>0 DEF LeaveStep, IInv, Source
      <3>2. pc["packet"] # "queued" \/ crash = "data race"
        BY DEF IInv, TokenMoves, Places, OneInSection, InSection, Thread, Source
      <3>3. Q1' # <<>> => Head(Q1') \in Packet
        BY <3>1, PacketSequences
      <3>4. Q1' # <<>> => required_tokens'[Head(Q1')] \in Nat \ {0}
        BY <3>3, TokenBucketAssumption DEF IInv, TypeOK, TokenMoves, input
      <3>5. ASSUME crash # "data race", ~controlcflag
            PROVE  ~Eligible(Q1, num_tokens)'
        <4>1. /\ required_tokens[Head(Q1)] \in Nat /\ required_tokens[Head(Q1)] <= num_tokens /\ Q1 # <<>>
              /\ num_tokens' = num_tokens - required_tokens[Head(Q1)]
          BY <2>1, <1>0 DEF LeaveStep
        <4>2. num_tokens <= required_tokens[Head(Q1)]
          BY <3>5, <4>1 DEF IInv, Waits, TokenMoves
        <4>3. num_tokens \in Nat
          BY TokenBucketAssumption DEF IInv, TypeOK
        <4>4. num_tokens' = 0
          BY <4>1, <4>2, <4>3
        <4>. QED  BY <3>4, <4>4 DEF Eligible
      <3>6. pc'["token"] = "moving" /\ crash' = crash /\ controlcflag' = controlcflag
        BY <3>1 DEF IInv, TypeOK, TokenMoves, Thread, flags
      <3>. QED  BY <3>5, <3>6 DEF Waits
    <2>2. CASE ~Eligible(Q1, num_tokens)
      BY <2>2, TokenBucketAssumption DEF IInv, TypeOK, Places, OneInSection, InSection, Waits, Eligible,
         TokenMoves,
         LeaveQ1, Thread, Source, queues, counts, flags, input
    <2>. QED  BY <2>1, <2>2 DEF TokenMoves
  <1>. QED  BY <1>1, <1>2, <1>3, <1>4, <1>5, <1>6 DEF IInv

(* and leaves.                                                             *)
LEMMA TokenUnlocksKeeps ==
  ASSUME IInv, TokenUnlocks
  PROVE  IInv'
  <1>1. TypeOK'
    BY TokenBucketAssumption DEF IInv, TypeOK, Places, Counts, TokenUnlocks, Thread, Source, Packet, Up,
       queues, counts, flags, input
  <1>2. Places'
    BY TokenBucketAssumption DEF IInv, TypeOK, Places, TokenUnlocks, Thread, Source, Packet, Up, queues,
       counts, flags, input
  <1>3. Counts'
    BY TokenBucketAssumption DEF IInv, TypeOK, Counts, Unqueued, TokenUnlocks, Thread, Source, Packet, Up,
       queues, counts, flags, input
  <1>4. MutualExclusion'
    BY TokenBucketAssumption DEF IInv, TypeOK, Places, MutualExclusion, InSection, TokenUnlocks, Thread,
       Source, Packet, Up, queues, counts, flags, input
  <1>5. OneInSection'
    BY TokenBucketAssumption DEF IInv, TypeOK, Places, OneInSection, InSection, TokenUnlocks, Thread, Source,
       Packet, Up, queues, counts, flags, input
  <1>6. Waits'
    BY TokenBucketAssumption DEF IInv, TypeOK, Places, OneInSection, InSection, Waits, Eligible,
       TokenUnlocks, Thread, Source, Packet, Up, queues, counts, flags, input
  <1>. QED  BY <1>1, <1>2, <1>3, <1>4, <1>5, <1>6 DEF IInv

(* A packet is read.                                                       *)
LEMMA ReadPacketKeeps ==
  ASSUME IInv, ReadPacket
  PROVE  IInv'
  <1>1. TypeOK'
    BY TokenBucketAssumption DEF IInv, TypeOK, Places, Counts, ReadPacket, Thread, Source, Packet, Up,
       queues, counts, flags, input
  <1>2. Places'
    BY TokenBucketAssumption DEF IInv, TypeOK, Places, ReadPacket, Thread, Source, Packet, Up, queues,
       counts, flags, input
  <1>3. Counts'
    BY TokenBucketAssumption DEF IInv, TypeOK, Counts, Unqueued, ReadPacket, Thread, Source, Packet, Up,
       queues, counts, flags, input
  <1>4. MutualExclusion'
    BY TokenBucketAssumption DEF IInv, TypeOK, Places, MutualExclusion, InSection, ReadPacket, Thread,
       Source, Packet, Up, queues, counts, flags, input
  <1>5. OneInSection'
    BY TokenBucketAssumption DEF IInv, TypeOK, Places, OneInSection, InSection, ReadPacket, Thread, Source,
       Packet, Up, queues, counts, flags, input
  <1>6. Waits'
    BY TokenBucketAssumption DEF IInv, TypeOK, Places, OneInSection, InSection, Waits, Eligible, ReadPacket,
       Thread, Source, Packet, Up, queues, counts, flags, input
  <1>. QED  BY <1>1, <1>2, <1>3, <1>4, <1>5, <1>6 DEF IInv

(* It arrives,                                                             *)
LEMMA NextPacketKeeps ==
  ASSUME IInv, NextPacket
  PROVE  IInv'
  <1>1. TypeOK'
    BY TokenBucketAssumption DEF IInv, TypeOK, Places, Counts, NextPacket, Thread, Source, Packet, Up,
       queues, counts, flags, input
  <1>2. Places'
    BY TokenBucketAssumption DEF IInv, TypeOK, Places, NextPacket, Thread, Source, Packet, Up, queues,
       counts, flags, input
  <1>3. Counts'
    BY TokenBucketAssumption DEF IInv, TypeOK, Counts, Unqueued, NextPacket, Thread, Source, Packet, Up,
       queues, counts, flags, input
  <1>4. MutualExclusion'
    BY TokenBucketAssumption DEF IInv, TypeOK, Places, MutualExclusion, InSection, NextPacket, Thread,
       Source, Packet, Up, queues, counts, flags, input
  <1>5. OneInSection'
    BY TokenBucketAssumption DEF IInv, TypeOK, Places, OneInSection, InSection, NextPacket, Thread, Source,
       Packet, Up, queues, counts, flags, input
  <1>6. Waits'
    BY TokenBucketAssumption DEF IInv, TypeOK, Places, OneInSection, InSection, Waits, Eligible, NextPacket,
       Thread, Source, Packet, Up, queues, counts, flags, input
  <1>. QED  BY <1>1, <1>2, <1>3, <1>4, <1>5, <1>6 DEF IInv

(* enters Q1,                                                              *)
LEMMA EnterQ1Keeps ==
  ASSUME IInv, EnterQ1
  PROVE  IInv'
  <1>1. TypeOK'
    BY PacketSequences, TokenBucketAssumption DEF IInv, TypeOK, Places, Counts, EnterQ1, Thread, Source,
       Packet, Up, queues, counts, flags, input
  <1>2. Places'
    BY PacketSequences, TokenBucketAssumption DEF IInv, TypeOK, Places, EnterQ1, Thread, Source, Packet, Up,
       queues, counts, flags, input
  <1>3. Counts'
    BY PacketSequences, TokenBucketAssumption DEF IInv, TypeOK, Counts, Unqueued, EnterQ1, Thread, Source,
       Packet, Up, queues, counts, flags, input
  <1>4. MutualExclusion'
    BY PacketSequences, TokenBucketAssumption DEF IInv, TypeOK, Places, MutualExclusion, InSection, EnterQ1,
       Thread, Source, Packet, Up, queues, counts, flags, input
  <1>5. OneInSection'
    BY PacketSequences, TokenBucketAssumption DEF IInv, TypeOK, Places, OneInSection, InSection, EnterQ1,
       Thread, Source, Packet, Up, queues, counts, flags, input
  <1>6. Waits'
    BY PacketSequences, TokenBucketAssumption DEF IInv, TypeOK, Places, OneInSection, InSection, Waits,
       Eligible, EnterQ1, Thread, Source, Packet, Up, queues, counts, flags, input
  <1>. QED  BY <1>1, <1>2, <1>3, <1>4, <1>5, <1>6 DEF IInv

(* leaves it at once or waits,                                             *)
LEMMA PacketMovesKeeps ==
  ASSUME IInv, PacketMoves
  PROVE  IInv'
  <1>0. LeaveQ1("packet", num_tokens) => LeaveStep("packet")
    BY LeaveSteps DEF IInv, Source
  <1>1. TypeOK'
    <2>1. CASE LeaveQ1("packet", num_tokens)
      BY <2>1, <1>0, TokenBucketAssumption DEF LeaveStep, IInv, TypeOK, PacketMoves, Thread, Source, Packet,
         counts, flags, input
    <2>2. CASE ~Eligible(Q1, num_tokens)
      BY <2>2, TokenBucketAssumption DEF IInv, TypeOK, PacketMoves, LeaveQ1, Thread, Source, queues, counts,
         flags, input
    <2>. QED  BY <2>1, <2>2 DEF PacketMoves
  <1>2. Places'
    <2>1. CASE LeaveQ1("packet", num_tokens)
      BY <2>1, <1>0, TokenBucketAssumption DEF LeaveStep, IInv, TypeOK, Places, PacketMoves, Thread, Source,
         counts, flags
    <2>2. CASE ~Eligible(Q1, num_tokens)
      BY <2>2, TokenBucketAssumption DEF IInv, TypeOK, Places, PacketMoves, LeaveQ1, Thread, Source, queues,
         counts, flags
    <2>. QED  BY <2>1, <2>2 DEF PacketMoves
  <1>3. Counts'
    BY PacketSequences, TokenBucketAssumption DEF IInv, TypeOK, Counts, Unqueued, PacketMoves, LeaveQ1,
       Eligible, Thread, Source, Packet, Up, queues, counts, flags, input
  <1>4. MutualExclusion'
    BY PacketSequences, TokenBucketAssumption DEF IInv, TypeOK, Places, MutualExclusion, InSection,
       PacketMoves, LeaveQ1, Eligible, Thread, Source, Packet, Up, queues, counts, flags, input
  <1>5. OneInSection'
    BY PacketSequences, TokenBucketAssumption DEF IInv, TypeOK, Places, OneInSection, InSection, PacketMoves,
       LeaveQ1, Eligible, Thread, Source, Packet, Up, queues, counts, flags, input
  <1>6. Waits'
    <2>1. CASE LeaveQ1("packet", num_tokens)
      <3>1. pc' = [pc EXCEPT !["packet"] = "moving"] /\ Q1' = Tail(Q1) /\ Q1' \in Seq(Packet)
        BY <2>1, <1>0 DEF LeaveStep, IInv, Source
      <3>2. pc["token"] # "added" \/ crash = "data race"
        BY DEF IInv, PacketMoves, Places, OneInSection, InSection, Thread, Source
      <3>3. (crash # "data race" /\ ~controlcflag) => Q1' = <<>>
        <4>1. (crash # "data race" /\ ~controlcflag) => Len(Q1) = 1
          BY <2>1, <3>2 DEF IInv, Waits, LeaveQ1
        <4>2. Len(Q1') = Len(Q1) - 1
          BY <2>1, <1>0 DEF LeaveStep
        <4>3. Len(Q1') = 0 => Q1' = <<>>
          BY <3>1, EmptySeq
        <4>4. Len(Q1) = 1 => Q1' = <<>>
          BY <4>2, <4>3
        <4>. QED  BY <4>1, <4>4
      <3>. QED  BY <3>1, <3>2, <3>3 DEF IInv, TypeOK, Waits, Eligible, PacketMoves, flags
    <2>2. CASE ~Eligible(Q1, num_tokens)
      BY <2>2, TokenBucketAssumption DEF IInv, TypeOK, Places, OneInSection, InSection, Waits, Eligible,
         PacketMoves,
         LeaveQ1, Thread, Source, queues, counts, flags, input
    <2>. QED  BY <2>1, <2>2 DEF PacketMoves
  <1>. QED  BY <1>1, <1>2, <1>3, <1>4, <1>5, <1>6 DEF IInv

(* or is dropped.                                                          *)
LEMMA DropPacketKeeps ==
  ASSUME IInv, DropPacket
  PROVE  IInv'
  <1>1. TypeOK'
    BY TokenBucketAssumption DEF IInv, TypeOK, Places, Counts, DropPacket, Thread, Source, Packet, Up,
       queues, counts, flags, input
  <1>2. Places'
    BY TokenBucketAssumption DEF IInv, TypeOK, Places, DropPacket, Thread, Source, Packet, Up, queues,
       counts, flags, input
  <1>3. Counts'
    BY TokenBucketAssumption DEF IInv, TypeOK, Counts, Unqueued, DropPacket, Thread, Source, Packet, Up,
       queues, counts, flags, input
  <1>4. MutualExclusion'
    BY TokenBucketAssumption DEF IInv, TypeOK, Places, MutualExclusion, InSection, DropPacket, Thread,
       Source, Packet, Up, queues, counts, flags, input
  <1>5. OneInSection'
    BY TokenBucketAssumption DEF IInv, TypeOK, Places, OneInSection, InSection, DropPacket, Thread, Source,
       Packet, Up, queues, counts, flags, input
  <1>6. Waits'
    BY TokenBucketAssumption DEF IInv, TypeOK, Places, OneInSection, InSection, Waits, Eligible, DropPacket,
       Thread, Source, Packet, Up, queues, counts, flags, input
  <1>. QED  BY <1>1, <1>2, <1>3, <1>4, <1>5, <1>6 DEF IInv

(* The last one may end the emulation.                                     *)
LEMMA LastPacketKeeps ==
  ASSUME IInv, LastPacket
  PROVE  IInv'
  <1>1. TypeOK'
    BY TokenBucketAssumption DEF IInv, TypeOK, Places, Counts, LastPacket, Broadcast, Waiting, Thread,
       Source, Packet, Up, queues, counts, flags, input
  <1>2. Places'
    BY TokenBucketAssumption DEF IInv, TypeOK, Places, LastPacket, Broadcast, Waiting, Thread, Source,
       Packet, Up, queues, counts, flags, input
  <1>3. Counts'
    BY TokenBucketAssumption DEF IInv, TypeOK, Counts, Unqueued, LastPacket, Broadcast, Waiting, Thread,
       Source, Packet, Up, queues, counts, flags, input
  <1>4. MutualExclusion'
    BY TokenBucketAssumption DEF IInv, TypeOK, Places, MutualExclusion, InSection, LastPacket, Broadcast,
       Waiting, Thread, Source, Packet, Up, queues, counts, flags, input
  <1>5. OneInSection'
    BY TokenBucketAssumption DEF IInv, TypeOK, Places, OneInSection, InSection, LastPacket, Broadcast,
       Waiting, Thread, Source, Packet, Up, queues, counts, flags, input
  <1>6. Waits'
    BY TokenBucketAssumption DEF IInv, TypeOK, Places, OneInSection, InSection, Waits, Eligible, LastPacket,
       Broadcast, Waiting, Thread, Source, Packet, Up, queues, counts, flags, input
  <1>. QED  BY <1>1, <1>2, <1>3, <1>4, <1>5, <1>6 DEF IInv

(* The mutex is given back, locked or not.                                 *)
LEMMA PacketUnlocksKeeps ==
  ASSUME IInv, PacketUnlocks
  PROVE  IInv'
  <1>1. TypeOK'
    BY TokenBucketAssumption DEF IInv, TypeOK, Places, Counts, PacketUnlocks, Thread, Source, Packet, Up,
       queues, counts, flags, input
  <1>2. Places'
    BY TokenBucketAssumption DEF IInv, TypeOK, Places, PacketUnlocks, Thread, Source, Packet, Up, queues,
       counts, flags, input
  <1>3. Counts'
    BY TokenBucketAssumption DEF IInv, TypeOK, Counts, Unqueued, PacketUnlocks, Thread, Source, Packet, Up,
       queues, counts, flags, input
  <1>4. MutualExclusion'
    BY TokenBucketAssumption DEF IInv, TypeOK, Places, MutualExclusion, InSection, PacketUnlocks, Thread,
       Source, Packet, Up, queues, counts, flags, input
  <1>5. OneInSection'
    BY TokenBucketAssumption DEF IInv, TypeOK, Places, OneInSection, InSection, PacketUnlocks, Thread,
       Source, Packet, Up, queues, counts, flags, input
  <1>6. Waits'
    BY TokenBucketAssumption DEF IInv, TypeOK, Places, OneInSection, InSection, Waits, Eligible,
       PacketUnlocks, Thread, Source, Packet, Up, queues, counts, flags, input
  <1>. QED  BY <1>1, <1>2, <1>3, <1>4, <1>5, <1>6 DEF IInv

(* What a server that has the mutex does.                                  *)
LookStep(s) ==
  /\ m' = NoThread /\ s \notin Source /\ pc[s] \in {"look", "awake"}
  /\ UNCHANGED <<Q1, num_tokens, q1_to_q2, counts, flags, flag, mutex_locked, input, closefile, crash>>
  /\ \/ /\ pc' = [pc EXCEPT ![s] = "serving"] /\ Head(Q2) \in Packet
        /\ hand' = [hand EXCEPT ![s] = Head(Q2)] /\ Q2' \in Seq(Packet)
     \/ /\ pc' = [pc EXCEPT ![s] = "waiting"] \/ pc' = [pc EXCEPT ![s] = "exited"]
        /\ UNCHANGED <<hand, Q2>>

(* That is what server_Look and server_Awake do.                           *)
LEMMA LookSteps ==
  ASSUME TypeOK, NEW s \in Server, server_Look(s) \/ server_Awake(s)
  PROVE  LookStep(s)
  <1>1. s \notin Source
    BY TokenBucketAssumption DEF Source
  <1>2. Q2 # <<>> => Head(Q2) \in Packet /\ Tail(Q2) \in Seq(Packet)
    BY PacketSequences DEF TypeOK
  <1>. QED  BY <1>1, <1>2 DEF server_Look, server_Awake, Look, queues, LookStep

(* A server looks at Q2,                                                   *)
LEMMA ServerLooksKeeps ==
  ASSUME IInv, NEW s \in Server, server_Look(s) \/ server_Awake(s)
  PROVE  IInv'
  <1>0. LookStep(s)
    BY LookSteps DEF IInv
  <1>1. TypeOK'
    BY <1>0, TokenBucketAssumption DEF LookStep, IInv, TypeOK, Thread, Source, counts, flags, input
  <1>2. Places'
    BY <1>0, TokenBucketAssumption DEF LookStep, IInv, TypeOK, Places, Thread, Source, counts, flags
  <1>3. Counts'
    BY <1>0, TokenBucketAssumption DEF LookStep, IInv, TypeOK, Counts, Unqueued, Thread, Source, counts
  <1>4. MutualExclusion'
    BY <1>0, TokenBucketAssumption DEF LookStep, IInv, TypeOK, MutualExclusion, InSection, Thread, Source,
       counts
  <1>5. OneInSection'
    <2>1. \A u \in Thread : InSection(u)' => InSection(u)
      BY <1>0, TokenBucketAssumption DEF LookStep, IInv, TypeOK, InSection, Thread, Source
    <2>2. crash' = "none"
      BY <1>0 DEF LookStep, server_Look, server_Awake, Up
    <2>. QED  BY <2>1, <2>2, <1>0 DEF LookStep, IInv, OneInSection
  <1>6. Waits'
    BY <1>0, TokenBucketAssumption DEF LookStep, IInv, TypeOK, Waits, Eligible, Thread, Source, flags, input
  <1>. QED  BY <1>1, <1>2, <1>3, <1>4, <1>5, <1>6 DEF IInv

(* and a packet departs.                                                   *)
LEMMA DepartKeeps ==
  ASSUME IInv, NEW s \in Server, server_Depart(s)
  PROVE  IInv'
  <1>1. TypeOK'
    <2>1. hand[s] \in Packet
      BY DEF IInv, Places, server_Depart
    <2>2. served' \subseteq Packet /\ hand' \in [Thread -> Packet \cup {NoPacket}] /\ terminate' \in BOOLEAN
      BY <2>1 DEF IInv, TypeOK, server_Depart, Thread
    <2>3. /\ DOMAIN pc' = Thread /\ pc'["token"] = pc["token"] /\ pc'["packet"] = pc["packet"]
          /\ pc'["handler"] = pc["handler"]
      BY TokenBucketAssumption DEF IInv, TypeOK, server_Depart, Waiting, Thread
    <2>4. \A u \in Server : pc'[u] \in {pc[u], "look_lock", "woken", "exited"}
      BY DEF IInv, TypeOK, server_Depart, Waiting, Thread
    <2>. QED  BY <2>2, <2>3, <2>4 DEF IInv, TypeOK, server_Depart, flags, input
  <1>2. Places'
    BY TokenBucketAssumption DEF IInv, TypeOK, Places, server_Depart, Waiting, Thread, Source, Packet, Up,
       NoPacket, queues, counts, flags, input
  <1>3. Counts'
    BY TokenBucketAssumption DEF IInv, TypeOK, Counts, Unqueued, server_Depart, Waiting, Thread, Source,
       Packet, Up, NoPacket, queues, counts, flags, input
  <1>4. MutualExclusion'
    <2>1. \A u \in Thread : InSection(u)' => InSection(u)
      BY TokenBucketAssumption DEF IInv, TypeOK, server_Depart, Waiting, InSection, Thread, Source
    <2>2. s \in Thread /\ InSection(s) /\ ~InSection(s)'
      BY TokenBucketAssumption DEF IInv, TypeOK, server_Depart, Waiting, InSection, Thread, Source
    <2>3. crash' = crash /\ dropped' = dropped /\ crash # "data race"
      BY DEF server_Depart, Up
    <2>4. ASSUME dropped = {}, NEW u \in Thread, InSection(u)' PROVE FALSE
      <3>1. u = m /\ s = m
        BY <2>1, <2>2, <2>4 DEF IInv, MutualExclusion
      <3>. QED  BY <2>2, <2>4, <3>1
    <2>. QED  BY <2>3, <2>4 DEF MutualExclusion
  <1>5. OneInSection'
    <2>1. \A u \in Thread : InSection(u)' => InSection(u)
      BY TokenBucketAssumption DEF IInv, TypeOK, server_Depart, Waiting, InSection, Thread, Source
    <2>2. crash' = "none" /\ crash = "none"
      BY DEF server_Depart, Up
    <2>. QED  BY <2>1, <2>2 DEF IInv, OneInSection
  <1>6. Waits'
    BY TokenBucketAssumption DEF IInv, TypeOK, Places, OneInSection, InSection, Waits, Eligible,
       server_Depart, Waiting, Thread, Source, Packet, Up, NoPacket, queues, counts, flags, input
  <1>. QED  BY <1>1, <1>2, <1>3, <1>4, <1>5, <1>6 DEF IInv

(* The user interrupts the emulation,                                      *)
LEMMA ControlCKeeps ==
  ASSUME IInv, ControlC
  PROVE  IInv'
  <1>1. TypeOK'
    BY TokenBucketAssumption DEF IInv, TypeOK, Places, Counts, ControlC, Thread, Source, Packet, Up, queues,
       counts, flags, input
  <1>2. Places'
    BY TokenBucketAssumption DEF IInv, TypeOK, Places, ControlC, Thread, Source, Packet, Up, queues, counts,
       flags, input
  <1>3. Counts'
    BY TokenBucketAssumption DEF IInv, TypeOK, Counts, Unqueued, ControlC, Thread, Source, Packet, Up,
       queues, counts, flags, input
  <1>4. MutualExclusion'
    BY TokenBucketAssumption DEF IInv, TypeOK, Places, MutualExclusion, InSection, ControlC, Thread, Source,
       Packet, Up, queues, counts, flags, input
  <1>5. OneInSection'
    BY TokenBucketAssumption DEF IInv, TypeOK, Places, OneInSection, InSection, ControlC, Thread, Source,
       Packet, Up, queues, counts, flags, input
  <1>6. Waits'
    BY TokenBucketAssumption DEF IInv, TypeOK, Places, OneInSection, InSection, Waits, Eligible, ControlC,
       Thread, Source, Packet, Up, queues, counts, flags, input
  <1>. QED  BY <1>1, <1>2, <1>3, <1>4, <1>5, <1>6 DEF IInv

(* which empties the queues.                                               *)
LEMMA RemoveKeeps ==
  ASSUME IInv, RemovePackets
  PROVE  IInv'
  <1>1. TypeOK'
    <2>1. ToSet(Q1) \subseteq Packet /\ ToSet(Q2) \subseteq Packet
      BY PacketSequences DEF IInv, TypeOK
    <2>2. removed' \subseteq Packet /\ Q1' \in Seq(Packet) /\ Q2' \in Seq(Packet) /\ cancelled' \in {{}, Source}
      BY <2>1 DEF IInv, TypeOK, RemovePackets
    <2>3. /\ DOMAIN pc' = Thread /\ pc'["token"] = pc["token"] /\ pc'["packet"] = pc["packet"]
          /\ pc'["handler"] = "exited" /\ \A u \in Server : pc'[u] \in {pc[u], "woken"}
      BY TokenBucketAssumption DEF IInv, TypeOK, RemovePackets, Broadcast, Waiting, Thread
    <2>. QED  BY <2>2, <2>3 DEF IInv, TypeOK, RemovePackets, input
  <1>2. Places'
    BY PacketSequences, TokenBucketAssumption DEF IInv, TypeOK, Places, RemovePackets, Broadcast, Waiting,
       Thread, Source, Packet, Up, queues, counts, flags, input
  <1>3. Counts'
    BY PacketSequences, TokenBucketAssumption DEF IInv, TypeOK, Counts, Unqueued, RemovePackets, Broadcast,
       Waiting, Thread, Source, Packet, Up, queues, counts, flags, input
  <1>4. MutualExclusion'
    BY PacketSequences, TokenBucketAssumption DEF IInv, TypeOK, Places, MutualExclusion, InSection,
       RemovePackets, Broadcast, Waiting, Thread, Source, Packet, Up, queues, counts, flags, input
  <1>5. OneInSection'
    BY PacketSequences, TokenBucketAssumption DEF IInv, TypeOK, Places, OneInSection, InSection,
       RemovePackets, Broadcast, Waiting, Thread, Source, Packet, Up, queues, counts, flags, input
  <1>6. Waits'
    BY PacketSequences, TokenBucketAssumption DEF IInv, TypeOK, Places, OneInSection, InSection, Waits,
       Eligible, RemovePackets, Broadcast, Waiting, Thread, Source, Packet, Up, queues, counts, flags, input
  <1>. QED  BY <1>1, <1>2, <1>3, <1>4, <1>5, <1>6 DEF IInv

-----------------------------------------------------------------------------
(* The initial states satisfy the invariant.                               *)
LEMMA InitInvariant == Init => IInv
  <1> SUFFICES ASSUME Init PROVE IInv
    OBVIOUS
  <1>1. /\ DOMAIN pc = Thread /\ pc["token"] = "sleep" /\ pc["packet"] = "read" /\ pc["handler"] = "sigwait"
        /\ \A s \in Server : pc[s] = "look_lock"
    BY TokenBucketAssumption DEF Init, parseCommandLine, Thread
  <1>2. /\ Q1 = <<>> /\ Q2 = <<>> /\ Q1 \in Seq(Packet) /\ Len(Q1) = 0 /\ hand \in [Thread -> Packet \cup {NoPacket}]
        /\ mutex_locked = [t \in Source |-> FALSE]
    BY DEF Init, parseCommandLine
  <1>3. TypeOK
    <2>1. /\ m = NoThread /\ 0 \in 0 .. B /\ 0 \in 0 .. num /\ num_tokens = 0 /\ packets_generated = 0 /\ q1_to_q2 = 0
          /\ served = {} /\ dropped = {} /\ removed = {} /\ cancelled = {} /\ required_tokens \in [Packet -> Needs]
      BY TokenBucketAssumption DEF Init, parseCommandLine
    <2>2. /\ {controlcflag, end, terminate, trace, closefile} \subseteq BOOLEAN
          /\ flag \in [Source -> BOOLEAN] /\ mutex_locked \in [Source -> BOOLEAN]
      BY DEF Init, parseCommandLine
    <2>. QED  BY <1>1, <1>2, <2>1, <2>2 DEF TypeOK
  <1>4. \A t \in Thread : ~InSection(t)
    BY <1>1, <1>2, TokenBucketAssumption DEF InSection, Thread, Source
  <1>5. Places
    BY <1>1, TokenBucketAssumption DEF Init, parseCommandLine, Places, Source
  <1>6. Counts
    <2>1. packets_generated = 0 /\ q1_to_q2 = 0 /\ 0 < num
      BY TokenBucketAssumption DEF Init, parseCommandLine
    <2>. QED  BY <1>1, <1>2, <2>1 DEF Counts, Unqueued
  <1>7. MutualExclusion /\ OneInSection /\ Waits
    BY <1>1, <1>2, <1>4 DEF Init, parseCommandLine, MutualExclusion, OneInSection, Waits, Eligible
  <1>. QED  BY <1>3, <1>5, <1>6, <1>7 DEF IInv

(* Stuttering keeps the invariant,                                         *)
LEMMA StutterKeeps == IInv /\ UNCHANGED vars => IInv'
  <1> SUFFICES ASSUME IInv, UNCHANGED vars PROVE IInv'
    OBVIOUS
  <1>1. TypeOK'
    BY DEF IInv, TypeOK, vars, queues, counts, flags, input
  <1>2. Places' /\ Counts'
    BY DEF IInv, Places, Counts, Unqueued, vars, queues, counts, flags, input
  <1>3. MutualExclusion' /\ OneInSection'
    BY DEF IInv, MutualExclusion, OneInSection, InSection, vars, queues, counts, flags, input
  <1>4. Waits'
    BY DEF IInv, Waits, Eligible, vars, queues, counts, flags, input
  <1>. QED  BY <1>1, <1>2, <1>3, <1>4 DEF IInv

(* and so does every step.                                                 *)
LEMMA NextKeeps == IInv /\ [Next]_vars => IInv'
  <1> SUFFICES ASSUME IInv, [Next]_vars PROVE IInv'
    OBVIOUS
  <1>1. ASSUME NEW t \in Thread, pthread_mutex_lock(t) PROVE IInv'
    BY <1>1, LockKeeps
  <1>2. ASSUME NEW t \in Source, Moves(t) PROVE IInv'
    BY <1>2, EnterQ2Keeps, SignalKeeps, CancelledKeeps, CleanupKeeps, ClosedKeeps DEF Moves
  <1>3. CASE DepositeToken
    BY <1>3, NextTokenKeeps, AddTokenKeeps, TokenMovesKeeps, TokenUnlocksKeeps DEF DepositeToken
  <1>4. CASE PacketArrival
    BY <1>4, ReadPacketKeeps, NextPacketKeeps, EnterQ1Keeps, PacketMovesKeeps, DropPacketKeeps, LastPacketKeeps,
       PacketUnlocksKeeps DEF PacketArrival
  <1>5. CASE ControlCReciever \/ ControlC
    BY <1>5, ControlCKeeps, RemoveKeeps DEF ControlCReciever
  <1>6. ASSUME NEW s \in Server, server(s) \/ SpuriousWakeup(s) PROVE IInv'
    BY <1>6, ServerLooksKeeps, DepartKeeps, SpuriousKeeps DEF server
  <1>7. CASE UNCHANGED vars
    BY <1>7, StutterKeeps
  <1>. QED  BY <1>1, <1>2, <1>3, <1>4, <1>5, <1>6, <1>7 DEF Next, Stopped

(* It holds in every reachable state.                                      *)
LEMMA Invariant == Spec => []IInv
BY InitInvariant, NextKeeps, PTL DEF Spec

(* The program's variables keep their types, the bucket never overflows    *)
(* and no counter runs ahead of the packets.                               *)
THEOREM TypesHold == Spec => []TypeOK
  <1>1. IInv => TypeOK
    BY DEF IInv
  <1>. QED  BY <1>1, Invariant, PTL

(* Until a packet is dropped, the mutex is held by the one thread that     *)
(* works on the queues (warmup2.c:301-449).                                *)
THEOREM OnlyHolderWorks == Spec => []MutualExclusion
  <1>1. IInv => MutualExclusion
    BY DEF IInv
  <1>. QED  BY <1>1, Invariant, PTL

(* When nobody works on the queues, the first packet of Q1 lacks tokens,   *)
(* whatever the order in which tokens and packets came.                    *)
THEOREM NoTokenIsOverlooked == Spec => []HeadWaitsForTokens
  <1>1. IInv => HeadWaitsForTokens
    BY DEF IInv, TypeOK, Places, OneInSection, Waits, HeadWaitsForTokens, InSection, Source, Thread
  <1>. QED  BY <1>1, Invariant, PTL

-----------------------------------------------------------------------------
(* The packets on their way.  What follows relies on IInv.                 *)

Before(A, C) == \A a \in A, c \in C : a < c
Ascending(q) == \A i, j \in DOMAIN q : i < j => q[i] < q[j]

(* The packet that is neither queued nor dropped yet; those that a source  *)
(* carries from Q1 to Q2; those that have left Q2.                         *)
Arriving == pc["packet"] \in {"lock", "in", "drop"}
Carried  == {hand[t] : t \in Source} \ {NoPacket}
Served   == served \cup ({hand[s] : s \in Server} \ {NoPacket})
Underway == ToSet(Q2) \cup Carried \cup ToSet(Q1)

(* Packets are only carried in the step between the two queues.            *)
Hands ==
  /\ hand["token"] = NoPacket \/ hand["packet"] = NoPacket
  /\ \A t \in Source : hand[t] # NoPacket => pc[t] = "moving"
  /\ \A s \in Server : hand[s] # NoPacket => pc[s] \in {"serving", "depart"}

(* Nobody overtakes.                                                       *)
Ordered ==
  /\ Ascending(Q1) /\ Ascending(Q2)
  /\ Before(Served, Underway)
  /\ Before(ToSet(Q2), Carried \cup ToSet(Q1))
  /\ Before(Carried, ToSet(Q1))
  /\ \A p \in Served \cup Underway \cup dropped :
       IF Arriving THEN p < packets_generated ELSE p <= packets_generated

(* The last packet ends the emulation under the mutex, unless it is        *)
(* dropped.                                                                *)
Arrivals ==
  /\ \A p \in dropped : required_tokens[p] > B
  /\ pc["packet"] = "drop" => required_tokens[packets_generated] > B
  /\ pc["packet"] \in {"check", "unlock"} =>
       mutex_locked["packet"] \/ packets_generated \in dropped
  /\ pc["packet"] \in {"cleanup", "closing", "exited"} =>
       packets_generated = num \/ controlcflag

(* Until <Ctrl+C>, every packet is somewhere, and each of the two signs of *)
(* the end is only given when the other packets are served or dropped.     *)
Accounted ==
  /\ dropped \cap (Served \cup Underway) = {}
  /\ ~controlcflag =>
       /\ \A p \in 1 .. packets_generated :
            \/ p \in Served \cup Underway \cup dropped
            \/ Arriving /\ p = packets_generated
       /\ terminate => Packet \subseteq served \cup dropped
       /\ (end /\ required_tokens[num] <= B) =>
            packets_generated = num /\ Packet \subseteq Served \cup dropped

(* If all servers wait, whoever brings a packet will wake them.            *)
Attended ==
  /\ \A s \in Server : pc[s] = "exited" => Over
  /\ (Up /\ ~Over /\ \A s \in Server : pc[s] = "waiting") =>
       IF Q2 # <<>> THEN \E t \in Source : pc[t] = "entered" /\ flag[t]
       ELSE \A t \in Source : pc[t] = "moving" => flag[t]

Journey == Hands /\ Ordered /\ Arrivals /\ Accounted /\ Attended

-----------------------------------------------------------------------------
(* Lists in ascending order.                                               *)

(* Appending to a list in ascending order what is larger.                  *)
LEMMA LineGrows ==
  ASSUME NEW q \in Seq(Packet), NEW p \in Packet
  PROVE  /\ ToSet(Append(q, p)) = ToSet(q) \cup {p}
         /\ Ascending(q) /\ Before(ToSet(q), {p}) => Ascending(Append(q, p))
  <1>1. PICK u : u = Append(q, p)
    OBVIOUS
  <1>2. /\ Len(q) \in Nat /\ DOMAIN q = 1 .. Len(q)
        /\ DOMAIN u = 1 .. Len(q) + 1 /\ u[Len(q) + 1] = p
        /\ \A i \in 1 .. Len(q) : u[i] = q[i]
    BY <1>1
  <1>3. ToSet(u) = ToSet(q) \cup {p}
    <2>1. ASSUME NEW x \in ToSet(q) \cup {p} PROVE x \in ToSet(u)
      <3>1. CASE x = p
        BY <1>2, <3>1 DEF ToSet
      <3>2. CASE x \in ToSet(q)
        BY <1>2, <3>2 DEF ToSet
      <3>. QED  BY <2>1, <3>1, <3>2
    <2>2. ASSUME NEW i \in DOMAIN u PROVE u[i] \in ToSet(q) \cup {p}
      BY <1>2 DEF ToSet
    <2>. QED  BY <2>1, <2>2 DEF ToSet
  <1>4. ASSUME Ascending(q), Before(ToSet(q), {p}), NEW i \in DOMAIN u, NEW j \in DOMAIN u, i < j
        PROVE  u[i] < u[j]
    <2>1. i \in 1 .. Len(q) /\ u[i] = q[i]
      BY <1>2, <1>4
    <2>2. CASE j = Len(q) + 1
      BY <1>2, <1>4, <2>1, <2>2 DEF Before, ToSet
    <2>3. CASE j # Len(q) + 1
      <3>1. j \in 1 .. Len(q) /\ u[j] = q[j]
        BY <1>2, <2>3
      <3>. QED  BY <1>2, <1>4, <2>1, <3>1 DEF Ascending
    <2>. QED  BY <2>2, <2>3
  <1>. QED  BY <1>1, <1>3, <1>4 DEF Ascending

(* Taking its first, which is the smallest.                                *)
LEMMA LineShrinks ==
  ASSUME NEW q \in Seq(Packet), q # <<>>
  PROVE  /\ Head(q) \in Packet /\ Tail(q) \in Seq(Packet)
         /\ ToSet(q) = {Head(q)} \cup ToSet(Tail(q))
         /\ Ascending(q) => Ascending(Tail(q)) /\ Before({Head(q)}, ToSet(Tail(q)))
  <1>1. PICK u : u = Tail(q)
    OBVIOUS
  <1>2. /\ Len(q) \in Nat \ {0} /\ DOMAIN q = 1 .. Len(q)
        /\ u \in Seq(Packet) /\ DOMAIN u = 1 .. Len(q) - 1
        /\ \A i \in 1 .. Len(q) - 1 : u[i] = q[i + 1]
        /\ Head(q) = q[1] /\ q[1] \in Packet
    BY <1>1
  <1>3. ToSet(q) = {q[1]} \cup ToSet(u)
    <2>1. ASSUME NEW i \in DOMAIN q PROVE q[i] \in {q[1]} \cup ToSet(u)
      <3>1. CASE i = 1
        BY <3>1
      <3>2. CASE i # 1
        <4>1. i - 1 \in DOMAIN u /\ u[i - 1] = q[i]
          BY <1>2, <3>2
        <4>. QED  BY <4>1 DEF ToSet
      <3>. QED  BY <3>1, <3>2
    <2>2. ASSUME NEW i \in DOMAIN u PROVE u[i] \in ToSet(q)
      <3>1. i + 1 \in DOMAIN q /\ u[i] = q[i + 1]
        BY <1>2
      <3>. QED  BY <3>1 DEF ToSet
    <2>3. q[1] \in ToSet(q)
      BY <1>2 DEF ToSet
    <2>. QED  BY <2>1, <2>2, <2>3 DEF ToSet
  <1>4. ASSUME Ascending(q) PROVE Ascending(u) /\ Before({q[1]}, ToSet(u))
    <2>1. ASSUME NEW i \in DOMAIN u, NEW j \in DOMAIN u, i < j PROVE u[i] < u[j]
      <3>1. i + 1 \in DOMAIN q /\ j + 1 \in DOMAIN q /\ i + 1 < j + 1
        BY <1>2, <2>1
      <3>. QED  BY <1>2, <1>4, <3>1 DEF Ascending
    <2>2. ASSUME NEW i \in DOMAIN u PROVE q[1] < u[i]
      <3>1. 1 \in DOMAIN q /\ i + 1 \in DOMAIN q /\ 1 < i + 1 /\ u[i] = q[i + 1]
        BY <1>2
      <3>. QED  BY <1>4, <3>1 DEF Ascending
    <2>. QED  BY <2>1, <2>2 DEF Ascending, Before, ToSet
  <1>. QED  BY <1>1, <1>2, <1>3, <1>4

-----------------------------------------------------------------------------
(* Steps in which no packet moves.                                         *)

(* Nothing changes for the packets.                                        *)
Quiet ==
  /\ UNCHANGED <<Q1, Q2, hand, packets_generated, served, dropped, required_tokens,
                 controlcflag, terminate, end>>
  /\ Arriving' <=> Arriving
  /\ \A t \in Source : pc[t] = "moving" => pc'[t] = "moving"
  /\ \A s \in Server : pc[s] \in {"serving", "depart"} => pc'[s] \in {"serving", "depart"}

(* Then the order stays,                                                   *)
LEMMA QuietKeepsOrder ==
  ASSUME Ordered, UNCHANGED <<Q1, Q2, hand, packets_generated, served, dropped>>,
         Arriving' <=> Arriving
  PROVE  Ordered'
BY DEF Ordered, Ascending, Before, Served, Underway, Carried

(* and so does all that the packets rely on.                               *)
LEMMA QuietStep ==
  ASSUME Journey, Quiet, Arrivals', Attended'
  PROVE  Journey'
  <1>1. Hands'
    BY DEF Journey, Hands, Quiet
  <1>2. Ordered'
    BY QuietKeepsOrder DEF Journey, Quiet
  <1>3. Accounted'
    BY DEF Journey, Accounted, Quiet, Served, Underway, Carried
  <1>. QED  BY <1>1, <1>2, <1>3 DEF Journey

(* A source goes on.                                                       *)
LEMMA SourceLeavesAttended ==
  ASSUME Attended, UNCHANGED <<Q2, flag, controlcflag, terminate, end>>, Up' => Up,
         \A s \in Server : pc'[s] = pc[s],
         \A t \in Source : /\ pc'[t] = "moving" => pc[t] = "moving"
                           /\ pc[t] = "entered" => pc'[t] = "entered"
  PROVE  Attended'
BY DEF Attended, Over

(* A server that does not wait is enough.                                  *)
LEMMA ServerAttends ==
  ASSUME Attended, Over => Over', \A s \in Server : pc'[s] = "exited" => pc[s] = "exited" \/ Over',
         NEW s \in Server, pc'[s] # "waiting"
  PROVE  Attended'
BY DEF Attended

(* Who is on the way is a packet.                                          *)
LEMMA UnderwayArePackets ==
  ASSUME IInv
  PROVE  /\ Served \subseteq Packet /\ Underway \subseteq Packet /\ dropped \subseteq Packet
         /\ Served \cup Underway \cup dropped \subseteq Nat /\ packets_generated \in Nat
  <1>1. Packet \subseteq Nat
    BY DEF Packet
  <1>2. ToSet(Q1) \subseteq Packet /\ ToSet(Q2) \subseteq Packet
    BY PacketSequences DEF IInv, TypeOK
  <1>3. /\ \A t \in Thread : hand[t] \in Packet \cup {NoPacket}
        /\ served \subseteq Packet /\ dropped \subseteq Packet /\ packets_generated \in Nat
    BY DEF IInv, TypeOK
  <1>4. Carried \subseteq Packet
    BY <1>3 DEF Carried, Source, Thread
  <1>5. Served \subseteq Packet
    BY <1>3 DEF Served, Thread
  <1>. QED  BY <1>1, <1>2, <1>3, <1>4, <1>5 DEF Underway

(* At most one thread works on the queues.                                 *)
LEMMA AloneInSection ==
  ASSUME IInv, Up, NEW t \in Thread, InSection(t), NEW u \in Thread, u # t
  PROVE  ~InSection(u)
BY DEF IInv, OneInSection, Up

(* A thread takes the mutex.                                               *)
LEMMA LockLeavesPackets ==
  ASSUME IInv, Journey, NEW t \in Thread, pthread_mutex_lock(t)
  PROVE  Journey'
  <1>1. LockStep(t)
    BY LockSteps DEF IInv
  <1>2. /\ DOMAIN pc = Thread /\ Source \subseteq Thread /\ Server \subseteq Thread
        /\ Source \cap Server = {} /\ "handler" \notin Source \cup Server
        /\ mutex_locked \in [Source -> BOOLEAN]
        /\ "packet" \in Source /\ "packet" \notin Server
    BY TokenBucketAssumption DEF IInv, TypeOK, Source, Thread
  <1>3. /\ UNCHANGED <<queues, counts, flags, flag, input>>
        /\ Up
    BY DEF pthread_mutex_lock
  <1>4. Quiet
    <2>1. Arriving' <=> Arriving
      BY <1>1, <1>2 DEF LockStep, Arriving
    <2>2. \A u \in Source : pc[u] = "moving" => pc'[u] = "moving"
      BY <1>1, <1>2 DEF LockStep
    <2>3. \A u \in Server : pc[u] \in {"serving", "depart"} => pc'[u] \in {"serving", "depart"}
      BY <1>1, <1>2 DEF LockStep
    <2>. QED  BY <1>3, <2>1, <2>2, <2>3 DEF Quiet, queues, counts, flags, input
  <1>5. Arrivals'
    <2>1. pc'["packet"] = pc["packet"] \/ pc'["packet"] = "in"
      BY <1>1, <1>2 DEF LockStep
    <2>2. mutex_locked["packet"] => mutex_locked'["packet"]
      BY <1>1, <1>2 DEF LockStep
    <2>. QED  BY <1>3, <2>1, <2>2 DEF Journey, Arrivals, queues, counts, flags, input
  <1>6. Attended'
    <2>1. CASE t \in Server
      <3>1. /\ pc'[t] \notin {"waiting", "exited"}
            /\ \A s \in Server \ {t} : pc'[s] = pc[s]
        BY <1>1, <1>2, <2>1 DEF LockStep
      <3>2. Over' <=> Over
        BY <1>3 DEF Over, flags
      <3>. QED  BY <2>1, <3>1, <3>2, ServerAttends DEF Journey
    <2>2. CASE t \notin Server
      <3>1. /\ \A s \in Server : pc'[s] = pc[s]
            /\ \A u \in Source : pc'[u] = pc[u] \/ (pc[u] = "lock" /\ pc'[u] = "in")
        BY <1>1, <1>2, <2>2 DEF LockStep
      <3>. QED  BY <1>3, <3>1, SourceLeavesAttended DEF Journey, queues, flags
    <2>. QED  BY <2>1, <2>2
  <1>. QED  BY <1>4, <1>5, <1>6, QuietStep

(* A waiting server wakes up for no reason.                                *)
LEMMA SpuriousLeavesPackets ==
  ASSUME IInv, Journey, NEW s \in Server, SpuriousWakeup(s)
  PROVE  Journey'
  <1>1. /\ \A t \in Source : pc'[t] = pc[t]
        /\ pc[s] = "waiting" /\ pc'[s] = "woken"
        /\ \A t \in Server \ {s} : pc'[t] = pc[t]
        /\ pc'["packet"] = pc["packet"]
    BY TokenBucketAssumption DEF IInv, TypeOK, Source, Thread, SpuriousWakeup
  <1>2. UNCHANGED <<queues, counts, flags, flag, input, mutex_locked, crash>>
    BY DEF SpuriousWakeup
  <1>3. Quiet /\ Arrivals'
    BY <1>1, <1>2 DEF Quiet, Arriving, Journey, Arrivals, queues, counts, flags, input
  <1>4. Over' <=> Over
    BY <1>2 DEF Over, flags
  <1>5. Attended'
    BY <1>1, <1>4, ServerAttends DEF Journey
  <1>. QED  BY <1>3, <1>5, QuietStep

(* The servers are told of the packet, or it found others in Q2, for which *)
(* they are awake.                                                         *)
LEMMA SignalLeavesPackets ==
  ASSUME IInv, Journey, NEW t \in Source, SignalServers(t)
  PROVE  Journey'
  <1>1. /\ DOMAIN pc = Thread /\ Source \subseteq Thread /\ Server \subseteq Thread
        /\ Source \cap Server = {} /\ "packet" \in Source /\ "token" \in Source
        /\ flag \in [Source -> BOOLEAN]
    BY TokenBucketAssumption DEF IInv, TypeOK, Source, Thread
  <1>2. /\ UNCHANGED <<queues, counts, flags, flag, input, mutex_locked, crash>>
        /\ Up /\ pc[t] = "entered" /\ mutex_locked[t]
    BY DEF SignalServers, IInv, Places, Source
  <1>3. /\ pc'[t] = "check" /\ \A u \in Source \ {t} : pc'[u] = pc[u]
        /\ \A s \in Server : pc'[s] = IF flag[t] /\ pc[s] = "waiting" THEN "woken" ELSE pc[s]
    BY <1>1 DEF SignalServers, Broadcast, Waiting
  <1>4. Quiet
    BY <1>1, <1>2, <1>3 DEF Quiet, Arriving, queues, counts, flags, input
  <1>5. Arrivals'
    BY <1>1, <1>2, <1>3 DEF Journey, Arrivals, queues, counts, flags, input
  <1>6. \A u \in Source \ {t} : pc[u] \notin {"entered", "moving"}
    <2>1. \A u \in Source \ {t} : ~InSection(u)
      BY <1>1, <1>2, AloneInSection DEF InSection
    <2>. QED  BY <2>1 DEF InSection, IInv, Places, Source
  <1>7. Attended'
    <2>1. Over' <=> Over
      BY <1>2 DEF Over, flags
    <2>2. CASE flag[t]
      <3>1. PICK s \in Server : TRUE
        BY TokenBucketAssumption
      <3>2. pc'[s] # "waiting"
        BY <1>3, <2>2
      <3>3. \A r \in Server : pc'[r] = "exited" => pc[r] = "exited"
        BY <1>3
      <3>. QED  BY <2>1, <3>2, <3>3, ServerAttends DEF Journey
    <2>3. CASE ~flag[t]
      <3>1. \A s \in Server : pc'[s] = pc[s]
        BY <1>3, <2>3
      <3>2. Q2' = Q2 /\ Up' = Up
        BY <1>2 DEF queues, Up
      <3>3. \A u \in Source : pc[u] = "entered" => ~flag[u]
        BY <1>6, <2>3
      <3>4. \A u \in Source : pc'[u] # "moving"
        BY <1>3, <1>6
      <3>. QED  BY <2>1, <3>1, <3>2, <3>3, <3>4 DEF Journey, Attended
    <2>. QED  BY <2>2, <2>3
  <1>. QED  BY <1>4, <1>5, <1>7, QuietStep

(* A source, or the handler, does something else than moving a packet.     *)
LEMMA GoesOn ==
  ASSUME IInv, Journey, Up, NEW t \in Thread \ Server, NEW place,
         pc' = [pc EXCEPT ![t] = place],
         pc[t] \notin {"moving", "entered"}, place # "moving",
         t = "packet" => {pc[t], place} \cap {"lock", "in", "drop"} = {},
         UNCHANGED <<Q1, Q2, hand, counts, flags, flag, input>>, Arrivals'
  PROVE  Journey'
  <1>1. /\ DOMAIN pc = Thread /\ Source \subseteq Thread /\ Server \subseteq Thread
        /\ "packet" \in Source
    BY TokenBucketAssumption DEF IInv, TypeOK, Source, Thread
  <1>2. /\ \A s \in Server : pc'[s] = pc[s]
        /\ \A u \in Source : /\ pc'[u] = "moving" <=> pc[u] = "moving"
                             /\ pc[u] = "entered" => pc'[u] = "entered"
    BY <1>1
  <1>3. Quiet
    <2>1. Arriving' <=> Arriving
      BY <1>1 DEF Arriving
    <2>. QED  BY <1>2, <2>1 DEF Quiet, counts, flags, input
  <1>4. Attended'
    BY <1>2, SourceLeavesAttended DEF Journey, flags
  <1>. QED  BY <1>3, <1>4, QuietStep

(* Such steps of DepositeToken, the cleanup and ControlCReciever.          *)
LEMMA OthersLeavePackets ==
  ASSUME IInv, Journey,
         \/ \E t \in Source : cleanup(t) \/ cleanup_Closed(t)
         \/ NextToken \/ AddToken \/ TokenUnlocks
         \/ TokenMoves /\ ~Eligible(Q1, num_tokens)
         \/ ControlC
  PROVE  Journey'
  <1>1. /\ {"token", "packet", "handler"} \subseteq Thread \ Server
        /\ Source = {"token", "packet"} /\ "packet" # "handler" /\ "packet" # "token"
        /\ DOMAIN pc = Thread /\ mutex_locked \in [Source -> BOOLEAN]
    BY TokenBucketAssumption DEF IInv, TypeOK, Source, Thread
  <1>0. PICK t \in {"token", "packet", "handler"} :
           \E place :
             /\ Up /\ pc' = [pc EXCEPT ![t] = place]
             /\ pc[t] \notin {"moving", "entered"} /\ place # "moving"
             /\ t = "packet" => /\ {pc[t], place} \subseteq {"cleanup", "closing", "exited"}
             /\ UNCHANGED <<Q1, Q2, hand, counts, flags, flag, input>>
             /\ t # "packet" => mutex_locked'["packet"] = mutex_locked["packet"]
    <2>1. ASSUME NEW u \in Source, cleanup(u) \/ cleanup_Closed(u)
          PROVE  \E place :
                   /\ Up /\ pc' = [pc EXCEPT ![u] = place]
                   /\ pc[u] \in {"cleanup", "closing"} /\ place \in {"closing", "exited"}
                   /\ UNCHANGED <<Q1, Q2, hand, counts, flags, flag, input>>
                   /\ u # "packet" => mutex_locked'["packet"] = mutex_locked["packet"]
      BY <1>1, <2>1 DEF cleanup, cleanup_Closed, queues
    <2>2. CASE NextToken \/ AddToken \/ TokenUnlocks \/ (TokenMoves /\ ~Eligible(Q1, num_tokens))
      <3>1. \E place \in {"lock", "added", "cleanup", "sleep", "check"} :
               /\ pc' = [pc EXCEPT !["token"] = place]
               /\ pc["token"] \in {"sleep", "in", "check", "added"}
        BY <2>2 DEF NextToken, AddToken, TokenUnlocks, TokenMoves, LeaveQ1
      <3>2. /\ Up /\ UNCHANGED <<Q1, Q2, hand, counts, flags, flag, input>>
            /\ mutex_locked'["packet"] = mutex_locked["packet"]
        BY <1>1, <2>2 DEF NextToken, AddToken, TokenUnlocks, TokenMoves, LeaveQ1, queues
      <3>. QED  BY <1>1, <3>1, <3>2
    <2>3. CASE ControlC
      BY <1>1, <2>3 DEF ControlC, queues
    <2>. QED  BY <1>1, <2>1, <2>2, <2>3
  <1>2. PICK place :
           /\ Up /\ pc' = [pc EXCEPT ![t] = place]
           /\ pc[t] \notin {"moving", "entered"} /\ place # "moving"
           /\ t = "packet" => /\ {pc[t], place} \subseteq {"cleanup", "closing", "exited"}
           /\ UNCHANGED <<Q1, Q2, hand, counts, flags, flag, input>>
           /\ t # "packet" => mutex_locked'["packet"] = mutex_locked["packet"]
    BY <1>0
  <1>3. t \in Thread \ Server
    BY <1>1
  <1>4. Arrivals'
    <2>1. CASE t # "packet"
      <3>1. pc'["packet"] = pc["packet"]
        BY <1>1, <1>2, <2>1
      <3>. QED  BY <1>2, <2>1, <3>1 DEF Journey, Arrivals, counts, flags, input
    <2>2. CASE t = "packet"
      <3>1. pc'["packet"] \in {"cleanup", "closing", "exited"}
        BY <1>1, <1>2, <2>2
      <3>2. pc["packet"] \in {"cleanup", "closing", "exited"}
        BY <1>2, <2>2
      <3>. QED  BY <1>2, <3>1, <3>2 DEF Journey, Arrivals, counts, flags, input
    <2>. QED  BY <2>1, <2>2
  <1>5. t = "packet" => {pc[t], place} \cap {"lock", "in", "drop"} = {}
    BY <1>2
  <1>. QED  BY <1>2, <1>3, <1>4, <1>5, GoesOn

(* PacketArrival reads, looks at Q1 in vain, or gives the mutex back.      *)
LEMMA PacketThreadGoesOn ==
  ASSUME IInv, Journey,
         ReadPacket \/ PacketUnlocks \/ (PacketMoves /\ ~Eligible(Q1, num_tokens))
  PROVE  Journey'
  <1>1. /\ "packet" \in Thread \ Server /\ "packet" \in Source
        /\ DOMAIN pc = Thread /\ mutex_locked \in [Source -> BOOLEAN]
    BY TokenBucketAssumption DEF IInv, TypeOK, Source, Thread
  <1>2. PICK place \in {"sleep", "cleanup", "read", "check"} :
           /\ pc' = [pc EXCEPT !["packet"] = place]
           /\ pc["packet"] \in {"read", "unlock", "queued"}
           /\ Up /\ UNCHANGED <<Q1, Q2, hand, counts, flags, flag, input>>
           /\ place = "check" => pc["packet"] = "queued" /\ UNCHANGED mutex_locked
           /\ place = "cleanup" => packets_generated = num
    BY DEF ReadPacket, PacketUnlocks, PacketMoves, LeaveQ1, queues, counts
  <1>3. pc'["packet"] = place /\ place \notin {"unlock", "drop", "closing", "exited"}
    BY <1>1, <1>2
  <1>4. Arrivals'
    <2>1. place = "check" => mutex_locked'["packet"]
      BY <1>2 DEF IInv, Places
    <2>. QED  BY <1>2, <1>3, <2>1 DEF Journey, Arrivals, counts, flags, input
  <1>. QED  BY <1>1, <1>2, <1>4, GoesOn

(* The last packet announces the end: nobody carries a packet, as it has   *)
(* the mutex unless it was dropped.                                        *)
LEMMA LastPacketKeepsJourney ==
  ASSUME IInv, Journey, LastPacket
  PROVE  Journey'
  <1> DEFINE over == packets_generated = num /\ Q1 = <<>> /\ Q2 = <<>>
  <1>1. /\ Source = {"token", "packet"} /\ Source \subseteq Thread /\ Server \subseteq Thread
        /\ Source \cap Server = {} /\ DOMAIN pc = Thread
        /\ num \in Nat \ {0}
    BY TokenBucketAssumption DEF IInv, TypeOK, Source, Thread
  <1>2. /\ Up /\ pc["packet"] = "check" /\ end' = (end \/ over)
        /\ pc' = [(IF over THEN Broadcast(pc) ELSE pc) EXCEPT !["packet"] = "unlock"]
        /\ UNCHANGED <<queues, counts, controlcflag, terminate, flag, mutex_locked, input, crash>>
    BY DEF LastPacket
  <1>3. /\ pc'["packet"] = "unlock" /\ pc'["token"] = pc["token"]
        /\ \A s \in Server : pc'[s] = IF over /\ pc[s] = "waiting" THEN "woken" ELSE pc[s]
    BY <1>1, <1>2 DEF Broadcast, Waiting
  <1> HIDE DEF over
  <1>4. Hands'
    <2>1. \A s \in Server : pc[s] \in {"serving", "depart"} => pc'[s] \in {"serving", "depart"}
      BY <1>3
    <2>. QED  BY <1>1, <1>2, <1>3, <2>1 DEF Journey, Hands, queues
  <1>5. ~Arriving /\ ~Arriving'
    BY <1>2, <1>3 DEF Arriving
  <1>6. Ordered'
    BY <1>2, <1>5, QuietKeepsOrder DEF Journey, queues, counts
  <1>7. Arrivals'
    BY <1>2, <1>3 DEF Journey, Arrivals, counts, input
  <1>8. Served' = Served /\ Underway' = Underway /\ dropped' = dropped /\ served' = served
    BY <1>2 DEF Served, Underway, Carried, queues, counts
  <1>9. ASSUME over, ~controlcflag, required_tokens[num] <= B
        PROVE  Packet \subseteq Served \cup dropped
    <2>1. packets_generated = num /\ Q1 = <<>> /\ Q2 = <<>>
      BY <1>9 DEF over
    <2>2. num \notin dropped
      <3>1. required_tokens[num] \in Needs
        <4>1. num \in Packet
          BY <1>1 DEF Packet
        <4>. QED  BY <4>1 DEF IInv, TypeOK
      <3>2. required_tokens[num] \in Nat /\ B \in Nat
        BY <3>1, TokenBucketAssumption
      <3>3. num \in dropped => required_tokens[num] > B
        BY DEF Journey, Arrivals
      <3>. QED  BY <1>9, <3>2, <3>3
    <2>3. InSection("packet")
      BY <1>1, <1>2, <2>1, <2>2 DEF Journey, Arrivals, InSection
    <2>4. ~InSection("token")
      BY <1>1, <1>2, <2>3, AloneInSection
    <2>5. hand["token"] = NoPacket /\ hand["packet"] = NoPacket
      BY <1>1, <1>2, <2>4 DEF Journey, Hands, InSection, IInv, Places
    <2>6. Underway = {}
      BY <1>1, <2>1, <2>5 DEF Underway, Carried, ToSet
    <2>. QED  BY <1>5, <1>9, <2>1, <2>6 DEF Journey, Accounted, Packet
  <1>10. Accounted'
    <2>1. dropped' \cap (Served' \cup Underway') = {}
      BY <1>8 DEF Journey, Accounted
    <2>2. /\ packets_generated' = packets_generated /\ controlcflag' = controlcflag
          /\ required_tokens' = required_tokens /\ terminate' = terminate
      BY <1>2 DEF counts, input
    <2>3. ASSUME ~controlcflag, NEW p \in 1 .. packets_generated
          PROVE  p \in Served' \cup Underway' \cup dropped' \/ (Arriving' /\ p = packets_generated)
      BY <1>5, <1>8, <2>3 DEF Journey, Accounted
    <2>4. ASSUME ~controlcflag, terminate PROVE Packet \subseteq served' \cup dropped'
      BY <1>8, <2>4 DEF Journey, Accounted
    <2>5. ASSUME ~controlcflag, end', required_tokens[num] <= B
          PROVE  packets_generated = num /\ Packet \subseteq Served' \cup dropped'
      BY <1>2, <1>8, <1>9, <2>5 DEF Journey, Accounted, over
    <2>. QED  BY <2>1, <2>2, <2>3, <2>4, <2>5 DEF Accounted
  <1>11. Attended'
    <2>1. CASE over
      BY <1>2, <2>1 DEF Attended, Over
    <2>2. CASE ~over
      <3>1. /\ \A s \in Server : pc'[s] = pc[s]
            /\ \A t \in Source : /\ pc'[t] = "moving" => pc[t] = "moving"
                                 /\ pc[t] = "entered" => pc'[t] = "entered"
        BY <1>1, <1>2, <1>3, <2>2
      <3>2. UNCHANGED <<Q2, flag, controlcflag, terminate, end>> /\ (Up' => Up)
        BY <1>2, <2>2 DEF queues, IInv, TypeOK
      <3>. QED  BY <3>1, <3>2, SourceLeavesAttended DEF Journey
    <2>. QED  BY <2>1, <2>2
  <1>. QED  BY <1>4, <1>6, <1>7, <1>10, <1>11 DEF Journey

-----------------------------------------------------------------------------
(* Steps that move packets.                                                *)

(* The first packet leaves Q1.                                             *)
LEMMA LeaveKeepsJourney ==
  ASSUME IInv, Journey, Up, NEW t \in Source, mutex_locked[t],
         pc[t] \in {"added", "queued"}, LeaveQ1(t, num_tokens),
         UNCHANGED <<counts, flags, mutex_locked, input, crash>>
  PROVE  Journey'
  <1>1. /\ Source = {"token", "packet"} /\ Source \subseteq Thread /\ Server \subseteq Thread
        /\ Source \cap Server = {} /\ DOMAIN pc = Thread /\ DOMAIN hand = Thread
        /\ flag \in [Source -> BOOLEAN] /\ Q1 \in Seq(Packet)
        /\ NoPacket \notin Packet
    BY TokenBucketAssumption DEF IInv, TypeOK, Source, Thread, NoPacket, Packet
  <1>2. /\ Q1 # <<>> /\ Q1' = Tail(Q1) /\ Q2' = Q2
        /\ hand' = [hand EXCEPT ![t] = Head(Q1)]
        /\ flag' = [flag EXCEPT ![t] = @ \/ Q2 = <<>>]
        /\ pc' = [pc EXCEPT ![t] = "moving"]
    BY DEF LeaveQ1, Eligible
  <1>3. PICK h : h = Head(Q1)
    OBVIOUS
  <1>4. /\ h \in Packet /\ Q1' \in Seq(Packet)
        /\ ToSet(Q1) = {h} \cup ToSet(Q1')
        /\ Ascending(Q1) => Ascending(Q1') /\ Before({h}, ToSet(Q1'))
    BY <1>1, <1>2, <1>3, LineShrinks
  <1>5. \A u \in Source \ {t} : hand[u] = NoPacket /\ pc[u] \notin {"moving", "entered"}
    <2>1. \A u \in Source \ {t} : ~InSection(u)
      BY <1>1, AloneInSection DEF InSection
    <2>. QED  BY <2>1 DEF InSection, IInv, Places, Source, Journey, Hands
  <1>6. hand[t] = NoPacket
    BY DEF Journey, Hands
  <1>7. /\ pc'[t] = "moving" /\ hand'[t] = h
        /\ \A u \in Thread \ {t} : pc'[u] = pc[u] /\ hand'[u] = hand[u]
    BY <1>1, <1>2, <1>3
  <1>8. Carried = {} /\ Carried' = {h}
    BY <1>1, <1>4, <1>5, <1>6, <1>7 DEF Carried
  <1>9. Served' = Served /\ dropped' = dropped /\ served' = served /\ Underway' = Underway
    <2>1. \A s \in Server : hand'[s] = hand[s]
      BY <1>1, <1>7
    <2>. QED  BY <1>2, <1>4, <1>8, <2>1 DEF Served, Underway, counts
  <1>10. Arriving' <=> Arriving
    <2>1. t # "packet" => pc'["packet"] = pc["packet"]
      BY <1>1, <1>7
    <2>2. t = "packet" => pc["packet"] \in {"added", "queued"} /\ pc'["packet"] = "moving"
      BY <1>7
    <2>. QED  BY <2>1, <2>2 DEF Arriving
  <1>11. Hands'
    BY <1>1, <1>5, <1>7 DEF Journey, Hands
  <1>12. Ordered'
    BY <1>2, <1>4, <1>8, <1>9, <1>10 DEF Journey, Ordered, Before, Underway, counts
  <1>13. Arrivals'
    <2>1. pc'["packet"] = pc["packet"] \/ pc'["packet"] = "moving"
      BY <1>1, <1>7
    <2>. QED  BY <2>1 DEF Journey, Arrivals, counts, flags, input
  <1>14. Accounted'
    BY <1>9, <1>10 DEF Journey, Accounted, counts, flags, input
  <1>15. Attended'
    <2>1. \A s \in Server : pc'[s] = pc[s]
      BY <1>1, <1>7
    <2>2. (Over' <=> Over) /\ (Up' <=> Up)
      BY DEF Over, Up, flags
    <2>3. ASSUME Up, ~Over, \A s \in Server : pc[s] = "waiting"
          PROVE  Q2 = <<>> /\ flag'[t]
      <3>1. \A u \in Source : pc[u] # "entered"
        BY <1>5
      <3>2. Q2 = <<>>
        BY <2>3, <3>1 DEF Journey, Attended
      <3>. QED  BY <1>1, <1>2, <3>2
    <2>4. \A u \in Source : pc'[u] = "moving" => u = t
      BY <1>1, <1>5, <1>7
    <2>. QED  BY <1>2, <2>1, <2>2, <2>3, <2>4 DEF Journey, Attended
  <1>. QED  BY <1>11, <1>12, <1>13, <1>14, <1>15 DEF Journey

(* A packet enters Q2: all that are in it came before.                     *)
LEMMA EnterQ2KeepsJourney ==
  ASSUME IInv, Journey, NEW t \in Source, EnterQ2(t)
  PROVE  Journey'
  <1>1. /\ Source = {"token", "packet"} /\ Source \subseteq Thread /\ Server \subseteq Thread
        /\ Source \cap Server = {} /\ DOMAIN pc = Thread /\ DOMAIN hand = Thread
        /\ Q2 \in Seq(Packet) /\ NoPacket \notin Packet
    BY TokenBucketAssumption DEF IInv, TypeOK, Source, Thread, NoPacket, Packet
  <1>2. /\ Up /\ pc[t] = "moving" /\ mutex_locked[t]
        /\ Q2' = Append(Q2, hand[t])
        /\ hand' = [hand EXCEPT ![t] = NoPacket]
        /\ pc' = [pc EXCEPT ![t] = "entered"]
        /\ UNCHANGED <<Q1, counts, flags, flag, mutex_locked, input, crash>>
    BY <1>1 DEF EnterQ2, IInv, Places
  <1>3. hand[t] \in Packet
    BY <1>2 DEF IInv, Places
  <1>4. PICK h \in Packet : h = hand[t]
    BY <1>3
  <1>5. /\ ToSet(Q2') = ToSet(Q2) \cup {h}
        /\ Ascending(Q2) /\ Before(ToSet(Q2), {h}) => Ascending(Q2')
        /\ Q2' # <<>>
    <2>1. Q2' = Append(Q2, h)
      BY <1>2, <1>4
    <2>2. /\ ToSet(Append(Q2, h)) = ToSet(Q2) \cup {h}
          /\ Ascending(Q2) /\ Before(ToSet(Q2), {h}) => Ascending(Append(Q2, h))
      BY <1>1, LineGrows
    <2>3. Append(Q2, h) # <<>>
      BY <1>1
    <2>. QED  BY <2>1, <2>2, <2>3
  <1>6. \A u \in Source \ {t} : hand[u] = NoPacket /\ pc[u] \notin {"moving", "entered"}
    <2>1. \A u \in Source \ {t} : ~InSection(u)
      BY <1>1, <1>2, AloneInSection DEF InSection
    <2>. QED  BY <2>1 DEF InSection, IInv, Places, Source, Journey, Hands
  <1>7. /\ pc'[t] = "entered" /\ hand'[t] = NoPacket
        /\ \A u \in Thread \ {t} : pc'[u] = pc[u] /\ hand'[u] = hand[u]
    BY <1>1, <1>2
  <1>8. Carried = {h} /\ Carried' = {}
    BY <1>1, <1>4, <1>6, <1>7 DEF Carried
  <1>9. Served' = Served /\ dropped' = dropped /\ served' = served /\ Underway' = Underway
    <2>1. \A s \in Server : hand'[s] = hand[s]
      BY <1>1, <1>7
    <2>. QED  BY <1>2, <1>5, <1>8, <2>1 DEF Served, Underway, counts
  <1>10. Arriving' <=> Arriving
    <2>1. t # "packet" => pc'["packet"] = pc["packet"]
      BY <1>1, <1>7
    <2>2. t = "packet" => pc["packet"] = "moving" /\ pc'["packet"] = "entered"
      BY <1>2, <1>7
    <2>. QED  BY <2>1, <2>2 DEF Arriving
  <1>11. Hands'
    <2>1. \A u \in Source : hand'[u] = NoPacket
      BY <1>6, <1>7, <1>1
    <2>. QED  BY <1>1, <1>7, <2>1 DEF Journey, Hands
  <1>12. Ordered'
    <2>1. Ascending(Q2')
      BY <1>5, <1>8 DEF Journey, Ordered, Before
    <2>. QED  BY <1>2, <1>5, <1>8, <1>9, <1>10, <2>1 DEF Journey, Ordered, Ascending, Before, Underway, counts
  <1>13. Arrivals'
    <2>1. pc'["packet"] = pc["packet"] \/ pc'["packet"] = "entered"
      BY <1>1, <1>7
    <2>. QED  BY <1>2, <2>1 DEF Journey, Arrivals, counts, flags, input
  <1>14. Accounted'
    BY <1>2, <1>9, <1>10 DEF Journey, Accounted, counts, flags, input
  <1>15. Attended'
    <2>1. \A s \in Server : pc'[s] = pc[s]
      BY <1>1, <1>7
    <2>2. (Over' <=> Over) /\ (Up' <=> Up) /\ flag' = flag
      BY <1>2 DEF Over, Up, flags
    <2>3. ASSUME Up, ~Over, \A s \in Server : pc[s] = "waiting"
          PROVE  flag[t]
      <3>1. \A u \in Source : pc[u] # "entered"
        BY <1>2, <1>6
      <3>. QED  BY <1>2, <2>3, <3>1 DEF Journey, Attended
    <2>. QED  BY <1>5, <1>7, <2>1, <2>2, <2>3 DEF Journey, Attended
  <1>. QED  BY <1>11, <1>12, <1>13, <1>14, <1>15 DEF Journey

(* A cancelled source dies, with the packet it carries.                    *)
LEMMA CancelledKeepsJourney ==
  ASSUME IInv, Journey, NEW t \in Source, Cancelled(t)
  PROVE  Journey'
  <1>1. /\ Source = {"token", "packet"} /\ Source \subseteq Thread /\ Server \subseteq Thread
        /\ Source \cap Server = {} /\ DOMAIN pc = Thread /\ DOMAIN hand = Thread
    BY TokenBucketAssumption DEF IInv, TypeOK, Source, Thread
  <1>2. /\ hand' = [hand EXCEPT ![t] = NoPacket]
        /\ pc' = [pc EXCEPT ![t] = "cleanup"]
        /\ UNCHANGED <<Q1, Q2, counts, flags, mutex_locked, input>>
    BY DEF Cancelled
  <1>3. controlcflag
    BY DEF Cancelled, IInv, Places
  <1>4. /\ pc'[t] = "cleanup" /\ hand'[t] = NoPacket
        /\ \A u \in Thread \ {t} : pc'[u] = pc[u] /\ hand'[u] = hand[u]
    BY <1>1, <1>2
  <1>5. Carried' \subseteq Carried
    BY <1>1, <1>4 DEF Carried
  <1>6. Served' = Served /\ Underway' \subseteq Underway
    <2>1. \A s \in Server : hand'[s] = hand[s]
      BY <1>1, <1>4
    <2>. QED  BY <1>2, <1>5, <2>1 DEF Served, Underway, counts
  <1>7. Arriving' => Arriving
    BY <1>1, <1>4 DEF Arriving
  <1>8. Hands'
    BY <1>1, <1>4 DEF Journey, Hands
  <1>9. Ordered'
    <2>1. /\ Before(Served', Underway')
          /\ Before(ToSet(Q2'), Carried' \cup ToSet(Q1'))
          /\ Before(Carried', ToSet(Q1'))
      BY <1>2, <1>5, <1>6 DEF Journey, Ordered, Before
    <2>2. /\ Ascending(Q1') /\ Ascending(Q2')
      BY <1>2 DEF Journey, Ordered
    <2>3. \A p \in Served' \cup Underway' \cup dropped' :
            IF Arriving' THEN p < packets_generated' ELSE p <= packets_generated'
      <3>1. packets_generated' = packets_generated /\ dropped' = dropped
        BY <1>2 DEF counts
      <3>2. Served \cup Underway \cup dropped \subseteq Nat /\ packets_generated \in Nat
        BY UnderwayArePackets
      <3>3. ASSUME NEW p \in Served' \cup Underway' \cup dropped'
            PROVE  IF Arriving' THEN p < packets_generated ELSE p <= packets_generated
        <4>1. /\ p \in Served \cup Underway \cup dropped
              /\ p \in Nat /\ packets_generated \in Nat
          BY <1>6, <3>1, <3>2
        <4>2. IF Arriving THEN p < packets_generated ELSE p <= packets_generated
          BY <4>1 DEF Journey, Ordered
        <4>. QED  BY <1>7, <4>1, <4>2
      <3>. QED  BY <3>1, <3>3
    <2>. QED  BY <2>1, <2>2, <2>3 DEF Ordered
  <1>10. Arrivals'
    <2>1. pc'["packet"] = pc["packet"] \/ pc'["packet"] = "cleanup"
      BY <1>1, <1>4
    <2>. QED  BY <1>2, <1>3, <2>1 DEF Journey, Arrivals, counts, flags, input
  <1>11. Accounted'
    BY <1>2, <1>3, <1>6 DEF Journey, Accounted, counts, flags
  <1>12. Attended'
    BY <1>2, <1>3 DEF Attended, Over, flags
  <1>. QED  BY <1>8, <1>9, <1>10, <1>11, <1>12 DEF Journey

(* The next packet is created.                                             *)
LEMMA NextPacketKeepsJourney ==
  ASSUME IInv, Journey, NextPacket
  PROVE  Journey'
  <1>1. /\ "packet" \in Source /\ "token" \in Source /\ "packet" # "token"
        /\ Source = {"token", "packet"} /\ Source \subseteq Thread /\ Server \subseteq Thread
        /\ Source \cap Server = {} /\ DOMAIN pc = Thread
    BY TokenBucketAssumption DEF IInv, TypeOK, Source, Thread
  <1>2. PICK place \in {"lock", "drop"} :
           /\ pc' = [pc EXCEPT !["packet"] = place]
           /\ place = "drop" => ~(required_tokens[packets_generated + 1] <= B)
    BY DEF NextPacket, CreatePacket
  <1>3. /\ pc["packet"] = "sleep" /\ packets_generated' = packets_generated + 1
        /\ packets_generated < num
        /\ UNCHANGED <<queues, served, dropped, removed, flags, flag, mutex_locked, input, crash>>
    BY DEF NextPacket, IInv, Counts
  <1>4. /\ pc'["packet"] = place
        /\ \A u \in Thread \ {"packet"} : pc'[u] = pc[u]
    BY <1>1, <1>2
  <1>5. /\ Served' = Served /\ Underway' = Underway /\ dropped' = dropped /\ served' = served
        /\ Carried' = Carried
    BY <1>3 DEF Served, Underway, Carried, queues
  <1>6. ~Arriving /\ Arriving'
    BY <1>3, <1>4 DEF Arriving
  <1>7. Served \cup Underway \cup dropped \subseteq Nat /\ packets_generated \in Nat
    BY UnderwayArePackets
  <1>8. Hands'
    BY <1>1, <1>3, <1>4 DEF Journey, Hands, queues
  <1>9. Ordered'
    <2>1. \A p \in Served \cup Underway \cup dropped : p < packets_generated + 1
      BY <1>6, <1>7 DEF Journey, Ordered
    <2>. QED  BY <1>3, <1>5, <1>6, <2>1 DEF Journey, Ordered, Ascending, Before, queues
  <1>10. Arrivals'
    <2>1. place = "drop" => required_tokens[packets_generated + 1] > B
      <3>1. packets_generated + 1 \in Packet
        BY <1>3, <1>7, TokenBucketAssumption DEF Packet
      <3>2. required_tokens[packets_generated + 1] \in Needs
        BY <3>1 DEF IInv, TypeOK
      <3>3. required_tokens[packets_generated + 1] \in Nat /\ B \in Nat
        BY <3>2, TokenBucketAssumption
      <3>. QED  BY <1>2, <3>3
    <2>. QED  BY <1>3, <1>4, <2>1 DEF Journey, Arrivals, flags, input
  <1>11. Accounted'
    <2>1. controlcflag' = controlcflag /\ terminate' = terminate /\ end' = end
          /\ required_tokens' = required_tokens
      BY <1>3 DEF flags, input
    <2>2. ASSUME ~controlcflag, NEW p \in 1 .. packets_generated + 1
          PROVE  p \in Served \cup Underway \cup dropped \/ p = packets_generated + 1
      <3>1. p \in 1 .. packets_generated \/ p = packets_generated + 1
        BY <1>7
      <3>. QED  BY <1>6, <2>2, <3>1 DEF Journey, Accounted
    <2>3. num \in Nat /\ packets_generated # num
      BY <1>3, <1>7, TokenBucketAssumption
    <2>. QED  BY <1>3, <1>5, <1>6, <2>1, <2>2, <2>3 DEF Journey, Accounted
  <1>12. Attended'
    <2>1. /\ \A s \in Server : pc'[s] = pc[s]
          /\ \A t \in Source : /\ pc'[t] = "moving" => pc[t] = "moving"
                               /\ pc[t] = "entered" => pc'[t] = "entered"
      BY <1>1, <1>3, <1>4
    <2>2. UNCHANGED <<Q2, flag, controlcflag, terminate, end>> /\ (Up' => Up)
      BY <1>3 DEF queues, flags, Up
    <2>. QED  BY <2>1, <2>2, SourceLeavesAttended DEF Journey
  <1>. QED  BY <1>8, <1>9, <1>10, <1>11, <1>12 DEF Journey

(* It enters Q1, or is dropped.                                            *)
LEMMA PacketArrivesKeepsJourney ==
  ASSUME IInv, Journey, EnterQ1 \/ DropPacket
  PROVE  Journey'
  <1>1. /\ "packet" \in Source /\ "token" \in Source /\ "packet" # "token"
        /\ Source = {"token", "packet"} /\ Source \subseteq Thread /\ Server \subseteq Thread
        /\ Source \cap Server = {} /\ DOMAIN pc = Thread
        /\ Q1 \in Seq(Packet)
    BY TokenBucketAssumption DEF IInv, TypeOK, Source, Thread
  <1>2. PICK n : n = packets_generated
    OBVIOUS
  <1>3. Served \cup Underway \cup dropped \subseteq Nat /\ n \in Nat
    BY <1>2, UnderwayArePackets
  <1>4. Arriving /\ pc["packet"] \in {"in", "drop"}
    BY DEF EnterQ1, DropPacket, Arriving
  <1>5. n \in Packet
    BY <1>2, <1>4, TokenBucketAssumption DEF IInv, TypeOK, Counts, Packet
  <1>6. /\ pc'["packet"] \in {"queued", "check"}
        /\ pc'["packet"] = "check" => pc["packet"] = "drop"
        /\ \A u \in Thread \ {"packet"} : pc'[u] = pc[u]
    BY <1>1 DEF EnterQ1, DropPacket
  <1>7. /\ UNCHANGED <<Q2, hand, packets_generated, served, flags, flag, input, crash>>
        /\ \/ Q1' = Append(Q1, n) /\ dropped' = dropped /\ pc'["packet"] = "queued"
           \/ Q1' = Q1 /\ dropped' = dropped \cup {n} /\ pc["packet"] = "drop"
    BY <1>1, <1>2 DEF EnterQ1, DropPacket, queues, counts
  <1>8. ~Arriving'
    BY <1>6 DEF Arriving
  <1>9. \A p \in Served \cup Underway \cup dropped : p < n
    BY <1>2, <1>4 DEF Journey, Ordered
  <1>10. /\ Served' = Served /\ Carried' = Carried
         /\ \/ ToSet(Q1') = ToSet(Q1) \cup {n} /\ Ascending(Q1') /\ dropped' = dropped
            \/ Q1' = Q1 /\ dropped' = dropped \cup {n}
    <2>1. Served' = Served /\ Carried' = Carried
      BY <1>7 DEF Served, Carried
    <2>2. CASE Q1' = Append(Q1, n) /\ dropped' = dropped
      <3>1. /\ ToSet(Append(Q1, n)) = ToSet(Q1) \cup {n}
            /\ Ascending(Q1) /\ Before(ToSet(Q1), {n}) => Ascending(Append(Q1, n))
        BY <1>1, <1>5, LineGrows
      <3>2. Ascending(Q1) /\ Before(ToSet(Q1), {n})
        BY <1>9 DEF Journey, Ordered, Before, Underway
      <3>. QED  BY <2>1, <2>2, <3>1, <3>2
    <2>. QED  BY <1>7, <2>1, <2>2
  <1>11. Hands'
    BY <1>1, <1>4, <1>6, <1>7 DEF Journey, Hands
  <1>12. Ordered'
    <2>1. Ascending(Q1') /\ Ascending(Q2')
      BY <1>7, <1>10 DEF Journey, Ordered
    <2>2. /\ Before(ToSet(Q2'), Carried' \cup ToSet(Q1'))
          /\ Before(Carried', ToSet(Q1'))
      BY <1>7, <1>9, <1>10 DEF Journey, Ordered, Before, Underway
    <2>3. Before(Served', Underway')
      BY <1>7, <1>9, <1>10 DEF Journey, Ordered, Before, Underway
    <2>4. \A p \in Served' \cup Underway' \cup dropped' : p <= n
      BY <1>3, <1>7, <1>9, <1>10 DEF Underway
    <2>. QED  BY <1>2, <1>7, <1>8, <2>1, <2>2, <2>3, <2>4 DEF Ordered
  <1>13. Arrivals'
    <2>1. pc["packet"] = "drop" => required_tokens[n] > B
      BY <1>2 DEF Journey, Arrivals
    <2>2. pc'["packet"] = "check" => n \in dropped'
      BY <1>6, <1>7
    <2>. QED  BY <1>2, <1>6, <1>7, <2>1, <2>2 DEF Journey, Arrivals, flags, input
  <1>14. Accounted'
    <2>1. controlcflag' = controlcflag /\ terminate' = terminate /\ end' = end
          /\ required_tokens' = required_tokens /\ served' = served
          /\ packets_generated' = n /\ dropped \subseteq dropped'
      BY <1>2, <1>7 DEF flags, input
    <2>2. dropped' \cap (Served' \cup Underway') = {}
      <3>1. n \notin Served \cup Underway \cup dropped
        BY <1>3, <1>9
      <3>. QED  BY <1>7, <1>10, <3>1 DEF Journey, Accounted, Underway
    <2>3. ASSUME ~controlcflag, NEW p \in 1 .. n
          PROVE  p \in Served' \cup Underway' \cup dropped'
      <3>1. p \in Served \cup Underway \cup dropped \/ p = n
        BY <1>2, <2>3 DEF Journey, Accounted
      <3>. QED  BY <1>7, <1>10, <3>1 DEF Underway
    <2>4. ASSUME ~controlcflag, terminate PROVE Packet \subseteq served' \cup dropped'
      BY <2>1, <2>4 DEF Journey, Accounted
    <2>5. ASSUME ~controlcflag, end, required_tokens[num] <= B
          PROVE  n = num /\ Packet \subseteq Served' \cup dropped'
      BY <1>2, <1>10, <2>1, <2>5 DEF Journey, Accounted
    <2>. QED  BY <2>1, <2>2, <2>3, <2>4, <2>5 DEF Accounted
  <1>15. Attended'
    <2>1. /\ \A s \in Server : pc'[s] = pc[s]
          /\ \A t \in Source : /\ pc'[t] = "moving" => pc[t] = "moving"
                               /\ pc[t] = "entered" => pc'[t] = "entered"
      BY <1>1, <1>4, <1>6
    <2>2. UNCHANGED <<Q2, flag, controlcflag, terminate, end>> /\ (Up' => Up)
      BY <1>7 DEF flags, Up
    <2>. QED  BY <2>1, <2>2, SourceLeavesAttended DEF Journey
  <1>. QED  BY <1>11, <1>12, <1>13, <1>14, <1>15 DEF Journey

(* A server takes the first packet of Q2, waits, or leaves.                *)
LEMMA LookKeepsJourney ==
  ASSUME IInv, Journey, NEW s \in Server, server_Look(s) \/ server_Awake(s)
  PROVE  Journey'
  <1>1. /\ Source = {"token", "packet"} /\ Source \subseteq Thread /\ Server \subseteq Thread
        /\ Source \cap Server = {} /\ DOMAIN pc = Thread /\ DOMAIN hand = Thread
        /\ Q2 \in Seq(Packet) /\ NoPacket \notin Packet /\ s \in Thread
    BY TokenBucketAssumption DEF IInv, TypeOK, Source, Thread, NoPacket, Packet
  <1>2. /\ Up /\ pc[s] \in {"look", "awake"}
        /\ UNCHANGED <<Q1, counts, flags, flag, mutex_locked, input, crash>>
        /\ \/ /\ pc' = [pc EXCEPT ![s] = "waiting"] \/ (Over /\ pc' = [pc EXCEPT ![s] = "exited"])
              /\ Over \/ Q2 = <<>>
              /\ hand' = hand /\ Q2' = Q2
           \/ /\ Q2 # <<>> /\ Q2' = Tail(Q2)
              /\ hand' = [hand EXCEPT ![s] = Head(Q2)]
              /\ pc' = [pc EXCEPT ![s] = "serving"]
    BY DEF server_Look, server_Awake, Look, queues
  <1>3. hand[s] = NoPacket
    BY <1>2 DEF Journey, Hands
  <1>4. /\ pc'[s] \in {"waiting", "exited", "serving"}
        /\ \A u \in Thread \ {s} : pc'[u] = pc[u] /\ hand'[u] = hand[u]
    BY <1>1, <1>2
  <1>5. /\ \A u \in Source : pc'[u] = pc[u] /\ hand'[u] = hand[u]
        /\ pc'["packet"] = pc["packet"]
    BY <1>1, <1>4
  <1>6. \A u \in Source : pc[u] \notin {"moving", "entered"}
    <2>1. \A u \in Source : ~InSection(u)
      BY <1>1, <1>2, AloneInSection DEF InSection
    <2>. QED  BY <2>1 DEF InSection, IInv, Places, Source
  <1>7. /\ Arriving' <=> Arriving
        /\ Carried' = Carried /\ dropped' = dropped /\ served' = served
        /\ Over' <=> Over
        /\ Up' <=> Up
    BY <1>2, <1>5 DEF Arriving, Carried, counts, Over, flags, Up
  <1>8. Arrivals'
    BY <1>2, <1>5 DEF Journey, Arrivals, counts, flags, input
  <1>9. CASE hand' = hand /\ Q2' = Q2 /\ (Over \/ Q2 = <<>>) /\ pc'[s] \in {"waiting", "exited"}
             /\ (pc'[s] = "exited" => Over)
    <2>1. Hands'
      BY <1>1, <1>2, <1>3, <1>4, <1>5, <1>9 DEF Journey, Hands
    <2>2. Ordered'
      BY <1>2, <1>7, <1>9, QuietKeepsOrder DEF Journey, counts
    <2>3. Accounted'
      <3>1. Served' = Served /\ Underway' = Underway
        BY <1>2, <1>7, <1>9 DEF Served, Underway
      <3>. QED  BY <1>2, <1>7, <3>1 DEF Journey, Accounted, counts, flags, input
    <2>4. Attended'
      <3>1. \A u \in Server : pc'[u] = "exited" => Over
        BY <1>1, <1>4, <1>9 DEF Journey, Attended
      <3>2. ASSUME ~Over PROVE Q2' = <<>> /\ \A u \in Source : pc'[u] # "moving"
        BY <1>5, <1>6, <1>9, <3>2
      <3>. QED  BY <1>7, <3>1, <3>2 DEF Attended
    <2>. QED  BY <1>8, <2>1, <2>2, <2>3, <2>4 DEF Journey
  <1>10. CASE /\ Q2 # <<>> /\ Q2' = Tail(Q2)
              /\ hand' = [hand EXCEPT ![s] = Head(Q2)]
              /\ pc' = [pc EXCEPT ![s] = "serving"]
    <2>1. PICK h : h = Head(Q2)
      OBVIOUS
    <2>2. /\ h \in Packet /\ Q2' \in Seq(Packet)
          /\ ToSet(Q2) = {h} \cup ToSet(Q2')
          /\ Ascending(Q2) => Ascending(Q2') /\ Before({h}, ToSet(Q2'))
      BY <1>1, <1>10, <2>1, LineShrinks
    <2>3. hand'[s] = h /\ pc'[s] = "serving"
      BY <1>1, <1>10, <2>1
    <2>4. Served' = Served \cup {h}
      <3>1. {hand'[u] : u \in Server} \ {NoPacket} = ({hand[u] : u \in Server} \ {NoPacket}) \cup {h}
        BY <1>1, <1>3, <1>4, <2>2, <2>3
      <3>. QED  BY <1>7, <3>1 DEF Served
    <2>5. Hands'
      BY <1>1, <1>4, <1>5, <2>3 DEF Journey, Hands
    <2>6. /\ Underway = Underway' \cup {h}
          /\ Served' \cup Underway' = Served \cup Underway
      BY <1>2, <1>7, <2>2, <2>4 DEF Underway
    <2>7. Ordered'
      <3>1. Ascending(Q1') /\ Ascending(Q2') /\ Before({h}, Underway')
        BY <1>2, <1>7, <2>2 DEF Journey, Ordered, Before, Underway
      <3>2. Before(Served', Underway')
        BY <2>4, <2>6, <3>1 DEF Journey, Ordered, Before
      <3>3. /\ Before(ToSet(Q2'), Carried' \cup ToSet(Q1'))
            /\ Before(Carried', ToSet(Q1'))
        BY <1>2, <1>7, <2>2 DEF Journey, Ordered, Before
      <3>4. \A p \in Served' \cup Underway' \cup dropped' :
              IF Arriving' THEN p < packets_generated' ELSE p <= packets_generated'
        BY <1>2, <1>7, <2>6 DEF Journey, Ordered, counts
      <3>. QED  BY <3>1, <3>2, <3>3, <3>4 DEF Ordered
    <2>8. Accounted'
      <3>1. /\ UNCHANGED <<packets_generated, controlcflag, terminate, end, required_tokens>>
            /\ Served \subseteq Served'
        BY <1>2, <2>4 DEF counts, flags, input
      <3>2. dropped' \cap (Served' \cup Underway') = {}
        BY <1>7, <2>6 DEF Journey, Accounted
      <3>3. ASSUME ~controlcflag, NEW p \in 1 .. packets_generated
            PROVE  p \in Served' \cup Underway' \cup dropped' \/ (Arriving' /\ p = packets_generated)
        BY <1>7, <2>6, <3>3 DEF Journey, Accounted
      <3>4. ASSUME ~controlcflag, terminate PROVE Packet \subseteq served' \cup dropped'
        BY <1>7, <3>4 DEF Journey, Accounted
      <3>5. ASSUME ~controlcflag, end, required_tokens[num] <= B
            PROVE  packets_generated = num /\ Packet \subseteq Served' \cup dropped'
        BY <1>7, <3>1, <3>5 DEF Journey, Accounted
      <3>. QED  BY <3>1, <3>2, <3>3, <3>4, <3>5 DEF Accounted
    <2>9. Attended'
      <3>1. \A u \in Server : pc'[u] = "exited" => pc[u] = "exited"
        BY <1>1, <1>4, <2>3
      <3>. QED  BY <1>7, <2>3, <3>1, ServerAttends DEF Journey
    <2>. QED  BY <1>8, <2>5, <2>7, <2>8, <2>9 DEF Journey
  <1>11. CASE /\ pc' = [pc EXCEPT ![s] = "waiting"] \/ (Over /\ pc' = [pc EXCEPT ![s] = "exited"])
              /\ Over \/ Q2 = <<>>
              /\ hand' = hand /\ Q2' = Q2
    <2>1. pc'[s] \in {"waiting", "exited"} /\ (pc'[s] = "exited" => Over)
      BY <1>1, <1>11
    <2>. QED  BY <1>9, <1>11, <2>1
  <1>. QED  BY <1>2, <1>10, <1>11

(* If there are num of them, every packet is served or dropped.            *)
LEMMA AllCounted ==
  ASSUME NEW S \in SUBSET Packet, NEW D \in SUBSET Packet, S \cap D = {},
         Cardinality(S) + Cardinality(D) = num
  PROVE  Packet \subseteq S \cup D
  <1>1. num \in Nat \ {0}
    BY TokenBucketAssumption
  <1>2. IsFiniteSet(1 .. num) /\ Cardinality(1 .. num) = num
    BY <1>1, FS_Interval
  <1>3. IsFiniteSet(Packet) /\ Cardinality(Packet) = num
    BY <1>2 DEF Packet
  <1>4. IsFiniteSet(S) /\ IsFiniteSet(D) /\ S \cup D \subseteq Packet
    BY <1>3, FS_Subset
  <1>5. Cardinality(S \cup D) = Cardinality(S) + Cardinality(D) - Cardinality(S \cap D)
    BY <1>4, FS_Union
  <1>6. Cardinality(S \cap D) = 0
    BY FS_EmptySet
  <1>7. Cardinality(S \cup D) = num
    <2>1. Cardinality(S) \in Nat /\ Cardinality(D) \in Nat
      BY <1>4, FS_CardinalityType
    <2>. QED  BY <1>1, <1>5, <1>6, <2>1
  <1>8. S \cup D = Packet
    BY <1>3, <1>4, <1>7, FS_Subset
  <1>. QED  BY <1>8

(* A packet departs; the server that counts the last one ends the          *)
(* emulation.                                                              *)
LEMMA DepartKeepsJourney ==
  ASSUME IInv, Journey, NEW s \in Server, server_Depart(s)
  PROVE  Journey'
  <1> DEFINE last == Cardinality(served') + Cardinality(dropped) = num \/ controlcflag
  <1>1. /\ Source = {"token", "packet"} /\ Source \subseteq Thread /\ Server \subseteq Thread
        /\ Source \cap Server = {} /\ DOMAIN pc = Thread /\ DOMAIN hand = Thread
        /\ NoPacket \notin Packet /\ s \in Thread
        /\ served \subseteq Packet /\ dropped \subseteq Packet
    BY TokenBucketAssumption DEF IInv, TypeOK, Source, Thread, NoPacket, Packet
  <1>2. /\ Up /\ pc[s] = "depart"
        /\ served' = served \cup {hand[s]} /\ hand' = [hand EXCEPT ![s] = NoPacket]
        /\ terminate' = (terminate \/ last)
        /\ UNCHANGED <<Q1, Q2, packets_generated, dropped, controlcflag, end,
                       flag, mutex_locked, input, crash>>
    BY DEF server_Depart
  <1>3. /\ \/ ~last /\ pc' = [pc EXCEPT ![s] = "look_lock"]
           \/ last /\ pc' = [pc EXCEPT ![s] = "exited"]
           \/ last /\ \E u \in Waiting : pc' = [pc EXCEPT ![s] = "exited", ![u] = "woken"]
    BY <1>2 DEF server_Depart
  <1> HIDE DEF last
  <1>4. /\ pc'[s] = IF last THEN "exited" ELSE "look_lock"
        /\ \A u \in Thread \ {s} : pc'[u] = pc[u] \/ (pc[u] = "waiting" /\ pc'[u] = "woken")
        /\ \A u \in Source : pc'[u] = pc[u]
    <2>1. \A u \in Waiting : u \in Server /\ u # s /\ pc[u] = "waiting"
      BY <1>2 DEF Waiting
    <2>. QED  BY <1>1, <1>3, <2>1
  <1>5. /\ hand[s] \in Packet /\ hand'[s] = NoPacket
        /\ \A u \in Thread \ {s} : hand'[u] = hand[u]
    BY <1>1, <1>2 DEF IInv, Places
  <1>6. Served' = Served
    <2>1. {hand[u] : u \in Server} \ {NoPacket} =
            ({hand'[u] : u \in Server} \ {NoPacket}) \cup {hand[s]}
      BY <1>1, <1>5
    <2>. QED  BY <1>2, <2>1 DEF Served
  <1>7. /\ Carried' = Carried /\ Underway' = Underway
        /\ Arriving' <=> Arriving
    <2>1. \A u \in Source : hand'[u] = hand[u]
      BY <1>1, <1>5
    <2>2. Carried' = Carried
      BY <2>1 DEF Carried
    <2>3. pc'["packet"] = pc["packet"]
      BY <1>1, <1>4
    <2>. QED  BY <1>2, <2>2, <2>3 DEF Underway, Arriving
  <1>8. Hands'
    <2>1. \A u \in Server \ {s} : hand'[u] # NoPacket => pc'[u] \in {"serving", "depart"}
      BY <1>1, <1>4, <1>5 DEF Journey, Hands
    <2>2. \A u \in Source : hand'[u] = hand[u] /\ pc'[u] = pc[u]
      BY <1>1, <1>4, <1>5
    <2>. QED  BY <1>1, <1>5, <2>1, <2>2 DEF Journey, Hands
  <1>9. Ordered'
    BY <1>2, <1>6, <1>7 DEF Journey, Ordered, Ascending, Before
  <1>10. Arrivals'
    <2>1. pc'["packet"] = pc["packet"]
      BY <1>1, <1>4
    <2>. QED  BY <1>2, <2>1 DEF Journey, Arrivals, input
  <1>11. Accounted'
    <2>1. UNCHANGED <<packets_generated, controlcflag, end, required_tokens, dropped>>
      BY <1>2 DEF input
    <2>2. ASSUME ~controlcflag, terminate' PROVE Packet \subseteq served' \cup dropped
      <3>1. CASE terminate
        BY <1>2, <2>2, <3>1 DEF Journey, Accounted
      <3>2. CASE Cardinality(served') + Cardinality(dropped) = num
        <4>1. served' \subseteq Packet /\ served' \cap dropped = {}
          BY <1>1, <1>2, <1>5, <1>6 DEF Journey, Accounted, Served
        <4>. QED  BY <1>1, <3>2, <4>1, AllCounted
      <3>. QED  BY <1>2, <2>2, <3>1, <3>2 DEF last
    <2>. QED  BY <1>6, <1>7, <2>1, <2>2 DEF Journey, Accounted
  <1>12. Attended'
    <2>1. Over => Over'
      BY <1>2 DEF Over
    <2>2. last => Over'
      BY <1>2 DEF Over
    <2>3. \A u \in Server : pc'[u] = "exited" => pc[u] = "exited" \/ Over'
      BY <1>1, <1>4, <2>2
    <2>4. pc'[s] # "waiting"
      BY <1>4
    <2>. QED  BY <2>1, <2>3, <2>4, ServerAttends DEF Journey
  <1>. QED  BY <1>8, <1>9, <1>10, <1>11, <1>12 DEF Journey

(* The user interrupts: the queues are emptied.                            *)
LEMMA RemoveKeepsJourney ==
  ASSUME IInv, Journey, RemovePackets
  PROVE  Journey'
  <1>1. /\ Source = {"token", "packet"} /\ Source \subseteq Thread /\ Server \subseteq Thread
        /\ Source \cap Server = {} /\ "handler" \notin Source \cup Server /\ DOMAIN pc = Thread
    BY TokenBucketAssumption DEF IInv, TypeOK, Source, Thread
  <1>2. /\ controlcflag' /\ Q1' = <<>> /\ Q2' = <<>>
        /\ pc' = [Broadcast(pc) EXCEPT !["handler"] = "exited"]
        /\ UNCHANGED <<hand, packets_generated, served, dropped, mutex_locked, input>>
    BY DEF RemovePackets
  <1>3. /\ \A u \in Source : pc'[u] = pc[u]
        /\ \A s \in Server : pc'[s] = IF pc[s] = "waiting" THEN "woken" ELSE pc[s]
        /\ pc'["packet"] = pc["packet"]
    BY <1>1, <1>2 DEF Broadcast, Waiting
  <1>4. ToSet(Q1') = {} /\ ToSet(Q2') = {} /\ Ascending(Q1') /\ Ascending(Q2')
    BY <1>2 DEF ToSet, Ascending
  <1>5. /\ Carried' = Carried /\ Served' = Served /\ Underway' \subseteq Underway
        /\ Arriving' <=> Arriving
    BY <1>2, <1>3, <1>4 DEF Carried, Served, Underway, Arriving
  <1>6. Hands'
    BY <1>1, <1>2, <1>3 DEF Journey, Hands
  <1>7. Ordered'
    BY <1>2, <1>4, <1>5 DEF Journey, Ordered, Before
  <1>8. Arrivals' /\ Accounted' /\ Attended'
    <2>1. Arrivals'
      BY <1>2, <1>3 DEF Journey, Arrivals, input
    <2>2. Accounted'
      BY <1>2, <1>5 DEF Journey, Accounted
    <2>3. Attended'
      BY <1>2 DEF Attended, Over
    <2>. QED  BY <2>1, <2>2, <2>3
  <1>. QED  BY <1>6, <1>7, <1>8 DEF Journey

-----------------------------------------------------------------------------
(* The first packet of Q1 leaves it, by either source.                     *)
LEMMA MovesKeepJourney ==
  ASSUME IInv, Journey, TokenMoves \/ PacketMoves
  PROVE  Journey'
  <1>1. Source = {"token", "packet"}
    BY DEF Source
  <1>2. CASE TokenMoves /\ LeaveQ1("token", num_tokens)
    BY <1>1, <1>2, LeaveKeepsJourney DEF TokenMoves, IInv, Places
  <1>3. CASE PacketMoves /\ LeaveQ1("packet", num_tokens)
    BY <1>1, <1>3, LeaveKeepsJourney DEF PacketMoves, IInv, Places
  <1>4. CASE TokenMoves /\ ~Eligible(Q1, num_tokens)
    BY <1>4, OthersLeavePackets
  <1>5. CASE PacketMoves /\ ~Eligible(Q1, num_tokens)
    BY <1>5, PacketThreadGoesOn
  <1>. QED  BY <1>2, <1>3, <1>4, <1>5 DEF TokenMoves, PacketMoves

(* Every step keeps the packets in order, accounted for and attended.      *)
LEMMA StepKeepsJourney ==
  ASSUME IInv, Journey, [Next]_vars
  PROVE  Journey'
  <1>1. ASSUME NEW t \in Thread, pthread_mutex_lock(t) PROVE Journey'
    BY <1>1, LockLeavesPackets
  <1>2. ASSUME NEW t \in Source, Moves(t) PROVE Journey'
    BY <1>2, EnterQ2KeepsJourney, SignalLeavesPackets, CancelledKeepsJourney,
       OthersLeavePackets DEF Moves
  <1>3. CASE DepositeToken
    BY <1>3, OthersLeavePackets, MovesKeepJourney DEF DepositeToken
  <1>4. CASE PacketArrival
    BY <1>4, PacketThreadGoesOn, NextPacketKeepsJourney, PacketArrivesKeepsJourney,
       MovesKeepJourney, LastPacketKeepsJourney DEF PacketArrival
  <1>5. CASE ControlCReciever \/ ControlC
    BY <1>5, RemoveKeepsJourney, OthersLeavePackets DEF ControlCReciever
  <1>6. ASSUME NEW s \in Server, server(s) \/ SpuriousWakeup(s) PROVE Journey'
    BY <1>6, LookKeepsJourney, DepartKeepsJourney, SpuriousLeavesPackets DEF server
  <1>7. CASE UNCHANGED vars
    <2>1. Quiet /\ Arrivals'
      BY <1>7 DEF Quiet, Arriving, Journey, Arrivals, vars, queues, counts, flags, input
    <2>2. Attended'
      BY <1>7 DEF Journey, Attended, Over, Up, vars, queues, flags
    <2>. QED  BY <2>1, <2>2, QuietStep
  <1>. QED  BY <1>1, <1>2, <1>3, <1>4, <1>5, <1>6, <1>7 DEF Next, Stopped

(* At first there are none.                                                *)
LEMMA InitialJourney == Init => Journey
  <1> SUFFICES ASSUME Init PROVE Journey
    OBVIOUS
  <1>1. /\ Q1 = <<>> /\ Q2 = <<>> /\ served = {} /\ dropped = {}
        /\ \A t \in Thread : hand[t] = NoPacket
        /\ packets_generated = 0 /\ ~terminate /\ ~end
    BY DEF Init
  <1>2. /\ pc["packet"] = "read" /\ \A s \in Server : pc[s] = "look_lock"
        /\ Source \subseteq Thread /\ Server \subseteq Thread /\ Source = {"token", "packet"}
    BY TokenBucketAssumption DEF Init, Thread, Source
  <1>3. Served = {} /\ Underway = {} /\ Carried = {} /\ ToSet(Q1) = {} /\ ToSet(Q2) = {}
    BY <1>1, <1>2 DEF Served, Underway, Carried, ToSet
  <1>4. Hands /\ Ordered /\ Arrivals
    BY <1>1, <1>2, <1>3 DEF Hands, Ordered, Ascending, Before, Arrivals
  <1>5. Accounted
    BY <1>1, <1>3 DEF Accounted
  <1>6. Attended
    <2>1. PICK s \in Server : TRUE
      BY TokenBucketAssumption
    <2>. QED  BY <1>2, <2>1 DEF Attended
  <1>. QED  BY <1>4, <1>5, <1>6 DEF Journey

(* So they are in every reachable state.                                   *)
LEMMA JourneyInvariant == Spec => [](IInv /\ Journey)
  <1>1. Init => IInv /\ Journey
    BY InitInvariant, InitialJourney
  <1>2. (IInv /\ Journey) /\ [Next]_vars => (IInv /\ Journey)'
    BY NextKeeps, StepKeepsJourney
  <1>. QED  BY <1>1, <1>2, PTL DEF Spec

(* Two lists in ascending order, one after the other.                      *)
LEMMA LinesJoined ==
  ASSUME NEW a \in Seq(Packet), NEW b \in Seq(Packet), Ascending(a), Ascending(b),
         Before(ToSet(a), ToSet(b))
  PROVE  /\ a \o b \in Seq(Packet) /\ Ascending(a \o b)
         /\ ToSet(a \o b) = ToSet(a) \cup ToSet(b)
  <1>1. PICK u : u = a \o b
    OBVIOUS
  <1>2. /\ u \in Seq(Packet) /\ Len(a) \in Nat /\ Len(b) \in Nat
        /\ DOMAIN u = 1 .. Len(a) + Len(b) /\ DOMAIN a = 1 .. Len(a) /\ DOMAIN b = 1 .. Len(b)
        /\ \A i \in 1 .. Len(a) + Len(b) : u[i] = IF i <= Len(a) THEN a[i] ELSE b[i - Len(a)]
    BY <1>1
  <1>3. \A i \in 1 .. Len(a) + Len(b) :
           \/ i \in 1 .. Len(a) /\ u[i] = a[i]
           \/ i - Len(a) \in 1 .. Len(b) /\ i > Len(a) /\ u[i] = b[i - Len(a)]
    BY <1>2
  <1>4. /\ \A i \in 1 .. Len(a) : i \in 1 .. Len(a) + Len(b) /\ u[i] = a[i]
        /\ \A i \in 1 .. Len(b) : Len(a) + i \in 1 .. Len(a) + Len(b) /\ u[Len(a) + i] = b[i]
    <2>1. ASSUME NEW i \in 1 .. Len(a)
          PROVE  i \in 1 .. Len(a) + Len(b) /\ u[i] = a[i]
      BY <1>2
    <2>2. ASSUME NEW i \in 1 .. Len(b)
          PROVE  Len(a) + i \in 1 .. Len(a) + Len(b) /\ u[Len(a) + i] = b[i]
      <3>1. /\ Len(a) + i \in 1 .. Len(a) + Len(b)
            /\ ~(Len(a) + i <= Len(a)) /\ (Len(a) + i) - Len(a) = i
        BY <1>2
      <3>. QED  BY <1>2, <3>1
    <2>. QED  BY <2>1, <2>2
  <1>5. ToSet(u) = ToSet(a) \cup ToSet(b)
    <2>1. /\ \A i \in DOMAIN a : \E k \in DOMAIN u : u[k] = a[i]
          /\ \A i \in DOMAIN b : \E k \in DOMAIN u : u[k] = b[i]
      BY <1>2, <1>4
    <2>2. ToSet(u) \subseteq ToSet(a) \cup ToSet(b)
      BY <1>2, <1>3 DEF ToSet
    <2>3. ToSet(a) \subseteq ToSet(u) /\ ToSet(b) \subseteq ToSet(u)
      BY <2>1 DEF ToSet
    <2>. QED  BY <2>2, <2>3
  <1>6. ASSUME NEW i \in 1 .. Len(a) + Len(b), NEW j \in 1 .. Len(a) + Len(b), i < j
        PROVE  u[i] < u[j]
    <2>1. CASE i \in 1 .. Len(a) /\ j \in 1 .. Len(a)
      BY <1>2, <1>4, <1>6, <2>1 DEF Ascending
    <2>2. CASE i \in 1 .. Len(a) /\ j \notin 1 .. Len(a)
      <3>1. u[i] = a[i] /\ j - Len(a) \in 1 .. Len(b) /\ u[j] = b[j - Len(a)]
        BY <1>2, <1>3, <1>4, <2>2
      <3>2. u[i] \in ToSet(a) /\ u[j] \in ToSet(b)
        BY <1>2, <2>2, <3>1 DEF ToSet
      <3>. QED  BY <3>2 DEF Before
    <2>3. CASE i \notin 1 .. Len(a)
      <3>1. /\ i - Len(a) \in 1 .. Len(b) /\ u[i] = b[i - Len(a)]
            /\ j - Len(a) \in 1 .. Len(b) /\ u[j] = b[j - Len(a)]
            /\ i - Len(a) < j - Len(a)
        BY <1>2, <1>3, <1>6, <2>3
      <3>. QED  BY <1>2, <3>1 DEF Ascending
    <2>. QED  BY <2>1, <2>2, <2>3
  <1>. QED  BY <1>1, <1>2, <1>5, <1>6 DEF Ascending

(* Three lists, one after the other.                                       *)
LEMMA ThreeLines ==
  ASSUME NEW a \in Seq(Packet), NEW b \in Seq(Packet), NEW c \in Seq(Packet)
  PROVE  (a \o b) \o c = a \o (b \o c)
BY ConcatAssociative

(* What a source carries, as a list.                                       *)
LEMMA CarriedLine ==
  ASSUME IInv, NEW t \in Source
  PROVE  /\ InHand(t) \in Seq(Packet) /\ Ascending(InHand(t))
         /\ ToSet(InHand(t)) = {hand[t]} \ {NoPacket}
  <1>1. hand[t] \in Packet \cup {NoPacket}
    BY DEF IInv, TypeOK, Source, Thread
  <1>2. CASE hand[t] = NoPacket
    BY <1>2 DEF InHand, Ascending, ToSet
  <1>3. CASE hand[t] # NoPacket
    <2>1. PICK u : u = <<hand[t]>>
      OBVIOUS
    <2>2. u \in Seq(Packet) /\ DOMAIN u = {1} /\ u[1] = hand[t]
      BY <1>1, <1>3, <2>1
    <2>3. Ascending(u) /\ ToSet(u) = {hand[t]}
      BY <2>2 DEF Ascending, ToSet
    <2>. QED  BY <1>3, <2>1, <2>2, <2>3 DEF InHand
  <1>. QED  BY <1>2, <1>3

(* Nobody overtakes on the way from Q1 to the servers, and a packet in Q2  *)
(* is not left to servers that wait (DepositeToken, PacketArrival, server).*)
THEOREM PacketsAreAlwaysServed == Spec => []PacketsAreServed
  <1>1. IInv /\ Journey => ServedInOrder
    <2> SUFFICES ASSUME IInv, Journey PROVE ServedInOrder
      OBVIOUS
    <2>1. Q1 \in Seq(Packet) /\ Q2 \in Seq(Packet) /\ Ascending(Q1) /\ Ascending(Q2)
      BY DEF IInv, TypeOK, Journey, Ordered
    <2>2. PICK a, b : a = InHand("token") /\ b = InHand("packet")
      OBVIOUS
    <2>3. /\ a \in Seq(Packet) /\ Ascending(a) /\ ToSet(a) = {hand["token"]} \ {NoPacket}
          /\ b \in Seq(Packet) /\ Ascending(b) /\ ToSet(b) = {hand["packet"]} \ {NoPacket}
      BY <2>2, CarriedLine DEF Source
    <2>4. Carried = ToSet(a) \cup ToSet(b)
      BY <2>3 DEF Carried, Source
    <2>5. Before(ToSet(a), ToSet(b))
      BY <2>3 DEF Journey, Hands, Before
    <2>6. PICK c : c = b \o Q1
      OBVIOUS
    <2>7. c \in Seq(Packet) /\ Ascending(c) /\ ToSet(c) = ToSet(b) \cup ToSet(Q1)
      <3>1. Before(ToSet(b), ToSet(Q1))
        BY <2>4 DEF Journey, Ordered, Before
      <3>. QED  BY <2>1, <2>3, <2>6, <3>1, LinesJoined
    <2>8. PICK d : d = a \o c
      OBVIOUS
    <2>9. d \in Seq(Packet) /\ Ascending(d) /\ ToSet(d) = Carried \cup ToSet(Q1)
      <3>1. Before(ToSet(a), ToSet(c))
        BY <2>4, <2>5, <2>7 DEF Journey, Ordered, Before
      <3>2. /\ d \in Seq(Packet) /\ Ascending(d)
            /\ ToSet(d) = ToSet(a) \cup ToSet(c)
        BY <2>3, <2>7, <2>8, <3>1, LinesJoined
      <3>. QED  BY <2>4, <2>7, <3>2
    <2>10. PICK e : e = Q2 \o d
      OBVIOUS
    <2>11. e \in Seq(Packet) /\ Ascending(e) /\ ToSet(e) = Underway
      <3>1. Before(ToSet(Q2), ToSet(d))
        BY <2>9 DEF Journey, Ordered
      <3>2. /\ e \in Seq(Packet) /\ Ascending(e)
            /\ ToSet(e) = ToSet(Q2) \cup ToSet(d)
        BY <2>1, <2>9, <2>10, <3>1, LinesJoined
      <3>. QED  BY <2>9, <3>2 DEF Underway
    <2>12. Line = e
      <3>1. PICK f : f = Q2 \o a
        OBVIOUS
      <3>2. f \in Seq(Packet)
        BY <2>1, <2>3, <3>1
      <3>3. f \o c = Q2 \o (a \o c)
        BY <2>1, <2>3, <2>7, <3>1, ThreeLines
      <3>4. (f \o b) \o Q1 = f \o (b \o Q1)
        BY <2>1, <2>3, <3>2, ThreeLines
      <3>. QED  BY <2>2, <2>6, <2>8, <2>10, <3>1, <3>3, <3>4 DEF Line
    <2>13. \A i \in DOMAIN e : e[i] \in Underway /\ e[i] \in Packet
      BY <2>11 DEF ToSet
    <2>14. ASSUME NEW i \in DOMAIN e, NEW p \in served \cup {hand[s] : s \in Server}
           PROVE  p < e[i]
      <3>1. CASE p = NoPacket
        BY <2>13, <3>1, TokenBucketAssumption DEF NoPacket, Packet
      <3>2. CASE p # NoPacket
        <4>1. p \in Served
          BY <2>14, <3>2 DEF Served
        <4>. QED  BY <2>13, <4>1 DEF Journey, Ordered, Before
      <3>. QED  BY <3>1, <3>2
    <2>. QED  BY <2>11, <2>12, <2>14 DEF ServedInOrder, Ascending
  <1>2. IInv /\ Journey => WorkIsSeen
    BY DEF Journey, Attended, WorkIsSeen
  <1>. QED  BY <1>1, <1>2, JourneyInvariant, PTL DEF PacketsAreServed

(* Unless <Ctrl+C> removes them, the packets are all served or dropped when*)
(* the threads have ended, provided the last one fits into the bucket.     *)
THEOREM NoPacketIsLeft == Spec => []NoPacketLeft
  <1>1. IInv /\ Journey => NoPacketLeft
    <2> SUFFICES ASSUME IInv, Journey, Ended, Up, ~controlcflag, required_tokens[num] <= B
                 PROVE  served \cup dropped = Packet
      BY DEF NoPacketLeft
    <2>1. \A s \in Server : pc[s] = "exited"
      BY TokenBucketAssumption DEF Ended, Thread
    <2>2. Over
      <3>1. PICK s \in Server : TRUE
        BY TokenBucketAssumption
      <3>. QED  BY <2>1, <3>1 DEF Journey, Attended
    <2>3. Served = served
      BY <2>1 DEF Journey, Hands, Served
    <2>4. Packet \subseteq served \cup dropped
      BY <2>2, <2>3 DEF Journey, Accounted, Over
    <2>5. served \subseteq Packet /\ dropped \subseteq Packet
      BY DEF IInv, TypeOK
    <2>. QED  BY <2>4, <2>5
  <1>. QED  BY <1>1, JourneyInvariant, PTL
=============================================================================
