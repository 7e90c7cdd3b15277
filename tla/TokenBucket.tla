---------------------------- MODULE TokenBucket ----------------------------
(***************************************************************************)
(* The token bucket emulation (warmup2/warmup2.c): a thread that deposits  *)
(* tokens, a thread that creates packets, two servers and a thread that    *)
(* waits for <Ctrl+C> share one mutex, one condition variable and two      *)
(* queues.  A packet waits in Q1 until the bucket holds the tokens it      *)
(* needs, then in Q2 for a server.                                         *)
(*                                                                         *)
(* Time is left out: a sleep ends at some time.  A cancelled thread dies   *)
(* in usleep, and in printf and fgets where it may.  What the C library    *)
(* leaves undefined stops the model with a reason: two threads under the   *)
(* mutex, a file closed twice, a read from a closed file.                  *)
(***************************************************************************)
EXTENDS Naturals, FiniteSets, Sequences, SequencesExt

CONSTANTS
  num,      \* packets to arrive
  B,        \* the depth of the bucket
  Needs,    \* the tokens that a packet may need
  Server,   \* the threads of server1 and server2
  NoThread

Thread  == {"token", "packet", "handler"} \cup Server
Source  == {"token", "packet"}          \* the threads that can be cancelled
Packet  == 1 .. num
NoPacket == 0

ASSUME TokenBucketAssumption ==
  /\ num \in Nat \ {0} /\ B \in Nat /\ Needs \subseteq Nat \ {0} /\ Needs # {}
  /\ Server # {} /\ Server \cap {"token", "packet", "handler"} = {} /\ NoThread \notin Thread

VARIABLES
  pc,                \* where each thread is
  m,                 \* the thread that locked the mutex
  Q1, Q2,            \* packets, first to last
  hand,              \* the packet a thread has taken from a queue
  num_tokens,
  packets_generated, q1_to_q2,
  served, dropped, removed,            \* packets by what became of them
  controlcflag, end, terminate,
  flag,              \* the local variable of the two sources
  mutex_locked,      \* likewise
  cancelled,         \* threads with a pending cancellation
  required_tokens,   \* of each packet
  trace, closefile,  \* packets are read from a file; it has to be closed
  crash              \* why the program's behaviour is undefined

queues == <<Q1, Q2, hand, num_tokens, q1_to_q2>>
counts == <<packets_generated, served, dropped, removed>>
flags  == <<controlcflag, end, terminate, cancelled>>
input  == <<required_tokens, trace>>
vars   == <<pc, m, queues, counts, flags, flag, mutex_locked, input, closefile, crash>>

Up == crash = "none"
Finished == Cardinality(served) + Cardinality(dropped)      \* q2_to_out + dropped_packets
Ended == \A t \in Thread \ {"handler"} : pc[t] = "exited"   \* main has joined them

-----------------------------------------------------------------------------
(* The mutex and the condition variable. *)

InSection(t) ==
  \/ t \in Source /\ mutex_locked[t]
  \/ pc[t] \in {"look", "awake", "depart", "remove"}

(* Where a thread goes on with the mutex.  A waiter takes it again before  *)
(* pthread_cond_wait returns; a server that has served takes it to depart. *)
Locked == [lock |-> "in", look_lock |-> "look", woken |-> "awake", serving |-> "depart", remove_lock |-> "remove"]

pthread_mutex_lock(t) ==
  /\ Up /\ m = NoThread /\ pc[t] \in DOMAIN Locked
  /\ m' = t /\ pc' = [pc EXCEPT ![t] = Locked[pc[t]]]
  /\ mutex_locked' = IF t \in Source THEN [mutex_locked EXCEPT ![t] = TRUE] ELSE mutex_locked
  /\ crash' = IF \E u \in Thread \ {t} : InSection(u) THEN "data race" ELSE crash
  /\ UNCHANGED <<queues, counts, flags, flag, input, closefile>>

Waiting == {s \in Server : pc[s] = "waiting"}

Broadcast(p) == [s \in Thread |-> IF s \in Waiting THEN "woken" ELSE p[s]]

(* pthread_cond_wait may return without a reason.                          *)
SpuriousWakeup(s) ==
  /\ Up /\ pc[s] = "waiting" /\ pc' = [pc EXCEPT ![s] = "woken"]
  /\ UNCHANGED <<m, queues, counts, flags, flag, mutex_locked, input, closefile, crash>>
-----------------------------------------------------------------------------
(* What DepositeToken and PacketArrival share: moving the first packet of  *)
(* Q1 to Q2, and the cleanup handler.                                      *)

Eligible(q, n) == q # <<>> /\ required_tokens[Head(q)] <= n

\* Seeded fault: the tokens stay in the bucket.
LeaveQ1_KeepsTokens(t, n) ==
  /\ Eligible(Q1, n)
  /\ num_tokens' = n
  /\ flag' = [flag EXCEPT ![t] = @ \/ Q2 = <<>>]
  /\ hand' = [hand EXCEPT ![t] = Head(Q1)] /\ Q1' = Tail(Q1) /\ q1_to_q2' = q1_to_q2 + 1
  /\ pc' = [pc EXCEPT ![t] = "moving"]
  /\ UNCHANGED Q2

\* Seeded fault: the servers are told of the packets that find others in Q2.
LeaveQ1_FlagWhenBusy(t, n) ==
  /\ Eligible(Q1, n)
  /\ num_tokens' = n - required_tokens[Head(Q1)]
  /\ flag' = [flag EXCEPT ![t] = @ \/ Q2 # <<>>]
  /\ hand' = [hand EXCEPT ![t] = Head(Q1)] /\ Q1' = Tail(Q1) /\ q1_to_q2' = q1_to_q2 + 1
  /\ pc' = [pc EXCEPT ![t] = "moving"]
  /\ UNCHANGED Q2

(* The flag is set when Q2 was empty, and never taken back.                *)
LeaveQ1(t, n) ==
  /\ Eligible(Q1, n)
  /\ num_tokens' = n - required_tokens[Head(Q1)]
  /\ flag' = [flag EXCEPT ![t] = @ \/ Q2 = <<>>]
  /\ hand' = [hand EXCEPT ![t] = Head(Q1)] /\ Q1' = Tail(Q1) /\ q1_to_q2' = q1_to_q2 + 1
  /\ pc' = [pc EXCEPT ![t] = "moving"]
  /\ UNCHANGED Q2

EnterQ2(t) ==
  /\ Up /\ pc[t] = "moving" /\ t \in Source
  /\ Q2' = Append(Q2, hand[t]) /\ hand' = [hand EXCEPT ![t] = NoPacket]
  /\ pc' = [pc EXCEPT ![t] = "entered"]
  /\ UNCHANGED <<m, Q1, num_tokens, q1_to_q2, counts, flags, flag, mutex_locked, input, closefile, crash>>

SignalServers(t) ==
  /\ Up /\ pc[t] = "entered" /\ t \in Source
  /\ pc' = [(IF flag[t] THEN Broadcast(pc) ELSE pc) EXCEPT ![t] = "check"]
  /\ UNCHANGED <<m, queues, counts, flags, flag, mutex_locked, input, closefile, crash>>

(* A cancelled thread dies: in usleep, or where it prints or reads.        *)
Cancelled(t) ==
  /\ Up /\ t \in cancelled
  /\ pc[t] \in {"read", "sleep", "in", "added", "queued", "moving", "entered", "drop"}
  /\ (t = "token") => pc[t] # "in"
  /\ pc' = [pc EXCEPT ![t] = "cleanup"] /\ hand' = [hand EXCEPT ![t] = NoPacket]
  /\ UNCHANGED <<m, Q1, Q2, num_tokens, q1_to_q2, counts, flags, flag, mutex_locked, input, closefile, crash>>

\* Seeded fault: the mutex is unlocked whoever locked it.
cleanup_AlwaysUnlocks(t) ==
  /\ Up /\ pc[t] = "cleanup"
  /\ m' = NoThread
  /\ mutex_locked' = [mutex_locked EXCEPT ![t] = FALSE]
  /\ pc' = [pc EXCEPT ![t] = IF closefile THEN "closing" ELSE "exited"]
  /\ crash' = IF closefile /\ \E u \in Source : pc[u] = "closing" THEN "file closed twice" ELSE crash
  /\ UNCHANGED <<queues, counts, flags, flag, input, closefile>>

(* cleanup, as pthread_exit and a cancellation run it.  Another thread can *)
(* come between fclose and the assignment to closefile.                    *)
cleanup(t) ==
  /\ Up /\ pc[t] = "cleanup"
  /\ m' = (IF mutex_locked[t] THEN NoThread ELSE m)
  /\ mutex_locked' = [mutex_locked EXCEPT ![t] = FALSE]
  /\ pc' = [pc EXCEPT ![t] = IF closefile THEN "closing" ELSE "exited"]
  /\ crash' = IF closefile /\ \E u \in Source : pc[u] = "closing" THEN "file closed twice" ELSE crash
  /\ UNCHANGED <<queues, counts, flags, flag, input, closefile>>

cleanup_Closed(t) ==
  /\ Up /\ pc[t] = "closing"
  /\ closefile' = FALSE /\ pc' = [pc EXCEPT ![t] = "exited"]
  /\ UNCHANGED <<m, queues, counts, flags, flag, mutex_locked, input, crash>>
-----------------------------------------------------------------------------
(* DepositeToken. *)

(* usleep ends; a cancelled thread does not get past it.                   *)
NextToken ==
  /\ Up /\ pc["token"] = "sleep" /\ "token" \notin cancelled
  /\ pc' = [pc EXCEPT !["token"] = "lock"]
  /\ UNCHANGED <<m, queues, counts, flags, flag, mutex_locked, input, closefile, crash>>

\* Seeded fault: a token more than the bucket holds.
AddToken_OneTooMany ==
  /\ Up /\ pc["token"] = "in"
  /\ num_tokens' = (IF num_tokens <= B THEN num_tokens + 1 ELSE num_tokens)
  /\ pc' = [pc EXCEPT !["token"] = "added"]
  /\ UNCHANGED <<m, Q1, Q2, hand, q1_to_q2, counts, flags, flag, mutex_locked, input, closefile, crash>>

AddToken ==
  /\ Up /\ pc["token"] = "in"
  /\ num_tokens' = (IF num_tokens < B THEN num_tokens + 1 ELSE num_tokens)
  /\ pc' = [pc EXCEPT !["token"] = "added"]
  /\ UNCHANGED <<m, Q1, Q2, hand, q1_to_q2, counts, flags, flag, mutex_locked, input, closefile, crash>>

TokenMoves ==
  /\ Up /\ pc["token"] = "added"
  /\ \/ LeaveQ1("token", num_tokens)
     \/ /\ ~Eligible(Q1, num_tokens) /\ pc' = [pc EXCEPT !["token"] = "check"] /\ UNCHANGED <<queues, flag>>
  /\ UNCHANGED <<m, counts, flags, mutex_locked, input, closefile, crash>>

\* Seeded fault: dropped packets are not counted.
AllMoved_DropsNotCounted == q1_to_q2 = num

AllMoved == q1_to_q2 + Cardinality(dropped) = num

TokenUnlocks ==
  /\ Up /\ pc["token"] = "check"
  /\ m' = NoThread /\ mutex_locked' = [mutex_locked EXCEPT !["token"] = FALSE]
  /\ pc' = [pc EXCEPT !["token"] = IF AllMoved THEN "cleanup" ELSE "sleep"]
  /\ UNCHANGED <<queues, counts, flags, flag, input, closefile, crash>>

DepositeToken == NextToken \/ AddToken \/ TokenMoves \/ TokenUnlocks
-----------------------------------------------------------------------------
(* PacketArrival. *)

ReadPacket ==
  /\ Up /\ pc["packet"] = "read"
  /\ pc' = [pc EXCEPT !["packet"] = "sleep"]
  /\ crash' = IF trace /\ (~closefile \/ pc["token"] = "closing") THEN "read of the closed file" ELSE crash
  /\ UNCHANGED <<m, queues, counts, flags, flag, mutex_locked, input, closefile>>

(* The tokens that the next packet needs.                                  *)
CreatePacket == required_tokens[packets_generated + 1]

(* usleep, and the choice between the queue and the drop.                  *)
NextPacket ==
  /\ Up /\ pc["packet"] = "sleep" /\ "packet" \notin cancelled
  /\ packets_generated' = packets_generated + 1
  /\ pc' = [pc EXCEPT !["packet"] = IF CreatePacket <= B THEN "lock" ELSE "drop"]
  /\ UNCHANGED <<m, queues, served, dropped, removed, flags, flag, mutex_locked, input, closefile, crash>>

EnterQ1 ==
  /\ Up /\ pc["packet"] = "in"
  /\ Q1' = Append(Q1, packets_generated) /\ pc' = [pc EXCEPT !["packet"] = "queued"]
  /\ UNCHANGED <<m, Q2, hand, num_tokens, q1_to_q2, counts, flags, flag, mutex_locked, input, closefile, crash>>

PacketMoves ==
  /\ Up /\ pc["packet"] = "queued"
  /\ \/ LeaveQ1("packet", num_tokens)
     \/ /\ ~Eligible(Q1, num_tokens) /\ pc' = [pc EXCEPT !["packet"] = "check"] /\ UNCHANGED <<queues, flag>>
  /\ UNCHANGED <<m, counts, flags, mutex_locked, input, closefile, crash>>

DropPacket ==
  /\ Up /\ pc["packet"] = "drop"
  /\ dropped' = dropped \cup {packets_generated} /\ pc' = [pc EXCEPT !["packet"] = "check"]
  /\ UNCHANGED <<m, queues, packets_generated, served, removed, flags, flag, mutex_locked, input, closefile, crash>>

\* Seeded fault: a packet that still waits for tokens is forgotten.
LastPacket_IgnoresQ1 ==
  LET over == packets_generated = num /\ Q2 = <<>> IN
  /\ Up /\ pc["packet"] = "check"
  /\ end' = (end \/ over)
  /\ pc' = [(IF over THEN Broadcast(pc) ELSE pc) EXCEPT !["packet"] = "unlock"]
  /\ UNCHANGED <<m, queues, counts, controlcflag, terminate, cancelled, flag, mutex_locked, input, closefile, crash>>

(* The last packet ends the emulation if no packet is in a queue.  After a *)
(* drop this looks at the queues without the mutex,                        *)
LastPacket ==
  LET over == packets_generated = num /\ Q1 = <<>> /\ Q2 = <<>> IN
  /\ Up /\ pc["packet"] = "check"
  /\ end' = (end \/ over)
  /\ pc' = [(IF over THEN Broadcast(pc) ELSE pc) EXCEPT !["packet"] = "unlock"]
  /\ UNCHANGED <<m, queues, counts, controlcflag, terminate, cancelled, flag, mutex_locked, input, closefile, crash>>

(* and this gives back a mutex that somebody else may hold.                *)
PacketUnlocks ==
  /\ Up /\ pc["packet"] = "unlock"
  /\ m' = NoThread /\ mutex_locked' = [mutex_locked EXCEPT !["packet"] = FALSE]
  /\ pc' = [pc EXCEPT !["packet"] = IF packets_generated = num THEN "cleanup" ELSE "read"]
  /\ UNCHANGED <<queues, counts, flags, flag, input, closefile, crash>>

PacketArrival ==
  ReadPacket \/ NextPacket \/ EnterQ1 \/ PacketMoves \/ DropPacket \/ LastPacket \/ PacketUnlocks
-----------------------------------------------------------------------------
(* server1 and server2. *)

(* With the mutex: wait for a packet, or take the first one.               *)
Look(s) ==
  /\ m' = NoThread
  /\ \/ Q2 = <<>> /\ pc' = [pc EXCEPT ![s] = "waiting"] /\ UNCHANGED queues
     \/ /\ Q2 # <<>> /\ pc' = [pc EXCEPT ![s] = "serving"]
        /\ hand' = [hand EXCEPT ![s] = Head(Q2)] /\ Q2' = Tail(Q2)
        /\ UNCHANGED <<Q1, num_tokens, q1_to_q2>>

server_Look(s) ==
  /\ Up /\ pc[s] = "look" /\ Look(s)
  /\ UNCHANGED <<counts, flags, flag, mutex_locked, input, closefile, crash>>

Over == controlcflag \/ terminate \/ end

server_Awake(s) ==
  /\ Up /\ pc[s] = "awake"
  /\ \/ Over /\ m' = NoThread /\ pc' = [pc EXCEPT ![s] = "exited"] /\ UNCHANGED queues
     \/ ~Over /\ Look(s)
  /\ UNCHANGED <<counts, flags, flag, mutex_locked, input, closefile, crash>>

(* The packet departs; the last one takes the other server along, if it    *)
(* waits.                                                                  *)
server_Depart(s) ==
  LET out  == served \cup {hand[s]}
      last == Cardinality(out) + Cardinality(dropped) = num \/ controlcflag
  IN  /\ Up /\ pc[s] = "depart"
      /\ m' = NoThread /\ served' = out /\ hand' = [hand EXCEPT ![s] = NoPacket]
      /\ terminate' = (terminate \/ last)
      /\ \/ ~last /\ pc' = [pc EXCEPT ![s] = "look_lock"]
         \/ last /\ Waiting = {} /\ pc' = [pc EXCEPT ![s] = "exited"]
         \/ last /\ \E u \in Waiting : pc' = [pc EXCEPT ![s] = "exited", ![u] = "woken"]
      /\ UNCHANGED <<Q1, Q2, num_tokens, q1_to_q2, packets_generated, dropped, removed,
                     controlcflag, end, cancelled, flag, mutex_locked, input, closefile, crash>>

server(s) == server_Look(s) \/ server_Awake(s) \/ server_Depart(s)
-----------------------------------------------------------------------------
(* ControlCReciever. *)

ControlC ==
  /\ Up /\ pc["handler"] = "sigwait" /\ ~Ended
  /\ pc' = [pc EXCEPT !["handler"] = "remove_lock"]
  /\ UNCHANGED <<m, queues, counts, flags, flag, mutex_locked, input, closefile, crash>>

RemovePackets ==
  /\ Up /\ pc["handler"] = "remove"
  /\ controlcflag' = TRUE /\ cancelled' = Source
  /\ pc' = [Broadcast(pc) EXCEPT !["handler"] = "exited"]
  /\ removed' = removed \cup ToSet(Q1) \cup ToSet(Q2) /\ Q1' = <<>> /\ Q2' = <<>>
  /\ m' = NoThread
  /\ UNCHANGED <<hand, num_tokens, q1_to_q2, packets_generated, served, dropped, end, terminate,
                 flag, mutex_locked, input, closefile, crash>>

ControlCReciever == RemovePackets
-----------------------------------------------------------------------------
(* With a trace file every packet has its own needs, without one all have  *)
(* those of the command line.                                              *)
parseCommandLine ==
  /\ required_tokens \in [Packet -> Needs] /\ trace \in BOOLEAN
  /\ ~trace => \A p \in Packet : required_tokens[p] = required_tokens[1]

Init ==
  /\ parseCommandLine
  /\ pc = [t \in Thread |-> CASE t = "token" -> "sleep" [] t = "packet" -> "read"
                              [] t = "handler" -> "sigwait" [] t \in Server -> "look_lock"]
  /\ m = NoThread /\ Q1 = <<>> /\ Q2 = <<>> /\ hand = [t \in Thread |-> NoPacket]
  /\ num_tokens = 0 /\ packets_generated = 0 /\ q1_to_q2 = 0
  /\ served = {} /\ dropped = {} /\ removed = {}
  /\ controlcflag = FALSE /\ end = FALSE /\ terminate = FALSE
  /\ flag = [t \in Source |-> FALSE] /\ mutex_locked = [t \in Source |-> FALSE]
  /\ cancelled = {} /\ closefile = trace /\ crash = "none"

Moves(t) == EnterQ2(t) \/ SignalServers(t) \/ Cancelled(t) \/ cleanup(t) \/ cleanup_Closed(t)

Stopped == (~Up \/ Ended) /\ UNCHANGED vars

Next ==
  \/ \E t \in Thread : pthread_mutex_lock(t)
  \/ \E t \in Source : Moves(t)
  \/ DepositeToken \/ PacketArrival \/ ControlCReciever \/ ControlC \/ Stopped
  \/ \E s \in Server : server(s) \/ SpuriousWakeup(s)

Spec == Init /\ [][Next]_vars

(* Every thread runs on, and gets the mutex if it is free again and again; *)
(* nobody has to press <Ctrl+C>.                                           *)
Fairness ==
  /\ \A t \in Thread \ {"handler"} : SF_vars(pthread_mutex_lock(t))
  /\ \A t \in Source : WF_vars(Moves(t))
  /\ WF_vars(DepositeToken) /\ WF_vars(PacketArrival) /\ WF_vars(ControlCReciever)
  /\ \A s \in Server : WF_vars(server(s))

FairSpec == Spec /\ Fairness
-----------------------------------------------------------------------------
TypeOK ==
  /\ DOMAIN pc = Thread
  /\ pc["token"] \in {"sleep", "lock", "in", "added", "moving", "entered", "check", "cleanup", "closing", "exited"}
  /\ pc["packet"] \in {"read", "sleep", "lock", "in", "queued", "moving", "entered", "drop", "check", "unlock",
                        "cleanup", "closing", "exited"}
  /\ pc["handler"] \in {"sigwait", "remove_lock", "remove", "exited"}
  /\ \A s \in Server : pc[s] \in {"look_lock", "look", "waiting", "woken", "awake", "serving", "depart", "exited"}
  /\ m \in Thread \cup {NoThread}
  /\ Q1 \in Seq(Packet) /\ Q2 \in Seq(Packet) /\ hand \in [Thread -> Packet \cup {NoPacket}]
  /\ num_tokens \in 0 .. B /\ packets_generated \in 0 .. num /\ q1_to_q2 \in 0 .. num
  /\ {served, dropped, removed} \subseteq SUBSET Packet
  /\ {controlcflag, end, terminate, trace, closefile} \subseteq BOOLEAN
  /\ flag \in [Source -> BOOLEAN] /\ mutex_locked \in [Source -> BOOLEAN]
  /\ cancelled \in {{}, Source} /\ required_tokens \in [Packet -> Needs]

(* The mutex is held by the thread under it and there is only one, up to   *)
(* the first dropped packet, after which PacketArrival unlocks a mutex it  *)
(* did not lock (warmup2.c:449).                                           *)
MutualExclusion ==
  dropped = {} =>
    /\ crash # "data race"
    /\ \A t \in Thread : InSection(t) => m = t

(* When nobody works on the queues, the first packet of Q1 lacks tokens:   *)
(* no packet waits for tokens that are there, until <Ctrl+C> cancels them. *)
HeadWaitsForTokens ==
  (~controlcflag /\ \A t \in Thread : ~InSection(t)) => ~Eligible(Q1, num_tokens)

(* Packets are served in the order in which they arrived.                  *)
InHand(t) == IF hand[t] = NoPacket THEN <<>> ELSE <<hand[t]>>
Line == Q2 \o InHand("token") \o InHand("packet") \o Q1
ServedInOrder ==
  /\ \A i, j \in DOMAIN Line : i < j => Line[i] < Line[j]
  /\ \A i \in DOMAIN Line : \A p \in served \cup {hand[s] : s \in Server} : p < Line[i]

(* While a packet is in Q2, some server will look at it, or will be woken  *)
(* by the thread that put it there.                                        *)
WorkIsSeen ==
  (Q2 # <<>> /\ Up /\ ~Over /\ \A t \in Source : pc[t] # "entered") =>
    \E s \in Server : pc[s] \notin {"waiting", "exited"}

(* Packets are served in their order, and none waits in Q2 unseen.         *)
PacketsAreServed == ServedInOrder /\ WorkIsSeen

(* Unless the user interrupts it, the emulation does not end before every  *)
(* packet is served or dropped.  (A last packet that is dropped can end it *)
(* while the one before it is on the way from Q1 to Q2.)                   *)
NoPacketLeft ==
  (Ended /\ Up /\ ~controlcflag /\ required_tokens[num] <= B) => served \cup dropped = Packet

(* The emulation ends, unless a server came too late: it was about to look *)
(* at Q2 when the end was announced, and waits for a signal that does not  *)
(* come.                                                                   *)
TooLate == Over /\ \E s \in Server : pc[s] = "waiting"
EmulationEnds == <>(Ended \/ ~Up \/ TooLate)
=============================================================================
