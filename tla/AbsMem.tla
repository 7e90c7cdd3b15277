------------------------------- MODULE AbsMem -------------------------------
(***************************************************************************)
(* What the virtual memory of processes promises, without objects, page    *)
(* frames or page tables: every page of an address space holds a value,    *)
(* and some pages of different processes are the same memory.  There is    *)
(* one action for each thing a process can ask for, and everything that it *)
(* does not name stays as it is.  Which of them a step has to be is said   *)
(* by the detailed module, which knows the call that the step is.          *)
(***************************************************************************)
CONSTANTS
  Proc, Page, Val, Zero, Unmapped,
  Program,   \* what the pages of a process hold when a program starts,
  Args       \* except the page that has its arguments

VARIABLES
  mem,    \* mem[p][i]: what page i of process p holds, or Unmapped
  same    \* same[p][i]: the pages that are one memory with page i of p

memvars == <<mem, same>>

At(p, i)  == <<p, i>>
NoMemory  == [i \in Page |-> Unmapped]
Mapped(p) == {i \in Page : mem[p][i] # Unmapped}

(* The kernel does something that no process can see.                      *)
Unseen == UNCHANGED memvars

(* A value is seen at every page that is this memory, and nowhere else.    *)
Store(p, i, v) ==
  LET here == same[p][i] IN
  /\ mem[p][i] # Unmapped
  /\ mem' = [q \in Proc |-> [j \in Page |-> IF At(q, j) \in here THEN v ELSE mem[q][j]]]
  /\ UNCHANGED same

(* Pages I of p become memory of their own, or are taken away.             *)
Replace(p, I, contents) ==
  /\ mem' = [mem EXCEPT ![p] = [i \in Page |-> IF i \in I THEN contents[i] ELSE @[i]]]
  /\ same' = [q \in Proc |-> [j \in Page |->
       IF q = p /\ j \in I THEN IF contents[j] = Unmapped THEN {} ELSE {At(p, j)}
       ELSE same[q][j] \ {At(p, i) : i \in I}]]

Map(p, I)   == Replace(p, I, [i \in Page |-> Zero])
Unmap(p, I) == Replace(p, I, NoMemory)
Exec(p, v)  == Replace(p, Page, [Program EXCEPT ![Args] = v])
Exit(p)     == Unmap(p, Page)

(* New pages that are chosen for p are none that it has.                   *)
MapAnywhere(p, I) == I \cap Mapped(p) = {} /\ Map(p, I)

(* What the pages hold that the heap grows by is not promised, and neither *)
(* is who shares them: they may be memory that the process had before.     *)
(* Nothing else changes.                                                   *)
Grow(p, I) ==
  /\ I \cap Mapped(p) = {} /\ I \subseteq Mapped(p)'
  /\ \A q \in Proc, j \in Page : (q # p \/ j \notin I) =>
       mem'[q][j] = mem[q][j] /\ same'[q][j] \ {At(p, i) : i \in I} = same[q][j]

(* Pages S that the child shares, and a class of pages that are one memory *)
(* with those of the child that join it.                                   *)
WithChild(p, q, S, class) ==
  class \cup {At(q, i) : i \in {k \in S : At(p, k) \in class}}

(* The child sees what the parent sees; pages S are one memory for both,   *)
(* the others are memory of its own.                                       *)
Fork(p, q, S) ==
  /\ Mapped(q) = {}
  /\ mem' = [mem EXCEPT ![q] = mem[p]]
  /\ same' = [r \in Proc |-> [j \in Page |->
       IF r # q THEN WithChild(p, q, S, same[r][j])
       ELSE IF j \in S THEN WithChild(p, q, S, same[p][j])
       ELSE IF j \in Mapped(p) THEN {At(q, j)} ELSE {}]]

(* The kernel stops.                                                       *)
Halt ==
  /\ mem' = [q \in Proc |-> NoMemory]
  /\ same' = [q \in Proc |-> [i \in Page |-> {}]]

Init == \E p \in Proc :
  /\ mem = [q \in Proc |-> IF q = p THEN [Program EXCEPT ![Args] = Zero] ELSE NoMemory]
  /\ same = [q \in Proc |-> [i \in Page |-> IF mem[q][i] = Unmapped THEN {} ELSE {At(q, i)}]]
=============================================================================
