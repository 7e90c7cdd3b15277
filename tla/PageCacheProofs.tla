--------------------------- MODULE PageCacheProofs ---------------------------
(***************************************************************************)
(* That no store to a page is lost, that the counts of the vnode are those *)
(* of its holders and pages, and that nobody sleeps for a page or a vnode  *)
(* that nobody has: for every number of threads, pages and page frames.    *)
(***************************************************************************)
EXTENDS PageCache, FiniteSetTheorems, SequenceTheorems, TLAPS

-----------------------------------------------------------------------------
(* The inductive invariant.  Each part speaks of a state s and of the      *)
(* threads T whose pc says where they are: all of them between two         *)
(* actions, all but the running thread within one.                         *)

Place == Frame \cup {NULL}
Pcs   == {"user", "elsewhere", "get", "sync", "vget", "put"} \cup Disk
FrameRec  == [page : Page \cup {NULL}, busy : BOOLEAN, dirty : BOOLEAN, refused : BOOLEAN, val : Val]
ThreadRec == [pc : Pcs, has : BOOLEAN, f : Place, page : Page \cup {NULL},
              store : Val \cup {NULL}, rest : Seq(Frame)]
State ==
  [frame : [Frame -> FrameRec], alloc : Seq(Frame), res : Seq(Frame),
   core : BOOLEAN, busy : BOOLEAN, ref : Nat, linked : BOOLEAN,
   disk : [Page -> Val], last : [Page -> Val],
   thr : [Thread -> ThreadRec], runq : Seq(Thread), waitq : [Place -> Seq(Thread)],
   crash : {NoCrash, "another_page", "read_vnode"}]

\* A thread is on one queue at most, that of what it sleeps for if it sleeps.
Sleeps(f) == IF f = NULL THEN {"vget"} ELSE {"get", "sync", "put"}
Queues(s, T) ==
  /\ IsInjective(s.runq)
  /\ \A f \in Place : IsInjective(s.waitq[f])
  /\ \A f \in Place, u \in Thread : Contains(s.waitq[f], u) =>
       u \in T /\ ~Contains(s.runq, u) /\ s.thr[u].f = f /\ s.thr[u].pc \in Sleeps(f)

\* A thread that has a page read, written or marked has it for itself, and it is
\* busy; who reads it or waits to use it has the file open.
Working == {"filling", "dirtying", "cleaning"}
Workers(s, T) ==
  /\ \A u \in T : s.thr[u].pc \in Working =>
       /\ s.thr[u].f \in Frame
       /\ s.frame[s.thr[u].f].busy /\ s.frame[s.thr[u].f].page # NULL
       /\ s.thr[u].pc # "cleaning" => s.frame[s.thr[u].f].page = s.thr[u].page
  /\ \A u, v \in T : s.thr[u].pc \in Working /\ s.thr[v].pc \in Working
                       /\ s.thr[u].f = s.thr[v].f => u = v
  /\ \A u \in T : s.thr[u].pc \in {"filling", "dirtying", "get"} =>
       s.thr[u].has /\ s.thr[u].page \in Page /\ s.thr[u].f \in Frame

\* The two lists hold the pages in memory, and no page is there twice.
Lists(s) ==
  /\ IsInjective(s.alloc) /\ IsInjective(s.res)
  /\ \A f \in Frame : /\ Contains(s.alloc, f) <=> s.frame[f].page # NULL
                      /\ Contains(s.res, f) <=> s.frame[f].page # NULL
  /\ \A f, g \in Frame : s.frame[f].page = s.frame[g].page /\ s.frame[f].page # NULL => f = g

\* The vnode has its count and its pages while it is in core and not busy, and
\* is busy as long as one thread reads or deletes it.
Holders(s) == {u \in Thread : s.thr[u].has}
Moving == {"reading", "deleting"}
Counts(s) ==
  /\ s.core /\ ~s.busy => s.ref = Len(s.res) + Cardinality(Holders(s)) /\ s.ref > 0
  /\ ~s.core \/ s.busy => s.ref = 0 /\ s.res = <<>> /\ Holders(s) = {}
  /\ s.busy => s.core
Movers(s, T) ==
  /\ \A u \in T : s.thr[u].pc \in Moving => s.busy
  /\ \A u, v \in T : s.thr[u].pc \in Moving /\ s.thr[v].pc \in Moving => u = v
  /\ s.busy => \E u \in T : s.thr[u].pc \in Moving
  /\ \A u \in T : s.thr[u].pc = "reading" => s.linked

\* Who takes the pages away is the last that holds the vnode of a file without a
\* name; what remains of the list is what remains in memory.
Putters(s, T) ==
  \A u \in T : s.thr[u].pc = "put" =>
    ~s.linked /\ Holders(s) = {u} /\ s.thr[u].rest = s.res

\* A thread that was woken because the vnode is gone comes to run before the vnode
\* is back: it was on the run queue before the thread that reads it.
InTurn(s, T) ==
  \A i \in DOMAIN s.runq :
    s.runq[i] \in T /\ s.thr[s.runq[i]].pc = "vget" /\ s.core =>
      \E u \in T : s.thr[u].pc = "reading" /\ \A j \in 1 .. i : s.runq[j] # u

\* NoLostWrite, and that the disk is right for a page that is being read.  X is the
\* page that the running thread has in hand.
InUse(s, T) == s.linked \/ \E u \in Thread : s.thr[u].has /\ ~(u \in T /\ s.thr[u].pc = "put")
Unread(s, T, X, f) == f \in X \/ \E u \in T : s.thr[u].pc = "filling" /\ s.thr[u].f = f
Right(s, T, X, n) ==
  /\ \A f \in Frame : s.frame[f].page = n =>
       /\ IF Unread(s, T, X, f) THEN s.disk[n] = s.last[n] ELSE s.frame[f].val = s.last[n]
       /\ s.frame[f].busy \/ s.frame[f].dirty \/ s.frame[f].refused \/ s.disk[n] = s.last[n]
  /\ Resident(s, n) = {} => s.disk[n] = s.last[n]
Data(s, T, X) == InUse(s, T) => \A n \in Page : Right(s, T, X, n)

Sleepers(s) ==
  /\ \A f \in Frame : s.waitq[f] # <<>> => s.frame[f].busy
  /\ s.waitq[NULL] # <<>> => s.core

Sound(s, T) ==
  /\ Queues(s, T) /\ Workers(s, T) /\ Lists(s) /\ Counts(s)
  /\ Movers(s, T) /\ Putters(s, T) /\ InTurn(s, T) /\ Sleepers(s)

IInv == m \in State /\ Sound(m, Thread) /\ Data(m, Thread, {})

-----------------------------------------------------------------------------
(* Lists.                                                                  *)

LEMMA LeastNumber ==
  ASSUME NEW S \in SUBSET Nat, S # {}
  PROVE  Min(S) \in S
<1> DEFINE R == {ss \in Nat \X Nat : ss[1] < ss[2]}
<1>1. IsWellFoundedOn(R, Nat)
  BY NatLessThanWellFounded DEF OpToRel
<1>2. \A x, y \in Nat : x < y => <<x, y>> \in R
  OBVIOUS
<1> HIDE DEF R
<1>3. \E x \in S : \A y \in S : ~(<<y, x>> \in R)
  BY <1>1, WFMin
<1>4. PICK x \in S : \A y \in S : ~(<<y, x>> \in R)
  BY <1>3
<1>5. \A n \in S : x <= n
  <2>1. ASSUME NEW n \in S PROVE x <= n
    <3>1. x \in Nat /\ n \in Nat /\ ~(n < x)
      BY <1>2, <1>4
    <3> QED BY <3>1
  <2> QED BY <2>1
<1> QED BY <1>5 DEF Min

LEMMA Listed ==
  ASSUME NEW S, NEW q \in Seq(S)
  PROVE  /\ Len(q) \in Nat /\ DOMAIN q = 1 .. Len(q)
         /\ \A i \in 1 .. Len(q) : q[i] \in S
         /\ \A x : Contains(q, x) <=> \E i \in 1 .. Len(q) : q[i] = x
         /\ IsInjective(q) <=> \A i, j \in 1 .. Len(q) : q[i] = q[j] => i = j
         /\ q = <<>> <=> Len(q) = 0
         /\ q = <<>> <=> \A x : ~Contains(q, x)
<1>1. /\ Len(q) \in Nat /\ DOMAIN q = 1 .. Len(q)
      /\ \A i \in 1 .. Len(q) : q[i] \in S
  BY LenProperties, ElementOfSeq
<1>2. \A x : Contains(q, x) <=> \E i \in 1 .. Len(q) : q[i] = x
  BY DEF Contains
<1>3. IsInjective(q) <=> \A i, j \in 1 .. Len(q) : q[i] = q[j] => i = j
  BY <1>1 DEF IsInjective
<1>4. q = <<>> <=> Len(q) = 0
  BY EmptySeq
<1>5. q = <<>> <=> \A x : ~Contains(q, x)
  <2>1. Len(q) = 0 => \A x : ~Contains(q, x)
    BY <1>1, <1>2
  <2>2. Len(q) # 0 => Contains(q, q[1])
    BY <1>1, <1>2
  <2> QED BY <1>4, <2>1, <2>2
<1> QED BY <1>1, <1>2, <1>3, <1>4, <1>5

LEMMA Appended ==
  ASSUME NEW S, NEW q \in Seq(S), NEW e \in S
  PROVE  /\ Append(q, e) \in Seq(S)
         /\ Len(Append(q, e)) = Len(q) + 1
         /\ \A i \in 1 .. Len(q) : Append(q, e)[i] = q[i]
         /\ Append(q, e)[Len(q) + 1] = e
         /\ \A x : Contains(Append(q, e), x) <=> Contains(q, x) \/ x = e
         /\ IsInjective(q) /\ ~Contains(q, e) => IsInjective(Append(q, e))
<1>1. PICK r : r = Append(q, e)
  OBVIOUS
<1>2. /\ r \in Seq(S) /\ Len(r) = Len(q) + 1 /\ Len(q) \in Nat
      /\ \A i \in 1 .. Len(q) : r[i] = q[i]
      /\ r[Len(q) + 1] = e
  BY <1>1, AppendProperties, LenProperties
<1>3. \A x : Contains(r, x) <=> Contains(q, x) \/ x = e
  BY <1>2 DEF Contains
<1>4. IsInjective(q) /\ ~Contains(q, e) => IsInjective(r)
  BY <1>2, Listed
<1> QED BY <1>1, <1>2, <1>3, <1>4

LEMMA Shortened ==
  ASSUME NEW S, NEW q \in Seq(S), q # <<>>
  PROVE  /\ Head(q) \in S /\ Head(q) = q[1] /\ Contains(q, Head(q))
         /\ Tail(q) \in Seq(S) /\ Len(q) > 0
         /\ Len(Tail(q)) = Len(q) - 1
         /\ \A i \in 1 .. Len(q) - 1 : Tail(q)[i] = q[i + 1]
         /\ \A x : Contains(Tail(q), x) => Contains(q, x)
         /\ IsInjective(q) =>
              /\ IsInjective(Tail(q))
              /\ \A x : Contains(Tail(q), x) <=> Contains(q, x) /\ x # Head(q)
<1>1. PICK r : r = Tail(q)
  OBVIOUS
<1>2. /\ r \in Seq(S) /\ Len(q) \in Nat \ {0} /\ Len(r) = Len(q) - 1
      /\ \A i \in 1 .. Len(q) - 1 : r[i] = q[i + 1]
      /\ Head(q) = q[1] /\ Head(q) \in S
  BY <1>1, HeadTailProperties, LenProperties, EmptySeq
<1>3. \A x : Contains(r, x) => Contains(q, x)
  BY <1>2 DEF Contains
<1>4. Contains(q, Head(q))
  BY <1>2 DEF Contains
<1>5. ASSUME IsInjective(q)
      PROVE  /\ IsInjective(r)
             /\ \A x : Contains(r, x) <=> Contains(q, x) /\ x # Head(q)
  <2>1. \A i, j \in 1 .. Len(q) : q[i] = q[j] => i = j
    BY <1>5, Listed
  <2>2. IsInjective(r)
    <3>1. ASSUME NEW i \in 1 .. Len(r), NEW j \in 1 .. Len(r), r[i] = r[j] PROVE i = j
      <4>1. /\ i + 1 \in 1 .. Len(q) /\ j + 1 \in 1 .. Len(q)
            /\ q[i + 1] = q[j + 1]
        BY <1>2, <3>1
      <4>2. i + 1 = j + 1
        BY <2>1, <4>1
      <4> QED BY <1>2, <4>2
    <3> QED BY <1>2, <3>1, Listed
  <2>3. ASSUME NEW x, Contains(r, x) PROVE x # Head(q)
    BY <1>2, <2>1, <2>3 DEF Contains
  <2>4. ASSUME NEW x, Contains(q, x), x # Head(q) PROVE Contains(r, x)
    <3>1. PICK i \in 1 .. Len(q) : q[i] = x
      BY <2>4 DEF Contains
    <3>2. i # 1 /\ i - 1 \in 1 .. Len(r) /\ r[i - 1] = x
      BY <1>2, <2>4, <3>1
    <3> QED BY <3>2 DEF Contains
  <2> QED BY <1>3, <2>2, <2>3, <2>4
<1> QED BY <1>1, <1>2, <1>3, <1>4, <1>5

LEMMA Joined ==
  ASSUME NEW S, NEW p \in Seq(S), NEW q \in Seq(S)
  PROVE  /\ p \o q \in Seq(S)
         /\ Len(p \o q) = Len(p) + Len(q)
         /\ \A i \in 1 .. Len(p) : (p \o q)[i] = p[i]
         /\ \A i \in 1 .. Len(p \o q) : i \in 1 .. Len(p) \/ Contains(q, (p \o q)[i])
         /\ \A x : Contains(p \o q, x) <=> Contains(p, x) \/ Contains(q, x)
         /\ IsInjective(p) /\ IsInjective(q) /\ (\A x : Contains(p, x) => ~Contains(q, x))
              => IsInjective(p \o q)
         /\ p # <<>> => p \o q # <<>> /\ Head(p \o q) = Head(p)
<1>1. PICK r : r = p \o q
  OBVIOUS
<1>2. /\ r \in Seq(S) /\ Len(p) \in Nat /\ Len(q) \in Nat /\ Len(r) = Len(p) + Len(q)
      /\ \A i \in 1 .. Len(p) + Len(q) : r[i] = IF i <= Len(p) THEN p[i] ELSE q[i - Len(p)]
  BY <1>1, ConcatProperties, LenProperties
<1>3. \A i \in 1 .. Len(p) : r[i] = p[i]
  BY <1>2
<1>4. \A i \in 1 .. Len(q) : r[i + Len(p)] = q[i]
  BY <1>2
<1>5. ASSUME NEW i \in 1 .. Len(r), i \notin 1 .. Len(p)
      PROVE  i - Len(p) \in 1 .. Len(q) /\ r[i] = q[i - Len(p)]
  BY <1>2, <1>5
<1>6. ASSUME NEW x PROVE Contains(r, x) <=> Contains(p, x) \/ Contains(q, x)
  <2>1. Contains(p, x) => Contains(r, x)
    BY <1>2, <1>3 DEF Contains
  <2>2. ASSUME Contains(q, x) PROVE Contains(r, x)
    <3>1. PICK i \in 1 .. Len(q) : q[i] = x
      BY <2>2 DEF Contains
    <3>2. i + Len(p) \in 1 .. Len(r) /\ r[i + Len(p)] = x
      BY <1>2, <1>4, <3>1
    <3> QED BY <3>2 DEF Contains
  <2>3. Contains(r, x) => Contains(p, x) \/ Contains(q, x)
    BY <1>3, <1>5 DEF Contains
  <2> QED BY <2>1, <2>2, <2>3
<1>7. ASSUME IsInjective(p), IsInjective(q), \A x : Contains(p, x) => ~Contains(q, x)
      PROVE  IsInjective(r)
  <2>1. /\ \A i, j \in 1 .. Len(p) : p[i] = p[j] => i = j
        /\ \A i, j \in 1 .. Len(q) : q[i] = q[j] => i = j
    BY <1>7, Listed
  <2>2. ASSUME NEW i \in 1 .. Len(r), NEW j \in 1 .. Len(r), r[i] = r[j] PROVE i = j
    <3>1. CASE i \in 1 .. Len(p) /\ j \in 1 .. Len(p)
      BY <1>3, <2>1, <2>2, <3>1
    <3>2. CASE i \notin 1 .. Len(p) /\ j \notin 1 .. Len(p)
      <4>1. i - Len(p) = j - Len(p)
        BY <1>5, <2>1, <2>2, <3>2
      <4> QED BY <1>2, <4>1
    <3>3. CASE i \in 1 .. Len(p) /\ j \notin 1 .. Len(p)
      <4>1. Contains(p, r[i]) /\ Contains(q, r[j])
        BY <1>3, <1>5, <3>3 DEF Contains
      <4> QED BY <1>7, <2>2, <4>1
    <3>4. CASE i \notin 1 .. Len(p) /\ j \in 1 .. Len(p)
      <4>1. Contains(p, r[j]) /\ Contains(q, r[i])
        BY <1>3, <1>5, <3>4 DEF Contains
      <4> QED BY <1>7, <2>2, <4>1
    <3> QED BY <3>1, <3>2, <3>3, <3>4
  <2> QED BY <1>2, <2>2, Listed
<1>8. ASSUME p # <<>> PROVE r # <<>> /\ Head(r) = Head(p)
  <2>1. Len(p) # 0 /\ r # <<>>
    BY <1>2, <1>8, EmptySeq
  <2>2. Head(p) = p[1] /\ Head(r) = r[1]
    BY <1>2, <1>8, <2>1, Shortened
  <2> QED BY <1>2, <1>3, <2>1, <2>2
<1>9. \A i \in 1 .. Len(r) : i \in 1 .. Len(p) \/ Contains(q, r[i])
  BY <1>5 DEF Contains
<1> QED BY <1>1, <1>2, <1>3, <1>6, <1>7, <1>8, <1>9

\* What follows the kth element.
LEMMA Tailed ==
  ASSUME NEW S, NEW q \in Seq(S), NEW k \in 1 .. Len(q)
  PROVE  /\ SubSeq(q, k + 1, Len(q)) \in Seq(S)
         /\ Len(SubSeq(q, k + 1, Len(q))) = Len(q) - k
         /\ \A i \in 1 .. Len(q) - k : SubSeq(q, k + 1, Len(q))[i] = q[k + i]
<1>1. PICK n : n = Len(q)
  OBVIOUS
<1>2. PICK b : b = SubSeq(q, k + 1, n)
  OBVIOUS
<1>3. /\ n \in Nat /\ k \in Int /\ 1 <= k /\ k <= n
      /\ \A i \in 1 .. n : q[i] \in S
  BY <1>1, Listed
<1>4. k + 1 \in Int /\ n \in Int /\ \A i \in k + 1 .. n : q[i] \in S
  BY <1>3
<1>5. /\ b \in Seq(S)
      /\ Len(b) = IF k + 1 <= n THEN n - (k + 1) + 1 ELSE 0
      /\ \A i \in 1 .. n - (k + 1) + 1 : b[i] = q[(k + 1) + i - 1]
  BY <1>2, <1>4, SubSeqProperties
<1>6. n - (k + 1) + 1 = n - k /\ (k + 1 <= n \/ n - k = 0)
  BY <1>3
<1>7. Len(b) = n - k
  BY <1>5, <1>6
<1>8. ASSUME NEW i \in 1 .. n - k PROVE b[i] = q[k + i]
  <2>1. i \in 1 .. n - (k + 1) + 1 /\ (k + 1) + i - 1 = k + i
    BY <1>3
  <2> QED BY <1>5, <2>1
<1> QED BY <1>1, <1>2, <1>5, <1>7, <1>8

LEMMA Taken ==
  ASSUME NEW S, NEW q \in Seq(S), NEW e, Contains(q, e)
  PROVE  \E k \in 1 .. Len(q) :
           /\ q[k] = e
           /\ Without(q, e) \in Seq(S)
           /\ Len(Without(q, e)) = Len(q) - 1
           /\ \A i \in 1 .. Len(q) - 1 :
                Without(q, e)[i] = IF i < k THEN q[i] ELSE q[i + 1]
<1> DEFINE k == CHOOSE i \in DOMAIN q : q[i] = e
           a == SubSeq(q, 1, k - 1)
           b == SubSeq(q, k + 1, Len(q))
<1>1. /\ Len(q) \in Nat /\ DOMAIN q = 1 .. Len(q)
      /\ \A i \in 1 .. Len(q) : q[i] \in S
  BY Listed
<1>2. k \in 1 .. Len(q) /\ q[k] = e
  BY <1>1 DEF Contains
<1>3. Without(q, e) = a \o b
  BY DEF Without, RemoveAt
<1>4. /\ a \in Seq(S) /\ Len(a) = k - 1
      /\ \A i \in 1 .. k - 1 : a[i] = q[i]
  BY <1>1, <1>2, SubSeqProperties
<1>5. /\ b \in Seq(S) /\ Len(b) = Len(q) - k
      /\ \A i \in 1 .. Len(q) - k : b[i] = q[k + i]
  BY <1>2, Tailed
<1> HIDE DEF k, a, b
<1>6. PICK r : r = a \o b
  OBVIOUS
<1>7. /\ r \in Seq(S) /\ Len(r) = Len(a) + Len(b)
      /\ \A i \in 1 .. Len(a) + Len(b) : r[i] = IF i <= Len(a) THEN a[i] ELSE b[i - Len(a)]
  BY <1>4, <1>5, <1>6, ConcatProperties
<1>8. Len(r) = Len(q) - 1
  BY <1>1, <1>2, <1>4, <1>5, <1>7
<1>9. ASSUME NEW i \in 1 .. Len(q) - 1
      PROVE  r[i] = IF i < k THEN q[i] ELSE q[i + 1]
  <2>1. CASE i < k
    <3>1. i \in 1 .. Len(a) + Len(b) /\ i <= Len(a) /\ i \in 1 .. k - 1
      BY <1>1, <1>2, <1>4, <1>5, <2>1
    <3> QED BY <1>4, <1>7, <2>1, <3>1
  <2>2. CASE ~(i < k)
    <3>1. i - (k - 1) \in 1 .. Len(q) - k /\ k + (i - (k - 1)) = i + 1
      BY <1>1, <1>2, <2>2
    <3>2. b[i - (k - 1)] = q[i + 1]
      BY <1>5, <3>1
    <3>3. r[i] = b[i - (k - 1)]
      <4>1. i \in 1 .. Len(a) + Len(b) /\ ~(i <= Len(a)) /\ i - Len(a) = i - (k - 1)
        BY <1>1, <1>2, <1>4, <1>5, <2>2
      <4> QED BY <1>7, <4>1
    <3> QED BY <2>2, <3>2, <3>3
  <2> QED BY <2>1, <2>2
<1> QED BY <1>2, <1>3, <1>6, <1>7, <1>8, <1>9

LEMMA Removed ==
  ASSUME NEW S, NEW q \in Seq(S), IsInjective(q), NEW e, Contains(q, e)
  PROVE  /\ Without(q, e) \in Seq(S)
         /\ Len(Without(q, e)) = Len(q) - 1
         /\ IsInjective(Without(q, e))
         /\ \A x : Contains(Without(q, e), x) <=> Contains(q, x) /\ x # e
         /\ e = Head(q) => Without(q, e) = Tail(q)
<1>1. PICK r : r = Without(q, e)
  OBVIOUS
<1>2. PICK k \in 1 .. Len(q) :
        /\ q[k] = e /\ r \in Seq(S) /\ Len(r) = Len(q) - 1
        /\ \A i \in 1 .. Len(q) - 1 : r[i] = IF i < k THEN q[i] ELSE q[i + 1]
  BY <1>1, Taken
<1>3. /\ Len(q) \in Nat /\ \A i \in 1 .. Len(q) : q[i] \in S
      /\ \A i, j \in 1 .. Len(q) : q[i] = q[j] => i = j
  BY Listed
<1>4. IsInjective(r)
  <2>1. ASSUME NEW i \in 1 .. Len(r), NEW j \in 1 .. Len(r), r[i] = r[j] PROVE i = j
    <3> DEFINE x == IF i < k THEN i ELSE i + 1
               y == IF j < k THEN j ELSE j + 1
    <3>1. x \in 1 .. Len(q) /\ y \in 1 .. Len(q) /\ q[x] = q[y]
      BY <1>2, <1>3, <2>1
    <3>2. x = y
      BY <1>3, <3>1
    <3> QED BY <1>2, <1>3, <3>2
  <2> QED BY <1>2, <2>1, Listed
<1>5. ASSUME NEW x PROVE Contains(r, x) <=> Contains(q, x) /\ x # e
  <2>1. ASSUME Contains(r, x) PROVE Contains(q, x) /\ x # e
    <3>1. PICK i \in 1 .. Len(r) : r[i] = x
      BY <2>1 DEF Contains
    <3>2. PICK j \in 1 .. Len(q) : j # k /\ q[j] = x
      BY <1>2, <1>3, <3>1
    <3> QED BY <1>2, <1>3, <3>2 DEF Contains
  <2>2. ASSUME Contains(q, x), x # e PROVE Contains(r, x)
    <3>1. PICK i \in 1 .. Len(q) : q[i] = x
      BY <2>2 DEF Contains
    <3>2. CASE i < k
      <4>1. i \in 1 .. Len(r) /\ r[i] = x
        BY <1>2, <1>3, <3>1, <3>2
      <4> QED BY <4>1 DEF Contains
    <3>3. CASE i > k
      <4>1. i - 1 \in 1 .. Len(r) /\ r[i - 1] = x
        BY <1>2, <1>3, <3>1, <3>3
      <4> QED BY <4>1 DEF Contains
    <3>4. i # k
      BY <1>2, <2>2, <3>1
    <3> QED BY <1>2, <1>3, <3>1, <3>2, <3>3, <3>4
  <2> QED BY <2>1, <2>2
<1>6. ASSUME e = Head(q) PROVE r = Tail(q)
  <2>1. q # <<>>
    BY Listed
  <2>2. q[1] = e /\ Len(q) > 0 /\ Tail(q) \in Seq(S) /\ Len(Tail(q)) = Len(q) - 1
        /\ \A i \in 1 .. Len(q) - 1 : Tail(q)[i] = q[i + 1]
    BY <1>6, <2>1, Shortened
  <2>3. k = 1
    BY <1>2, <1>3, <2>2
  <2>4. \A i \in 1 .. Len(r) : r[i] = Tail(q)[i]
    BY <1>2, <1>3, <2>2, <2>3
  <2> QED BY <1>2, <2>2, <2>4, SeqEqual
<1> QED BY <1>1, <1>2, <1>4, <1>5, <1>6

\* pframe_alloc puts the new page first.
LEMMA Prefixed ==
  ASSUME NEW S, NEW q \in Seq(S), NEW e \in S
  PROVE  /\ <<e>> \o q \in Seq(S) /\ Len(<<e>> \o q) = Len(q) + 1
         /\ \A x : Contains(<<e>> \o q, x) <=> Contains(q, x) \/ x = e
         /\ IsInjective(q) /\ ~Contains(q, e) => IsInjective(<<e>> \o q)
<1>1. PICK p : p = <<e>>
  OBVIOUS
<1>2. p \in Seq(S) /\ Len(p) = 1 /\ p[1] = e /\ Len(q) \in Nat
  BY <1>1, LenProperties
<1>3. \A x : Contains(p, x) <=> x = e
  BY <1>2 DEF Contains
<1>4. \A i, j \in 1 .. Len(p) : p[i] = p[j] => i = j
  BY <1>2
<1>5. IsInjective(p)
  BY <1>2, <1>4, Listed
<1>6. /\ p \o q \in Seq(S) /\ Len(p \o q) = Len(p) + Len(q)
      /\ \A x : Contains(p \o q, x) <=> Contains(p, x) \/ Contains(q, x)
      /\ IsInjective(p) /\ IsInjective(q) /\ (\A x : Contains(p, x) => ~Contains(q, x))
           => IsInjective(p \o q)
  BY <1>2, Joined
<1> QED BY <1>1, <1>2, <1>3, <1>5, <1>6

-----------------------------------------------------------------------------
(* What the operations of the scheduler change.                            *)

LEMMA TypesOf ==
  ASSUME NEW s \in State
  PROVE  /\ s.frame \in [Frame -> FrameRec] /\ s.alloc \in Seq(Frame) /\ s.res \in Seq(Frame)
         /\ s.core \in BOOLEAN /\ s.busy \in BOOLEAN /\ s.ref \in Nat /\ s.linked \in BOOLEAN
         /\ s.disk \in [Page -> Val] /\ s.last \in [Page -> Val]
         /\ s.thr \in [Thread -> ThreadRec] /\ s.runq \in Seq(Thread)
         /\ s.waitq \in [Place -> Seq(Thread)]
         /\ \A u \in Thread :
              /\ s.thr[u] \in ThreadRec /\ s.thr[u].pc \in Pcs /\ s.thr[u].has \in BOOLEAN
              /\ s.thr[u].f \in Place /\ s.thr[u].page \in Page \cup {NULL}
              /\ s.thr[u].store \in Val \cup {NULL} /\ s.thr[u].rest \in Seq(Frame)
         /\ \A f \in Frame :
              /\ s.frame[f] \in FrameRec /\ s.frame[f].page \in Page \cup {NULL}
              /\ s.frame[f].busy \in BOOLEAN /\ s.frame[f].dirty \in BOOLEAN
              /\ s.frame[f].val \in Val
<1>1. /\ s.frame \in [Frame -> FrameRec] /\ s.alloc \in Seq(Frame) /\ s.res \in Seq(Frame)
      /\ s.core \in BOOLEAN /\ s.busy \in BOOLEAN /\ s.ref \in Nat /\ s.linked \in BOOLEAN
      /\ s.disk \in [Page -> Val] /\ s.last \in [Page -> Val]
      /\ s.thr \in [Thread -> ThreadRec] /\ s.runq \in Seq(Thread)
      /\ s.waitq \in [Place -> Seq(Thread)]
  BY DEF State
<1>2. ASSUME NEW x \in ThreadRec
      PROVE  /\ x.pc \in Pcs /\ x.has \in BOOLEAN /\ x.f \in Place
             /\ x.page \in Page \cup {NULL} /\ x.store \in Val \cup {NULL} /\ x.rest \in Seq(Frame)
  BY DEF ThreadRec
<1>3. ASSUME NEW x \in FrameRec
      PROVE  /\ x.page \in Page \cup {NULL} /\ x.busy \in BOOLEAN /\ x.dirty \in BOOLEAN
             /\ x.val \in Val
  BY DEF FrameRec
<1> QED BY <1>1, <1>2, <1>3

SameMemory(s, r) ==
  /\ r.frame = s.frame /\ r.alloc = s.alloc /\ r.res = s.res
  /\ r.core = s.core /\ r.busy = s.busy /\ r.ref = s.ref /\ r.linked = s.linked
  /\ r.disk = s.disk /\ r.last = s.last /\ r.crash = s.crash

SameOthers(s, r, t) == \A u \in Thread : u # t => r.thr[u] = s.thr[u]

\* A thread comes to another place, with page f.
Comes(x, y, pc, f) ==
  /\ y.pc = pc /\ y.f = f
  /\ y.has = x.has /\ y.page = x.page /\ y.store = x.store /\ y.rest = x.rest

LEMMA FieldsOfGoto ==
  ASSUME NEW s \in State, NEW t \in Thread, NEW r, r = Goto(s, t, "user")
  PROVE  /\ r \in State /\ SameMemory(s, r) /\ SameOthers(s, r, t)
         /\ r.runq = s.runq /\ r.waitq = s.waitq
         /\ r.thr[t].pc = "user" /\ r.thr[t].has = s.thr[t].has
<1> DEFINE x == [pc |-> "user", has |-> s.thr[t].has, f |-> NULL, page |-> NULL,
                 store |-> NULL, rest |-> <<>>]
<1>1. r = [s EXCEPT !.thr[t] = x]
  BY DEF Goto
<1>2. x \in ThreadRec
  <2>1. s.thr[t] \in ThreadRec
    BY DEF State
  <2>2. s.thr[t].has \in BOOLEAN /\ <<>> \in Seq(Frame)
    BY <2>1, EmptySeq DEF ThreadRec
  <2> QED BY <2>2 DEF ThreadRec, Pcs, Place
<1>3. x.pc = "user" /\ x.has = s.thr[t].has
  OBVIOUS
<1> HIDE DEF x
<1>5. s.thr \in [Thread -> ThreadRec] /\ [s.thr EXCEPT ![t] = x] \in [Thread -> ThreadRec]
  BY <1>2 DEF State
<1>4. r \in State /\ r.thr = [s.thr EXCEPT ![t] = x]
  BY <1>1, <1>5 DEF State
<1>6. SameMemory(s, r) /\ r.runq = s.runq /\ r.waitq = s.waitq
  BY <1>1 DEF State, SameMemory
<1> QED BY <1>3, <1>4, <1>5, <1>6 DEF SameOthers

LEMMA FieldsOfForDisk ==
  ASSUME NEW s \in State, NEW t \in Thread, NEW pc \in Pcs, NEW f \in Place,
         s.runq # <<>>, NEW r, r = ForDisk(s, t, pc, f)
  PROVE  /\ r \in State /\ SameMemory(s, r) /\ SameOthers(s, r, t)
         /\ r.runq = Tail(s.runq) /\ r.waitq = s.waitq
         /\ Comes(s.thr[t], r.thr[t], pc, f)
<1> DEFINE x == [s.thr[t] EXCEPT !.pc = pc, !.f = f]
<1>1. s.thr \in [Thread -> ThreadRec] /\ s.runq \in Seq(Thread)
  BY DEF State
<1>2. Tail(s.runq) \in Seq(Thread)
  BY <1>1, Shortened
<1>3. x \in ThreadRec /\ Comes(s.thr[t], x, pc, f)
  <2>1. s.thr[t] \in ThreadRec
    BY <1>1
  <2> QED BY <2>1 DEF ThreadRec, Comes
<1>4. r = [s EXCEPT !.thr = [s.thr EXCEPT ![t] = x], !.runq = Tail(s.runq)]
  BY <1>1 DEF ForDisk, State, ThreadRec
<1> HIDE DEF x
<1>8. [s.thr EXCEPT ![t] = x] \in [Thread -> ThreadRec]
  BY <1>1, <1>3
<1>5. /\ r \in State /\ r.thr = [s.thr EXCEPT ![t] = x]
      /\ r.runq = Tail(s.runq) /\ r.waitq = s.waitq
  BY <1>2, <1>4, <1>8 DEF State
<1>6. SameMemory(s, r)
  BY <1>4 DEF State, SameMemory
<1>7. SameOthers(s, r, t) /\ r.thr[t] = x
  BY <1>1, <1>5 DEF SameOthers
<1> QED BY <1>3, <1>5, <1>6, <1>7

LEMMA FieldsOfSleepOn ==
  ASSUME NEW s \in State, NEW t \in Thread, NEW pc \in Pcs, NEW f \in Place,
         s.runq # <<>>, NEW r, r = SleepOn(s, t, pc, f)
  PROVE  /\ r \in State /\ SameMemory(s, r) /\ SameOthers(s, r, t)
         /\ r.runq = Tail(s.runq)
         /\ r.waitq = [s.waitq EXCEPT ![f] = Append(@, t)]
         /\ Comes(s.thr[t], r.thr[t], pc, f)
<1>1. PICK d : d = ForDisk(s, t, pc, f)
  OBVIOUS
<1>2. /\ d \in State /\ SameMemory(s, d) /\ SameOthers(s, d, t)
      /\ d.runq = Tail(s.runq) /\ d.waitq = s.waitq
      /\ Comes(s.thr[t], d.thr[t], pc, f)
  BY <1>1, FieldsOfForDisk
<1>3. r = [d EXCEPT !.waitq[f] = Append(@, t)]
  BY <1>1 DEF SleepOn
<1>4. d.waitq \in [Place -> Seq(Thread)] /\ Append(d.waitq[f], t) \in Seq(Thread)
  <2>1. d.waitq \in [Place -> Seq(Thread)]
    BY <1>2 DEF State
  <2> QED BY <2>1, Appended
<1>5. r.waitq = [d.waitq EXCEPT ![f] = Append(@, t)] /\ r.thr = d.thr /\ r.runq = d.runq
  BY <1>2, <1>3 DEF State
<1>8. [d.waitq EXCEPT ![f] = Append(@, t)] \in [Place -> Seq(Thread)]
  BY <1>4
<1>6. r \in State
  BY <1>2, <1>3, <1>8 DEF State
<1>7. SameMemory(d, r)
  BY <1>2, <1>3 DEF State, SameMemory
<1> QED BY <1>2, <1>5, <1>6, <1>7 DEF SameMemory, SameOthers

\* Who slept for f is on the run queue, behind those that were there.
Woken(s, r, f) ==
  /\ r.waitq[f] = <<>> /\ \A g \in Place : g # f => r.waitq[g] = s.waitq[g]
  /\ \A j \in DOMAIN s.runq : r.runq[j] = s.runq[j]
  /\ \A j \in DOMAIN r.runq : j \in DOMAIN s.runq \/ Contains(s.waitq[f], r.runq[j])
  /\ \A x : Contains(r.runq, x) <=> Contains(s.runq, x) \/ Contains(s.waitq[f], x)
  /\ IsInjective(s.runq) /\ IsInjective(s.waitq[f])
     /\ (\A x : Contains(s.runq, x) => ~Contains(s.waitq[f], x)) => IsInjective(r.runq)
  /\ s.runq # <<>> => r.runq # <<>> /\ Head(r.runq) = Head(s.runq)

LEMMA FieldsOfBroadcast ==
  ASSUME NEW s \in State, NEW f \in Place, NEW r, r = Broadcast(s, f)
  PROVE  r \in State /\ SameMemory(s, r) /\ r.thr = s.thr /\ Woken(s, r, f)
<1>1. s.waitq \in [Place -> Seq(Thread)] /\ s.runq \in Seq(Thread) /\ s.waitq[f] \in Seq(Thread)
  BY TypesOf
<1> DEFINE p == s.runq
           z == s.waitq[f]
<1>2. PICK q : q = p \o z
  OBVIOUS
<1>3. /\ q \in Seq(Thread)
      /\ \A j \in 1 .. Len(p) : q[j] = p[j]
      /\ \A j \in 1 .. Len(q) : j \in 1 .. Len(p) \/ Contains(z, q[j])
      /\ \A x : Contains(q, x) <=> Contains(p, x) \/ Contains(z, x)
      /\ IsInjective(p) /\ IsInjective(z) /\ (\A x : Contains(p, x) => ~Contains(z, x))
           => IsInjective(q)
      /\ p # <<>> => q # <<>> /\ Head(q) = Head(p)
  <2> p \in Seq(Thread) /\ z \in Seq(Thread)
    BY <1>1
  <2> HIDE DEF p, z
  <2> QED BY <1>2, Joined
<1>4. PICK w : w = [s.waitq EXCEPT ![f] = <<>>]
  OBVIOUS
<1>5. w \in [Place -> Seq(Thread)] /\ w[f] = <<>> /\ \A g \in Place : g # f => w[g] = s.waitq[g]
  <2>1. <<>> \in Seq(Thread)
    BY EmptySeq
  <2> QED BY <1>1, <1>4, <2>1
<1>6. r = [s EXCEPT !.runq = q, !.waitq = w]
  BY <1>2, <1>4 DEF Broadcast, State
<1>7. r \in State /\ r.runq = q /\ r.waitq = w /\ r.thr = s.thr
  BY <1>3, <1>5, <1>6 DEF State
<1>8. SameMemory(s, r)
  BY <1>6 DEF State, SameMemory
<1>9. DOMAIN s.runq = 1 .. Len(s.runq) /\ DOMAIN q = 1 .. Len(q)
  BY <1>1, <1>3, LenProperties
<1>10. Woken(s, r, f)
  BY <1>3, <1>5, <1>7, <1>9 DEF Woken
<1> QED BY <1>7, <1>8, <1>10

\* The page is as it was, but not busy.
NotBusy(x, y) ==
  y.page = x.page /\ y.dirty = x.dirty /\ y.refused = x.refused /\ y.val = x.val /\ ~y.busy

LEMMA FieldsOfUnbusy ==
  ASSUME NEW s \in State, NEW f \in Frame, NEW r, r = Unbusy(s, f)
  PROVE  /\ r \in State /\ r.thr = s.thr /\ Woken(s, r, f)
         /\ NotBusy(s.frame[f], r.frame[f])
         /\ \A g \in Frame : g # f => r.frame[g] = s.frame[g]
         /\ r.alloc = s.alloc /\ r.res = s.res
         /\ r.core = s.core /\ r.busy = s.busy /\ r.ref = s.ref /\ r.linked = s.linked
         /\ r.disk = s.disk /\ r.last = s.last /\ r.crash = s.crash
<1>1. PICK b : b = [s EXCEPT !.frame[f].busy = FALSE]
  OBVIOUS
<1>2. s.frame \in [Frame -> FrameRec] /\ s.frame[f] \in FrameRec
  BY TypesOf
<1>3. [s.frame EXCEPT ![f].busy = FALSE] \in [Frame -> FrameRec]
  BY <1>2 DEF FrameRec
<1>4. b \in State /\ b.frame = [s.frame EXCEPT ![f].busy = FALSE]
  BY <1>1, <1>3 DEF State
<1>5. /\ b.thr = s.thr /\ b.runq = s.runq /\ b.waitq = s.waitq
      /\ b.alloc = s.alloc /\ b.res = s.res
      /\ b.core = s.core /\ b.busy = s.busy /\ b.ref = s.ref /\ b.linked = s.linked
      /\ b.disk = s.disk /\ b.last = s.last /\ b.crash = s.crash
  BY <1>1 DEF State
<1>6. r = Broadcast(b, f) /\ f \in Place
  BY <1>1 DEF Unbusy, Place
<1>7. r \in State /\ SameMemory(b, r) /\ r.thr = b.thr /\ Woken(b, r, f)
  BY <1>4, <1>6, FieldsOfBroadcast
<1>8. NotBusy(s.frame[f], b.frame[f]) /\ \A g \in Frame : g # f => b.frame[g] = s.frame[g]
  <2>1. b.frame[f] = [s.frame[f] EXCEPT !.busy = FALSE]
    BY <1>2, <1>4
  <2>2. NotBusy(s.frame[f], b.frame[f])
    BY <1>2, <2>1 DEF NotBusy, FrameRec
  <2> QED BY <1>2, <1>4, <2>2
<1>9. Woken(s, r, f)
  BY <1>5, <1>7 DEF Woken
<1> QED BY <1>5, <1>7, <1>8, <1>9 DEF SameMemory

-----------------------------------------------------------------------------
(* The running thread between two actions and in one.                      *)

Others(t) == Thread \ {t}
Running(s, t) == s \in State /\ s.runq # <<>> /\ Head(s.runq) = t
Mid(s, t) == Running(s, t) /\ s.crash = NoCrash /\ Sound(s, Others(t))

LEMMA HeadRuns ==
  ASSUME NEW s, NEW t, Running(s, t)
  PROVE  t \in Thread /\ s.runq \in Seq(Thread) /\ Contains(s.runq, t) /\ s.runq[1] = t
         /\ 1 \in DOMAIN s.runq
<1>1. s.runq \in Seq(Thread) /\ s.runq # <<>> /\ Head(s.runq) = t
  BY TypesOf DEF Running
<1>2. Len(s.runq) \in Nat /\ Len(s.runq) > 0 /\ DOMAIN s.runq = 1 .. Len(s.runq)
  BY <1>1, Shortened, Listed
<1> QED BY <1>1, <1>2, Shortened

\* A thread that starts to run, but for one that has read or deleted the vnode.
LEMMA Begins ==
  ASSUME IInv, NEW t \in Thread, NEW pc, pc \notin Moving, At(t, pc)
  PROVE  Mid(m, t)
<1>1. Running(m, t) /\ m.crash = NoCrash /\ m.thr[t].pc = pc
  BY DEF IInv, At, Running
<1>2. Sound(m, Thread) /\ Contains(m.runq, t)
  BY <1>1, HeadRuns DEF IInv
<1>3. Queues(m, Others(t))
  BY <1>2 DEF Sound, Queues, Others
<1>4. Workers(m, Others(t))
  BY <1>2 DEF Sound, Workers, Others
<1>5. Movers(m, Others(t))
  BY <1>1, <1>2 DEF Sound, Movers, Others
<1>6. Putters(m, Others(t))
  BY <1>2 DEF Sound, Putters, Others
<1>7. InTurn(m, Others(t))
  <2> SUFFICES ASSUME NEW i \in DOMAIN m.runq,
                      m.runq[i] \in Others(t), m.thr[m.runq[i]].pc = "vget", m.core
               PROVE  \E u \in Others(t) : m.thr[u].pc = "reading"
                                           /\ \A j \in 1 .. i : m.runq[j] # u
    BY DEF InTurn
  <2>1. PICK u \in Thread : m.thr[u].pc = "reading" /\ \A j \in 1 .. i : m.runq[j] # u
    BY <1>2 DEF Sound, InTurn, Others
  <2>2. u # t
    BY <1>1, <2>1 DEF Moving
  <2> QED BY <2>1, <2>2 DEF Others
<1> QED BY <1>1, <1>2, <1>3, <1>4, <1>5, <1>6, <1>7 DEF Mid, Sound

\* Where a thread may come to rest.
Fits(r, t) ==
  /\ r.thr[t].pc \notin Moving
  /\ r.thr[t].pc \in Working =>
       /\ r.thr[t].f \in Frame
       /\ r.frame[r.thr[t].f].busy /\ r.frame[r.thr[t].f].page # NULL
       /\ r.thr[t].pc # "cleaning" => r.frame[r.thr[t].f].page = r.thr[t].page
       /\ \A u \in Others(t) : r.thr[u].pc \in Working => r.thr[u].f # r.thr[t].f
  /\ r.thr[t].pc \in {"filling", "dirtying", "get"} =>
       r.thr[t].has /\ r.thr[t].page \in Page /\ r.thr[t].f \in Frame
  /\ r.thr[t].pc = "put" => ~r.linked /\ Holders(r) = {t} /\ r.thr[t].rest = r.res

LEMMA Settles ==
  ASSUME NEW s, NEW t \in Thread, Mid(s, t), NEW r \in State,
         SameMemory(s, r), SameOthers(s, r, t), r.thr[t].has = s.thr[t].has, Fits(r, t)
  PROVE  /\ Workers(r, Thread) /\ Lists(r) /\ Counts(r) /\ Movers(r, Thread)
         /\ Putters(r, Thread)
<1>1. Sound(s, Others(t))
  BY DEF Mid
<1>2. /\ r.frame = s.frame /\ r.alloc = s.alloc /\ r.res = s.res
      /\ r.core = s.core /\ r.busy = s.busy /\ r.ref = s.ref /\ r.linked = s.linked
  BY DEF SameMemory
<1>3. \A u \in Others(t) : u \in Thread /\ r.thr[u] = s.thr[u]
  BY DEF SameOthers, Others
<1>4. \A u \in Thread : u = t \/ u \in Others(t)
  BY DEF Others
<1>5. Holders(r) = Holders(s)
  BY <1>3, <1>4 DEF Holders
<1>6. Workers(r, Thread)
  <2>1. ASSUME NEW u \in Thread, r.thr[u].pc \in Working
        PROVE  /\ r.thr[u].f \in Frame
               /\ r.frame[r.thr[u].f].busy /\ r.frame[r.thr[u].f].page # NULL
               /\ r.thr[u].pc # "cleaning" => r.frame[r.thr[u].f].page = r.thr[u].page
    BY <1>1, <1>2, <1>3, <1>4, <2>1 DEF Sound, Workers, Fits
  <2>2. ASSUME NEW u \in Thread, NEW v \in Thread, r.thr[u].pc \in Working,
               r.thr[v].pc \in Working, r.thr[u].f = r.thr[v].f
        PROVE  u = v
    BY <1>1, <1>3, <1>4, <2>2 DEF Sound, Workers, Fits
  <2>3. ASSUME NEW u \in Thread, r.thr[u].pc \in {"filling", "dirtying", "get"}
        PROVE  r.thr[u].has /\ r.thr[u].page \in Page /\ r.thr[u].f \in Frame
    BY <1>1, <1>3, <1>4, <2>3 DEF Sound, Workers, Fits
  <2> QED BY <2>1, <2>2, <2>3 DEF Workers
<1>7. Lists(r)
  BY <1>1, <1>2 DEF Sound, Lists
<1>8. Counts(r)
  BY <1>1, <1>2, <1>5 DEF Sound, Counts
<1>9. Movers(r, Thread)
  BY <1>1, <1>2, <1>3, <1>4 DEF Sound, Movers, Fits, Moving
<1>10. Putters(r, Thread)
  BY <1>1, <1>2, <1>3, <1>4, <1>5 DEF Sound, Putters, Fits
<1> QED BY <1>6, <1>7, <1>8, <1>9, <1>10

LEMMA DataKept ==
  ASSUME NEW s, NEW r, NEW T, NEW W, NEW X, NEW Y, Data(s, T, X),
         r.frame = s.frame, r.disk = s.disk, r.last = s.last,
         InUse(r, W) => InUse(s, T),
         \A f \in Frame : Unread(r, W, Y, f) <=> Unread(s, T, X, f)
  PROVE  Data(r, W, Y)
<1> SUFFICES ASSUME InUse(r, W), NEW n \in Page PROVE Right(r, W, Y, n)
  BY DEF Data
<1>1. Right(s, T, X, n)
  BY DEF Data
<1>2. Resident(r, n) = Resident(s, n)
  BY DEF Resident
<1> QED BY <1>1, <1>2 DEF Right

\* The page that the thread has in hand is the one it has read, if it reads one.
Hand(r, t) == IF r.thr[t].pc = "filling" THEN {r.thr[t].f} ELSE {}

LEMMA DataSettles ==
  ASSUME NEW s, NEW t \in Thread, NEW r,
         SameMemory(s, r), SameOthers(s, r, t), r.thr[t].has = s.thr[t].has,
         Data(s, Others(t), Hand(r, t))
  PROVE  Data(r, Thread, {})
<1>1. \A u \in Others(t) : u \in Thread /\ r.thr[u] = s.thr[u]
  BY DEF SameOthers, Others
<1>2. \A u \in Thread : u = t \/ u \in Others(t)
  BY DEF Others
<1>3. InUse(r, Thread) => InUse(s, Others(t))
  BY <1>1, <1>2 DEF InUse, SameMemory, Others
<1>4. ASSUME NEW f \in Frame
      PROVE  Unread(r, Thread, {}, f) <=> Unread(s, Others(t), Hand(r, t), f)
  BY <1>1, <1>2 DEF Unread, Hand
<1>5. r.frame = s.frame /\ r.disk = s.disk /\ r.last = s.last
  BY DEF SameMemory
<1> QED BY <1>3, <1>4, <1>5, DataKept

LEMMA DataBegins ==
  ASSUME IInv, NEW t \in Thread, m.thr[t].pc # "put"
  PROVE  Data(m, Others(t), Hand(m, t))
<1>1. Data(m, Thread, {})
  BY DEF IInv
<1>2. InUse(m, Others(t)) => InUse(m, Thread)
  BY DEF InUse, Others
<1>3. \A u \in Thread : u = t \/ u \in Others(t)
  BY DEF Others
<1>4. \A u \in Others(t) : u \in Thread
  BY DEF Others
<1>5. ASSUME NEW f \in Frame
      PROVE  Unread(m, Others(t), Hand(m, t), f) <=> Unread(m, Thread, {}, f)
  BY <1>3, <1>4 DEF Unread, Hand
<1> QED BY <1>1, <1>2, <1>5, DataKept

Rests(r) == r \in State /\ Sound(r, Thread) /\ Data(r, Thread, {})

\* Nothing but vgetters on the run queue depends on the order there.
LEMMA TurnsKept ==
  ASSUME NEW s, NEW t, Mid(s, t), NEW r \in State, SameMemory(s, r), SameOthers(s, r, t),
         \/ r.runq = s.runq /\ r.thr[t].pc # "vget"
         \/ r.runq = Tail(s.runq)
  PROVE  InTurn(r, Thread)
<1>1. /\ t \in Thread /\ s.runq \in Seq(Thread) /\ s.runq # <<>> /\ Head(s.runq) = t
      /\ InTurn(s, Others(t)) /\ IsInjective(s.runq) /\ r.core = s.core
  BY HeadRuns DEF Mid, Running, Sound, Queues, SameMemory
<1>2. /\ Len(s.runq) \in Nat /\ DOMAIN s.runq = 1 .. Len(s.runq)
      /\ \A i \in 1 .. Len(s.runq) : s.runq[i] \in Thread
      /\ \A i, j \in 1 .. Len(s.runq) : s.runq[i] = s.runq[j] => i = j
      /\ s.runq[1] = t /\ Len(s.runq) > 0
  <2>1. /\ Len(s.runq) \in Nat /\ DOMAIN s.runq = 1 .. Len(s.runq)
        /\ \A i \in 1 .. Len(s.runq) : s.runq[i] \in Thread
        /\ \A i, j \in 1 .. Len(s.runq) : s.runq[i] = s.runq[j] => i = j
    BY <1>1, Listed
  <2>2. s.runq[1] = t /\ Len(s.runq) > 0
    BY <1>1, Shortened
  <2> QED BY <2>1, <2>2
<1>3. \A u \in Others(t) : u \in Thread /\ r.thr[u] = s.thr[u]
  BY DEF SameOthers, Others
<1>4. \A u \in Thread : u = t \/ u \in Others(t)
  BY DEF Others
<1>5. CASE r.runq = s.runq /\ r.thr[t].pc # "vget"
  BY <1>1, <1>3, <1>4, <1>5 DEF InTurn
<1>6. CASE r.runq = Tail(s.runq)
  <2>1. /\ DOMAIN r.runq = 1 .. Len(s.runq) - 1
        /\ \A i \in 1 .. Len(s.runq) - 1 : r.runq[i] = s.runq[i + 1]
    <3>1. /\ Tail(s.runq) \in Seq(Thread) /\ Len(Tail(s.runq)) = Len(s.runq) - 1
          /\ \A i \in 1 .. Len(s.runq) - 1 : Tail(s.runq)[i] = s.runq[i + 1]
      BY <1>1, Shortened
    <3> QED BY <1>6, <3>1, LenProperties
  <2> SUFFICES ASSUME NEW i \in DOMAIN r.runq,
                      r.thr[r.runq[i]].pc = "vget", r.core
               PROVE  \E u \in Thread : r.thr[u].pc = "reading"
                                        /\ \A j \in 1 .. i : r.runq[j] # u
    BY DEF InTurn
  <2>2. /\ i \in 1 .. Len(s.runq) - 1 /\ i + 1 \in 1 .. Len(s.runq) /\ i + 1 # 1
        /\ r.runq[i] = s.runq[i + 1]
    BY <1>2, <2>1
  <2>3. s.runq[i + 1] \in Others(t) /\ s.thr[s.runq[i + 1]].pc = "vget" /\ s.core
    BY <1>1, <1>2, <1>3, <1>4, <2>2
  <2>4. PICK u \in Others(t) : s.thr[u].pc = "reading" /\ \A j \in 1 .. i + 1 : s.runq[j] # u
    BY <1>1, <1>2, <2>2, <2>3 DEF InTurn
  <2>5. \A j \in 1 .. i : r.runq[j] # u
    <3> SUFFICES ASSUME NEW j \in 1 .. i PROVE r.runq[j] # u
      OBVIOUS
    <3>1. j + 1 \in 1 .. i + 1 /\ j \in 1 .. Len(s.runq) - 1
      BY <1>2, <2>2
    <3> QED BY <2>1, <2>4, <3>1
  <2> QED BY <1>3, <2>4, <2>5
<1> QED BY <1>5, <1>6

LEMMA Returns ==
  ASSUME NEW s, NEW t, Mid(s, t), Data(s, Others(t), {}), NEW r, r = Goto(s, t, "user")
  PROVE  Rests(r)
<1>1. t \in Thread /\ s \in State /\ Contains(s.runq, t)
  BY HeadRuns DEF Mid, Running
<1>2. /\ r \in State /\ SameMemory(s, r) /\ SameOthers(s, r, t)
      /\ r.runq = s.runq /\ r.waitq = s.waitq
      /\ r.thr[t].pc = "user" /\ r.thr[t].has = s.thr[t].has
  BY <1>1, FieldsOfGoto
<1>3. Fits(r, t)
  BY <1>2 DEF Fits, Moving, Working
<1>4. /\ Workers(r, Thread) /\ Lists(r) /\ Counts(r) /\ Movers(r, Thread)
      /\ Putters(r, Thread)
  BY <1>1, <1>2, <1>3, Settles
<1>5. InTurn(r, Thread)
  BY <1>2, TurnsKept
<1>6. Queues(r, Thread) /\ Sleepers(r)
  BY <1>1, <1>2 DEF Mid, Sound, Queues, Sleepers, SameMemory, SameOthers, Others
<1>7. Data(r, Thread, {})
  BY <1>1, <1>2, DataSettles DEF Hand
<1> QED BY <1>2, <1>4, <1>5, <1>6, <1>7 DEF Rests, Sound

LEMMA WaitsForDisk ==
  ASSUME NEW s, NEW t, Mid(s, t), NEW pc \in Pcs, NEW f \in Place,
         NEW r, r = ForDisk(s, t, pc, f), Data(s, Others(t), Hand(r, t)), Fits(r, t)
  PROVE  Rests(r)
<1>1. t \in Thread /\ s \in State /\ Contains(s.runq, t) /\ s.runq # <<>> /\ Head(s.runq) = t
  BY HeadRuns DEF Mid, Running
<1>2. /\ r \in State /\ SameMemory(s, r) /\ SameOthers(s, r, t)
      /\ r.runq = Tail(s.runq) /\ r.waitq = s.waitq
      /\ r.thr[t].has = s.thr[t].has
  BY <1>1, FieldsOfForDisk DEF Comes
<1>4. /\ Workers(r, Thread) /\ Lists(r) /\ Counts(r) /\ Movers(r, Thread)
      /\ Putters(r, Thread)
  BY <1>1, <1>2, Settles
<1>5. InTurn(r, Thread)
  BY <1>2, TurnsKept
<1>6. Queues(r, Thread) /\ Sleepers(r)
  <2>1. Queues(s, Others(t)) /\ Sleepers(s) /\ s.runq \in Seq(Thread)
    BY <1>1, TypesOf DEF Mid, Sound
  <2>2. IsInjective(r.runq) /\ \A x : Contains(r.runq, x) <=> Contains(s.runq, x) /\ x # t
    BY <1>1, <1>2, <2>1, Shortened DEF Queues
  <2> QED BY <1>2, <2>1, <2>2 DEF Queues, Sleepers, SameMemory, SameOthers, Others
<1>7. Data(r, Thread, {})
  BY <1>1, <1>2, DataSettles
<1> QED BY <1>2, <1>4, <1>5, <1>6, <1>7 DEF Rests, Sound

LEMMA SleepsOn ==
  ASSUME NEW s, NEW t, Mid(s, t), NEW f \in Place, NEW pc \in Sleeps(f),
         IF f = NULL THEN s.core ELSE s.frame[f].busy,
         NEW r, r = SleepOn(s, t, pc, f), Fits(r, t)
  PROVE  /\ r \in State /\ Sound(r, Thread)
         /\ Data(s, Others(t), {}) => Rests(r)
<1>1. t \in Thread /\ s \in State /\ Contains(s.runq, t) /\ s.runq # <<>> /\ Head(s.runq) = t
  BY HeadRuns DEF Mid, Running
<1>0. pc \in Pcs /\ pc # "filling"
  BY DEF Sleeps, Pcs
<1>2. /\ r \in State /\ SameMemory(s, r) /\ SameOthers(s, r, t)
      /\ r.runq = Tail(s.runq) /\ r.waitq = [s.waitq EXCEPT ![f] = Append(@, t)]
      /\ r.thr[t].has = s.thr[t].has /\ r.thr[t].pc = pc /\ r.thr[t].f = f
  <2>1. /\ r \in State /\ SameMemory(s, r) /\ SameOthers(s, r, t)
        /\ r.runq = Tail(s.runq) /\ r.waitq = [s.waitq EXCEPT ![f] = Append(@, t)]
        /\ Comes(s.thr[t], r.thr[t], pc, f)
    BY <1>0, <1>1, FieldsOfSleepOn
  <2> QED BY <2>1 DEF Comes
<1>4. /\ Workers(r, Thread) /\ Lists(r) /\ Counts(r) /\ Movers(r, Thread)
      /\ Putters(r, Thread)
  BY <1>1, <1>2, Settles
<1>5. InTurn(r, Thread)
  BY <1>2, TurnsKept
<1>6. Queues(r, Thread) /\ Sleepers(r)
  <2>1. /\ Queues(s, Others(t)) /\ Sleepers(s) /\ s.runq \in Seq(Thread)
        /\ s.waitq \in [Place -> Seq(Thread)]
    BY <1>1, TypesOf DEF Mid, Sound
  <2>2. IsInjective(r.runq) /\ \A x : Contains(r.runq, x) <=> Contains(s.runq, x) /\ x # t
    BY <1>1, <1>2, <2>1, Shortened DEF Queues
  <2>3. \A g \in Place : ~Contains(s.waitq[g], t)
    BY <1>1, <2>1 DEF Queues, Others
  <2>4. /\ IsInjective(r.waitq[f])
        /\ \A x : Contains(r.waitq[f], x) <=> Contains(s.waitq[f], x) \/ x = t
    <3>1. s.waitq[f] \in Seq(Thread) /\ IsInjective(s.waitq[f]) /\ ~Contains(s.waitq[f], t)
      BY <2>1, <2>3 DEF Queues
    <3>2. r.waitq[f] = Append(s.waitq[f], t)
      BY <1>2, <2>1
    <3> QED BY <1>1, <3>1, <3>2, Appended
  <2>5. \A g \in Place : g # f => r.waitq[g] = s.waitq[g]
    BY <1>2, <2>1
  <2>6. \A u \in Others(t) : u \in Thread /\ r.thr[u] = s.thr[u]
    BY <1>2 DEF SameOthers, Others
  <2>7. Queues(r, Thread)
    <3>1. \A g \in Place : IsInjective(r.waitq[g])
      BY <2>1, <2>4, <2>5 DEF Queues
    <3>2. ASSUME NEW g \in Place, NEW u \in Thread, Contains(r.waitq[g], u)
          PROVE  ~Contains(r.runq, u) /\ r.thr[u].f = g /\ r.thr[u].pc \in Sleeps(g)
      <4>1. CASE u = t
        <5>1. g = f
          BY <2>3, <2>5, <3>2, <4>1
        <5> QED BY <1>2, <2>2, <4>1, <5>1
      <4>2. CASE u # t
        <5>1. Contains(s.waitq[g], u)
          BY <2>4, <2>5, <3>2, <4>2
        <5> QED BY <2>1, <2>2, <2>6, <5>1 DEF Queues
      <4> QED BY <4>1, <4>2
    <3> QED BY <2>2, <3>1, <3>2 DEF Queues
  <2>8. Sleepers(r)
    <3>1. NULL \in Place /\ NULL \notin Frame /\ \A g \in Frame : g \in Place
      BY PageCacheAssumption DEF Place
    <3> QED BY <1>2, <2>1, <2>5, <3>1 DEF Sleepers, SameMemory
  <2> QED BY <2>7, <2>8
<1>7. ASSUME Data(s, Others(t), {}) PROVE Data(r, Thread, {})
  BY <1>0, <1>1, <1>2, <1>7, DataSettles DEF Hand
<1> QED BY <1>2, <1>4, <1>5, <1>6, <1>7 DEF Rests, Sound

-----------------------------------------------------------------------------
(* Within an action.                                                       *)

\* What the running thread may change and stay where the others expect it.
Rewrites(s, q, t) ==
  /\ q.res = s.res /\ q.core = s.core /\ q.busy = s.busy /\ q.ref = s.ref
  /\ q.linked = s.linked /\ q.runq = s.runq /\ q.waitq = s.waitq /\ q.crash = s.crash
  /\ SameOthers(s, q, t) /\ q.thr[t].has = s.thr[t].has
  /\ \A g \in Frame : /\ q.frame[g].page = s.frame[g].page
                      /\ s.frame[g].busy => q.frame[g].busy

LEMMA Rewritten ==
  ASSUME NEW s, NEW t, Mid(s, t), NEW q \in State, Rewrites(s, q, t),
         IsInjective(q.alloc), \A f \in Frame : Contains(q.alloc, f) <=> Contains(s.alloc, f)
  PROVE  Mid(q, t)
<1>1. /\ q.res = s.res /\ q.core = s.core /\ q.busy = s.busy /\ q.ref = s.ref
      /\ q.linked = s.linked /\ q.runq = s.runq /\ q.waitq = s.waitq /\ q.crash = s.crash
      /\ \A g \in Frame : /\ q.frame[g].page = s.frame[g].page
                          /\ s.frame[g].busy => q.frame[g].busy
  BY DEF Rewrites
<1>2. \A u \in Others(t) : u \in Thread /\ q.thr[u] = s.thr[u]
  BY DEF Rewrites, SameOthers, Others
<1>3. \A u \in Thread : u = t \/ u \in Others(t)
  BY DEF Others
<1>4. Holders(q) = Holders(s)
  BY <1>2, <1>3 DEF Holders, Rewrites
<1>5. Sound(s, Others(t))
  BY DEF Mid
<1>6. Queues(q, Others(t))
  BY <1>1, <1>2, <1>5 DEF Sound, Queues
<1>7. Workers(q, Others(t))
  <2>1. Workers(s, Others(t))
    BY <1>5 DEF Sound
  <2>2. ASSUME NEW u \in Others(t), q.thr[u].pc \in Working
        PROVE  /\ q.thr[u].f \in Frame
               /\ q.frame[q.thr[u].f].busy /\ q.frame[q.thr[u].f].page # NULL
               /\ q.thr[u].pc # "cleaning" => q.frame[q.thr[u].f].page = q.thr[u].page
    <3>1. q.thr[u] = s.thr[u]
      BY <1>2
    <3>2. /\ s.thr[u].f \in Frame
          /\ s.frame[s.thr[u].f].busy /\ s.frame[s.thr[u].f].page # NULL
          /\ s.thr[u].pc # "cleaning" => s.frame[s.thr[u].f].page = s.thr[u].page
      BY <2>1, <2>2, <3>1 DEF Workers
    <3> QED BY <1>1, <3>1, <3>2
  <2>3. \A u, v \in Others(t) : q.thr[u].pc \in Working /\ q.thr[v].pc \in Working
                             /\ q.thr[u].f = q.thr[v].f => u = v
    BY <1>2, <2>1 DEF Workers
  <2>4. \A u \in Others(t) : q.thr[u].pc \in {"filling", "dirtying", "get"} =>
          q.thr[u].has /\ q.thr[u].page \in Page /\ q.thr[u].f \in Frame
    BY <1>2, <2>1 DEF Workers
  <2> QED BY <2>2, <2>3, <2>4 DEF Workers
<1>8. Lists(q)
  BY <1>1, <1>5 DEF Sound, Lists
<1>9. Counts(q)
  BY <1>1, <1>4, <1>5 DEF Sound, Counts
<1>10. Movers(q, Others(t))
  BY <1>1, <1>2, <1>5 DEF Sound, Movers
<1>11. Putters(q, Others(t))
  BY <1>1, <1>2, <1>4, <1>5 DEF Sound, Putters
<1>12. InTurn(q, Others(t))
  BY <1>1, <1>2, <1>5 DEF Sound, InTurn
<1>13. Sleepers(q)
  BY <1>1, <1>5 DEF Sound, Sleepers
<1>14. Running(q, t) /\ q.crash = NoCrash
  BY <1>1 DEF Mid, Running
<1> QED BY <1>6, <1>7, <1>8, <1>9, <1>10, <1>11, <1>12, <1>13, <1>14 DEF Mid, Sound

\* All is the same but what page f and the disk hold, and what was stored last.
OnlyPage(s, q, f) ==
  /\ q.alloc = s.alloc /\ q.res = s.res /\ q.core = s.core /\ q.busy = s.busy
  /\ q.ref = s.ref /\ q.linked = s.linked /\ q.thr = s.thr /\ q.runq = s.runq
  /\ q.waitq = s.waitq /\ q.crash = s.crash
  /\ q.frame[f].page = s.frame[f].page
  /\ \A g \in Frame : g # f => q.frame[g] = s.frame[g]

LEMMA PageRewritten ==
  ASSUME NEW s, NEW t, Mid(s, t), NEW f \in Frame, NEW q \in State, OnlyPage(s, q, f),
         s.frame[f].busy => q.frame[f].busy
  PROVE  Mid(q, t)
<1>1. Rewrites(s, q, t)
  BY DEF Rewrites, OnlyPage, SameOthers
<1>2. IsInjective(q.alloc) /\ \A g \in Frame : Contains(q.alloc, g) <=> Contains(s.alloc, g)
  BY DEF OnlyPage, Mid, Sound, Lists
<1> QED BY <1>1, <1>2, Rewritten

WithPage(s, f, x, d, l) ==
  [s EXCEPT !.frame = [s.frame EXCEPT ![f] = x], !.disk = d, !.last = l]

LEMMA FieldsOfPage ==
  ASSUME NEW s \in State, NEW f \in Frame, NEW x \in FrameRec, x.page = s.frame[f].page,
         NEW d \in [Page -> Val], NEW l \in [Page -> Val], NEW q,
         q = WithPage(s, f, x, d, l)
  PROVE  q \in State /\ OnlyPage(s, q, f) /\ q.frame[f] = x /\ q.disk = d /\ q.last = l
<1>1. s.frame \in [Frame -> FrameRec]
  BY TypesOf
<1>2. [s.frame EXCEPT ![f] = x] \in [Frame -> FrameRec]
  BY <1>1
<1>3. q \in State /\ q.frame = [s.frame EXCEPT ![f] = x] /\ q.disk = d /\ q.last = l
  BY <1>2 DEF WithPage, State
<1>4. /\ q.alloc = s.alloc /\ q.res = s.res /\ q.core = s.core /\ q.busy = s.busy
      /\ q.ref = s.ref /\ q.linked = s.linked /\ q.thr = s.thr
      /\ q.runq = s.runq /\ q.waitq = s.waitq /\ q.crash = s.crash
  BY DEF WithPage, State
<1>5. q.frame[f] = x /\ \A g \in Frame : g # f => q.frame[g] = s.frame[g]
  BY <1>1, <1>3
<1> QED BY <1>3, <1>4, <1>5 DEF OnlyPage

LEMMA WokenQueues ==
  ASSUME NEW s, NEW T, NEW f \in Place, Queues(s, T), NEW r, r.thr = s.thr, Woken(s, r, f),
         \A u : Contains(s.waitq[f], u) => u \in Thread
  PROVE  Queues(r, T)
<1>1. IsInjective(s.runq) /\ \A g \in Place : IsInjective(s.waitq[g])
  BY DEF Queues
<1>2. \A u : Contains(s.waitq[f], u) => ~Contains(s.runq, u)
  BY DEF Queues
<1>3. IsInjective(r.runq)
      /\ \A x : Contains(r.runq, x) <=> Contains(s.runq, x) \/ Contains(s.waitq[f], x)
  BY <1>1, <1>2 DEF Woken
<1>4. ASSUME NEW g \in Place
      PROVE  /\ IsInjective(r.waitq[g])
             /\ \A u \in Thread : Contains(r.waitq[g], u) =>
                  u \in T /\ ~Contains(r.runq, u) /\ r.thr[u].f = g /\ r.thr[u].pc \in Sleeps(g)
  <2>1. CASE g = f
    <3>1. r.waitq[g] = <<>> /\ <<>> \in Seq(Thread)
      BY <2>1, EmptySeq DEF Woken
    <3>2. IsInjective(<<>>) /\ \A u : ~Contains(<<>>, u)
      <4>1. PICK e : e = <<>> /\ e \in Seq(Thread)
        BY <3>1
      <4>2. Len(e) = 0 /\ \A u : ~Contains(e, u)
        BY <4>1, Listed
      <4>3. IsInjective(e)
        BY <4>1, <4>2, Listed
      <4> QED BY <4>1, <4>2, <4>3
    <3> QED BY <3>1, <3>2
  <2>2. CASE g # f
    <3>1. r.waitq[g] = s.waitq[g]
      BY <2>2 DEF Woken
    <3>2. ASSUME NEW u \in Thread, Contains(r.waitq[g], u)
          PROVE  u \in T /\ ~Contains(r.runq, u) /\ r.thr[u].f = g /\ r.thr[u].pc \in Sleeps(g)
      <4>1. u \in T /\ ~Contains(s.runq, u) /\ s.thr[u].f = g /\ s.thr[u].pc \in Sleeps(g)
        BY <3>1, <3>2 DEF Queues
      <4>2. ~Contains(s.waitq[f], u)
        BY <2>2, <4>1 DEF Queues
      <4> QED BY <1>3, <4>1, <4>2
    <3> QED BY <1>1, <3>1, <3>2
  <2> QED BY <2>1, <2>2
<1> QED BY <1>3, <1>4 DEF Queues

\* Those that are woken come last; no vgetter may be among them while the vnode is
\* in core.
LEMMA WokenTurns ==
  ASSUME NEW s \in State, NEW T, NEW f \in Place, InTurn(s, T),
         NEW r, r.thr = s.thr, r.core = s.core, Woken(s, r, f),
         s.core => \A u : Contains(s.waitq[f], u) => s.thr[u].pc # "vget"
  PROVE  InTurn(r, T)
<1> SUFFICES ASSUME NEW i \in DOMAIN r.runq, r.runq[i] \in T,
                    r.thr[r.runq[i]].pc = "vget", r.core
             PROVE  \E u \in T : r.thr[u].pc = "reading"
                                 /\ \A j \in 1 .. i : r.runq[j] # u
  BY DEF InTurn
<1>1. s.runq \in Seq(Thread) /\ DOMAIN s.runq = 1 .. Len(s.runq) /\ Len(s.runq) \in Nat
  BY TypesOf, LenProperties
<1>2. i \in DOMAIN s.runq /\ r.runq[i] = s.runq[i]
  BY DEF Woken
<1>3. PICK u \in T : s.thr[u].pc = "reading" /\ \A j \in 1 .. i : s.runq[j] # u
  BY <1>2 DEF InTurn
<1>4. \A j \in 1 .. i : r.runq[j] # u
  <2>1. \A j \in 1 .. i : j \in DOMAIN s.runq
    BY <1>1, <1>2
  <2> QED BY <1>3, <2>1 DEF Woken
<1> QED BY <1>3, <1>4

\* The page is done with: who waited for it can run.
LEMMA Unbusied ==
  ASSUME NEW s, NEW t, Mid(s, t), NEW f \in Frame,
         \A u \in Others(t) : s.thr[u].pc \in Working => s.thr[u].f # f,
         NEW r, r = Unbusy(s, f)
  PROVE  Mid(r, t)
<1>1. /\ t \in Thread /\ s \in State /\ s.runq # <<>> /\ Head(s.runq) = t
      /\ s.crash = NoCrash /\ Sound(s, Others(t))
  BY HeadRuns DEF Mid, Running
<1>2. /\ r \in State /\ r.thr = s.thr /\ Woken(s, r, f)
      /\ NotBusy(s.frame[f], r.frame[f])
      /\ \A g \in Frame : g # f => r.frame[g] = s.frame[g]
      /\ r.alloc = s.alloc /\ r.res = s.res
      /\ r.core = s.core /\ r.busy = s.busy /\ r.ref = s.ref /\ r.linked = s.linked
      /\ r.crash = s.crash
  BY <1>1, FieldsOfUnbusy
<1>3. /\ s.waitq[f] \in Seq(Thread) /\ f \in Place
      /\ NULL \in Place /\ f # NULL /\ \A g \in Frame : g \in Place
  BY <1>1, TypesOf, PageCacheAssumption DEF Place
<1>4. \A g \in Frame : /\ r.frame[g].page = s.frame[g].page
                       /\ g # f => r.frame[g].busy = s.frame[g].busy
  BY <1>2 DEF NotBusy
<1>7. Queues(s, Others(t))
  BY <1>1 DEF Sound
<1>8. \A u : Contains(s.waitq[f], u) =>
        u \in Others(t) /\ ~Contains(s.runq, u) /\ s.thr[u].pc # "vget"
  <2>1. \A u : Contains(s.waitq[f], u) => u \in Thread
    BY <1>3, Listed
  <2> QED BY <1>3, <1>7, <2>1 DEF Queues, Sleeps
<1>9. Queues(r, Others(t))
  <2>1. \A u : Contains(s.waitq[f], u) => u \in Thread
    BY <1>8 DEF Others
  <2> QED BY <1>2, <1>3, <1>7, <2>1, WokenQueues
<1>10. Workers(r, Others(t))
  <2>1. Workers(s, Others(t))
    BY <1>1 DEF Sound
  <2>2. ASSUME NEW u \in Others(t), r.thr[u].pc \in Working
        PROVE  /\ r.thr[u].f \in Frame
               /\ r.frame[r.thr[u].f].busy /\ r.frame[r.thr[u].f].page # NULL
               /\ r.thr[u].pc # "cleaning" => r.frame[r.thr[u].f].page = r.thr[u].page
    <3>1. /\ s.thr[u].f \in Frame /\ s.thr[u].f # f
          /\ s.frame[s.thr[u].f].busy /\ s.frame[s.thr[u].f].page # NULL
          /\ s.thr[u].pc # "cleaning" => s.frame[s.thr[u].f].page = s.thr[u].page
      BY <1>2, <2>1, <2>2 DEF Workers
    <3> QED BY <1>2, <1>4, <3>1
  <2>3. \A u, v \in Others(t) : r.thr[u].pc \in Working /\ r.thr[v].pc \in Working
                             /\ r.thr[u].f = r.thr[v].f => u = v
    BY <1>2, <2>1 DEF Workers
  <2>4. \A u \in Others(t) : r.thr[u].pc \in {"filling", "dirtying", "get"} =>
          r.thr[u].has /\ r.thr[u].page \in Page /\ r.thr[u].f \in Frame
    BY <1>2, <2>1 DEF Workers
  <2> QED BY <2>2, <2>3, <2>4 DEF Workers
<1>11. Lists(r) /\ Counts(r) /\ Movers(r, Others(t)) /\ Putters(r, Others(t))
  <2>1. Holders(r) = Holders(s)
    BY <1>2 DEF Holders
  <2> QED BY <1>1, <1>2, <1>4, <2>1 DEF Sound, Lists, Counts, Movers, Putters
<1>12. InTurn(r, Others(t))
  BY <1>1, <1>2, <1>3, <1>8, WokenTurns DEF Sound
<1>13. Sleepers(r)
  <2>1. Sleepers(s)
    BY <1>1 DEF Sound
  <2> QED BY <1>2, <1>3, <1>4, <2>1 DEF Woken, Sleepers
<1>14. Running(r, t)
  BY <1>1, <1>2 DEF Running, Woken
<1> QED BY <1>1, <1>2, <1>9, <1>10, <1>11, <1>12, <1>13, <1>14 DEF Mid, Sound

\* Nothing changes but page n, which only f can hold; Y says if f is in hand.
OtherPages(s, q, f, n) ==
  /\ s.frame[f].page \in {n, NULL} /\ q.frame[f].page \in {n, NULL}
  /\ \A g \in Frame : g # f => q.frame[g] = s.frame[g] /\ s.frame[g].page # n
  /\ \A k \in Page : k # n => q.disk[k] = s.disk[k] /\ q.last[k] = s.last[k]
OtherThreads(s, q, t) ==
  SameOthers(s, q, t) /\ q.thr[t].has = s.thr[t].has /\ q.linked = s.linked
Idle(s, t, f) == \A u \in Others(t) : s.thr[u].pc \in Working => s.thr[u].f # f
RightAt(q, t, f, n, Y) ==
  /\ q.frame[f].page = NULL => q.disk[n] = q.last[n]
  /\ q.frame[f].page = n =>
       /\ IF f \in Y THEN q.disk[n] = q.last[n] ELSE q.frame[f].val = q.last[n]
       /\ q.frame[f].busy \/ q.frame[f].dirty \/ q.frame[f].refused \/ q.disk[n] = q.last[n]
       /\ Idle(q, t, f)

LEMMA DataExcept ==
  ASSUME NEW s, NEW q, NEW t, NEW f \in Frame, NEW n \in Page,
         NEW X \in SUBSET {f}, NEW Y \in SUBSET {f}, Data(s, Others(t), X),
         OtherThreads(s, q, t), OtherPages(s, q, f, n),
         InUse(s, Others(t)) => RightAt(q, t, f, n, Y)
  PROVE  Data(q, Others(t), Y)
<1> USE DEF OtherThreads, OtherPages
<1>1. \A u \in Others(t) : u \in Thread /\ q.thr[u] = s.thr[u]
  BY DEF SameOthers, Others
<1>2. \A u \in Thread : u = t \/ u \in Others(t)
  BY DEF Others
<1>3. NULL \notin Page
  BY PageCacheAssumption
<1>4. InUse(q, Others(t)) => InUse(s, Others(t))
  BY <1>1, <1>2 DEF InUse
<1>5. ASSUME NEW g \in Frame, g # f
      PROVE  Unread(q, Others(t), Y, g) <=> Unread(s, Others(t), X, g)
  BY <1>1, <1>5 DEF Unread
<1> SUFFICES ASSUME InUse(q, Others(t)), NEW k \in Page PROVE Right(q, Others(t), Y, k)
  BY DEF Data
<1>6. Right(s, Others(t), X, k) /\ RightAt(q, t, f, n, Y)
  BY <1>4 DEF Data
<1>7. CASE k # n
  <2>1. Resident(q, k) = Resident(s, k)
    BY <1>3, <1>7 DEF Resident
  <2>2. \A g \in Frame : q.frame[g].page = k => g # f /\ q.frame[g] = s.frame[g]
    BY <1>3, <1>7
  <2>3. q.disk[k] = s.disk[k] /\ q.last[k] = s.last[k]
    BY <1>7
  <2> QED BY <1>5, <1>6, <2>1, <2>2, <2>3 DEF Right
<1>8. CASE k = n
  <2>1. \A g \in Frame : q.frame[g].page = n => g = f
    OBVIOUS
  <2>2. CASE q.frame[f].page = NULL
    BY <1>3, <1>6, <1>8, <2>1, <2>2 DEF Right, RightAt
  <2>3. CASE q.frame[f].page = n
    <3>1. Unread(q, Others(t), Y, f) <=> f \in Y
      BY <1>6, <2>3 DEF Unread, Working, RightAt, Idle
    <3>2. f \in Resident(q, n)
      BY <2>3 DEF Resident
    <3> QED BY <1>6, <1>8, <2>1, <2>3, <3>1, <3>2 DEF Right, RightAt
  <2> QED BY <2>2, <2>3
<1> QED BY <1>7, <1>8

\* What can be said of a page that is not busy.
LEMMA IdlePage ==
  ASSUME NEW s, NEW t, Mid(s, t), NEW f \in Frame, ~s.frame[f].busy
  PROVE  /\ Idle(s, t, f)
         /\ \A g \in Frame : g # f /\ s.frame[f].page # NULL => s.frame[g].page # s.frame[f].page
  BY DEF Mid, Sound, Workers, Lists, Idle

LEMMA Stores ==
  ASSUME NEW s, NEW t, Mid(s, t), NEW f \in Frame, ~s.frame[f].busy,
         NEW n \in Page, s.frame[f].page = n, Data(s, Others(t), {}),
         NEW q \in State, OnlyPage(s, q, f), q.disk = s.disk,
         NEW v \in Val, q.last = [s.last EXCEPT ![n] = v], q.frame[f].val = v,
         q.frame[f].busy \/ q.frame[f].dirty
  PROVE  Mid(q, t) /\ Data(q, Others(t), {})
<1>1. s \in State /\ t \in Thread
  BY HeadRuns DEF Mid, Running
<1>2. Mid(q, t)
  BY PageRewritten
<1>3. /\ Idle(s, t, f) /\ n # NULL
      /\ \A g \in Frame : g # f => s.frame[g].page # n
  BY PageCacheAssumption, IdlePage
<1>4. q.last[n] = v /\ \A k \in Page : k # n => q.disk[k] = s.disk[k] /\ q.last[k] = s.last[k]
  BY <1>1, TypesOf
<1>5. Idle(q, t, f)
  BY <1>3 DEF OnlyPage, Idle
<1>6. OtherPages(s, q, f, n) /\ OtherThreads(s, q, t)
  BY <1>3, <1>4 DEF OtherPages, OtherThreads, OnlyPage, SameOthers
<1>7. RightAt(q, t, f, n, {})
  BY <1>3, <1>4, <1>5 DEF RightAt, OnlyPage
<1>8. Data(q, Others(t), {})
  BY <1>6, <1>7, DataExcept
<1> QED BY <1>2, <1>8

LEMMA UseKeeps ==
  ASSUME NEW s, NEW t, Mid(s, t), NEW f \in Frame, ~s.frame[f].busy,
         s.frame[f].page = s.thr[t].page, s.thr[t].page \in Page, s.thr[t].has,
         Data(s, Others(t), {}), NEW r, r = Use(s, t, f)
  PROVE  Rests(r)
<1> DEFINE v == s.thr[t].store
           n == s.thr[t].page
           stored == [s EXCEPT !.frame[f].val = v, !.last[n] = v]
<1>1. s \in State /\ t \in Thread
  BY HeadRuns DEF Mid, Running
<1>2. /\ s.frame \in [Frame -> FrameRec] /\ s.frame[f] \in FrameRec
      /\ s.disk \in [Page -> Val] /\ s.last \in [Page -> Val] /\ v \in Val \cup {NULL}
  BY <1>1, TypesOf
<1>3. PICK q : q = stored
  OBVIOUS
<1>4. PICK p : p = [q EXCEPT !.frame[f].busy = TRUE]
  OBVIOUS
<1>5. r = IF v = NULL THEN Goto(s, t, "user")
          ELSE IF s.frame[f].dirty THEN Goto(q, t, "user")
          ELSE ForDisk(p, t, "dirtying", f)
  BY <1>3, <1>4 DEF Use
<1>6. CASE v = NULL
  BY <1>5, <1>6, Returns
<1>7. CASE v # NULL
  <2>1. PICK x : x = [s.frame[f] EXCEPT !.val = v]
    OBVIOUS
  <2>2. /\ x \in FrameRec /\ x.page = n /\ x.val = v
        /\ x.dirty = s.frame[f].dirty
    BY <1>2, <1>7, <2>1 DEF FrameRec
  <2>3. PICK l : l = [s.last EXCEPT ![n] = v]
    OBVIOUS
  <2>4. l \in [Page -> Val]
    BY <1>2, <1>7, <2>3
  <2>5. q = WithPage(s, f, x, s.disk, l)
    BY <1>1, <1>2, <1>3, <2>1, <2>3 DEF WithPage, State
  <2>6. q \in State /\ OnlyPage(s, q, f) /\ q.frame[f] = x /\ q.disk = s.disk /\ q.last = l
    BY <1>1, <1>2, <2>2, <2>4, <2>5, FieldsOfPage
  <2>7. CASE s.frame[f].dirty
    <3>2. q.frame[f].dirty /\ q.frame[f].val = v
      BY <2>2, <2>6, <2>7
    <3>3. v \in Val /\ q.last = [s.last EXCEPT ![n] = v]
      BY <1>2, <1>7, <2>3, <2>6
    <3>1. Mid(q, t) /\ Data(q, Others(t), {})
      BY <2>6, <3>2, <3>3, Stores
    <3> QED BY <1>5, <1>7, <2>7, <3>1, Returns
  <2>8. CASE ~s.frame[f].dirty
    <3>1. PICK y : y = [x EXCEPT !.busy = TRUE]
      OBVIOUS
    <3>2. y \in FrameRec /\ y.page = n /\ y.val = v /\ y.busy
      BY <2>2, <3>1 DEF FrameRec
    <3>3. q.frame \in [Frame -> FrameRec]
      BY <2>6, TypesOf
    <3>4. p = WithPage(q, f, y, q.disk, q.last)
      BY <1>4, <2>6, <3>1 DEF WithPage, State
    <3>11. /\ p \in State /\ OnlyPage(q, p, f) /\ p.frame[f] = y /\ p.disk = q.disk
           /\ p.last = q.last
      <4>1. y.page = q.frame[f].page /\ q.disk \in [Page -> Val] /\ q.last \in [Page -> Val]
        BY <1>2, <1>7, <2>2, <2>4, <2>6, <3>2
      <4> QED BY <1>2, <2>6, <3>2, <3>4, <4>1, FieldsOfPage
    <3>5. p \in State /\ OnlyPage(s, p, f) /\ p.frame[f] = y /\ p.disk = s.disk /\ p.last = l
      <4>1. OnlyPage(s, p, f)
        BY <2>6, <3>11 DEF OnlyPage
      <4> QED BY <2>6, <3>11, <4>1
    <3>6. Mid(p, t) /\ Data(p, Others(t), {})
      BY <1>2, <1>7, <2>3, <3>2, <3>5, Stores
    <3>7. r = ForDisk(p, t, "dirtying", f) /\ "dirtying" \in Pcs /\ f \in Place
      BY <1>5, <1>7, <2>8 DEF Pcs, Disk, Place
    <3>8. p.runq # <<>> /\ p.thr = s.thr
      BY <3>5, <3>6 DEF Mid, Running, OnlyPage
    <3>9. /\ SameMemory(p, r) /\ SameOthers(p, r, t)
          /\ Comes(p.thr[t], r.thr[t], "dirtying", f)
      BY <1>1, <3>5, <3>7, <3>8, FieldsOfForDisk
    <3>10. Fits(r, t)
      <4>1. /\ r.thr[t].pc = "dirtying" /\ r.thr[t].f = f /\ r.thr[t].has /\ r.thr[t].page = n
            /\ r.frame[f] = y
        BY <3>5, <3>8, <3>9 DEF Comes, SameMemory
      <4>2. \A u \in Others(t) : r.thr[u] = s.thr[u]
        BY <3>8, <3>9 DEF SameOthers, Others
      <4>3. n # NULL /\ Idle(s, t, f)
        BY PageCacheAssumption, IdlePage
      <4> QED BY <3>2, <4>1, <4>2, <4>3 DEF Fits, Moving, Idle
    <3> QED BY <3>6, <3>7, <3>9, <3>10, WaitsForDisk DEF Hand, Comes
  <2> QED BY <2>7, <2>8
<1> QED BY <1>6, <1>7

\* A thread whose page has been read, written or marked.
LEMMA Finishes ==
  ASSUME IInv, NEW t \in Thread, NEW pc \in Working, At(t, pc)
  PROVE  /\ m.thr[t].f \in Frame /\ m.frame[m.thr[t].f].page \in Page
         /\ pc # "cleaning" => m.frame[m.thr[t].f].page = m.thr[t].page /\ m.thr[t].has
         /\ Data(m, Others(t), Hand(m, t)) /\ Mid(m, t) /\ Idle(m, t, m.thr[t].f)
<1>1. Mid(m, t)
  BY Begins DEF Working, Moving
<1>2. m.thr[t].pc = pc /\ Sound(m, Thread) /\ m \in State
  BY DEF At, IInv
<1>3. Data(m, Others(t), Hand(m, t))
  BY <1>2, DataBegins DEF Working
<1>4. /\ m.thr[t].f \in Frame /\ m.frame[m.thr[t].f].page # NULL
      /\ pc # "cleaning" => m.frame[m.thr[t].f].page = m.thr[t].page /\ m.thr[t].has
  BY <1>2 DEF Sound, Workers, Working
<1>5. m.frame[m.thr[t].f].page \in Page
  BY <1>2, <1>4, TypesOf
<1>6. Idle(m, t, m.thr[t].f)
  BY <1>2 DEF Sound, Workers, Idle, Others
<1> QED BY <1>1, <1>3, <1>4, <1>5, <1>6

\* What the page f is after it has been read, written or marked.
Done(t, f, n, x, d) ==
  /\ f = m.thr[t].f /\ n = m.frame[f].page /\ x.page = n
  /\ \A k \in Page : k # n => d[k] = m.disk[k]
  /\ InUse(m, Others(t)) => x.val = m.last[n] /\ (x.dirty \/ x.refused \/ d[n] = m.last[n])

LEMMA OnePage ==
  ASSUME NEW s, Lists(s), NEW f \in Frame, NEW g \in Frame,
         s.frame[f].page = s.frame[g].page, s.frame[f].page # NULL
  PROVE  f = g
BY DEF Lists

LEMMA UnbusiedPage ==
  ASSUME IInv, NEW t \in Thread, NEW pc \in Working, At(t, pc),
         NEW f, NEW n, NEW x \in FrameRec, NEW d \in [Page -> Val], Done(t, f, n, x, d),
         NEW s, s = Unbusy(m, f), NEW q, q = WithPage(s, f, x, d, m.last)
  PROVE  /\ Mid(q, t) /\ Data(q, Others(t), {})
         /\ q.frame[f] = x /\ q.thr = m.thr
<1>1. /\ f \in Frame /\ n \in Page /\ n # NULL
      /\ Data(m, Others(t), Hand(m, t)) /\ Mid(m, t) /\ Idle(m, t, f)
  BY Finishes, PageCacheAssumption DEF Done
<1>0. /\ m \in State /\ Sound(m, Thread) /\ m.last \in [Page -> Val]
  BY TypesOf DEF IInv
<1>2. /\ s \in State /\ s.thr = m.thr
      /\ NotBusy(m.frame[f], s.frame[f])
      /\ \A g \in Frame : g # f => s.frame[g] = m.frame[g]
      /\ s.linked = m.linked
  BY <1>0, <1>1, FieldsOfUnbusy
<1>3. Mid(s, t)
  BY <1>1, Unbusied DEF Idle
<1>4. q \in State /\ OnlyPage(s, q, f) /\ q.frame[f] = x /\ q.disk = d /\ q.last = m.last
  <2>1. x.page = s.frame[f].page
    BY <1>2 DEF NotBusy, Done
  <2> QED BY <1>0, <1>1, <1>2, <2>1, FieldsOfPage
<1>5. Mid(q, t)
  <2>1. ~s.frame[f].busy
    BY <1>2 DEF NotBusy
  <2> QED BY <1>1, <1>3, <1>4, <2>1, PageRewritten
<1>6. OtherThreads(m, q, t)
  BY <1>2, <1>4 DEF OtherThreads, SameOthers, OnlyPage
<1>7. OtherPages(m, q, f, n)
  <2>1. \A g \in Frame : g # f => m.frame[g].page # n
    <3>1. Lists(m) /\ m.frame[f].page = n
      BY <1>0 DEF Sound, Done
    <3> QED BY <1>1, <3>1, OnePage
  <2>2. \A g \in Frame : g # f => q.frame[g] = m.frame[g]
    BY <1>2, <1>4 DEF OnlyPage
  <2>3. m.frame[f].page = n /\ x.page = n /\ \A k \in Page : k # n => d[k] = m.disk[k]
    BY DEF Done
  <2> QED BY <1>4, <2>1, <2>2, <2>3 DEF OtherPages
<1>8. Idle(q, t, f)
  BY <1>1, <1>2, <1>4 DEF Idle, OnlyPage
<1>9. InUse(m, Others(t)) => RightAt(q, t, f, n, {})
  BY <1>1, <1>4, <1>8 DEF RightAt, Done
<1>10. Hand(m, t) \in SUBSET {f}
  BY DEF Hand, Done
<1>11. Data(q, Others(t), {})
  BY <1>1, <1>6, <1>7, <1>9, <1>10, DataExcept
<1> QED BY <1>2, <1>4, <1>5, <1>11 DEF OnlyPage

\* What is stored in a page that is not being read, and on the disk if it is.
LEMMA WorkedPage ==
  ASSUME IInv, NEW t \in Thread, NEW pc \in Working, At(t, pc), InUse(m, Others(t))
  PROVE  LET f == m.thr[t].f  n == m.frame[f].page
         IN  IF pc = "filling" THEN m.disk[n] = m.last[n] ELSE m.frame[f].val = m.last[n]
<1> DEFINE f == m.thr[t].f
           n == m.frame[f].page
<1>1. /\ f \in Frame /\ n \in Page
      /\ Data(m, Others(t), Hand(m, t)) /\ Idle(m, t, f) /\ m.thr[t].pc = pc
  BY Finishes DEF At
<1>2. Right(m, Others(t), Hand(m, t), n)
  BY <1>1 DEF Data
<1>3. Unread(m, Others(t), Hand(m, t), f) <=> pc = "filling"
  BY <1>1 DEF Unread, Hand, Idle, Working
<1> QED BY <1>1, <1>2, <1>3 DEF Right

LEMMA DirtiedKeeps ==
  ASSUME IInv, NEW t \in Thread, Dirtied(t)
  PROVE  Rests(m')
<1>0. PICK ok \in BOOLEAN : m' = Goto(Marked(Unbusy(m, m.thr[t].f), m.thr[t].f, ok), t, "user")
  BY DEF Dirtied
<1> DEFINE f == m.thr[t].f
           n == m.frame[f].page
           s == Unbusy(m, f)
           refused == ~ok /\ s.disk[s.frame[f].page] # s.frame[f].val
           x == [s.frame[f] EXCEPT !.dirty = ok, !.refused = refused]
           q == [s EXCEPT !.frame[f].dirty = ok, !.frame[f].refused = refused]
<1>1. "dirtying" \in Working /\ At(t, "dirtying") /\ m' = Goto(q, t, "user")
  BY <1>0 DEF Dirtied, Working, Marked
<1>2. f \in Frame /\ m \in State /\ n \in Page
  BY <1>1, Finishes DEF IInv
<1>3. s \in State /\ NotBusy(m.frame[f], s.frame[f]) /\ s.disk = m.disk /\ s.last = m.last
  BY <1>2, FieldsOfUnbusy
<1> HIDE DEF s
<1>4. /\ s.frame \in [Frame -> FrameRec] /\ s.frame[f] \in FrameRec
      /\ s.disk \in [Page -> Val]
  BY <1>2, <1>3, TypesOf
<1>5. /\ x \in FrameRec /\ x.page = n /\ x.val = m.frame[f].val
      /\ x.dirty \/ x.refused \/ m.disk[n] = x.val
  <2>1. refused \in BOOLEAN
    OBVIOUS
  <2>2. s.frame[f].page = n /\ s.frame[f].val = m.frame[f].val
    BY <1>3 DEF NotBusy
  <2>3. s.disk[s.frame[f].page] = m.disk[n] /\ s.frame[f].val = m.frame[f].val
    BY <1>3, <2>2
  <2>4. ok \/ refused \/ m.disk[n] = m.frame[f].val
    <3> HIDE DEF f, n
    <3> QED BY <2>3
  <2> HIDE DEF refused
  <2> QED BY <1>4, <2>1, <2>2, <2>4 DEF FrameRec
<1>6. q = WithPage(s, f, x, m.disk, m.last)
  BY <1>2, <1>3, <1>4 DEF WithPage, State
<1>7. InUse(m, Others(t)) => x.val = m.last[n]
  BY <1>1, <1>5, WorkedPage
<1>9. Done(t, f, n, x, m.disk)
  BY <1>5, <1>7 DEF Done
<1> HIDE DEF x, q
<1>10. s = Unbusy(m, f) /\ m.disk \in [Page -> Val]
  BY <1>3, <1>4 DEF s
<1>8. Mid(q, t) /\ Data(q, Others(t), {})
  <2> HIDE DEF f, n
  <2> QED BY <1>1, <1>5, <1>6, <1>9, <1>10, UnbusiedPage
<1> QED BY <1>1, <1>8, Returns

\* The frame f of s with v in it; f is the frame that t fills, with v, which the disk
\* has for its page.
WithVal(s, f, v) == [s EXCEPT !.frame[f].val = v]
Fills(t, f, v) == f = m.thr[t].f /\ v = m.disk[m.frame[f].page]

LEMMA FilledPage ==
  ASSUME IInv, NEW t \in Thread, At(t, "filling"), NEW f, NEW v, Fills(t, f, v),
         NEW s, s = Unbusy(m, f), NEW q, q = WithVal(s, f, v)
  PROVE  /\ Mid(q, t) /\ Data(q, Others(t), {}) /\ f \in Frame
         /\ ~q.frame[f].busy /\ q.frame[f].page = q.thr[t].page
         /\ q.thr[t].page \in Page /\ q.thr[t].has
<1>1. "filling" \in Working
  BY DEF Working
<1>2. f \in Frame /\ m \in State /\ m.frame[f].page \in Page
  BY <1>1, Finishes DEF IInv, Fills
<1>3. m.frame[f].page = m.thr[t].page /\ m.thr[t].has
  BY <1>1, Finishes DEF Fills
<1>4. /\ s \in State /\ s.thr = m.thr /\ NotBusy(m.frame[f], s.frame[f])
      /\ s.disk = m.disk /\ s.last = m.last
  BY <1>2, FieldsOfUnbusy
<1>5. PICK n \in Page : n = m.frame[f].page
  BY <1>2
<1>6. v = m.disk[n] /\ f = m.thr[t].f
  BY <1>5 DEF Fills
<1>7. /\ s.frame \in [Frame -> FrameRec] /\ s.frame[f] \in FrameRec
      /\ m.disk \in [Page -> Val] /\ v \in Val
  <2>1. s.frame \in [Frame -> FrameRec] /\ m.disk \in [Page -> Val]
    BY <1>2, <1>4, TypesOf
  <2> QED BY <1>2, <1>5, <1>6, <2>1
<1>8. PICK x : x = [s.frame[f] EXCEPT !.val = v]
  OBVIOUS
<1>9. x \in FrameRec /\ x.page = n /\ x.val = v /\ ~x.busy
  BY <1>4, <1>5, <1>7, <1>8 DEF FrameRec, NotBusy
<1>10. q = WithPage(s, f, x, m.disk, m.last)
  <2>1. s.frame = [g \in Frame |-> s.frame[g]]
    BY <1>7
  <2> QED BY <1>2, <1>4, <1>7, <1>8, <2>1 DEF WithVal, WithPage, State
<1>11. InUse(m, Others(t)) => v = m.last[n]
  <2>1. InUse(m, Others(t)) => m.disk[n] = m.last[n]
    BY <1>1, <1>5, <1>6, WorkedPage
  <2> QED BY <1>6, <2>1
<1>12. Done(t, f, n, x, m.disk)
  <2>1. m.disk[n] = v
    BY <1>6
  <2> QED BY <1>5, <1>6, <1>9, <1>11, <2>1 DEF Done
<1>13. /\ Mid(q, t) /\ Data(q, Others(t), {})
       /\ q.frame[f] = x /\ q.thr = m.thr
  <2>1. m.disk \in [Page -> Val]
    BY <1>7
  <2> QED BY <1>1, <1>9, <1>10, <1>12, <2>1, UnbusiedPage
<1> QED BY <1>2, <1>3, <1>5, <1>9, <1>13

FilledNow(t) ==
  LET f == m.thr[t].f
  IN  m' = Use([Unbusy(m, f) EXCEPT !.frame[f].val = m.disk[m.thr[t].page]], t, f)

LEMMA FilledKeeps ==
  ASSUME IInv, NEW t \in Thread, At(t, "filling"), FilledNow(t)
  PROVE  Rests(m')
<1>1. PICK f : f = m.thr[t].f
  OBVIOUS
<1>2. PICK v : v = m.disk[m.thr[t].page]
  OBVIOUS
<1>3. PICK q : q = WithVal(Unbusy(m, f), f, v)
  OBVIOUS
<1>4. m' = Use(q, t, f)
  BY <1>1, <1>2, <1>3 DEF WithVal, FilledNow
<1>5. Fills(t, f, v)
  <2>1. "filling" \in Working
    BY DEF Working
  <2> QED BY <1>1, <1>2, <2>1, Finishes DEF Fills
<1>6. /\ Mid(q, t) /\ Data(q, Others(t), {}) /\ f \in Frame
      /\ ~q.frame[f].busy /\ q.frame[f].page = q.thr[t].page
      /\ q.thr[t].page \in Page /\ q.thr[t].has
  BY <1>3, <1>5, FilledPage
<1> QED BY <1>4, <1>6, UseKeeps


\* pframe_free, of a page that is in memory and not busy, with the file open.
Gone(s, r, f) ==
  /\ r.frame[f] = FreeFrame /\ \A g \in Frame : g # f => r.frame[g] = s.frame[g]
  /\ r.alloc = Without(s.alloc, f) /\ r.res = Without(s.res, f) /\ r.ref = s.ref - 1
  /\ r.core = s.core /\ r.busy = s.busy /\ r.linked = s.linked
  /\ r.disk = s.disk /\ r.last = s.last
  /\ r.thr = s.thr /\ r.runq = s.runq /\ r.waitq = s.waitq /\ r.crash = s.crash

\* The lists and the count afterwards.
OffLists(s, r, f) ==
  /\ IsInjective(r.alloc) /\ \A x : Contains(r.alloc, x) <=> Contains(s.alloc, x) /\ x # f
  /\ IsInjective(r.res) /\ \A x : Contains(r.res, x) <=> Contains(s.res, x) /\ x # f
  /\ r.ref = Len(r.res) + Cardinality(Holders(s)) /\ r.ref > 0

LEMMA FieldsOfFree ==
  ASSUME NEW s, NEW t, Mid(s, t), NEW f \in Frame, ~s.frame[f].busy,
         s.frame[f].page # NULL, Holders(s) # {}, NEW r, r = pframe_free(s, f)
  PROVE  /\ r \in State /\ Gone(s, r, f) /\ OffLists(s, r, f)
         /\ s.core /\ ~s.busy
         /\ f = Head(s.res) => r.res = Tail(s.res)
<1>1. s \in State /\ t \in Thread /\ Lists(s) /\ Counts(s)
  BY HeadRuns DEF Mid, Running, Sound
<1>2. s.alloc \in Seq(Frame) /\ s.res \in Seq(Frame) /\ s.ref \in Nat
      /\ s.frame \in [Frame -> FrameRec]
  BY <1>1, TypesOf
<1>3. IsInjective(s.alloc) /\ IsInjective(s.res) /\ Contains(s.alloc, f) /\ Contains(s.res, f)
  BY <1>1 DEF Lists
<1>4. PICK a : a = Without(s.alloc, f)
  OBVIOUS
<1>5. a \in Seq(Frame) /\ IsInjective(a) /\ \A x : Contains(a, x) <=> Contains(s.alloc, x) /\ x # f
  BY <1>2, <1>3, <1>4, Removed
<1>6. PICK b : b = Without(s.res, f)
  OBVIOUS
<1>7. /\ b \in Seq(Frame) /\ IsInjective(b)
      /\ \A x : Contains(b, x) <=> Contains(s.res, x) /\ x # f
      /\ Len(b) = Len(s.res) - 1
      /\ f = Head(s.res) => b = Tail(s.res)
  BY <1>2, <1>3, <1>6, Removed
<1>8. s.core /\ ~s.busy /\ s.ref = Len(s.res) + Cardinality(Holders(s))
  BY <1>1 DEF Counts
<1>9. Cardinality(Holders(s)) \in Nat /\ Cardinality(Holders(s)) > 0
  <2>1. IsFiniteSet(Holders(s))
    BY PageCacheAssumption, FS_Subset DEF Holders
  <2> QED BY <2>1, FS_CardinalityType, FS_EmptySet
<1>10. Len(s.res) \in Nat /\ Len(b) \in Nat
  BY <1>2, <1>7, LenProperties
<1>11. PICK l \in Nat, c \in Nat : l = Len(b) /\ c = Cardinality(Holders(s)) /\ c > 0
  BY <1>9, <1>10
<1>12. /\ ~(s.ref <= Len(b) + 1)
       /\ s.ref - 1 \in Nat /\ s.ref - 1 > 0 /\ s.ref - 1 = Len(b) + Cardinality(Holders(s))
  <2>1. s.ref = l + 1 + c
    BY <1>7, <1>8, <1>10, <1>11
  <2> QED BY <1>11, <2>1
<1>13. PICK z : z = [s EXCEPT !.frame[f] = FreeFrame, !.alloc = Without(@, f), !.res = Without(@, f)]
  OBVIOUS
<1>14. PICK w : w = [s.frame EXCEPT ![f] = FreeFrame]
  OBVIOUS
<1>15. FreeFrame \in FrameRec
  BY PageCacheAssumption DEF FreeFrame, FrameRec
<1>16. w \in [Frame -> FrameRec] /\ w[f] = FreeFrame /\ \A g \in Frame : g # f => w[g] = s.frame[g]
  BY <1>2, <1>14, <1>15
<1>17. z = [s EXCEPT !.frame = w, !.alloc = a, !.res = b]
  BY <1>1, <1>4, <1>6, <1>13, <1>14 DEF State
<1>18. z \in State /\ z.res = b /\ z.ref = s.ref
  BY <1>1, <1>5, <1>7, <1>16, <1>17 DEF State
<1>19. r = [z EXCEPT !.ref = @ - 1]
  BY <1>12, <1>13, <1>18 DEF pframe_free
<1>20. r = [s EXCEPT !.frame = w, !.alloc = a, !.res = b, !.ref = s.ref - 1]
  BY <1>1, <1>17, <1>18, <1>19 DEF State
<1>21. /\ r \in State /\ r.frame = w /\ r.alloc = a /\ r.res = b /\ r.ref = s.ref - 1
       /\ r.core = s.core /\ r.busy = s.busy /\ r.linked = s.linked
       /\ r.disk = s.disk /\ r.last = s.last
       /\ r.thr = s.thr /\ r.runq = s.runq /\ r.waitq = s.waitq /\ r.crash = s.crash
  <2>1. r \in State
    BY <1>1, <1>5, <1>7, <1>12, <1>16, <1>20 DEF State
  <2>2. /\ r.frame = w /\ r.alloc = a /\ r.res = b /\ r.ref = s.ref - 1
        /\ r.core = s.core /\ r.busy = s.busy /\ r.linked = s.linked
        /\ r.disk = s.disk /\ r.last = s.last
        /\ r.thr = s.thr /\ r.runq = s.runq /\ r.waitq = s.waitq /\ r.crash = s.crash
    BY <1>1, <1>20 DEF State
  <2> QED BY <2>1, <2>2
<1>22. Gone(s, r, f)
  BY <1>4, <1>6, <1>16, <1>21 DEF Gone
<1>23. OffLists(s, r, f)
  BY <1>5, <1>7, <1>12, <1>21 DEF OffLists
<1> QED BY <1>7, <1>8, <1>21, <1>22, <1>23

LEMMA Freed ==
  ASSUME NEW s, NEW t, Mid(s, t), NEW f \in Frame, ~s.frame[f].busy,
         s.frame[f].page # NULL, Holders(s) # {}, NEW r, r = pframe_free(s, f),
         \A u \in Others(t) : s.thr[u].pc # "put"
  PROVE  Mid(r, t)
<1>1. /\ r \in State
      /\ s.core /\ ~s.busy
      /\ IsInjective(r.alloc) /\ \A x : Contains(r.alloc, x) <=> Contains(s.alloc, x) /\ x # f
      /\ IsInjective(r.res) /\ \A x : Contains(r.res, x) <=> Contains(s.res, x) /\ x # f
      /\ r.ref = Len(r.res) + Cardinality(Holders(s)) /\ r.ref > 0
  <2>1. r \in State /\ OffLists(s, r, f) /\ s.core /\ ~s.busy
    BY FieldsOfFree
  <2> QED BY <2>1 DEF OffLists
<1>2. Gone(s, r, f)
  BY FieldsOfFree
<1>3. /\ r.frame[f].page = NULL /\ \A g \in Frame : g # f => r.frame[g] = s.frame[g]
      /\ r.core = s.core /\ r.busy = s.busy /\ r.linked = s.linked
      /\ r.thr = s.thr /\ r.runq = s.runq /\ r.waitq = s.waitq /\ r.crash = s.crash
  BY <1>2 DEF Gone, FreeFrame
<1>4. Sound(s, Others(t)) /\ Idle(s, t, f) /\ Running(s, t) /\ s.crash = NoCrash
  BY IdlePage DEF Mid
<1>5. Queues(r, Others(t)) /\ Movers(r, Others(t)) /\ InTurn(r, Others(t))
  BY <1>3, <1>4 DEF Sound, Queues, Movers, InTurn
<1>6. Workers(r, Others(t))
  <2>1. Workers(s, Others(t))
    BY <1>4 DEF Sound
  <2>2. ASSUME NEW u \in Others(t), r.thr[u].pc \in Working
        PROVE  /\ r.thr[u].f \in Frame
               /\ r.frame[r.thr[u].f].busy /\ r.frame[r.thr[u].f].page # NULL
               /\ r.thr[u].pc # "cleaning" => r.frame[r.thr[u].f].page = r.thr[u].page
    <3>1. /\ s.thr[u].f \in Frame /\ s.thr[u].f # f
          /\ s.frame[s.thr[u].f].busy /\ s.frame[s.thr[u].f].page # NULL
          /\ s.thr[u].pc # "cleaning" => s.frame[s.thr[u].f].page = s.thr[u].page
      BY <1>3, <1>4, <2>1, <2>2 DEF Workers, Idle
    <3> QED BY <1>3, <3>1
  <2>3. \A u, v \in Others(t) : r.thr[u].pc \in Working /\ r.thr[v].pc \in Working
                             /\ r.thr[u].f = r.thr[v].f => u = v
    BY <1>3, <2>1 DEF Workers
  <2>4. \A u \in Others(t) : r.thr[u].pc \in {"filling", "dirtying", "get"} =>
          r.thr[u].has /\ r.thr[u].page \in Page /\ r.thr[u].f \in Frame
    BY <1>3, <2>1 DEF Workers
  <2> QED BY <2>2, <2>3, <2>4 DEF Workers
<1>7. Lists(r)
  <2>1. Lists(s)
    BY <1>4 DEF Sound
  <2>2. \A g, h \in Frame : r.frame[g].page = r.frame[h].page /\ r.frame[g].page # NULL => g = h
    BY <1>3, <2>1 DEF Lists
  <2>3. \A g \in Frame : /\ Contains(r.alloc, g) <=> r.frame[g].page # NULL
                         /\ Contains(r.res, g) <=> r.frame[g].page # NULL
    BY <1>1, <1>3, <2>1 DEF Lists
  <2> QED BY <1>1, <2>2, <2>3 DEF Lists
<1>8. Counts(r)
  <2>1. Holders(r) = Holders(s)
    BY <1>3 DEF Holders
  <2> QED BY <1>1, <1>3, <2>1 DEF Counts
<1>9. Putters(r, Others(t))
  BY <1>3 DEF Putters
<1>10. Sleepers(r)
  BY <1>3, <1>4 DEF Sound, Sleepers
<1>11. Running(r, t) /\ r.crash = NoCrash
  BY <1>1, <1>3, <1>4 DEF Running
<1> QED BY <1>5, <1>6, <1>7, <1>8, <1>9, <1>10, <1>11 DEF Mid, Sound

\* Nobody else takes the pages away from a thread that has the file open.
LEMMA NoOtherPutter ==
  ASSUME NEW s, NEW t, Putters(s, Others(t)), t \in Thread, s.thr[t].has
  PROVE  \A u \in Others(t) : s.thr[u].pc # "put"
BY DEF Putters, Holders, Others

LEMMA UnfilledKeeps ==
  ASSUME IInv, NEW t \in Thread, At(t, "filling"),
         LET f == m.thr[t].f IN m' = Goto(pframe_free(Unbusy(m, f), f), t, "user")
  PROVE  Rests(m')
<1> DEFINE f == m.thr[t].f
           n == m.frame[f].page
           s == Unbusy(m, f)
           r == pframe_free(s, f)
<1>1. "filling" \in Working
  BY DEF Working
<1>2. f \in Frame /\ n \in Page /\ n = m.thr[t].page /\ m.thr[t].has /\ Mid(m, t)
      /\ Data(m, Others(t), Hand(m, t)) /\ Idle(m, t, f) /\ n # NULL
  BY <1>1, Finishes, PageCacheAssumption
<1>3. m \in State /\ Lists(m)
  BY DEF IInv, Sound
<1>4. /\ s.thr = m.thr /\ NotBusy(m.frame[f], s.frame[f])
      /\ \A g \in Frame : g # f => s.frame[g] = m.frame[g]
      /\ s.disk = m.disk /\ s.last = m.last /\ s.linked = m.linked
  BY <1>2, <1>3, FieldsOfUnbusy
<1>5. Mid(s, t)
  BY <1>2, Unbusied DEF Idle
<1>6. InUse(m, Others(t)) => m.disk[n] = m.last[n]
  BY <1>1, WorkedPage
<1> HIDE DEF s
<1>7. ~s.frame[f].busy /\ s.frame[f].page = n
  BY <1>4 DEF NotBusy
<1>8. Holders(s) # {} /\ \A u \in Others(t) : s.thr[u].pc # "put"
  <2>1. t \in Holders(s) /\ Putters(s, Others(t)) /\ s.thr[t].has
    BY <1>2, <1>4, <1>5 DEF Holders, Mid, Sound
  <2> QED BY <2>1, NoOtherPutter
<1>9. Gone(s, r, f) /\ Mid(r, t)
  BY <1>2, <1>5, <1>7, <1>8, FieldsOfFree, Freed
<1> HIDE DEF r
<1>10. OtherThreads(m, r, t)
  BY <1>4, <1>9 DEF Gone, OtherThreads, SameOthers
<1>11. r.frame[f].page = NULL /\ r.disk = m.disk /\ r.last = m.last
  BY <1>4, <1>9 DEF Gone, FreeFrame
<1>12. OtherPages(m, r, f, n)
  <2>1. \A g \in Frame : g # f => m.frame[g].page # n
    BY <1>2, <1>3, OnePage
  <2>2. \A g \in Frame : g # f => r.frame[g] = m.frame[g]
    BY <1>4, <1>9 DEF Gone
  <2> QED BY <1>11, <2>1, <2>2 DEF OtherPages
<1>13. InUse(m, Others(t)) => RightAt(r, t, f, n, {})
  BY <1>2, <1>6, <1>11 DEF RightAt
<1>14. Hand(m, t) \in SUBSET {f}
  BY DEF Hand
<1>15. Data(r, Others(t), {})
  BY <1>2, <1>10, <1>12, <1>13, <1>14, DataExcept
<1>16. m' = Goto(r, t, "user")
  BY DEF r, s
<1> QED BY <1>9, <1>15, <1>16, Returns

-----------------------------------------------------------------------------
(* The actions on pages.                                                   *)

\* One of the two things that can go wrong.
LEMMA Crashed ==
  ASSUME IInv, m.crash = NoCrash, NEW why \in {"another_page", "read_vnode"},
         m' = Crash(m, why)
  PROVE  Rests(m')
<1>1. m' = [m EXCEPT !.crash = why]
  BY DEF Crash, IInv, State
<1>2. m' \in State /\ m'.thr = m.thr /\ SameMemory([m EXCEPT !.crash = why], m')
      /\ m'.runq = m.runq /\ m'.waitq = m.waitq
  BY <1>1 DEF IInv, State, SameMemory
<1>3. /\ m'.frame = m.frame /\ m'.alloc = m.alloc /\ m'.res = m.res
      /\ m'.core = m.core /\ m'.busy = m.busy /\ m'.ref = m.ref /\ m'.linked = m.linked
      /\ m'.disk = m.disk /\ m'.last = m.last
  BY <1>1 DEF IInv, State
<1>4. Holders(m') = Holders(m)
  BY <1>2 DEF Holders
<1>5. Sound(m', Thread)
  <2>1. Sound(m, Thread)
    BY DEF IInv
  <2>2. Queues(m', Thread) /\ InTurn(m', Thread)
    BY <1>2, <1>3, <2>1 DEF Sound, Queues, InTurn
  <2>3. Workers(m', Thread)
    BY <1>2, <1>3, <2>1 DEF Sound, Workers
  <2>4. Lists(m') /\ Counts(m')
    BY <1>3, <1>4, <2>1 DEF Sound, Lists, Counts
  <2>5. Movers(m', Thread) /\ Putters(m', Thread)
    BY <1>2, <1>3, <1>4, <2>1 DEF Sound, Movers, Putters
  <2>6. Sleepers(m')
    BY <1>2, <1>3, <2>1 DEF Sound, Sleepers
  <2> QED BY <2>2, <2>3, <2>4, <2>5, <2>6 DEF Sound
<1>6. Data(m', Thread, {})
  BY <1>2, <1>3 DEF IInv, Data, InUse, Right, Unread, Resident
<1> QED BY <1>2, <1>5, <1>6 DEF Rests

LEMMA GetResidentKeeps ==
  ASSUME NEW s, NEW t, Mid(s, t), NEW f \in Frame, s.thr[t].page \in Page, s.thr[t].has,
         Data(s, Others(t), {}), NEW r, r = GetResident(s, t, f),
         s.frame[f].busy \/ s.frame[f].page = s.thr[t].page
  PROVE  Rests(r)
<1>1. CASE ~s.frame[f].busy
  <2>1. r = Use(s, t, f)
    BY <1>1 DEF GetResident
  <2> QED BY <1>1, <2>1, UseKeeps
<1>2. CASE s.frame[f].busy
  <2>1. r = SleepOn(s, t, "get", f)
    BY <1>2 DEF GetResident
  <2>2. f \in Place /\ f # NULL /\ "get" \in Sleeps(f) /\ "get" \in Pcs
    BY PageCacheAssumption DEF Place, Sleeps, Pcs
  <2>3. s \in State /\ t \in Thread /\ s.runq # <<>>
    BY HeadRuns DEF Mid, Running
  <2>4. Comes(s.thr[t], r.thr[t], "get", f)
    BY <2>1, <2>2, <2>3, FieldsOfSleepOn
  <2>5. Fits(r, t)
    BY <2>4 DEF Fits, Comes, Moving, Working
  <2> QED BY <1>2, <2>1, <2>2, <2>5, SleepsOn
<1> QED BY <1>1, <1>2

LEMMA GetAgainKeeps ==
  ASSUME IInv, NEW t \in Thread, GetAgain(t)
  PROVE  Rests(m')
<1> DEFINE f == m.thr[t].f
<1>1. /\ At(t, "get") /\ m' = GetResident(m, t, f) /\ m.thr[t].pc = "get"
      /\ m.crash = NoCrash
  BY DEF GetAgain, At
<1>2. Mid(m, t) /\ Data(m, Others(t), {})
  BY <1>1, Begins, DataBegins DEF Moving, Hand
<1>3. f \in Frame /\ m.thr[t].page \in Page /\ m.thr[t].has
  BY <1>1 DEF IInv, Sound, Workers
<1>4. CASE m.frame[f].busy \/ m.frame[f].page = m.thr[t].page
  BY <1>1, <1>2, <1>3, <1>4, GetResidentKeeps
<1>5. CASE ~(m.frame[f].busy \/ m.frame[f].page = m.thr[t].page)
  <2>1. m' = Crash(m, "another_page")
    BY <1>1, <1>5 DEF GetResident, Use
  <2> QED BY <1>1, <2>1, Crashed
<1> QED BY <1>4, <1>5

LEMMA ScanKeeps ==
  ASSUME NEW s, NEW t, Mid(s, t), Data(s, Others(t), {}), NEW r, r = Scan(s, t)
  PROVE  Rests(r)
<1> DEFINE todo == {i \in DOMAIN s.alloc : s.frame[s.alloc[i]].busy \/ s.frame[s.alloc[i]].dirty}
           f == s.alloc[Min(todo)]
           q == [s EXCEPT !.frame[f].dirty = FALSE, !.frame[f].busy = TRUE]
<1>1. s \in State /\ t \in Thread /\ Lists(s) /\ s.runq # <<>>
  BY HeadRuns DEF Mid, Running, Sound
<1>2. r = IF todo = {} THEN Goto(s, t, "user")
          ELSE IF s.frame[f].busy THEN SleepOn(s, t, "sync", f)
          ELSE ForDisk(q, t, "cleaning", f)
  BY DEF Scan
<1>3. CASE todo = {}
  BY <1>2, <1>3, Returns
<1>4. CASE todo # {}
  <2>1. s.alloc \in Seq(Frame) /\ DOMAIN s.alloc = 1 .. Len(s.alloc) /\ Len(s.alloc) \in Nat
        /\ \A i \in 1 .. Len(s.alloc) : s.alloc[i] \in Frame
    BY <1>1, TypesOf, Listed
  <2>2. Min(todo) \in todo
    <3>1. todo \in SUBSET Nat
      BY <2>1
    <3> HIDE DEF todo
    <3> QED BY <1>4, <3>1, LeastNumber
  <2>3. f \in Frame /\ Contains(s.alloc, f)
    BY <2>1, <2>2 DEF Contains
  <2>4. s.frame[f].page # NULL /\ f \in Place /\ f # NULL
    BY <1>1, <2>3, PageCacheAssumption DEF Lists, Place
  <2> HIDE DEF f, todo
  <2>5. CASE s.frame[f].busy
    <3>1. r = SleepOn(s, t, "sync", f)
      BY <1>2, <1>4, <2>5
    <3>2. "sync" \in Sleeps(f) /\ "sync" \in Pcs
      BY <2>4 DEF Sleeps, Pcs
    <3>3. Comes(s.thr[t], r.thr[t], "sync", f)
      BY <1>1, <2>4, <3>1, <3>2, FieldsOfSleepOn
    <3>4. Fits(r, t)
      BY <3>3 DEF Fits, Comes, Moving, Working
    <3> QED BY <2>4, <2>5, <3>1, <3>2, <3>4, SleepsOn
  <2>6. CASE ~s.frame[f].busy
    <3>1. r = ForDisk(q, t, "cleaning", f)
      BY <1>2, <1>4, <2>6
    <3>2. /\ s.frame \in [Frame -> FrameRec] /\ s.frame[f] \in FrameRec
          /\ s.disk \in [Page -> Val] /\ s.last \in [Page -> Val]
      BY <1>1, <2>3, TypesOf
    <3>3. PICK x : x = [s.frame[f] EXCEPT !.dirty = FALSE, !.busy = TRUE]
      OBVIOUS
    <3>4. x \in FrameRec /\ x.page = s.frame[f].page /\ x.val = s.frame[f].val /\ x.busy
      BY <3>2, <3>3 DEF FrameRec
    <3>5. q = WithPage(s, f, x, s.disk, s.last)
      BY <1>1, <2>3, <3>2, <3>3 DEF WithPage, State, FrameRec
    <3> HIDE DEF q
    <3>6. q \in State /\ OnlyPage(s, q, f) /\ q.frame[f] = x /\ q.disk = s.disk /\ q.last = s.last
      BY <1>1, <2>3, <3>2, <3>4, <3>5, FieldsOfPage
    <3>7. Mid(q, t)
      BY <2>3, <2>6, <3>6, PageRewritten
    <3>8. Idle(s, t, f)
      BY <2>3, <2>6, IdlePage
    <3>9. Data(q, Others(t), {})
      <4>1. PICK n : n = s.frame[f].page
        OBVIOUS
      <4>2. n \in Page
        BY <1>1, <2>3, <2>4, <4>1, TypesOf
      <4>3. OtherThreads(s, q, t)
        BY <3>6 DEF OtherThreads, OnlyPage, SameOthers
      <4>4. OtherPages(s, q, f, n)
        <5>1. \A g \in Frame : g # f => s.frame[g].page # n
          BY <1>1, <2>3, <2>4, <4>1, OnePage
        <5> QED BY <3>6, <4>1, <5>1 DEF OtherPages, OnlyPage
      <4>5. InUse(s, Others(t)) => RightAt(q, t, f, n, {})
        <5>1. ASSUME InUse(s, Others(t)) PROVE s.frame[f].val = s.last[n]
          <6>1. Right(s, Others(t), {}, n)
            BY <4>2, <5>1 DEF Data
          <6>2. ~Unread(s, Others(t), {}, f)
            BY <3>8 DEF Unread, Idle, Working
          <6> QED BY <2>3, <4>1, <6>1, <6>2 DEF Right
        <5>2. Idle(q, t, f)
          BY <3>6, <3>8 DEF Idle, OnlyPage
        <5> QED BY <2>4, <3>4, <3>6, <4>1, <5>1, <5>2 DEF RightAt
      <4> QED BY <2>3, <4>2, <4>3, <4>4, <4>5, DataExcept
    <3>10. "cleaning" \in Pcs /\ q.runq # <<>> /\ q.thr = s.thr
      BY <1>1, <3>6 DEF Pcs, Disk, OnlyPage
    <3>11. SameMemory(q, r) /\ SameOthers(q, r, t) /\ Comes(q.thr[t], r.thr[t], "cleaning", f)
      BY <1>1, <2>4, <3>1, <3>6, <3>10, FieldsOfForDisk
    <3>12. Fits(r, t)
      <4>1. r.thr[t].pc = "cleaning" /\ r.thr[t].f = f /\ r.frame[f] = x
        BY <3>6, <3>11 DEF Comes, SameMemory
      <4>2. \A u \in Others(t) : r.thr[u] = s.thr[u]
        BY <3>10, <3>11 DEF SameOthers, Others
      <4> QED BY <2>3, <2>4, <3>4, <3>8, <4>1, <4>2 DEF Fits, Moving, Idle
    <3> QED BY <2>4, <3>1, <3>7, <3>9, <3>10, <3>11, <3>12, WaitsForDisk DEF Hand, Comes
  <2> QED BY <2>5, <2>6
<1> QED BY <1>3, <1>4

LEMMA SyncKeeps ==
  ASSUME IInv, NEW t \in Thread, sys_sync(t)
  PROVE  Rests(m')
<1>1. PICK pc \in {"user", "sync"} : At(t, pc) /\ m' = Scan(m, t)
  BY DEF sys_sync
<1>2. m.thr[t].pc = pc
  BY <1>1 DEF At
<1>3. Mid(m, t) /\ Data(m, Others(t), {})
  BY <1>1, <1>2, Begins, DataBegins DEF Moving, Hand
<1> QED BY <1>1, <1>3, ScanKeeps

LEMMA CleanedKeeps ==
  ASSUME IInv, NEW t \in Thread, Cleaned(t)
  PROVE  Rests(m')
<1> DEFINE f == m.thr[t].f
           n == m.frame[f].page
           s == Unbusy(m, f)
           q == [s EXCEPT !.disk[s.frame[f].page] = s.frame[f].val]
           p == [s EXCEPT !.frame[f].dirty = TRUE]
<1>1. "cleaning" \in Working /\ At(t, "cleaning") /\ (m' = Scan(q, t) \/ m' = Scan(p, t))
  BY DEF Cleaned, Working
<1>2. f \in Frame /\ m \in State /\ n \in Page
  BY <1>1, Finishes DEF IInv
<1>3. s \in State /\ NotBusy(m.frame[f], s.frame[f]) /\ s.disk = m.disk /\ s.last = m.last
  BY <1>2, FieldsOfUnbusy
<1>4. InUse(m, Others(t)) => m.frame[f].val = m.last[n]
  BY <1>1, WorkedPage
<1>5. PICK z : z = s
  OBVIOUS
<1>6. z = Unbusy(m, f)
  BY <1>5
<1>7. /\ z.frame \in [Frame -> FrameRec] /\ z.frame[f] \in FrameRec
      /\ z.disk \in [Page -> Val] /\ z.disk = m.disk /\ z.last = m.last /\ z \in State
      /\ z.frame[f].page = n /\ z.frame[f].val = m.frame[f].val /\ z.frame[f].val \in Val
  BY <1>2, <1>3, <1>5, TypesOf DEF NotBusy
<1>8. q = [z EXCEPT !.disk[z.frame[f].page] = z.frame[f].val]
      /\ p = [z EXCEPT !.frame[f].dirty = TRUE]
  BY <1>5
<1> HIDE DEF s, q, p
<1>9. PICK d : d = [m.disk EXCEPT ![n] = m.frame[f].val]
  OBVIOUS
<1>10. d \in [Page -> Val] /\ d[n] = m.frame[f].val /\ \A k \in Page : k # n => d[k] = m.disk[k]
  BY <1>2, <1>7, <1>9
<1>11. q = WithPage(z, f, z.frame[f], d, m.last)
  <2>1. z.frame = [z.frame EXCEPT ![f] = z.frame[f]]
    BY <1>7
  <2> QED BY <1>2, <1>7, <1>8, <1>9, <2>1 DEF WithPage, State
<1>12. PICK x : x = [z.frame[f] EXCEPT !.dirty = TRUE]
  OBVIOUS
<1>13. x \in FrameRec /\ x.page = n /\ x.val = m.frame[f].val /\ x.dirty
  BY <1>7, <1>12 DEF FrameRec
<1>14. p = WithPage(z, f, x, m.disk, m.last)
  BY <1>2, <1>7, <1>8, <1>12 DEF WithPage, State
<1>15. Done(t, f, n, z.frame[f], d) /\ Done(t, f, n, x, m.disk)
  BY <1>4, <1>7, <1>10, <1>13 DEF Done
<1> HIDE DEF f, n
<1>16. Mid(q, t) /\ Data(q, Others(t), {})
  BY <1>1, <1>6, <1>7, <1>10, <1>11, <1>15, UnbusiedPage
<1>17. Mid(p, t) /\ Data(p, Others(t), {})
  BY <1>1, <1>6, <1>7, <1>13, <1>14, <1>15, UnbusiedPage
<1> QED BY <1>1, <1>16, <1>17, ScanKeeps

\* The page that is asked for becomes the last of alloc_list, or is allocated.
Asking(t, n, v) == [m EXCEPT !.thr[t].page = n, !.thr[t].store = v]

Asks(x, y, n) == y.pc = x.pc /\ y.has = x.has /\ y.page = n

LEMMA Asked ==
  ASSUME NEW t \in Thread, NEW n \in Page, NEW v \in Val \cup {NULL}, m \in State,
         NEW s, s = Asking(t, n, v)
  PROVE  /\ s \in State /\ SameMemory(m, s) /\ SameOthers(m, s, t)
         /\ s.runq = m.runq /\ s.waitq = m.waitq
         /\ Asks(m.thr[t], s.thr[t], n)
<1>1. m.thr \in [Thread -> ThreadRec] /\ m.thr[t] \in ThreadRec
  BY TypesOf
<1>2. PICK x : x = [m.thr[t] EXCEPT !.page = n, !.store = v]
  OBVIOUS
<1>3. x \in ThreadRec /\ Asks(m.thr[t], x, n)
  BY <1>1, <1>2 DEF ThreadRec, Asks
<1>4. PICK w : w = [m.thr EXCEPT ![t] = x]
  OBVIOUS
<1>5. w \in [Thread -> ThreadRec] /\ w[t] = x /\ \A u \in Thread : u # t => w[u] = m.thr[u]
  BY <1>1, <1>3, <1>4
<1>6. s = [m EXCEPT !.thr = w]
  BY <1>1, <1>2, <1>4 DEF Asking, State, ThreadRec
<1>7. s \in State /\ s.thr = w /\ s.runq = m.runq /\ s.waitq = m.waitq
  BY <1>5, <1>6 DEF State
<1>8. SameMemory(m, s)
  BY <1>6 DEF State, SameMemory
<1> QED BY <1>3, <1>5, <1>7, <1>8 DEF SameOthers

LEMMA AskedKeeps ==
  ASSUME IInv, NEW t \in Thread, NEW n \in Page, NEW v \in Val \cup {NULL}, At(t, "user"),
         m.thr[t].has, NEW s, s = Asking(t, n, v)
  PROVE  /\ Mid(s, t) /\ Data(s, Others(t), {}) /\ s.thr[t].page = n /\ s.thr[t].has
         /\ s.frame = m.frame /\ \A u \in Others(t) : s.thr[u].pc # "put"
<1>1. m \in State /\ m.thr[t].pc = "user" /\ Mid(m, t) /\ Data(m, Others(t), {})
  BY Begins, DataBegins DEF IInv, At, Moving, Hand
<1>2. /\ s \in State /\ SameMemory(m, s) /\ SameOthers(m, s, t)
      /\ s.runq = m.runq /\ s.waitq = m.waitq
      /\ Asks(m.thr[t], s.thr[t], n)
  BY <1>1, Asked
<1>6. s.thr[t].pc = m.thr[t].pc /\ s.thr[t].has = m.thr[t].has /\ s.thr[t].has /\ s.thr[t].page = n
  BY <1>2 DEF Asks
<1>3. Mid(s, t)
  <2>1. Rewrites(m, s, t)
    BY <1>2, <1>6 DEF Rewrites, SameMemory
  <2>2. IsInjective(s.alloc) /\ s.alloc = m.alloc
    BY <1>1, <1>2 DEF SameMemory, Mid, Sound, Lists
  <2> QED BY <1>1, <1>2, <2>1, <2>2, Rewritten
<1>4. Data(s, Others(t), {})
  <2>1. \A u \in Others(t) : u \in Thread /\ s.thr[u] = m.thr[u]
    BY <1>2 DEF SameOthers, Others
  <2>2. \A u \in Thread : u = t \/ u \in Others(t)
    BY DEF Others
  <2>3. InUse(s, Others(t)) => InUse(m, Others(t))
    BY <1>2, <1>6, <2>1, <2>2 DEF InUse, SameMemory, Others
  <2>4. \A f \in Frame : Unread(s, Others(t), {}, f) <=> Unread(m, Others(t), {}, f)
    BY <2>1 DEF Unread
  <2>5. s.frame = m.frame /\ s.disk = m.disk /\ s.last = m.last
    BY <1>2 DEF SameMemory
  <2> QED BY <1>1, <2>3, <2>4, <2>5, DataKept
<1>5. \A u \in Others(t) : s.thr[u].pc # "put"
  BY <1>6, <1>3, NoOtherPutter DEF Mid, Sound
<1> QED BY <1>2, <1>3, <1>4, <1>5, <1>6 DEF SameMemory

LEMMA FoundKeeps ==
  ASSUME NEW s, NEW t, Mid(s, t), Data(s, Others(t), {}), s.thr[t].page \in Page, s.thr[t].has,
         NEW f \in Frame, s.frame[f].page = s.thr[t].page,
         NEW r, r = GetResident([s EXCEPT !.alloc = Append(Without(@, f), f)], t, f)
  PROVE  Rests(r)
<1> DEFINE q == [s EXCEPT !.alloc = Append(Without(@, f), f)]
<1>1. s \in State /\ t \in Thread /\ Lists(s) /\ s.alloc \in Seq(Frame)
  BY HeadRuns, TypesOf DEF Mid, Running, Sound
<1>2. s.frame[f].page # NULL
  BY PageCacheAssumption
<1>3. IsInjective(s.alloc) /\ Contains(s.alloc, f)
  BY <1>1, <1>2 DEF Lists
<1>4. PICK a : a = Without(s.alloc, f)
  OBVIOUS
<1>5. a \in Seq(Frame) /\ IsInjective(a) /\ \A x : Contains(a, x) <=> Contains(s.alloc, x) /\ x # f
  BY <1>1, <1>3, <1>4, Removed
<1>6. PICK b : b = Append(a, f)
  OBVIOUS
<1>7. b \in Seq(Frame) /\ IsInjective(b) /\ \A x : Contains(b, x) <=> Contains(s.alloc, x)
  BY <1>3, <1>5, <1>6, Appended
<1>8. q = [s EXCEPT !.alloc = b]
  BY <1>1, <1>4, <1>6 DEF State
<1> HIDE DEF q
<1>9. /\ q \in State /\ q.alloc = b
      /\ q.frame = s.frame /\ q.res = s.res /\ q.core = s.core /\ q.busy = s.busy
      /\ q.ref = s.ref /\ q.linked = s.linked /\ q.disk = s.disk /\ q.last = s.last
      /\ q.thr = s.thr /\ q.runq = s.runq /\ q.waitq = s.waitq /\ q.crash = s.crash
  BY <1>1, <1>7, <1>8 DEF State
<1>10. Mid(q, t)
  <2>1. Rewrites(s, q, t)
    BY <1>9 DEF Rewrites, SameOthers
  <2> QED BY <1>7, <1>9, <2>1, Rewritten
<1>11. Data(q, Others(t), {})
  <2>1. InUse(q, Others(t)) <=> InUse(s, Others(t))
    BY <1>9 DEF InUse
  <2>2. \A g \in Frame : Unread(q, Others(t), {}, g) <=> Unread(s, Others(t), {}, g)
    BY <1>9 DEF Unread
  <2> QED BY <1>9, <2>1, <2>2, DataKept
<1>12. r = GetResident(q, t, f)
  BY DEF q
<1> QED BY <1>9, <1>10, <1>11, <1>12, GetResidentKeeps

\* pframe_alloc.
Allocated(s, r, f, n) ==
  /\ r.frame[f].page = n /\ r.frame[f].busy
  /\ \A g \in Frame : g # f => r.frame[g] = s.frame[g]
  /\ IsInjective(r.alloc) /\ \A x : Contains(r.alloc, x) <=> Contains(s.alloc, x) \/ x = f
  /\ IsInjective(r.res) /\ \A x : Contains(r.res, x) <=> Contains(s.res, x) \/ x = f
  /\ Len(r.res) = Len(s.res) + 1 /\ r.ref = s.ref + 1
  /\ r.core = s.core /\ r.busy = s.busy /\ r.linked = s.linked
  /\ r.disk = s.disk /\ r.last = s.last
  /\ r.thr = s.thr /\ r.runq = s.runq /\ r.waitq = s.waitq /\ r.crash = s.crash

LEMMA FieldsOfAlloc ==
  ASSUME NEW s \in State, NEW f \in Frame, NEW n \in Page, Lists(s), s.frame[f].page = NULL,
         NEW r, r = pframe_alloc(s, f, n)
  PROVE  r \in State /\ Allocated(s, r, f, n)
<1>1. /\ s.alloc \in Seq(Frame) /\ s.res \in Seq(Frame) /\ s.ref \in Nat
      /\ s.frame \in [Frame -> FrameRec]
  BY TypesOf
<1>2. /\ IsInjective(s.alloc) /\ IsInjective(s.res)
      /\ ~Contains(s.alloc, f) /\ ~Contains(s.res, f)
  BY DEF Lists
<1>3. PICK a : a = Append(s.alloc, f)
  OBVIOUS
<1>4. a \in Seq(Frame) /\ IsInjective(a) /\ \A x : Contains(a, x) <=> Contains(s.alloc, x) \/ x = f
  BY <1>1, <1>2, <1>3, Appended
<1>5. PICK b : b = <<f>> \o s.res
  OBVIOUS
<1>6. /\ b \in Seq(Frame) /\ IsInjective(b) /\ Len(b) = Len(s.res) + 1
      /\ \A x : Contains(b, x) <=> Contains(s.res, x) \/ x = f
  BY <1>1, <1>2, <1>5, Prefixed
<1>7. PICK x : x = [page |-> n, busy |-> TRUE, dirty |-> FALSE, refused |-> FALSE, val |-> Zero]
  OBVIOUS
<1>8. x \in FrameRec /\ x.page = n /\ x.busy
  BY <1>7, PageCacheAssumption DEF FrameRec
<1>9. PICK w : w = [s.frame EXCEPT ![f] = x]
  OBVIOUS
<1>10. w \in [Frame -> FrameRec] /\ w[f] = x /\ \A g \in Frame : g # f => w[g] = s.frame[g]
  BY <1>1, <1>8, <1>9
<1>11. r = [s EXCEPT !.frame = w, !.alloc = a, !.res = b, !.ref = s.ref + 1]
  BY <1>3, <1>5, <1>7, <1>9 DEF pframe_alloc, State
<1>12. s.ref + 1 \in Nat
  BY <1>1
<1>13. /\ r \in State /\ r.frame = w /\ r.alloc = a /\ r.res = b /\ r.ref = s.ref + 1
       /\ r.core = s.core /\ r.busy = s.busy /\ r.linked = s.linked
       /\ r.disk = s.disk /\ r.last = s.last
       /\ r.thr = s.thr /\ r.runq = s.runq /\ r.waitq = s.waitq /\ r.crash = s.crash
  <2>1. r \in State
    BY <1>4, <1>6, <1>10, <1>11, <1>12 DEF State
  <2>2. /\ r.frame = w /\ r.alloc = a /\ r.res = b /\ r.ref = s.ref + 1
        /\ r.core = s.core /\ r.busy = s.busy /\ r.linked = s.linked
        /\ r.disk = s.disk /\ r.last = s.last
        /\ r.thr = s.thr /\ r.runq = s.runq /\ r.waitq = s.waitq /\ r.crash = s.crash
    BY <1>11 DEF State
  <2> QED BY <2>1, <2>2
<1> QED BY <1>4, <1>6, <1>8, <1>10, <1>13 DEF Allocated

LEMMA MissedKeeps ==
  ASSUME NEW s, NEW t, Mid(s, t), Data(s, Others(t), {}), NEW n \in Page, s.thr[t].page = n,
         s.thr[t].has, Resident(s, n) = {}, NEW f \in Frame, s.frame[f].page = NULL,
         NEW r, r = ForDisk(pframe_alloc(s, f, n), t, "filling", f)
  PROVE  Rests(r)
<1>1. PICK q : q = pframe_alloc(s, f, n)
  OBVIOUS
<1>2. s \in State /\ t \in Thread /\ Sound(s, Others(t)) /\ Running(s, t) /\ s.crash = NoCrash
  BY HeadRuns DEF Mid, Running
<1>3. /\ q \in State
      /\ q.frame[f].page = n /\ q.frame[f].busy
      /\ \A g \in Frame : g # f => q.frame[g] = s.frame[g]
      /\ IsInjective(q.alloc) /\ \A x : Contains(q.alloc, x) <=> Contains(s.alloc, x) \/ x = f
      /\ IsInjective(q.res) /\ \A x : Contains(q.res, x) <=> Contains(s.res, x) \/ x = f
      /\ Len(q.res) = Len(s.res) + 1 /\ q.ref = s.ref + 1
      /\ q.core = s.core /\ q.busy = s.busy /\ q.linked = s.linked
      /\ q.disk = s.disk /\ q.last = s.last
      /\ q.thr = s.thr /\ q.runq = s.runq /\ q.waitq = s.waitq /\ q.crash = s.crash
  <2>1. Lists(s)
    BY <1>2 DEF Sound
  <2>2. q \in State /\ Allocated(s, q, f, n)
    BY <1>1, <1>2, <2>1, FieldsOfAlloc
  <2> QED BY <2>2 DEF Allocated
<1>4. n # NULL /\ \A g \in Frame : s.frame[g].page # n
  BY PageCacheAssumption DEF Resident
<1>5. Idle(s, t, f)
  BY <1>2 DEF Sound, Workers, Idle
<1>6. Mid(q, t)
  <2>1. Queues(q, Others(t)) /\ Movers(q, Others(t)) /\ InTurn(q, Others(t))
    BY <1>2, <1>3 DEF Sound, Queues, Movers, InTurn
  <2>2. Workers(q, Others(t))
    <3>1. Workers(s, Others(t))
      BY <1>2 DEF Sound
    <3>2. ASSUME NEW u \in Others(t), q.thr[u].pc \in Working
          PROVE  /\ q.thr[u].f \in Frame
                 /\ q.frame[q.thr[u].f].busy /\ q.frame[q.thr[u].f].page # NULL
                 /\ q.thr[u].pc # "cleaning" => q.frame[q.thr[u].f].page = q.thr[u].page
      BY <1>3, <1>5, <3>1, <3>2 DEF Workers, Idle
    <3> QED BY <1>3, <3>1, <3>2 DEF Workers
  <2>3. Lists(q)
    <3>1. Lists(s)
      BY <1>2 DEF Sound
    <3>2. \A g, h \in Frame : q.frame[g].page = q.frame[h].page /\ q.frame[g].page # NULL => g = h
      BY <1>3, <1>4, <3>1 DEF Lists
    <3>3. \A g \in Frame : /\ Contains(q.alloc, g) <=> q.frame[g].page # NULL
                           /\ Contains(q.res, g) <=> q.frame[g].page # NULL
      BY <1>3, <1>4, <3>1 DEF Lists
    <3> QED BY <1>3, <3>2, <3>3 DEF Lists
  <2>4. Counts(q)
    <3>1. Holders(q) = Holders(s) /\ t \in Holders(s)
      BY <1>2, <1>3 DEF Holders
    <3>2. Cardinality(Holders(s)) \in Nat
      BY PageCacheAssumption, FS_Subset, FS_CardinalityType DEF Holders
    <3>3. Counts(s) /\ s.ref \in Nat /\ Len(s.res) \in Nat
      BY <1>2, TypesOf, LenProperties DEF Sound
    <3> QED BY <1>3, <3>1, <3>2, <3>3 DEF Counts
  <2>5. Putters(q, Others(t))
    BY <1>2, <1>3, NoOtherPutter DEF Sound, Putters
  <2>6. Sleepers(q)
    <3>1. \A g \in Frame : s.frame[g].busy => q.frame[g].busy
      BY <1>3
    <3> QED BY <1>2, <1>3, <3>1 DEF Sound, Sleepers
  <2>7. Running(q, t) /\ q.crash = NoCrash
    BY <1>2, <1>3 DEF Running
  <2> QED BY <2>1, <2>2, <2>3, <2>4, <2>5, <2>6, <2>7 DEF Mid, Sound
<1>7. Data(q, Others(t), {f})
  <2>1. OtherThreads(s, q, t)
    BY <1>3 DEF OtherThreads, SameOthers
  <2>2. OtherPages(s, q, f, n)
    BY <1>3, <1>4 DEF OtherPages
  <2>3. Idle(q, t, f)
    BY <1>3, <1>5 DEF Idle
  <2>4. InUse(s, Others(t)) => s.disk[n] = s.last[n]
    BY DEF Data, Right
  <2>5. InUse(s, Others(t)) => RightAt(q, t, f, n, {f})
    BY <1>3, <2>3, <2>4 DEF RightAt
  <2> QED BY <2>1, <2>2, <2>5, DataExcept
<1>8. r = ForDisk(q, t, "filling", f) /\ "filling" \in Pcs /\ f \in Place /\ q.runq # <<>>
  BY <1>1, <1>6 DEF Pcs, Disk, Place, Mid, Running
<1>9. SameMemory(q, r) /\ SameOthers(q, r, t) /\ Comes(q.thr[t], r.thr[t], "filling", f)
  BY <1>2, <1>3, <1>8, FieldsOfForDisk
<1>10. Fits(r, t)
  <2>1. /\ r.thr[t].pc = "filling" /\ r.thr[t].f = f /\ r.thr[t].has /\ r.thr[t].page = n
        /\ r.frame[f] = q.frame[f]
    BY <1>3, <1>9 DEF Comes, SameMemory
  <2>2. \A u \in Others(t) : r.thr[u] = s.thr[u]
    BY <1>3, <1>9 DEF SameOthers, Others
  <2> QED BY <1>3, <1>4, <1>5, <2>1, <2>2 DEF Fits, Moving, Idle
<1>11. Hand(r, t) = {f}
  BY <1>9 DEF Hand, Comes
<1> QED BY <1>6, <1>7, <1>8, <1>10, <1>11, WaitsForDisk

LEMMA GetKeeps ==
  ASSUME IInv, NEW t \in Thread, NEW n \in Page, NEW v \in Val \cup {NULL}, pframe_get(t, n, v)
  PROVE  Rests(m')
<1>1. PICK s : s = Asking(t, n, v)
  OBVIOUS
<1>2. /\ At(t, "user") /\ m.thr[t].has
      /\ \/ \E f \in Resident(m, n) :
              m' = GetResident([s EXCEPT !.alloc = Append(Without(@, f), f)], t, f)
         \/ /\ Resident(m, n) = {}
            /\ \E f \in Resident(m, NULL) :
                 m' = ForDisk(pframe_alloc(s, f, n), t, "filling", f)
  BY <1>1 DEF pframe_get, Asking
<1>3. /\ Mid(s, t) /\ Data(s, Others(t), {}) /\ s.thr[t].page = n /\ s.thr[t].has
      /\ s.frame = m.frame
  BY <1>1, <1>2, AskedKeeps
<1>4. \A k : Resident(s, k) = Resident(m, k)
  BY <1>3 DEF Resident
<1>5. ASSUME NEW f \in Resident(m, n),
             m' = GetResident([s EXCEPT !.alloc = Append(Without(@, f), f)], t, f)
      PROVE  Rests(m')
  <2>1. f \in Frame /\ s.frame[f].page = n
    BY <1>4, <1>5 DEF Resident
  <2> QED BY <1>3, <1>5, <2>1, FoundKeeps
<1>6. ASSUME Resident(m, n) = {}, NEW f \in Resident(m, NULL),
             m' = ForDisk(pframe_alloc(s, f, n), t, "filling", f)
      PROVE  Rests(m')
  <2>1. f \in Frame /\ s.frame[f].page = NULL /\ Resident(s, n) = {}
    BY <1>4, <1>6 DEF Resident
  <2> QED BY <1>3, <1>6, <2>1, MissedKeeps
<1> QED BY <1>2, <1>5, <1>6

-----------------------------------------------------------------------------
(* The actions on the vnode.                                               *)

LEMMA HoldersCount ==
  ASSUME NEW s
  PROVE  /\ IsFiniteSet(Holders(s)) /\ Cardinality(Holders(s)) \in Nat
         /\ Cardinality(Holders(s)) = 0 <=> Holders(s) = {}
         /\ \A t \in Holders(s) :
              /\ Cardinality(Holders(s) \ {t}) = Cardinality(Holders(s)) - 1
              /\ Cardinality(Holders(s)) = 1 => Holders(s) = {t}
         /\ \A t : t \notin Holders(s) =>
              Cardinality(Holders(s) \cup {t}) = Cardinality(Holders(s)) + 1
<1>1. IsFiniteSet(Holders(s))
  BY PageCacheAssumption, FS_Subset DEF Holders
<1> DEFINE H == Holders(s)
<1> HIDE DEF H
<1>2. IsFiniteSet(H)
  BY <1>1 DEF H
<1>3. Cardinality(H) \in Nat /\ (Cardinality(H) = 0 <=> H = {})
  BY <1>2, FS_CardinalityType, FS_EmptySet
<1>4. ASSUME NEW t \in H
      PROVE  /\ Cardinality(H \ {t}) = Cardinality(H) - 1
             /\ Cardinality(H) = 1 => H = {t}
  <2>1. IsFiniteSet(H \ {t}) /\ Cardinality(H \ {t}) = Cardinality(H) - 1
    BY <1>2, FS_RemoveElement
  <2>2. Cardinality(H) = 1 => H \ {t} = {}
    BY <2>1, FS_EmptySet
  <2> QED BY <2>1, <2>2
<1>5. \A t : t \notin H => Cardinality(H \cup {t}) = Cardinality(H) + 1
  BY <1>2, FS_AddElement
<1> QED BY <1>1, <1>3, <1>4, <1>5 DEF H

\* A thread loses or gains its reference, and is otherwise where it was.
Held(x, y, has) ==
  /\ y.has = has /\ y.pc = x.pc /\ y.f = x.f
  /\ y.page = x.page /\ y.store = x.store /\ y.rest = x.rest

\* All is the same but the state of the vnode.
OnlyVnode(s, r) ==
  /\ r.frame = s.frame /\ r.alloc = s.alloc /\ r.res = s.res /\ r.linked = s.linked
  /\ r.disk = s.disk /\ r.last = s.last
  /\ r.runq = s.runq /\ r.waitq = s.waitq /\ r.crash = s.crash

WithVnode(s, t, core, busy, ref, has) ==
  [s EXCEPT !.core = core, !.busy = busy, !.ref = ref, !.thr[t].has = has]

LEMMA FieldsOfVnode ==
  ASSUME NEW s \in State, NEW t \in Thread, NEW core \in BOOLEAN, NEW busy \in BOOLEAN,
         NEW ref \in Nat, NEW has \in BOOLEAN, NEW r,
         r = WithVnode(s, t, core, busy, ref, has)
  PROVE  /\ r \in State /\ OnlyVnode(s, r) /\ SameOthers(s, r, t)
         /\ r.core = core /\ r.busy = busy /\ r.ref = ref
         /\ Held(s.thr[t], r.thr[t], has)
         /\ Holders(r) = IF has THEN Holders(s) \cup {t} ELSE Holders(s) \ {t}
<1>1. s.thr \in [Thread -> ThreadRec] /\ s.thr[t] \in ThreadRec
  BY TypesOf
<1>2. PICK x : x = [s.thr[t] EXCEPT !.has = has]
  OBVIOUS
<1>3. x \in ThreadRec /\ Held(s.thr[t], x, has)
  BY <1>1, <1>2 DEF ThreadRec, Held
<1>4. PICK w : w = [s.thr EXCEPT ![t] = x]
  OBVIOUS
<1>5. w \in [Thread -> ThreadRec] /\ w[t] = x /\ \A u \in Thread : u # t => w[u] = s.thr[u]
  BY <1>1, <1>3, <1>4
<1>6. r = [s EXCEPT !.core = core, !.busy = busy, !.ref = ref, !.thr = w]
  BY <1>1, <1>2, <1>4 DEF WithVnode, State
<1>7. /\ r \in State /\ r.thr = w /\ r.core = core /\ r.busy = busy /\ r.ref = ref
  BY <1>5, <1>6 DEF State
<1>8. OnlyVnode(s, r)
  BY <1>6 DEF State, OnlyVnode
<1>9. \A u \in Thread : r.thr[u].has <=> IF u = t THEN has ELSE s.thr[u].has
  BY <1>3, <1>5, <1>7 DEF Held
<1>10. Holders(r) = IF has THEN Holders(s) \cup {t} ELSE Holders(s) \ {t}
  BY <1>9 DEF Holders
<1> QED BY <1>3, <1>5, <1>7, <1>8, <1>10 DEF SameOthers

LeavesCPU(s, r, t) == SameOthers(s, r, t) /\ r.runq = Tail(s.runq) /\ r.waitq = s.waitq

LEMMA LeavesQueue ==
  ASSUME NEW s, NEW t, Running(s, t), Queues(s, Others(t)), NEW r, LeavesCPU(s, r, t)
  PROVE  Queues(r, Thread) /\ \A x : Contains(r.runq, x) <=> Contains(s.runq, x) /\ x # t
<1>1. s.runq \in Seq(Thread) /\ s.runq # <<>> /\ Head(s.runq) = t /\ IsInjective(s.runq)
  BY HeadRuns DEF Running, Queues
<1>2. IsInjective(r.runq) /\ \A x : Contains(r.runq, x) <=> Contains(s.runq, x) /\ x # t
  BY <1>1, Shortened DEF LeavesCPU
<1> QED BY <1>2 DEF LeavesCPU, Queues, SameOthers, Others

\* While the vnode is in core and nobody reads or deletes it, nobody who waited for
\* it is about to run.
LEMMA NoTurn ==
  ASSUME IInv, m.core, ~m.busy
  PROVE  \A u \in Thread : Contains(m.runq, u) => m.thr[u].pc # "vget"
<1> SUFFICES ASSUME NEW u \in Thread, Contains(m.runq, u), m.thr[u].pc = "vget" PROVE FALSE
  OBVIOUS
<1>1. InTurn(m, Thread) /\ Movers(m, Thread) /\ m.runq \in Seq(Thread)
  BY TypesOf DEF IInv, Sound
<1>2. PICK i \in DOMAIN m.runq : m.runq[i] = u
  BY <1>1, Listed DEF Contains
<1>3. PICK v \in Thread : m.thr[v].pc = "reading"
  BY <1>1, <1>2 DEF InTurn
<1> QED BY <1>1, <1>3 DEF Movers, Moving

\* Nobody comes to reach the file when a thread drops its reference.
LEMMA DroppedData ==
  ASSUME IInv, NEW t \in Thread, m.thr[t].pc \in {"user", "put", "deleting"}, NEW u, NEW W,
         W = Thread \/ W = Others(t),
         SameOthers(m, u, t), ~u.thr[t].has, u.thr[t].pc # "filling",
         u.frame = m.frame, u.linked = m.linked, u.disk = m.disk, u.last = m.last
  PROVE  Data(u, W, {})
<1>1. \A v \in Others(t) : v \in Thread /\ u.thr[v] = m.thr[v]
  BY DEF SameOthers, Others
<1>2. \A v \in Thread : v = t \/ v \in Others(t)
  BY DEF Others
<1>3. Data(m, Thread, {})
  BY DEF IInv
<1>4. InUse(u, W) => InUse(m, Thread)
  BY <1>1, <1>2 DEF InUse
<1>5. ASSUME NEW f \in Frame
      PROVE  Unread(u, W, {}, f) <=> Unread(m, Thread, {}, f)
  BY <1>1, <1>2 DEF Unread
<1> QED BY <1>3, <1>4, <1>5, DataKept

\* The first step of Drop.
Dropped(t) == [m EXCEPT !.ref = @ - 1, !.thr[t].has = FALSE]
Drops(t, u) ==
  /\ u \in State /\ OnlyVnode(m, u) /\ SameOthers(m, u, t)
  /\ u.core /\ ~u.busy /\ u.ref = m.ref - 1
  /\ ~u.thr[t].has /\ u.thr[t].pc = m.thr[t].pc /\ Holders(u) = Holders(m) \ {t}

LEMMA FieldsOfDropped ==
  ASSUME IInv, NEW t \in Holders(m)
  PROVE  /\ Drops(t, Dropped(t)) /\ m.core /\ ~m.busy
         /\ m.ref = Len(m.res) + Cardinality(Holders(m))
         /\ m.ref \in Nat /\ Len(m.res) \in Nat
         /\ Cardinality(Holders(m)) \in Nat /\ Cardinality(Holders(m)) > 0
<1>1. m \in State /\ Counts(m) /\ t \in Thread
  BY DEF IInv, Sound, Holders
<1>2. m.ref \in Nat /\ Len(m.res) \in Nat /\ m.core \in BOOLEAN /\ m.busy \in BOOLEAN
  BY <1>1, TypesOf, LenProperties
<1>3. Cardinality(Holders(m)) \in Nat /\ Cardinality(Holders(m)) > 0
  BY HoldersCount
<1>4. m.core /\ ~m.busy /\ m.ref = Len(m.res) + Cardinality(Holders(m))
  BY <1>1 DEF Counts
<1>5. PICK n : n = m.ref - 1
  OBVIOUS
<1>6. n \in Nat
  BY <1>2, <1>3, <1>4, <1>5
<1>7. PICK u : u = WithVnode(m, t, m.core, m.busy, n, FALSE)
  OBVIOUS
<1>8. Dropped(t) = u
  BY <1>1, <1>5, <1>7 DEF Dropped, WithVnode, State
<1>9. /\ u \in State /\ OnlyVnode(m, u) /\ SameOthers(m, u, t)
      /\ u.core = m.core /\ u.busy = m.busy /\ u.ref = n
      /\ Held(m.thr[t], u.thr[t], FALSE)
      /\ Holders(u) = Holders(m) \ {t}
  <2>1. PICK h \in BOOLEAN, c \in BOOLEAN, b \in BOOLEAN : h = FALSE /\ c = m.core /\ b = m.busy
    BY <1>2
  <2>2. u = WithVnode(m, t, c, b, n, h)
    BY <1>7, <2>1
  <2>3. /\ u \in State /\ OnlyVnode(m, u) /\ SameOthers(m, u, t)
        /\ u.core = c /\ u.busy = b /\ u.ref = n
        /\ Held(m.thr[t], u.thr[t], h)
        /\ Holders(u) = IF h THEN Holders(m) \cup {t} ELSE Holders(m) \ {t}
    BY <1>1, <1>6, <2>2, FieldsOfVnode
  <2> QED BY <2>1, <2>3
<1>10. Drops(t, u)
  BY <1>4, <1>5, <1>9 DEF Drops, Held
<1> QED BY <1>2, <1>3, <1>4, <1>8, <1>10

LEMMA DropsOne ==
  ASSUME IInv, NEW t \in Thread, NEW pc \in {"user", "put"}, At(t, pc), t \in Holders(m),
         NEW u, Drops(t, u), u.ref > 0
  PROVE  Mid(u, t) /\ Data(u, Others(t), {})
<1>1. Mid(m, t) /\ m.thr[t].pc = pc /\ m \in State
  BY Begins DEF At, Moving, IInv
<1>3. /\ u \in State /\ OnlyVnode(m, u) /\ SameOthers(m, u, t)
      /\ u.core /\ ~u.busy /\ u.ref = m.ref - 1
      /\ ~u.thr[t].has /\ u.thr[t].pc = m.thr[t].pc
      /\ Holders(u) = Holders(m) \ {t}
  BY DEF Drops
<1>2. /\ m.core /\ ~m.busy /\ m.ref = Len(m.res) + Cardinality(Holders(m))
      /\ m.ref \in Nat /\ Len(m.res) \in Nat /\ Cardinality(Holders(m)) \in Nat
  BY FieldsOfDropped
<1>4. /\ u.frame = m.frame /\ u.alloc = m.alloc /\ u.res = m.res /\ u.linked = m.linked
      /\ u.disk = m.disk /\ u.last = m.last
      /\ u.runq = m.runq /\ u.waitq = m.waitq /\ u.crash = m.crash
  BY <1>3 DEF OnlyVnode
<1>5. \A v \in Others(t) : v \in Thread /\ u.thr[v] = m.thr[v]
  BY <1>3 DEF SameOthers, Others
<1>6. Sound(m, Others(t))
  BY <1>1 DEF Mid
<1>7. Queues(u, Others(t))
  BY <1>4, <1>5, <1>6 DEF Sound, Queues
<1>8. Workers(u, Others(t)) /\ Movers(u, Others(t)) /\ InTurn(u, Others(t))
  <2>1. Workers(u, Others(t))
    BY <1>4, <1>5, <1>6 DEF Sound, Workers
  <2>2. Movers(u, Others(t))
    BY <1>3, <1>4, <1>5, <1>6, <1>2 DEF Sound, Movers
  <2>3. InTurn(u, Others(t))
    BY <1>3, <1>4, <1>5, <1>6, <1>2 DEF Sound, InTurn
  <2> QED BY <2>1, <2>2, <2>3
<1>9. Lists(u) /\ Sleepers(u)
  BY <1>3, <1>4, <1>6, <1>2 DEF Sound, Lists, Sleepers
<1>10. Counts(u)
  <2>1. Cardinality(Holders(u)) = Cardinality(Holders(m)) - 1
    BY <1>3, HoldersCount
  <2> QED BY <1>2, <1>3, <1>4, <2>1 DEF Counts
<1>11. Putters(u, Others(t))
  <2>1. \A v \in Others(t) : m.thr[v].pc # "put"
    BY <1>6, NoOtherPutter DEF Sound, Holders
  <2> QED BY <1>5, <2>1 DEF Putters
<1>12. Running(u, t) /\ u.crash = NoCrash
  BY <1>1, <1>3, <1>4 DEF Mid, Running
<1>13. Mid(u, t)
  BY <1>7, <1>8, <1>9, <1>10, <1>11, <1>12 DEF Mid, Sound
<1>14. Data(u, Others(t), {})
  BY <1>1, <1>3, <1>4, DroppedData
<1> QED BY <1>13, <1>14

\* The last that has the vnode deletes it, or lets it be.
LEMMA DropsLast ==
  ASSUME IInv, NEW t \in Thread, NEW pc \in {"user", "put"}, At(t, pc), t \in Holders(m),
         NEW u, Drops(t, u), m.ref = 1,
         NEW r, r = ForDisk([u EXCEPT !.busy = TRUE], t, "deleting", NULL)
  PROVE  Rests(r)
<1>1. Running(m, t) /\ m.thr[t].pc = pc /\ m \in State /\ Sound(m, Thread)
  BY DEF At, IInv, Running
<1>2. m.core /\ ~m.busy /\ m.res = <<>> /\ Holders(m) = {t}
  <2>1. /\ m.core /\ ~m.busy /\ m.ref = Len(m.res) + Cardinality(Holders(m))
        /\ Len(m.res) \in Nat /\ Cardinality(Holders(m)) \in Nat /\ Cardinality(Holders(m)) > 0
    BY FieldsOfDropped
  <2>2. Len(m.res) = 0 /\ Cardinality(Holders(m)) = 1
    BY <2>1
  <2>3. m.res \in Seq(Frame)
    BY <1>1, TypesOf
  <2> QED BY <2>1, <2>2, <2>3, HoldersCount, EmptySeq
<1>3. /\ u \in State /\ OnlyVnode(m, u) /\ SameOthers(m, u, t)
      /\ u.core /\ ~u.busy /\ u.ref = 0 /\ ~u.thr[t].has
  BY DEF Drops
<1>4. PICK z : z = [u EXCEPT !.busy = TRUE]
  OBVIOUS
<1>5. /\ z \in State /\ z.busy /\ z.core /\ z.ref = 0 /\ z.thr = u.thr
      /\ z.frame = m.frame /\ z.alloc = m.alloc /\ z.res = m.res /\ z.linked = m.linked
      /\ z.disk = m.disk /\ z.last = m.last
      /\ z.runq = m.runq /\ z.waitq = m.waitq /\ z.crash = m.crash
  <2>1. /\ z \in State /\ z.busy /\ z.core = u.core /\ z.ref = u.ref /\ z.thr = u.thr
        /\ z.frame = u.frame /\ z.alloc = u.alloc /\ z.res = u.res /\ z.linked = u.linked
        /\ z.disk = u.disk /\ z.last = u.last
        /\ z.runq = u.runq /\ z.waitq = u.waitq /\ z.crash = u.crash
    BY <1>3, <1>4 DEF State
  <2> QED BY <1>3, <2>1 DEF OnlyVnode
<1>6. r = ForDisk(z, t, "deleting", NULL) /\ "deleting" \in Pcs /\ NULL \in Place
      /\ z.runq # <<>> /\ Tail(z.runq) = Tail(m.runq)
  BY <1>1, <1>4, <1>5 DEF Running, Pcs, Disk, Place
<1>7. /\ r \in State /\ SameMemory(z, r) /\ SameOthers(z, r, t)
      /\ r.runq = Tail(z.runq) /\ r.waitq = z.waitq
      /\ Comes(z.thr[t], r.thr[t], "deleting", NULL)
  BY <1>5, <1>6, FieldsOfForDisk
<1>8. /\ r.busy /\ r.core /\ r.ref = 0 /\ r.res = <<>>
      /\ r.frame = m.frame /\ r.alloc = m.alloc /\ r.linked = m.linked
      /\ r.disk = m.disk /\ r.last = m.last
  BY <1>2, <1>5, <1>7 DEF SameMemory
<1>9. SameOthers(m, r, t) /\ r.thr[t].pc = "deleting" /\ ~r.thr[t].has
  <2>1. SameOthers(m, r, t)
    BY <1>3, <1>5, <1>7 DEF SameOthers
  <2> QED BY <1>3, <1>5, <1>7, <2>1 DEF Comes
<1>10. \A v \in Thread : v = t \/ (v \in Others(t) /\ r.thr[v] = m.thr[v])
  BY <1>9 DEF SameOthers, Others
<1>11. Holders(r) = {}
  BY <1>2, <1>9, <1>10 DEF Holders, Others
<1>12. Queues(r, Thread) /\ \A x : Contains(r.runq, x) <=> Contains(m.runq, x) /\ x # t
  <2>1. Queues(m, Others(t))
    BY <1>1, Begins DEF Mid, Sound, Moving
  <2>2. Running(m, t) /\ LeavesCPU(m, r, t)
    BY <1>1, <1>5, <1>6, <1>7, <1>9 DEF LeavesCPU
  <2>3. Queues(r, Thread)
    BY <2>1, <2>2, LeavesQueue
  <2>4. \A x : Contains(r.runq, x) <=> Contains(m.runq, x) /\ x # t
    BY <2>1, <2>2, LeavesQueue
  <2> QED BY <2>3, <2>4
<1>13. Lists(r) /\ Counts(r)
  <2>1. Lists(r)
    <3>1. Lists(m) /\ r.res = m.res /\ r.alloc = m.alloc /\ r.frame = m.frame
      BY <1>1, <1>2, <1>8 DEF Sound
    <3> QED BY <3>1 DEF Lists
  <2> QED BY <1>8, <1>11, <2>1 DEF Counts
<1>14. \A f \in Frame : m.frame[f].page = NULL
  <2>1. \A f \in Frame : ~Contains(m.res, f)
    <3>1. m.res \in Seq(Frame)
      BY <1>1, TypesOf
    <3> QED BY <1>2, <3>1, Listed
  <2> QED BY <1>1, <2>1 DEF Sound, Lists
<1>15. Workers(r, Thread)
  <2>1. \A v \in Thread : r.thr[v].pc \notin Working \cup {"get"}
    <3>1. \A v \in Others(t) : m.thr[v].pc \notin Working \cup {"get"}
      <4>1. Workers(m, Thread) /\ \A v \in Others(t) : v \in Thread /\ v \notin Holders(m)
        BY <1>1, <1>2 DEF Sound, Others
      <4> QED BY <1>14, <4>1 DEF Workers, Working, Holders
    <3> QED BY <1>9, <1>10, <3>1 DEF Working
  <2> QED BY <2>1 DEF Workers, Working
<1>16. Movers(r, Thread)
  <2>1. \A v \in Others(t) : r.thr[v].pc \notin Moving
    BY <1>1, <1>2, <1>10 DEF Sound, Movers, Others
  <2>2. \A v \in Thread : r.thr[v].pc \in Moving <=> v = t
    BY <1>9, <1>10, <2>1 DEF Moving
  <2>3. \A v \in Thread : r.thr[v].pc = "reading" => v = t
    BY <2>2 DEF Moving
  <2>4. \A v \in Thread : r.thr[v].pc # "reading"
    BY <1>9, <2>3
  <2>5. \E v \in Thread : r.thr[v].pc \in Moving
    BY <2>2
  <2>6. r.busy
    BY <1>8
  <2> QED BY <2>2, <2>4, <2>5, <2>6 DEF Movers
<1>17. Putters(r, Thread)
  <2>1. \A v \in Others(t) : m.thr[v].pc # "put"
    BY <1>1, <1>2 DEF Sound, Putters, Others
  <2> QED BY <1>9, <1>10, <2>1 DEF Putters
<1>18. InTurn(r, Thread)
  <2> SUFFICES ASSUME NEW i \in DOMAIN r.runq, r.thr[r.runq[i]].pc = "vget" PROVE FALSE
    BY DEF InTurn
  <2>1. r.runq \in Seq(Thread)
    BY <1>7, TypesOf
  <2>2. Contains(r.runq, r.runq[i]) /\ r.runq[i] \in Thread
    BY <2>1, Listed
  <2>3. r.runq[i] # t /\ Contains(m.runq, r.runq[i])
    BY <1>12, <2>2
  <2> QED BY <1>2, <1>10, <2>2, <2>3, NoTurn
<1>19. Sleepers(r)
  <2>1. r.waitq = m.waitq
    BY <1>5, <1>7
  <2> QED BY <1>1, <1>8, <2>1 DEF Sound, Sleepers
<1>20. Data(r, Thread, {})
  BY <1>1, <1>8, <1>9, DroppedData
<1> QED BY <1>7, <1>12, <1>13, <1>15, <1>16, <1>17, <1>18, <1>19, <1>20 DEF Rests, Sound

LEMMA DropKeeps ==
  ASSUME IInv, NEW t \in Thread, NEW pc \in {"user", "put"}, At(t, pc), t \in Holders(m),
         m' = Drop(m, t)
  PROVE  Rests(m')
<1>1. PICK u : u = Dropped(t)
  OBVIOUS
<1>2. /\ Drops(t, u)
      /\ m.ref = Len(m.res) + Cardinality(Holders(m))
      /\ m.ref \in Nat /\ Len(m.res) \in Nat
      /\ Cardinality(Holders(m)) \in Nat /\ Cardinality(Holders(m)) > 0
  BY <1>1, FieldsOfDropped
<1>3. u.ref = m.ref - 1 /\ u.res = m.res
  BY <1>2 DEF Drops, OnlyVnode
<1>4. m' = IF u.ref > 0 THEN Goto(u, t, "user")
           ELSE IF u.res # <<>> THEN Crash(u, "vput_pages")
           ELSE ForDisk([u EXCEPT !.busy = TRUE], t, "deleting", NULL)
  BY <1>1 DEF Drop, Dropped
<1>5. CASE u.ref > 0
  <2>1. Mid(u, t) /\ Data(u, Others(t), {})
    BY <1>2, <1>5, DropsOne
  <2> QED BY <1>4, <1>5, <2>1, Returns
<1>6. CASE ~(u.ref > 0)
  <2>1. m.ref = 1 /\ Len(m.res) = 0
    BY <1>2, <1>3, <1>6
  <2>2. m.res = <<>>
    <3>1. m.res \in Seq(Frame)
      BY TypesOf DEF IInv
    <3> QED BY <2>1, <3>1, EmptySeq
  <2>3. m' = ForDisk([u EXCEPT !.busy = TRUE], t, "deleting", NULL)
    BY <1>3, <1>4, <1>6, <2>2
  <2> QED BY <1>2, <2>1, <2>3, DropsLast
<1> QED BY <1>5, <1>6

\* vput starts to take the pages away.
LEMMA PutKeeps ==
  ASSUME IInv, NEW t \in Thread, At(t, "user"), Holders(m) = {t}, ~m.linked,
         m' = [m EXCEPT !.thr[t].pc = "put", !.thr[t].rest = m.res]
  PROVE  Rests(m')
<1>1. Mid(m, t) /\ m \in State /\ m.thr[t].pc = "user"
  BY Begins DEF At, Moving, IInv
<1>2. m.thr \in [Thread -> ThreadRec] /\ m.thr[t] \in ThreadRec /\ m.res \in Seq(Frame)
  BY <1>1, TypesOf
<1>3. PICK x : x = [m.thr[t] EXCEPT !.pc = "put", !.rest = m.res]
  OBVIOUS
<1>4. x \in ThreadRec /\ x.pc = "put" /\ x.rest = m.res /\ x.has = m.thr[t].has
  BY <1>2, <1>3 DEF ThreadRec, Pcs
<1>5. PICK w : w = [m.thr EXCEPT ![t] = x]
  OBVIOUS
<1>6. w \in [Thread -> ThreadRec] /\ w[t] = x /\ \A u \in Thread : u # t => w[u] = m.thr[u]
  BY <1>2, <1>4, <1>5
<1>7. m' = [m EXCEPT !.thr = w]
  BY <1>1, <1>2, <1>3, <1>5 DEF State, ThreadRec
<1>8. m' \in State /\ m'.thr = w /\ m'.runq = m.runq /\ m'.waitq = m.waitq
  BY <1>1, <1>6, <1>7 DEF State
<1>9. SameMemory(m, m')
  BY <1>1, <1>7 DEF State, SameMemory
<1>10. SameOthers(m, m', t) /\ m'.thr[t] = x
  BY <1>6, <1>8 DEF SameOthers
<1>11. Holders(m') = {t}
  BY <1>4, <1>10 DEF Holders, SameOthers
<1>12. Fits(m', t)
  BY <1>4, <1>9, <1>10, <1>11 DEF Fits, Moving, Working, SameMemory
<1>13. /\ Workers(m', Thread) /\ Lists(m') /\ Counts(m') /\ Movers(m', Thread)
       /\ Putters(m', Thread)
  BY <1>1, <1>4, <1>8, <1>9, <1>10, <1>12, Settles
<1>14. InTurn(m', Thread)
  BY <1>1, <1>4, <1>8, <1>9, <1>10, TurnsKept
<1>15. Queues(m', Thread) /\ Sleepers(m')
  BY <1>1, <1>8, <1>9, <1>10 DEF Mid, Sound, Queues, Sleepers, SameMemory, SameOthers, Others
<1>16. Data(m', Thread, {})
  <2>1. ~InUse(m', Thread)
    BY <1>4, <1>9, <1>10, <1>11 DEF InUse, Holders, SameMemory
  <2> QED BY <2>1 DEF Data
<1> QED BY <1>8, <1>13, <1>14, <1>15, <1>16 DEF Rests, Sound

LEMMA VputKeeps ==
  ASSUME IInv, NEW t \in Thread, vput(t)
  PROVE  Rests(m')
<1>1. /\ At(t, "user") /\ t \in Holders(m)
      /\ m' = IF Len(m.res) >= m.ref \/ m.busy THEN Crash(m, "vput")
              ELSE IF Len(m.res) = m.ref - 1 /\ ~m.linked
                   THEN [m EXCEPT !.thr[t].pc = "put", !.thr[t].rest = m.res]
              ELSE Drop(m, t)
  BY DEF vput, Holders
<1>2. /\ ~m.busy /\ m.ref = Len(m.res) + Cardinality(Holders(m))
      /\ m.ref \in Nat /\ Len(m.res) \in Nat
      /\ Cardinality(Holders(m)) \in Nat /\ Cardinality(Holders(m)) > 0
  BY <1>1, FieldsOfDropped
<1>3. ~(Len(m.res) >= m.ref \/ m.busy)
  BY <1>2
<1>4. CASE Len(m.res) = m.ref - 1 /\ ~m.linked
  <2>1. Holders(m) = {t}
    <3>1. Cardinality(Holders(m)) = 1
      BY <1>2, <1>4
    <3> QED BY <1>1, <3>1, HoldersCount
  <2> QED BY <1>1, <1>3, <1>4, <2>1, PutKeeps
<1>5. CASE ~(Len(m.res) = m.ref - 1 /\ ~m.linked)
  BY <1>1, <1>3, <1>5, DropKeeps
<1> QED BY <1>4, <1>5

\* A round of vput's loop takes a page away.
LEMMA TakesPage ==
  ASSUME IInv, NEW t \in Thread, At(t, "put"), m.thr[t].rest # <<>>,
         ~m.frame[Head(m.thr[t].rest)].busy,
         LET rest == m.thr[t].rest
         IN  m' = [pframe_free(m, Head(rest)) EXCEPT !.thr[t].rest = Tail(rest)]
  PROVE  Rests(m')
<1> DEFINE f == Head(m.thr[t].rest)
<1>1. /\ Mid(m, t) /\ m \in State /\ m.thr[t].pc = "put"
      /\ ~m.linked /\ Holders(m) = {t} /\ m.thr[t].rest = m.res
  BY Begins DEF At, Moving, IInv, Sound, Putters
<1>2. m.res \in Seq(Frame) /\ m.res # <<>> /\ f = Head(m.res)
  BY <1>1, TypesOf
<1>3. f \in Frame /\ Contains(m.res, f) /\ Tail(m.res) \in Seq(Frame)
  BY <1>2, Shortened
<1>4. PICK q : q = pframe_free(m, f)
  OBVIOUS
<1>5. m' = [q EXCEPT !.thr[t].rest = Tail(m.res)]
  BY <1>1, <1>4
<1> HIDE DEF f
<1>6. m.frame[f].page # NULL /\ ~m.frame[f].busy
  BY <1>1, <1>3 DEF Mid, Sound, Lists, f
<1>7. Holders(m) # {} /\ \A u \in Others(t) : m.thr[u].pc # "put"
  <2>1. Putters(m, Thread)
    BY DEF IInv, Sound
  <2> QED BY <1>1, <2>1 DEF Putters, Others
<1>8. Mid(q, t)
  BY <1>1, <1>3, <1>4, <1>6, <1>7, Freed
<1>9. q \in State /\ Gone(m, q, f) /\ q.res = Tail(m.res)
  <2>1. Mid(m, t) /\ f \in Frame /\ ~m.frame[f].busy /\ m.frame[f].page # NULL /\ Holders(m) # {}
    BY <1>1, <1>3, <1>6, <1>7
  <2>2. q \in State /\ Gone(m, q, f) /\ (f = Head(m.res) => q.res = Tail(m.res))
    BY <1>4, <2>1, FieldsOfFree
  <2> QED BY <1>2, <2>2
<1>10. q.thr = m.thr /\ q.linked = m.linked
  BY <1>9 DEF Gone
<1>11. q.thr \in [Thread -> ThreadRec] /\ q.thr[t] \in ThreadRec
  BY <1>9, TypesOf
<1>12. PICK x : x = [q.thr[t] EXCEPT !.rest = Tail(m.res)]
  OBVIOUS
<1>13. x \in ThreadRec /\ x.pc = "put" /\ x.rest = q.res /\ x.has = q.thr[t].has
  BY <1>1, <1>3, <1>9, <1>10, <1>11, <1>12 DEF ThreadRec
<1>14. PICK w : w = [q.thr EXCEPT ![t] = x]
  OBVIOUS
<1>15. w \in [Thread -> ThreadRec] /\ w[t] = x /\ \A u \in Thread : u # t => w[u] = q.thr[u]
  BY <1>11, <1>13, <1>14
<1>16. m' = [q EXCEPT !.thr = w]
  BY <1>5, <1>9, <1>11, <1>12, <1>14 DEF State, ThreadRec
<1>17. m' \in State /\ m'.thr = w /\ m'.runq = q.runq /\ m'.waitq = q.waitq
  BY <1>9, <1>15, <1>16 DEF State
<1>18. SameMemory(q, m')
  BY <1>9, <1>16 DEF State, SameMemory
<1>19. SameOthers(q, m', t) /\ m'.thr[t] = x
  BY <1>15, <1>17 DEF SameOthers
<1>20. Holders(m') = {t}
  <2>1. \A u \in Thread : m'.thr[u].has = m.thr[u].has
    BY <1>10, <1>13, <1>19 DEF SameOthers
  <2> QED BY <1>1, <2>1 DEF Holders
<1>21. ~m'.linked /\ m'.res = q.res
  BY <1>1, <1>10, <1>18 DEF SameMemory
<1>22. Fits(m', t)
  BY <1>13, <1>19, <1>20, <1>21 DEF Fits, Moving, Working
<1>23. m'.thr[t].has = q.thr[t].has /\ m'.thr[t].pc = "put"
  BY <1>13, <1>19
<1>24. /\ Workers(m', Thread) /\ Lists(m') /\ Counts(m') /\ Movers(m', Thread)
       /\ Putters(m', Thread)
  BY <1>8, <1>17, <1>18, <1>19, <1>22, <1>23, Settles
<1>25. InTurn(m', Thread)
  BY <1>8, <1>17, <1>18, <1>19, <1>23, TurnsKept
<1>26. Queues(m', Thread) /\ Sleepers(m')
  <2>1. \A u \in Others(t) : u \in Thread /\ m'.thr[u] = q.thr[u]
    BY <1>19 DEF SameOthers, Others
  <2>2. Queues(q, Others(t)) /\ Sleepers(q)
    BY <1>8 DEF Mid, Sound
  <2>3. Queues(m', Thread)
    BY <1>17, <2>1, <2>2 DEF Queues
  <2>4. Sleepers(m')
    <3>1. m'.frame = q.frame /\ m'.core = q.core
      BY <1>18 DEF SameMemory
    <3> QED BY <1>17, <2>2, <3>1 DEF Sleepers
  <2> QED BY <2>3, <2>4
<1>27. Data(m', Thread, {})
  <2>1. ~InUse(m', Thread)
    BY <1>20, <1>21, <1>23 DEF InUse, Holders
  <2> QED BY <2>1 DEF Data
<1> QED BY <1>17, <1>24, <1>25, <1>26, <1>27 DEF Rests, Sound

LEMMA UncacheKeeps ==
  ASSUME IInv, NEW t \in Thread, Uncache(t)
  PROVE  Rests(m')
<1> DEFINE rest == m.thr[t].rest
           f == Head(rest)
<1>1. /\ At(t, "put")
      /\ m' = IF rest = <<>>
              THEN IF m.res # <<>> \/ m.ref # 1 THEN Crash(m, "vput_counts") ELSE Drop(m, t)
              ELSE IF m.frame[f].busy THEN SleepOn(m, t, "put", f)
              ELSE [pframe_free(m, f) EXCEPT !.thr[t].rest = Tail(rest)]
  BY DEF Uncache
<1>2. /\ Mid(m, t) /\ m \in State /\ m.thr[t].pc = "put"
      /\ ~m.linked /\ Holders(m) = {t} /\ rest = m.res
  BY <1>1, Begins DEF At, Moving, IInv, Sound, Putters
<1>3. CASE rest = <<>>
  <2>1. /\ m.ref = Len(m.res) + Cardinality(Holders(m))
        /\ Len(m.res) = 0 /\ Cardinality(Holders(m)) = 1
    <3>1. m.ref = Len(m.res) + Cardinality(Holders(m))
      BY <1>2, FieldsOfDropped
    <3>2. Cardinality(Holders(m)) = 1
      BY <1>2, FS_Singleton
    <3>3. m.res = <<>> /\ m.res \in Seq(Frame)
      BY <1>2, <1>3, TypesOf
    <3>4. Len(m.res) = 0
      BY <3>3, EmptySeq
    <3> QED BY <3>1, <3>2, <3>4
  <2>2. m' = Drop(m, t)
    BY <1>1, <1>2, <1>3, <2>1
  <2> QED BY <1>1, <1>2, <2>2, DropKeeps
<1>4. CASE rest # <<>> /\ ~m.frame[f].busy
  BY <1>1, <1>4, TakesPage
<1>5. CASE rest # <<>> /\ m.frame[f].busy
  <2>1. m' = SleepOn(m, t, "put", f)
    BY <1>1, <1>5
  <2>2. f \in Frame
    <3>1. rest \in Seq(Frame)
      BY <1>2, TypesOf
    <3> QED BY <1>5, <3>1, Shortened
  <2>3. m.frame[f].busy
    BY <1>5
  <2> HIDE DEF f
  <2>4. f \in Place /\ f # NULL /\ "put" \in Sleeps(f) /\ "put" \in Pcs
    BY <2>2, PageCacheAssumption DEF Place, Sleeps, Pcs
  <2>5. m.runq # <<>>
    BY <1>2 DEF Mid, Running
  <2>6. SameMemory(m, m') /\ SameOthers(m, m', t) /\ Comes(m.thr[t], m'.thr[t], "put", f)
    BY <1>2, <2>1, <2>4, <2>5, FieldsOfSleepOn
  <2>7. m'.thr[t].pc = "put" /\ m'.thr[t].rest = m'.res /\ ~m'.linked
    BY <1>2, <2>6 DEF Comes, SameMemory
  <2>8. Holders(m') = {t}
    <3>1. \A u \in Thread : m'.thr[u].has = m.thr[u].has
      BY <2>6 DEF SameOthers, Comes
    <3> QED BY <1>2, <3>1 DEF Holders
  <2>9. Fits(m', t)
    BY <2>7, <2>8 DEF Fits, Moving, Working
  <2>10. m' \in State /\ Sound(m', Thread)
    BY <1>2, <2>1, <2>3, <2>4, <2>9, SleepsOn
  <2>11. Data(m', Thread, {})
    <3>1. ~InUse(m', Thread)
      BY <2>7, <2>8 DEF InUse, Holders
    <3> QED BY <3>1 DEF Data
  <2> QED BY <2>10, <2>11 DEF Rests
<1> QED BY <1>3, <1>4, <1>5

\* vget finds the vnode, and nobody reads or deletes it.
Gained(t) == [m EXCEPT !.ref = @ + 1, !.thr[t].has = TRUE]

LEMMA FoundVnode ==
  ASSUME IInv, NEW t \in Thread, At(t, "user"), t \notin Holders(m), m.linked, m.core, ~m.busy,
         m' = Goto(Gained(t), t, "user")
  PROVE  Rests(m')
<1>1. Mid(m, t) /\ m \in State /\ m.thr[t].pc = "user" /\ Data(m, Others(t), {})
  BY Begins, DataBegins DEF At, Moving, IInv, Hand
<1>2. Sound(m, Others(t)) /\ m.ref \in Nat /\ Len(m.res) \in Nat
  BY <1>1, TypesOf, LenProperties DEF Mid
<1>3. PICK n \in Nat : n = m.ref + 1
  BY <1>2
<1>4. PICK c \in BOOLEAN, b \in BOOLEAN, h \in BOOLEAN : c = m.core /\ b = m.busy /\ h = TRUE
  BY <1>1, TypesOf
<1>5. PICK u : u = WithVnode(m, t, c, b, n, h)
  OBVIOUS
<1>6. Gained(t) = u
  BY <1>1, <1>3, <1>4, <1>5 DEF Gained, WithVnode, State
<1>7. /\ u \in State /\ OnlyVnode(m, u) /\ SameOthers(m, u, t)
      /\ u.core = c /\ u.busy = b /\ u.ref = n
      /\ Holders(u) = IF h THEN Holders(m) \cup {t} ELSE Holders(m) \ {t}
  BY <1>1, <1>5, FieldsOfVnode
<1>8. u.core /\ ~u.busy /\ u.ref = m.ref + 1 /\ Holders(u) = Holders(m) \cup {t}
  BY <1>3, <1>4, <1>7
<1>9. /\ u.frame = m.frame /\ u.alloc = m.alloc /\ u.res = m.res /\ u.linked
      /\ u.disk = m.disk /\ u.last = m.last
      /\ u.runq = m.runq /\ u.waitq = m.waitq /\ u.crash = m.crash
  BY <1>7 DEF OnlyVnode
<1>10. \A v \in Others(t) : v \in Thread /\ u.thr[v] = m.thr[v]
  BY <1>7 DEF SameOthers, Others
<1>11. \A v \in Others(t) : m.thr[v].pc \notin Moving /\ m.thr[v].pc # "put"
  <2>1. \A v \in Others(t) : m.thr[v].pc \notin Moving
    BY <1>2 DEF Sound, Movers
  <2>2. \A v \in Others(t) : m.thr[v].pc # "put"
    BY <1>2 DEF Sound, Putters
  <2> QED BY <2>1, <2>2
<1>12. Queues(u, Others(t))
  BY <1>2, <1>9, <1>10 DEF Sound, Queues
<1>13. Workers(u, Others(t))
  BY <1>2, <1>9, <1>10 DEF Sound, Workers
<1>14. Movers(u, Others(t)) /\ Putters(u, Others(t))
  BY <1>8, <1>10, <1>11 DEF Movers, Putters, Moving
<1>15. InTurn(u, Others(t))
  <2>1. m.runq \in Seq(Thread) /\ InTurn(m, Others(t))
    BY <1>1, <1>2, TypesOf DEF Sound
  <2> QED BY <1>9, <1>10, <2>1 DEF InTurn
<1>16. Lists(u)
  BY <1>2, <1>9 DEF Sound, Lists
<1>17. Sleepers(u)
  BY <1>2, <1>8, <1>9 DEF Sound, Sleepers
<1>18. Counts(u)
  <2>1. Cardinality(Holders(u)) = Cardinality(Holders(m)) + 1 /\ Cardinality(Holders(m)) \in Nat
    BY <1>8, HoldersCount
  <2>2. m.ref = Len(m.res) + Cardinality(Holders(m))
    BY <1>2 DEF Sound, Counts
  <2> QED BY <1>2, <1>8, <1>9, <2>1, <2>2 DEF Counts
<1>19. Mid(u, t)
  <2>1. Running(u, t) /\ u.crash = NoCrash
    BY <1>1, <1>7, <1>9 DEF Mid, Running
  <2> QED BY <1>12, <1>13, <1>14, <1>15, <1>16, <1>17, <1>18, <2>1 DEF Mid, Sound
<1>20. Data(u, Others(t), {})
  <2>1. InUse(u, Others(t)) => InUse(m, Others(t))
    BY DEF InUse
  <2>2. \A f \in Frame : Unread(u, Others(t), {}, f) <=> Unread(m, Others(t), {}, f)
    BY <1>10 DEF Unread
  <2> QED BY <1>1, <1>9, <2>1, <2>2, DataKept
<1> QED BY <1>6, <1>19, <1>20, Returns

\* The vnode is not in core: vget reads it.
LEMMA ReadsVnode ==
  ASSUME IInv, NEW t \in Thread, NEW pc \in {"user", "vget"}, At(t, pc), m.linked, ~m.core,
         m' = ForDisk([m EXCEPT !.core = TRUE, !.busy = TRUE], t, "reading", NULL)
  PROVE  Rests(m')
<1>1. Mid(m, t) /\ m.thr[t].pc = pc /\ m \in State /\ Sound(m, Thread) /\ Running(m, t)
  BY Begins DEF At, Moving, IInv, Mid
<1>2. ~m.busy /\ m.ref = 0 /\ m.res = <<>> /\ Holders(m) = {}
  BY <1>1 DEF Sound, Counts
<1>3. PICK z : z = [m EXCEPT !.core = TRUE, !.busy = TRUE]
  OBVIOUS
<1>4. /\ z \in State /\ z.busy /\ z.core /\ z.ref = m.ref /\ z.thr = m.thr
      /\ z.frame = m.frame /\ z.alloc = m.alloc /\ z.res = m.res /\ z.linked = m.linked
      /\ z.disk = m.disk /\ z.last = m.last
      /\ z.runq = m.runq /\ z.waitq = m.waitq /\ z.crash = m.crash
  BY <1>1, <1>3 DEF State
<1>5. m' = ForDisk(z, t, "reading", NULL) /\ "reading" \in Pcs /\ NULL \in Place
      /\ z.runq # <<>> /\ Tail(z.runq) = Tail(m.runq)
  BY <1>1, <1>3, <1>4 DEF Running, Pcs, Disk, Place
<1>6. PICK r : r = m'
  OBVIOUS
<1>7. /\ r \in State /\ SameMemory(z, r) /\ SameOthers(z, r, t)
      /\ r.runq = Tail(z.runq) /\ r.waitq = z.waitq
      /\ Comes(z.thr[t], r.thr[t], "reading", NULL)
  BY <1>4, <1>5, <1>6, FieldsOfForDisk
<1>8. /\ r.busy /\ r.core /\ r.ref = m.ref /\ r.res = m.res
      /\ r.frame = m.frame /\ r.alloc = m.alloc /\ r.linked
      /\ r.disk = m.disk /\ r.last = m.last /\ r.waitq = m.waitq
  BY <1>4, <1>7 DEF SameMemory
<1>9. SameOthers(m, r, t) /\ LeavesCPU(m, r, t)
  BY <1>4, <1>5, <1>7 DEF SameOthers, LeavesCPU
<1>10. r.thr[t].pc = "reading" /\ r.thr[t].has = m.thr[t].has
  BY <1>4, <1>7 DEF Comes
<1>11. \A v \in Thread : v = t \/ (v \in Others(t) /\ r.thr[v] = m.thr[v])
  BY <1>9 DEF SameOthers, Others
<1>12. Holders(r) = {}
  <2>1. \A v \in Thread : r.thr[v].has = m.thr[v].has
    BY <1>10, <1>11
  <2> QED BY <1>2, <2>1 DEF Holders
<1>13. Queues(r, Thread) /\ \A x : Contains(r.runq, x) <=> Contains(m.runq, x) /\ x # t
  <2>1. Queues(m, Others(t))
    BY <1>1 DEF Mid, Sound
  <2> QED BY <1>1, <1>9, <2>1, LeavesQueue
<1>14. Lists(r)
  <2>1. Lists(m)
    BY <1>1 DEF Sound
  <2> QED BY <1>8, <2>1 DEF Lists
<1>15. Counts(r)
  BY <1>2, <1>8, <1>12 DEF Counts
<1>16. Workers(r, Thread)
  <2>1. Workers(m, Thread)
    BY <1>1 DEF Sound
  <2>2. r.thr[t].pc \notin Working \cup {"get"}
    BY <1>10 DEF Working
  <2>3. \A v \in Thread : r.thr[v].pc \in Working \cup {"get"} => r.thr[v] = m.thr[v]
    BY <1>11, <2>2
  <2>4. \A v \in Thread : r.thr[v].pc \in Working =>
          /\ r.thr[v].f \in Frame
          /\ r.frame[r.thr[v].f].busy /\ r.frame[r.thr[v].f].page # NULL
          /\ r.thr[v].pc # "cleaning" => r.frame[r.thr[v].f].page = r.thr[v].page
    BY <1>8, <2>1, <2>3 DEF Workers
  <2>5. \A v, w \in Thread : r.thr[v].pc \in Working /\ r.thr[w].pc \in Working
                              /\ r.thr[v].f = r.thr[w].f => v = w
    BY <2>1, <2>3 DEF Workers
  <2>6. \A v \in Thread : r.thr[v].pc \in {"filling", "dirtying", "get"} =>
          r.thr[v].has /\ r.thr[v].page \in Page /\ r.thr[v].f \in Frame
    BY <2>1, <2>3 DEF Workers, Working
  <2> QED BY <2>4, <2>5, <2>6 DEF Workers
<1>17. Movers(r, Thread)
  <2>1. \A v \in Others(t) : r.thr[v].pc \notin Moving
    BY <1>1, <1>2, <1>11 DEF Sound, Movers, Others
  <2> QED BY <1>8, <1>10, <1>11, <2>1 DEF Movers, Moving
<1>18. Putters(r, Thread)
  <2>1. \A v \in Others(t) : m.thr[v].pc # "put"
    BY <1>1, <1>2 DEF Sound, Putters, Others
  <2> QED BY <1>10, <1>11, <2>1 DEF Putters
<1>19. InTurn(r, Thread)
  <2> SUFFICES ASSUME NEW i \in DOMAIN r.runq PROVE \A j \in 1 .. i : r.runq[j] # t
    BY <1>10 DEF InTurn
  <2>1. r.runq \in Seq(Thread) /\ ~Contains(r.runq, t)
    BY <1>7, <1>13, TypesOf
  <2>2. DOMAIN r.runq = 1 .. Len(r.runq) /\ Len(r.runq) \in Nat
        /\ \A j \in 1 .. Len(r.runq) : r.runq[j] # t
    BY <2>1, Listed
  <2> QED BY <2>2
<1>20. Sleepers(r)
  BY <1>1, <1>8 DEF Sound, Sleepers
<1>21. Data(r, Thread, {})
  <2>1. Data(m, Thread, {})
    BY DEF IInv
  <2>2. InUse(r, Thread) => InUse(m, Thread)
    BY DEF InUse
  <2>3. \A f \in Frame : Unread(r, Thread, {}, f) <=> Unread(m, Thread, {}, f)
    BY <1>1, <1>10, <1>11 DEF Unread, Others
  <2> QED BY <1>8, <2>1, <2>2, <2>3, DataKept
<1> QED BY <1>6, <1>7, <1>13, <1>14, <1>15, <1>16, <1>17, <1>18, <1>19, <1>20, <1>21 DEF Rests, Sound

LEMMA FindKeeps ==
  ASSUME IInv, NEW t \in Thread, NEW pc \in {"user", "vget"}, At(t, pc),
         pc = "user" => t \notin Holders(m) /\ m.linked, m' = Find(m, t)
  PROVE  Rests(m')
<1>1. /\ Mid(m, t) /\ m.thr[t].pc = pc /\ m \in State /\ Data(m, Others(t), {})
      /\ m.crash = NoCrash
  BY Begins, DataBegins DEF At, Moving, IInv, Hand
<1>2. CASE m.core /\ m.busy
  <2>1. m' = SleepOn(m, t, "vget", NULL) /\ m.runq # <<>>
    BY <1>1, <1>2 DEF Find, Mid, Running
  <2>2. NULL \in Place /\ "vget" \in Sleeps(NULL) /\ "vget" \in Pcs
    BY DEF Place, Sleeps, Pcs
  <2>3. Comes(m.thr[t], m'.thr[t], "vget", NULL)
    BY <1>1, <2>1, <2>2, FieldsOfSleepOn
  <2>4. Fits(m', t)
    BY <2>3 DEF Fits, Comes, Moving, Working
  <2> QED BY <1>1, <1>2, <2>1, <2>2, <2>4, SleepsOn
<1>3. CASE m.core /\ ~m.busy
  <2>1. pc = "user"
    <3>1. Contains(m.runq, t)
      BY <1>1, HeadRuns DEF Mid
    <3> QED BY <1>1, <1>3, <3>1, NoTurn
  <2>2. m.ref > 0
    BY <1>1, <1>3 DEF Mid, Sound, Counts
  <2>3. m' = Goto(Gained(t), t, "user")
    BY <1>3, <2>2 DEF Find, Gained
  <2> QED BY <1>3, <2>1, <2>3, FoundVnode
<1>4. CASE ~m.core /\ ~m.linked
  <2>1. m' = Crash(m, "read_vnode")
    BY <1>4 DEF Find
  <2> QED BY <1>1, <2>1, Crashed
<1>5. CASE ~m.core /\ m.linked
  <2>1. m' = ForDisk([m EXCEPT !.core = TRUE, !.busy = TRUE], t, "reading", NULL)
    BY <1>5 DEF Find
  <2> QED BY <1>5, <2>1, ReadsVnode
<1> QED BY <1>2, <1>3, <1>4, <1>5

LEMMA VgetKeeps ==
  ASSUME IInv, NEW t \in Thread, vget(t) \/ VgetAgain(t)
  PROVE  Rests(m')
<1>1. CASE vget(t)
  BY <1>1, FindKeeps DEF vget, Holders
<1>2. CASE VgetAgain(t)
  BY <1>2, FindKeeps DEF VgetAgain
<1> QED BY <1>1, <1>2

\* A thread that has read or deleted the vnode starts to run.
LEMMA MoverBegins ==
  ASSUME IInv, NEW t \in Thread, NEW pc \in Moving, At(t, pc)
  PROVE  /\ Running(m, t) /\ m \in State /\ m.crash = NoCrash /\ m.thr[t].pc = pc
         /\ Queues(m, Others(t)) /\ Workers(m, Others(t)) /\ Lists(m)
         /\ m.busy /\ m.core /\ m.ref = 0 /\ m.res = <<>> /\ Holders(m) = {}
         /\ \A u \in Others(t) : m.thr[u].pc \notin Moving /\ m.thr[u].pc # "put"
         /\ pc = "reading" => m.linked
<1>1. Running(m, t) /\ m \in State /\ m.crash = NoCrash /\ m.thr[t].pc = pc /\ Sound(m, Thread)
  BY DEF At, Running, IInv
<1>2. Queues(m, Others(t))
  <2>1. Contains(m.runq, t) /\ Queues(m, Thread)
    BY <1>1, HeadRuns DEF Sound
  <2> QED BY <2>1 DEF Queues, Others
<1>3. Workers(m, Others(t))
  <2>1. Workers(m, Thread)
    BY <1>1 DEF Sound
  <2> QED BY <2>1 DEF Workers, Others
<1>4. m.busy /\ \A u \in Others(t) : m.thr[u].pc \notin Moving
  BY <1>1 DEF Sound, Movers, Others
<1>5. m.core /\ m.ref = 0 /\ m.res = <<>> /\ Holders(m) = {}
  BY <1>1, <1>4 DEF Sound, Counts
<1>6. \A u \in Others(t) : m.thr[u].pc # "put"
  BY <1>1, <1>5 DEF Sound, Putters, Others
<1>7. pc = "reading" => m.linked
  BY <1>1 DEF Sound, Movers
<1> QED BY <1>1, <1>2, <1>3, <1>4, <1>5, <1>6, <1>7 DEF Sound

LEMMA VgetDoneKeeps ==
  ASSUME IInv, NEW t \in Thread, VgetDone(t)
  PROVE  Rests(m')
<1>1. At(t, "reading") /\ "reading" \in Moving
      /\ m' = Goto([m EXCEPT !.busy = FALSE, !.ref = 1, !.thr[t].has = TRUE], t, "user")
  BY DEF VgetDone, Moving
<1>2. /\ Running(m, t) /\ m \in State /\ m.crash = NoCrash /\ m.thr[t].pc = "reading"
      /\ Queues(m, Others(t)) /\ Workers(m, Others(t)) /\ Lists(m)
      /\ m.busy /\ m.core /\ m.ref = 0 /\ m.res = <<>> /\ Holders(m) = {}
      /\ \A u \in Others(t) : m.thr[u].pc \notin Moving /\ m.thr[u].pc # "put"
      /\ m.linked
  BY <1>1, MoverBegins
<1>3. PICK n \in Nat : n = 1
  OBVIOUS
<1>4. PICK c \in BOOLEAN, b \in BOOLEAN, h \in BOOLEAN : c = m.core /\ b = FALSE /\ h = TRUE
  BY <1>2, TypesOf
<1>5. PICK u : u = WithVnode(m, t, c, b, n, h)
  OBVIOUS
<1>6. m' = Goto(u, t, "user")
  <2>1. [m EXCEPT !.busy = FALSE, !.ref = 1, !.thr[t].has = TRUE] = u
    BY <1>2, <1>3, <1>4, <1>5 DEF WithVnode, State
  <2> QED BY <1>1, <2>1
<1>7. /\ u \in State /\ OnlyVnode(m, u) /\ SameOthers(m, u, t)
      /\ u.core = c /\ u.busy = b /\ u.ref = n
      /\ Held(m.thr[t], u.thr[t], h)
      /\ Holders(u) = IF h THEN Holders(m) \cup {t} ELSE Holders(m) \ {t}
  <2>1. m \in State
    BY <1>2
  <2> QED BY <2>1, <1>5, FieldsOfVnode
<1>8. u.core /\ ~u.busy /\ u.ref = 1 /\ Holders(u) = {t}
  BY <1>2, <1>3, <1>4, <1>7
<1>9. /\ u.frame = m.frame /\ u.alloc = m.alloc /\ u.res = m.res /\ u.linked
      /\ u.disk = m.disk /\ u.last = m.last
      /\ u.runq = m.runq /\ u.waitq = m.waitq /\ u.crash = m.crash
  BY <1>2, <1>7 DEF OnlyVnode
<1>10. \A v \in Others(t) : v \in Thread /\ u.thr[v] = m.thr[v]
  BY <1>7 DEF SameOthers, Others
<1>11. Queues(u, Others(t)) /\ Workers(u, Others(t))
  <2>1. Queues(u, Others(t))
    BY <1>2, <1>9, <1>10 DEF Queues
  <2>2. Workers(u, Others(t))
    BY <1>2, <1>9, <1>10 DEF Workers
  <2> QED BY <2>1, <2>2
<1>12. Movers(u, Others(t)) /\ Putters(u, Others(t))
  BY <1>2, <1>8, <1>10 DEF Movers, Putters, Moving
<1>13. InTurn(u, Others(t))
  <2> SUFFICES ASSUME NEW i \in DOMAIN u.runq, u.runq[i] \in Others(t),
                      u.thr[u.runq[i]].pc = "vget"
               PROVE  FALSE
    BY DEF InTurn
  <2>1. m.thr[m.runq[i]].pc = "vget" /\ m.runq[i] \in Thread /\ i \in DOMAIN m.runq
    BY <1>9, <1>10
  <2>2. InTurn(m, Thread)
    BY DEF IInv, Sound
  <2>3. PICK v \in Thread : m.thr[v].pc = "reading" /\ \A j \in 1 .. i : m.runq[j] # v
    BY <1>2, <2>1, <2>2 DEF InTurn
  <2>4. v = t
    BY <1>2, <2>3 DEF Moving, Others
  <2>5. m.runq[1] = t /\ 1 \in 1 .. i
    <3>1. m.runq \in Seq(Thread) /\ m.runq[1] = t
      BY <1>2, HeadRuns
    <3>2. i \in 1 .. Len(m.runq) /\ Len(m.runq) \in Nat
      BY <2>1, <3>1, LenProperties
    <3> QED BY <3>1, <3>2
  <2> QED BY <2>3, <2>4, <2>5
<1>14. Lists(u) /\ Sleepers(u)
  <2>1. Lists(u)
    BY <1>2, <1>9 DEF Lists
  <2>2. Sleepers(m)
    BY DEF IInv, Sound
  <2> QED BY <1>8, <1>9, <2>1, <2>2 DEF Sleepers
<1>15. Counts(u)
  <2>1. Cardinality(Holders(u)) = 1 /\ Len(m.res) = 0
    <3>1. m.res \in Seq(Frame)
      BY <1>2, TypesOf
    <3>2. Cardinality({t}) = 1
      BY FS_Singleton
    <3>3. Len(m.res) = 0
      BY <1>2, <3>1, Listed
    <3> QED BY <1>8, <3>2, <3>3
  <2> QED BY <1>8, <1>9, <2>1 DEF Counts
<1>16. Mid(u, t)
  <2>1. Running(u, t) /\ u.crash = NoCrash
    BY <1>2, <1>7, <1>9 DEF Running
  <2> QED BY <1>11, <1>12, <1>13, <1>14, <1>15, <2>1 DEF Mid, Sound
<1>17. Data(u, Others(t), {})
  <2>1. Data(m, Others(t), {})
    BY <1>2, DataBegins DEF Hand
  <2>2. InUse(m, Others(t))
    BY <1>2 DEF InUse
  <2>3. \A f \in Frame : Unread(u, Others(t), {}, f) <=> Unread(m, Others(t), {}, f)
    BY <1>10 DEF Unread
  <2> QED BY <1>9, <2>1, <2>2, <2>3, DataKept
<1> QED BY <1>6, <1>16, <1>17, Returns

LEMMA DeletedKeeps ==
  ASSUME IInv, NEW t \in Thread, Deleted(t)
  PROVE  Rests(m')
<1>1. At(t, "deleting") /\ "deleting" \in Moving
      /\ m' = Goto(Broadcast([m EXCEPT !.core = FALSE, !.busy = FALSE], NULL), t, "user")
  BY DEF Deleted, Moving
<1>2. /\ Running(m, t) /\ m \in State /\ m.crash = NoCrash /\ m.thr[t].pc = "deleting"
      /\ Queues(m, Others(t)) /\ Workers(m, Others(t)) /\ Lists(m)
      /\ m.busy /\ m.core /\ m.ref = 0 /\ m.res = <<>> /\ Holders(m) = {}
      /\ \A u \in Others(t) : m.thr[u].pc \notin Moving /\ m.thr[u].pc # "put"
  BY <1>1, MoverBegins
<1>3. PICK z : z = [m EXCEPT !.core = FALSE, !.busy = FALSE]
  OBVIOUS
<1>4. /\ z \in State /\ ~z.busy /\ ~z.core /\ z.ref = m.ref /\ z.thr = m.thr
      /\ z.frame = m.frame /\ z.alloc = m.alloc /\ z.res = m.res /\ z.linked = m.linked
      /\ z.disk = m.disk /\ z.last = m.last
      /\ z.runq = m.runq /\ z.waitq = m.waitq /\ z.crash = m.crash
  BY <1>2, <1>3 DEF State
<1>5. PICK u : u = Broadcast(z, NULL)
  OBVIOUS
<1>6. u \in State /\ SameMemory(z, u) /\ u.thr = z.thr /\ Woken(z, u, NULL) /\ NULL \in Place
  BY <1>4, <1>5, FieldsOfBroadcast DEF Place
<1>7. /\ ~u.busy /\ ~u.core /\ u.ref = 0 /\ u.res = m.res /\ u.crash = NoCrash
      /\ u.frame = m.frame /\ u.alloc = m.alloc /\ u.linked = m.linked
      /\ u.disk = m.disk /\ u.last = m.last /\ u.thr = m.thr
  BY <1>2, <1>4, <1>6 DEF SameMemory
<1>8. Woken(m, u, NULL)
  BY <1>4, <1>6 DEF Woken
<1>9. Queues(u, Others(t))
  <2>1. m.waitq[NULL] \in Seq(Thread)
    BY <1>2, <1>6, TypesOf
  <2>2. \A v : Contains(m.waitq[NULL], v) => v \in Thread
    BY <2>1, Listed
  <2> QED BY <1>2, <1>6, <1>7, <1>8, <2>2, WokenQueues
<1>10. Workers(u, Others(t)) /\ Lists(u)
  <2>1. Workers(u, Others(t))
    BY <1>2, <1>7 DEF Workers
  <2> QED BY <1>2, <1>7, <2>1 DEF Lists
<1>11. Holders(u) = {}
  BY <1>2, <1>7 DEF Holders
<1>12. Counts(u) /\ Movers(u, Others(t)) /\ Putters(u, Others(t)) /\ InTurn(u, Others(t))
  BY <1>2, <1>7, <1>11 DEF Counts, Movers, Putters, InTurn, Moving
<1>13. Sleepers(u)
  <2>1. Sleepers(m)
    BY DEF IInv, Sound
  <2>2. \A f \in Frame : f \in Place /\ f # NULL
    BY PageCacheAssumption DEF Place
  <2> QED BY <1>7, <1>8, <2>1, <2>2 DEF Woken, Sleepers
<1>14. Mid(u, t)
  <2>1. Running(u, t)
    BY <1>2, <1>6, <1>8 DEF Running, Woken
  <2> QED BY <1>7, <1>9, <1>10, <1>12, <1>13, <2>1 DEF Mid, Sound
<1>15. Data(u, Others(t), {})
  <2>1. ~u.thr[t].has /\ t \in Thread
    BY <1>7, <1>11 DEF Holders
  <2>2. SameOthers(m, u, t) /\ u.thr[t].pc = "deleting"
    BY <1>2, <1>7 DEF SameOthers
  <2> QED BY <1>2, <1>7, <2>1, <2>2, DroppedData
<1>16. m' = Goto(u, t, "user")
  BY <1>1, <1>3, <1>5
<1> QED BY <1>14, <1>15, <1>16, Returns

-----------------------------------------------------------------------------
(* The other actions, and the theorems.                                    *)

LEMMA InterruptKeeps ==
  ASSUME IInv, NEW t \in Thread, Interrupt(t)
  PROVE  Rests(m')
<1>1. /\ m \in State /\ Sound(m, Thread) /\ Data(m, Thread, {})
      /\ m.thr[t].pc \in Disk \cup {"elsewhere"} /\ ~Contains(m.runq, t)
      /\ m' = [m EXCEPT !.runq = Append(@, t)]
  BY DEF IInv, Interrupt
<1>2. m.runq \in Seq(Thread) /\ IsInjective(m.runq)
  BY <1>1, TypesOf DEF Sound, Queues
<1>3. PICK q : q = Append(m.runq, t)
  OBVIOUS
<1>4. /\ q \in Seq(Thread) /\ Len(q) = Len(m.runq) + 1 /\ IsInjective(q)
      /\ \A i \in 1 .. Len(m.runq) : q[i] = m.runq[i]
      /\ q[Len(m.runq) + 1] = t
      /\ \A x : Contains(q, x) <=> Contains(m.runq, x) \/ x = t
  BY <1>1, <1>2, <1>3, Appended
<1>5. PICK r : r = m'
  OBVIOUS
<1>6. r = [m EXCEPT !.runq = q]
  BY <1>1, <1>3, <1>5 DEF State
<1>7. /\ r \in State /\ r.runq = q /\ r.thr = m.thr /\ r.waitq = m.waitq
      /\ r.frame = m.frame /\ r.alloc = m.alloc /\ r.res = m.res
      /\ r.core = m.core /\ r.busy = m.busy /\ r.ref = m.ref /\ r.linked = m.linked
      /\ r.disk = m.disk /\ r.last = m.last
  BY <1>1, <1>4, <1>6 DEF State
<1>8. m.thr[t].pc \notin {"vget", "get", "sync", "put"}
  BY <1>1 DEF Disk
<1>9. Queues(r, Thread)
  <2>1. \A f \in Place : ~Contains(m.waitq[f], t)
    <3>1. \A f \in Place : Sleeps(f) \subseteq {"vget", "get", "sync", "put"}
      BY DEF Sleeps
    <3> QED BY <1>1, <1>8, <3>1 DEF Sound, Queues
  <2>2. Queues(m, Thread)
    BY <1>1 DEF Sound
  <2> QED BY <1>4, <1>7, <2>1, <2>2 DEF Queues
<1>10. InTurn(r, Thread)
  <2> SUFFICES ASSUME NEW i \in DOMAIN r.runq, r.thr[r.runq[i]].pc = "vget", r.core
               PROVE  \E u \in Thread : r.thr[u].pc = "reading"
                                        /\ \A j \in 1 .. i : r.runq[j] # u
    BY DEF InTurn
  <2>1. /\ Len(m.runq) \in Nat /\ DOMAIN m.runq = 1 .. Len(m.runq)
        /\ DOMAIN q = 1 .. Len(m.runq) + 1
        /\ \A j \in 1 .. Len(m.runq) : m.runq[j] \in Thread
    BY <1>2, <1>4, Listed
  <2>2. i \in 1 .. Len(m.runq) /\ r.runq[i] = m.runq[i]
    BY <1>4, <1>7, <1>8, <2>1
  <2>3. m.thr[m.runq[i]].pc = "vget" /\ m.core /\ InTurn(m, Thread) /\ m.runq[i] \in Thread
    BY <1>1, <1>7, <2>1, <2>2 DEF Sound
  <2>4. PICK u \in Thread : m.thr[u].pc = "reading" /\ \A j \in 1 .. i : m.runq[j] # u
    BY <2>1, <2>2, <2>3 DEF InTurn
  <2>5. \A j \in 1 .. i : r.runq[j] # u
    BY <1>4, <1>7, <2>1, <2>2, <2>4
  <2> QED BY <1>7, <2>4, <2>5
<1>11. Workers(r, Thread) /\ Lists(r) /\ Counts(r) /\ Movers(r, Thread) /\ Putters(r, Thread)
  <2>1. Holders(r) = Holders(m)
    BY <1>7 DEF Holders
  <2>2. Workers(r, Thread)
    BY <1>1, <1>7 DEF Sound, Workers
  <2>3. Lists(r)
    BY <1>1, <1>7 DEF Sound, Lists
  <2>4. Counts(r)
    BY <1>1, <1>7, <2>1 DEF Sound, Counts
  <2>5. Movers(r, Thread) /\ Putters(r, Thread)
    BY <1>1, <1>7, <2>1 DEF Sound, Movers, Putters
  <2> QED BY <2>2, <2>3, <2>4, <2>5
<1>12. Sleepers(r)
  BY <1>1, <1>7 DEF Sound, Sleepers
<1>13. Data(r, Thread, {})
  BY <1>1, <1>7 DEF Data, InUse, Right, Unread, Resident
<1> QED BY <1>5, <1>7, <1>9, <1>10, <1>11, <1>12, <1>13 DEF Rests, Sound

LEMMA ElsewhereKeeps ==
  ASSUME IInv, NEW t \in Thread, Elsewhere(t)
  PROVE  Rests(m')
<1>1. CASE At(t, "user") /\ m' = ForDisk(m, t, "elsewhere", NULL)
  <2>1. /\ Mid(m, t) /\ m \in State /\ Data(m, Others(t), {})
        /\ "elsewhere" \in Pcs /\ NULL \in Place
    BY <1>1, Begins, DataBegins DEF At, Moving, IInv, Hand, Pcs, Place
  <2>2. m.runq # <<>>
    BY <2>1 DEF Mid, Running
  <2>3. Comes(m.thr[t], m'.thr[t], "elsewhere", NULL)
    BY <1>1, <2>1, <2>2, FieldsOfForDisk
  <2>4. m'.thr[t].pc = "elsewhere"
    BY <2>3 DEF Comes
  <2>5. Fits(m', t) /\ Hand(m', t) = {}
    BY <2>4 DEF Fits, Hand, Moving, Working
  <2> QED BY <1>1, <2>1, <2>5, WaitsForDisk
<1>2. CASE At(t, "elsewhere") /\ m' = Goto(m, t, "user")
  <2>1. Mid(m, t) /\ Data(m, Others(t), {})
    BY <1>2, Begins, DataBegins DEF At, Moving, Hand
  <2> QED BY <1>2, <2>1, Returns
<1> QED BY <1>1, <1>2 DEF Elsewhere

\* The file loses its name, or a new file is made where the vnode is not in core.
LEMMA Renamed ==
  ASSUME IInv, NEW r \in State,
         r.runq = m.runq, r.thr = m.thr, r.waitq = m.waitq, r.frame = m.frame,
         r.alloc = m.alloc, r.res = m.res, r.core = m.core, r.busy = m.busy, r.ref = m.ref,
         Movers(r, Thread), Putters(r, Thread)
  PROVE  Sound(r, Thread)
<1>1. Sound(m, Thread)
  BY DEF IInv
<1>2. Holders(r) = Holders(m)
  BY DEF Holders
<1>3. Queues(r, Thread) /\ InTurn(r, Thread)
  BY <1>1 DEF Sound, Queues, InTurn
<1>4. Workers(r, Thread)
  BY <1>1 DEF Sound, Workers
<1>5. Lists(r)
  BY <1>1 DEF Sound, Lists
<1>6. Counts(r)
  BY <1>1, <1>2 DEF Sound, Counts
<1>7. Sleepers(r)
  BY <1>1 DEF Sound, Sleepers
<1> QED BY <1>3, <1>4, <1>5, <1>6, <1>7 DEF Sound

LEMMA UnlinkKeeps ==
  ASSUME IInv, NEW t \in Thread, Unlink(t)
  PROVE  Rests(m')
<1>1. /\ m \in State /\ Sound(m, Thread) /\ Data(m, Thread, {})
      /\ t \in Holders(m) /\ m.linked /\ m' = [m EXCEPT !.linked = FALSE]
  BY DEF IInv, Unlink, Holders
<1>2. PICK r : r = m'
  OBVIOUS
<1>3. /\ r \in State /\ ~r.linked /\ r.runq = m.runq /\ r.thr = m.thr /\ r.waitq = m.waitq
      /\ r.frame = m.frame /\ r.alloc = m.alloc /\ r.res = m.res
      /\ r.core = m.core /\ r.busy = m.busy /\ r.ref = m.ref
      /\ r.disk = m.disk /\ r.last = m.last
  BY <1>1, <1>2 DEF State
<1>4. Putters(r, Thread)
  <2>1. \A u \in Thread : m.thr[u].pc # "put"
    BY <1>1 DEF Sound, Putters
  <2> QED BY <1>3, <2>1 DEF Putters
<1>5. Movers(r, Thread)
  <2>1. \A u \in Thread : m.thr[u].pc \notin Moving
    BY <1>1 DEF Sound, Counts, Movers
  <2> QED BY <1>1, <1>3, <2>1 DEF Sound, Movers, Moving
<1>6. Sound(r, Thread)
  BY <1>3, <1>4, <1>5, Renamed
<1>7. Data(r, Thread, {})
  <2>1. InUse(m, Thread)
    BY <1>1 DEF InUse
  <2>2. \A f \in Frame : Unread(r, Thread, {}, f) <=> Unread(m, Thread, {}, f)
    BY <1>3 DEF Unread
  <2> QED BY <1>1, <1>3, <2>1, <2>2, DataKept
<1> QED BY <1>2, <1>3, <1>6, <1>7 DEF Rests

LEMMA CreateKeeps ==
  ASSUME IInv, NEW t \in Thread, Create(t)
  PROVE  Rests(m')
<1>1. /\ m \in State /\ Sound(m, Thread) /\ ~m.core
      /\ m' = [m EXCEPT !.linked = TRUE, !.disk = [n \in Page |-> Zero], !.last = [n \in Page |-> Zero]]
  BY DEF IInv, Create
<1>2. PICK d : d = [n \in Page |-> Zero]
  OBVIOUS
<1>3. d \in [Page -> Val]
  BY <1>2, PageCacheAssumption
<1>4. PICK r : r = m'
  OBVIOUS
<1>5. /\ r \in State /\ r.linked /\ r.runq = m.runq /\ r.thr = m.thr /\ r.waitq = m.waitq
      /\ r.frame = m.frame /\ r.alloc = m.alloc /\ r.res = m.res
      /\ r.core = m.core /\ r.busy = m.busy /\ r.ref = m.ref
      /\ r.disk = d /\ r.last = d
  BY <1>1, <1>2, <1>3, <1>4 DEF State
<1>6. m.res = <<>> /\ Holders(m) = {}
  BY <1>1 DEF Sound, Counts
<1>7. Putters(r, Thread)
  <2>1. \A u \in Thread : m.thr[u].pc # "put"
    BY <1>1, <1>6 DEF Sound, Putters
  <2> QED BY <1>5, <2>1 DEF Putters
<1>8. Movers(r, Thread)
  BY <1>1, <1>5 DEF Sound, Movers
<1>9. Sound(r, Thread)
  BY <1>5, <1>7, <1>8, Renamed
<1>10. Data(r, Thread, {})
  <2>1. \A f \in Frame : m.frame[f].page = NULL
    <3>1. \A f \in Frame : ~Contains(m.res, f)
      <4>1. m.res \in Seq(Frame)
        BY <1>1, TypesOf
      <4> QED BY <1>6, <4>1, Listed
    <3> QED BY <1>1, <3>1 DEF Sound, Lists
  <2>2. \A n \in Page : Right(r, Thread, {}, n)
    BY <1>5, <2>1, PageCacheAssumption DEF Right
  <2> QED BY <2>2 DEF Data
<1> QED BY <1>4, <1>5, <1>9, <1>10 DEF Rests

LEMMA Initially ==
  ASSUME Init
  PROVE  IInv
<1> DEFINE x == [pc |-> "elsewhere", has |-> FALSE, f |-> NULL,
                 page |-> NULL, store |-> NULL, rest |-> <<>>]
<1>1. <<>> \in Seq(Frame) /\ <<>> \in Seq(Thread)
  BY EmptySeq
<1>2. x \in ThreadRec /\ FreeFrame \in FrameRec /\ [n \in Page |-> Zero] \in [Page -> Val]
  BY <1>1, PageCacheAssumption DEF ThreadRec, Pcs, Place, FrameRec, FreeFrame
<1>3. /\ m.frame = [f \in Frame |-> FreeFrame] /\ m.alloc = <<>> /\ m.res = <<>>
      /\ ~m.core /\ ~m.busy /\ m.ref = 0 /\ m.linked
      /\ m.disk = [n \in Page |-> Zero] /\ m.last = [n \in Page |-> Zero]
      /\ m.thr = [t \in Thread |-> x] /\ m.runq = <<>>
      /\ m.waitq = [f \in Place |-> <<>>] /\ m.crash = NoCrash
  BY DEF Init, Place
<1>4. m \in State
  <2>1. /\ [f \in Frame |-> FreeFrame] \in [Frame -> FrameRec]
        /\ [t \in Thread |-> x] \in [Thread -> ThreadRec]
        /\ [f \in Place |-> <<>>] \in [Place -> Seq(Thread)]
    BY <1>1, <1>2
  <2> HIDE DEF x
  <2> QED BY <1>1, <1>2, <2>1 DEF Init, State, Place, x
<1>5. \A u \in Thread : m.thr[u].pc = "elsewhere" /\ ~m.thr[u].has
  BY <1>3
<1>6. \A f \in Frame : m.frame[f].page = NULL
  BY <1>3 DEF FreeFrame
<1>7. \A f \in Place : m.waitq[f] = <<>>
  BY <1>3
<1>8. /\ IsInjective(m.alloc) /\ IsInjective(m.res) /\ IsInjective(m.runq)
      /\ \A y : ~Contains(m.alloc, y) /\ ~Contains(m.res, y) /\ ~Contains(m.runq, y)
  <2>1. ASSUME NEW S, NEW q \in Seq(S), q = <<>>
        PROVE  IsInjective(q) /\ \A y : ~Contains(q, y)
    <3>1. Len(q) = 0
      BY <2>1, EmptySeq
    <3> QED BY <2>1, <3>1, Listed
  <2>2. m.alloc \in Seq(Frame) /\ m.res \in Seq(Frame) /\ m.runq \in Seq(Thread)
    BY <1>1, <1>3
  <2> QED BY <1>3, <2>1, <2>2
<1>9. Queues(m, Thread)
  <2>1. m.alloc = <<>>
    BY <1>3
  <2> QED BY <1>7, <1>8, <2>1 DEF Queues
<1>10. Holders(m) = {}
  BY <1>5 DEF Holders
<1>11. /\ Workers(m, Thread) /\ Movers(m, Thread) /\ Putters(m, Thread)
  BY <1>3, <1>5 DEF Workers, Movers, Putters, Working, Moving
<1>12. Lists(m)
  BY <1>6, <1>8 DEF Lists
<1>13. Counts(m) /\ InTurn(m, Thread)
  BY <1>3, <1>10 DEF Counts, InTurn
<1>14. Sleepers(m)
  BY <1>7 DEF Sleepers, Place
<1>15. Data(m, Thread, {})
  <2>1. \A n \in Page : m.disk[n] = m.last[n] /\ n # NULL
    BY <1>3, PageCacheAssumption
  <2> QED BY <1>6, <2>1 DEF Data, Right
<1> QED BY <1>4, <1>9, <1>11, <1>12, <1>13, <1>14, <1>15 DEF IInv, Sound

\* The invariant is inductive: every action keeps it.
LEMMA Stepwise ==
  ASSUME IInv, [Next]_m
  PROVE  IInv'
<1>1. ASSUME UNCHANGED m PROVE IInv'
  BY <1>1 DEF IInv
<1>2. ASSUME NEW t \in Thread,
             \/ Interrupt(t) \/ Elsewhere(t)
             \/ \E n \in Page, v \in Val \cup {NULL} : pframe_get(t, n, v)
             \/ GetAgain(t) \/ Filled(t) \/ Dirtied(t)
             \/ sys_sync(t) \/ Cleaned(t)
             \/ vget(t) \/ VgetAgain(t) \/ VgetDone(t)
             \/ vput(t) \/ Uncache(t) \/ Deleted(t)
             \/ Unlink(t) \/ Create(t)
      PROVE  Rests(m')
  <2>1. CASE Interrupt(t)
    BY <2>1, InterruptKeeps
  <2>2. CASE Elsewhere(t)
    BY <2>2, ElsewhereKeeps
  <2>3. CASE \E n \in Page, v \in Val \cup {NULL} : pframe_get(t, n, v)
    BY <2>3, GetKeeps
  <2>4. CASE GetAgain(t)
    BY <2>4, GetAgainKeeps
  <2>5. CASE Filled(t)
    BY <2>5, FilledKeeps, UnfilledKeeps DEF Filled, FilledNow
  <2>6. CASE Dirtied(t)
    BY <2>6, DirtiedKeeps
  <2>7. CASE sys_sync(t)
    BY <2>7, SyncKeeps
  <2>8. CASE Cleaned(t)
    BY <2>8, CleanedKeeps
  <2>9. CASE vget(t) \/ VgetAgain(t)
    BY <2>9, VgetKeeps
  <2>10. CASE VgetDone(t)
    BY <2>10, VgetDoneKeeps
  <2>11. CASE vput(t)
    BY <2>11, VputKeeps
  <2>12. CASE Uncache(t)
    BY <2>12, UncacheKeeps
  <2>13. CASE Deleted(t)
    BY <2>13, DeletedKeeps
  <2>14. CASE Unlink(t)
    BY <2>14, UnlinkKeeps
  <2>15. CASE Create(t)
    BY <2>15, CreateKeeps
  <2> QED BY <1>2, <2>1, <2>2, <2>3, <2>4, <2>5, <2>6, <2>7, <2>8, <2>9, <2>10, <2>11, <2>12,
              <2>13, <2>14, <2>15
<1>3. Rests(m') => IInv'
  BY DEF Rests, IInv
<1> QED BY <1>1, <1>2, <1>3 DEF Next

\* What the three properties say follows from the invariant.
LEMMA WritesAreKept ==
  ASSUME IInv
  PROVE  NoLostWrite
<1> SUFFICES ASSUME Reachable PROVE \A n \in Page : Right(m, Thread, {}, n)
                              /\ \A f \in Frame : Unread(m, Thread, {}, f) => Filling(f)
  BY DEF NoLostWrite, Right, Resident
<1>1. InUse(m, Thread)
  BY DEF Reachable, InUse
<1>2. \A n \in Page : Right(m, Thread, {}, n)
  BY <1>1 DEF IInv, Data
<1>3. \A f \in Frame : Unread(m, Thread, {}, f) => Filling(f)
  BY DEF Unread, Filling
<1> QED BY <1>2, <1>3

LEMMA Agreed ==
  ASSUME IInv
  PROVE  CountsAgree
<1>1. m \in State /\ Lists(m) /\ Counts(m)
  BY DEF IInv, Sound
<1>2. m.crash \in {NoCrash, "another_page", "read_vnode"}
  BY <1>1 DEF State
<1>3. ASSUME NEW n \in Page PROVE Cardinality(Resident(m, n)) <= 1
  <2>1. \A f, g \in Resident(m, n) : f = g
    BY <1>1, PageCacheAssumption DEF Resident, Lists
  <2>2. CASE Resident(m, n) = {}
    <3>1. Cardinality({}) = 0
      BY FS_EmptySet
    <3> QED BY <2>2, <3>1
  <2>3. CASE Resident(m, n) # {}
    <3>1. PICK f : Resident(m, n) = {f}
      BY <2>1, <2>3
    <3>2. Cardinality({f}) = 1
      BY FS_Singleton
    <3> QED BY <3>1, <3>2
  <2> QED BY <2>2, <2>3
<1>4. ToSet(m.alloc) = {f \in Frame : m.frame[f].page # NULL}
  <2>1. m.alloc \in Seq(Frame)
    BY <1>1 DEF State
  <2>2. /\ DOMAIN m.alloc = 1 .. Len(m.alloc)
        /\ \A i \in 1 .. Len(m.alloc) : m.alloc[i] \in Frame
        /\ \A x : Contains(m.alloc, x) <=> \E i \in 1 .. Len(m.alloc) : m.alloc[i] = x
    BY <2>1, Listed
  <2>3. \A x : x \in ToSet(m.alloc) <=> Contains(m.alloc, x)
    BY <2>2 DEF ToSet
  <2>4. \A x : Contains(m.alloc, x) => x \in Frame
    BY <2>2
  <2> QED BY <1>1, <2>3, <2>4 DEF Lists
<1>5. (m.core /\ ~m.busy) =>
        m.ref = Len(m.res) + Cardinality({t \in Thread : m.thr[t].has})
  BY <1>1 DEF Counts, Holders
<1> QED BY <1>2, <1>3, <1>4, <1>5 DEF CountsAgree

\* The state has its types, and its parts fit together: every queue, list and
\* count, who waits for whom, and the pages in memory with the disk.
THEOREM InductiveInvariant == Spec => []IInv
<1>1. Init => IInv
  BY Initially
<1>2. IInv /\ [Next]_m => IInv'
  BY Stepwise
<1> QED BY <1>1, <1>2, PTL DEF Spec

\* pframe_fill, pframe_dirty and pframe_clean lose no store: as long as somebody
\* can still come to the file, each of its pages has in memory what was stored
\* last, or is being read, or it is on disk; and what is not on disk is in a page
\* that is dirty or busy, or is a store that dirtypage has refused (pframe.c:477).
THEOREM NoStoreIsLost == Spec => []NoLostWrite
<1>1. IInv => NoLostWrite
  BY WritesAreKept
<1> QED BY <1>1, InductiveInvariant, PTL

\* Who sleeps in pframe_get, pframe_clean or vget sleeps for a page that is busy
\* or for a vnode in core, so that there is a thread that will wake it.
THEOREM SleepersAreWoken == Spec => []SleepersWillBeWoken
<1>1. IInv => SleepersWillBeWoken
  BY DEF IInv, Sound, Sleepers, SleepersWillBeWoken
<1> QED BY <1>1, InductiveInvariant, PTL

\* vn_refcount is the number of holders and of resident pages, a page is in
\* memory once and on the list of allocated pages if it is in memory, and no
\* assertion of vput, vget and pframe_free fails but the two that CountsAgree names.
THEOREM CountsAreRight == Spec => []CountsAgree
<1>1. IInv => CountsAgree
  BY Agreed
<1> QED BY <1>1, InductiveInvariant, PTL
=============================================================================
