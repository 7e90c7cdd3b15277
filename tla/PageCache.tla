----------------------------- MODULE PageCache -----------------------------
(***************************************************************************)
(* The pages of a file in memory, and the file's vnode: pframe_get, dirty, *)
(* clean and free (kernel/mm/pframe.c), and vget and vput where the file   *)
(* system sleeps (kernel/fs/vnode.c).                                      *)
(*                                                                         *)
(* Threads of the kernel are not preempted, so an action is what a thread  *)
(* does from one sleep to the next, or a part of it; it sleeps for the     *)
(* disk in read_vnode, delete_vnode, fillpage, dirtypage and cleanpage,    *)
(* for busy pages and for a busy vnode.  The run queue and the queues of   *)
(* sleepers are first-in first-out, as in Sched.  The file system under    *)
(* the vnode is a prebuilt library, and only its contract is used; reading *)
(* and writing a block may fail (include/drivers/blockdev.h), and so may   *)
(* dirtypage, for one when the disk has no free block for the page         *)
(* (include/fs/vnode.h).                                                   *)
(* No page is pinned here: those that are (the super block, anonymous      *)
(* memory) are never cleaned.  The pageout daemon sleeps for good after    *)
(* boot, as nobody calls pageoutd_wakeup.                                  *)
(*                                                                         *)
(* The state is one record, which the operations map to another:           *)
(*   frame[f]   a pframe: its page number (NULL when free), flags,         *)
(*              contents; refused: dirtypage has refused the last store    *)
(*              into it, and the disk holds something else                 *)
(*   alloc      alloc_list, the least recently requested page first        *)
(*   res        mmo_respages of the vnode, the newest first                *)
(*   core, busy, ref   is the vnode in core, is it VN_BUSY, vn_refcount    *)
(*   linked     does the file have a name?                                 *)
(*   disk[n]    what the disk holds of page n                              *)
(*   thr[t]     what a thread does (pc), whether it holds a reference to   *)
(*              the vnode (has), the pframe at hand (f), what it wants of  *)
(*              which page (page, store), the pages it has to free (rest)  *)
(*   runq       the running thread and those that wait for the CPU         *)
(*   waitq[f]   pf_waitq of a pframe, and vn_waitq of the vnode (NULL)     *)
(*   last[n]    what was last stored in page n                             *)
(*   crash      the assertion that has stopped the kernel, or NoCrash      *)
(***************************************************************************)
EXTENDS Integers, FiniteSets, SequencesExt

CONSTANTS
  Thread,
  Page,     \* the page numbers of the file
  Frame,    \* the pframes that memory has room for
  Val,      \* what a page may hold
  Zero,     \* what the pages of a new file hold
  SameStores,   \* bound: may a thread also store what the page holds?
  NULL

ASSUME PageCacheAssumption ==
  /\ IsFiniteSet(Thread)
  /\ Zero \in Val
  /\ SameStores \in BOOLEAN
  /\ NULL \notin Frame \cup Page \cup Val

VARIABLE m

NoCrash   == "none"
FreeFrame == [page |-> NULL, busy |-> FALSE, dirty |-> FALSE, refused |-> FALSE, val |-> Zero]
Crash(s, why) == [s EXCEPT !.crash = IF @ = NoCrash THEN why ELSE @]
Without(q, f) ==
  IF Contains(q, f) THEN RemoveAt(q, CHOOSE i \in DOMAIN q : q[i] = f) ELSE q
Resident(s, n) == {f \in Frame : s.frame[f].page = n}

(* The running thread goes on, or sleeps for the disk or on a queue.       *)
At(t, pc) == m.crash = NoCrash /\ m.runq # <<>> /\ Head(m.runq) = t /\ m.thr[t].pc = pc
Goto(s, t, pc) == [s EXCEPT !.thr[t] = [pc |-> pc, has |-> @.has, f |-> NULL, page |-> NULL,
                                        store |-> NULL, rest |-> <<>>]]
ForDisk(s, t, pc, f)  == [s EXCEPT !.thr[t].pc = pc, !.thr[t].f = f, !.runq = Tail(@)]
SleepOn(s, t, pc, f) == [ForDisk(s, t, pc, f) EXCEPT !.waitq[f] = Append(@, t)]

(* sched_broadcast_on the queue of page f, or of the vnode (NULL).         *)
Broadcast(s, f) == [s EXCEPT !.runq = @ \o s.waitq[f], !.waitq[f] = <<>>]
Unbusy(s, f) == Broadcast([s EXCEPT !.frame[f].busy = FALSE], f)

Disk == {"filling", "dirtying", "cleaning", "reading", "deleting"}

(* The disk is done with what the thread asked for.                        *)
Interrupt(t) ==
  /\ m.crash = NoCrash
  /\ m.thr[t].pc \in Disk \cup {"elsewhere"} /\ ~Contains(m.runq, t)
  /\ m' = [m EXCEPT !.runq = Append(@, t)]

(* The thread sleeps for something that has to do with no file, or leaves  *)
(* the CPU to others.                                                      *)
Elsewhere(t) ==
  \/ At(t, "user") /\ m' = ForDisk(m, t, "elsewhere", NULL)
  \/ At(t, "elsewhere") /\ m' = Goto(m, t, "user")

-----------------------------------------------------------------------------
(* Pages. *)

(* pframe_alloc: the page is busy from here on, as pframe_fill comes next. *)
pframe_alloc(s, f, n) ==
  [s EXCEPT !.frame[f] = [page |-> n, busy |-> TRUE, dirty |-> FALSE, refused |-> FALSE, val |-> Zero],
            !.alloc = Append(@, f), !.res = <<f>> \o @, !.ref = @ + 1]

(* pframe_free, whose put of the object never is the last one.             *)
pframe_free(s, f) ==
  LET t == [s EXCEPT !.frame[f] = FreeFrame, !.alloc = Without(@, f), !.res = Without(@, f)] IN
  IF s.frame[f].busy THEN Crash(s, "pframe_free_busy")
  ELSE IF s.ref <= Len(t.res) + 1 THEN Crash(s, "pframe_free_put")
  ELSE [t EXCEPT !.ref = @ - 1]

(* pframe_get returns: the thread reads the page, or stores into it and    *)
(* calls pframe_dirty; vdirtypage asks the file system if it was clean.    *)
Use(s, t, f) ==
  LET v == s.thr[t].store
      n == s.thr[t].page
      stored == [s EXCEPT !.frame[f].val = v, !.last[n] = v]
  IN  IF s.frame[f].page # n THEN Crash(s, "another_page")
      ELSE IF v = NULL THEN Goto(s, t, "user")
      ELSE IF s.frame[f].dirty THEN Goto(stored, t, "user")
      ELSE ForDisk([stored EXCEPT !.frame[f].busy = TRUE], t, "dirtying", f)

(* A thread that finds the page busy sleeps, and then looks at the same    *)
(* pframe again, whatever has become of it.                                *)
GetResident(s, t, f) ==
  IF s.frame[f].busy THEN SleepOn(s, t, "get", f) ELSE Use(s, t, f)

(* pframe_get, with pframe_get_resident.  A thread that has the file open  *)
(* reads or stores into page n, in a system call or through a mapping.     *)
pframe_get(t, n, v) ==
  LET s == [m EXCEPT !.thr[t].page = n, !.thr[t].store = v] IN
  /\ At(t, "user")
  /\ m.thr[t].has
  /\ SameStores \/ v # m.last[n]
  /\ \/ \E f \in Resident(m, n) :
          m' = GetResident([s EXCEPT !.alloc = Append(Without(@, f), f)], t, f)
     \/ /\ Resident(m, n) = {}
        /\ \E f \in Resident(m, NULL) :
             m' = ForDisk(pframe_alloc(s, f, n), t, "filling", f)

GetAgain(t) == At(t, "get") /\ m' = GetResident(m, t, m.thr[t].f)

(* The page has been read, or not: then it is freed.                       *)
Filled(t) ==
  LET f == m.thr[t].f
      s == Unbusy(m, f)
  IN
  /\ At(t, "filling")
  /\ \/ m' = Use([s EXCEPT !.frame[f].val = m.disk[m.thr[t].page]], t, f)
     \/ m' = Goto(pframe_free(s, f), t, "user")

(* dirtypage has accepted the store into page f, or refused it.            *)
Marked(s, f, ok) ==
  [s EXCEPT !.frame[f].dirty = ok,
            !.frame[f].refused = ~ok /\ s.disk[s.frame[f].page] # s.frame[f].val]

\* Seeded fault: the threads that sleep for the page are not woken.
Dirtied_NoBroadcast(t) ==
  /\ At(t, "dirtying")
  /\ \E ok \in BOOLEAN :
       m' = Goto(Marked([m EXCEPT !.frame[m.thr[t].f].busy = FALSE], m.thr[t].f, ok), t, "user")

(* The rest of pframe_dirty: the page is marked, unless dirtypage refuses. *)
(* vmmap_write and handle_pagefault do not look at the result; the fault   *)
(* maps the page for writing all the same, and what is stored through that *)
(* mapping later is taken for a fault that is refused again.               *)
Dirtied(t) ==
  /\ At(t, "dirtying")
  /\ \E ok \in BOOLEAN : m' = Goto(Marked(Unbusy(m, m.thr[t].f), m.thr[t].f, ok), t, "user")

-----------------------------------------------------------------------------
(* sync. *)

(* pframe_clean_all, from list_start: the first page that is busy is       *)
(* waited for, the first that is dirty is cleaned.                         *)
Scan(s, t) ==
  LET todo == {i \in DOMAIN s.alloc : s.frame[s.alloc[i]].busy \/ s.frame[s.alloc[i]].dirty}
      f == s.alloc[Min(todo)]
  IN  IF todo = {} THEN Goto(s, t, "user")
      ELSE IF s.frame[f].busy THEN SleepOn(s, t, "sync", f)
      ELSE ForDisk([s EXCEPT !.frame[f].dirty = FALSE, !.frame[f].busy = TRUE], t, "cleaning", f)

sys_sync(t) == (At(t, "user") \/ At(t, "sync")) /\ m' = Scan(m, t)

\* Seeded fault: the page stays clean when it could not be written.
Cleaned_ErrorIgnored(t) ==
  LET f == m.thr[t].f
      s == Unbusy(m, f)
  IN
  /\ At(t, "cleaning")
  /\ \/ m' = Scan([s EXCEPT !.disk[s.frame[f].page] = s.frame[f].val], t)
     \/ m' = Scan(s, t)

(* The rest of pframe_clean; the page has been written, or not.            *)
Cleaned(t) ==
  LET f == m.thr[t].f
      s == Unbusy(m, f)
  IN
  /\ At(t, "cleaning")
  /\ \/ m' = Scan([s EXCEPT !.disk[s.frame[f].page] = s.frame[f].val], t)
     \/ m' = Scan([s EXCEPT !.frame[f].dirty = TRUE], t)

-----------------------------------------------------------------------------
(* The vnode. *)

Find(s, t) ==
  IF s.core /\ s.busy THEN SleepOn(s, t, "vget", NULL)
  ELSE IF s.core /\ s.ref > 0 THEN Goto([s EXCEPT !.ref = @ + 1, !.thr[t].has = TRUE], t, "user")
  ELSE IF s.core THEN Crash(s, "vref")
  ELSE IF ~s.linked THEN Crash(s, "read_vnode")
  ELSE ForDisk([s EXCEPT !.core = TRUE, !.busy = TRUE], t, "reading", NULL)

vget(t) ==
  /\ At(t, "user") /\ ~m.thr[t].has /\ m.linked
  /\ m' = Find(m, t)

VgetAgain(t) == At(t, "vget") /\ m' = Find(m, t)

(* The rest of vget, which wakes nobody.                                   *)
VgetDone(t) ==
  /\ At(t, "reading")
  /\ m' = Goto([m EXCEPT !.busy = FALSE, !.ref = 1, !.thr[t].has = TRUE], t, "user")

(* From the decrement of vn_refcount on; delete_vnode sleeps.              *)
Drop(s, t) ==
  LET u == [s EXCEPT !.ref = @ - 1, !.thr[t].has = FALSE] IN
  IF u.ref > 0 THEN Goto(u, t, "user")
  ELSE IF u.res # <<>> THEN Crash(u, "vput_pages")
  ELSE ForDisk([u EXCEPT !.busy = TRUE], t, "deleting", NULL)

vput(t) ==
  /\ At(t, "user")
  /\ m.thr[t].has
  /\ m' = IF Len(m.res) >= m.ref \/ m.busy THEN Crash(m, "vput")
          ELSE IF Len(m.res) = m.ref - 1 /\ ~m.linked
               THEN [m EXCEPT !.thr[t].pc = "put", !.thr[t].rest = m.res]
          ELSE Drop(m, t)

\* Seeded fault: a busy page is not waited for.
Uncache_NoWait(t) ==
  LET rest == m.thr[t].rest IN
  /\ At(t, "put")
  /\ m' = IF rest = <<>>
          THEN IF m.res # <<>> \/ m.ref # 1 THEN Crash(m, "vput_counts") ELSE Drop(m, t)
          ELSE [pframe_free(m, Head(rest)) EXCEPT !.thr[t].rest = Tail(rest)]

(* A round of vput's loop over the pages of a file that has lost its last  *)
(* name; after the last round come the assertions.                         *)
Uncache(t) ==
  LET rest == m.thr[t].rest IN
  /\ At(t, "put")
  /\ m' = IF rest = <<>>
          THEN IF m.res # <<>> \/ m.ref # 1 THEN Crash(m, "vput_counts") ELSE Drop(m, t)
          ELSE IF m.frame[Head(rest)].busy THEN SleepOn(m, t, "put", Head(rest))
          ELSE [pframe_free(m, Head(rest)) EXCEPT !.thr[t].rest = Tail(rest)]

(* The rest of vput. *)
Deleted(t) ==
  /\ At(t, "deleting")
  /\ m' = Goto(Broadcast([m EXCEPT !.core = FALSE, !.busy = FALSE], NULL), t, "user")

-----------------------------------------------------------------------------
(* The file system's side: the file loses its name, or is a new one.       *)
Unlink(t) ==
  /\ At(t, "user") /\ m.thr[t].has /\ m.linked
  /\ m' = [m EXCEPT !.linked = FALSE]

Create(t) ==
  /\ At(t, "user") /\ ~m.linked /\ ~m.core
  /\ m' = [m EXCEPT !.linked = TRUE, !.disk = [n \in Page |-> Zero], !.last = [n \in Page |-> Zero]]

Init == m =
  [frame |-> [f \in Frame |-> FreeFrame], alloc |-> <<>>, res |-> <<>>,
   core |-> FALSE, busy |-> FALSE, ref |-> 0, linked |-> TRUE,
   disk |-> [n \in Page |-> Zero], last |-> [n \in Page |-> Zero],
   thr |-> [t \in Thread |-> [pc |-> "elsewhere", has |-> FALSE, f |-> NULL,
                              page |-> NULL, store |-> NULL, rest |-> <<>>]],
   runq |-> <<>>, waitq |-> [f \in Frame \cup {NULL} |-> <<>>], crash |-> NoCrash]

Next == \E t \in Thread :
  \/ Interrupt(t) \/ Elsewhere(t)
  \/ \E n \in Page, v \in Val \cup {NULL} : pframe_get(t, n, v)
  \/ GetAgain(t) \/ Filled(t) \/ Dirtied(t)
  \/ sys_sync(t) \/ Cleaned(t)
  \/ vget(t) \/ VgetAgain(t) \/ VgetDone(t)
  \/ vput(t) \/ Uncache(t) \/ Deleted(t)
  \/ Unlink(t) \/ Create(t)

Spec == Init /\ [][Next]_m

-----------------------------------------------------------------------------
(* Properties. *)

Filling(f) == \E t \in Thread : m.thr[t].pc = "filling" /\ m.thr[t].f = f

(* A thread in vput's loop over the pages has done with the file.          *)
Reachable == m.linked \/ \E t \in Thread : m.thr[t].has /\ m.thr[t].pc # "put"

(* What was last stored in a page of a file that somebody can still reach  *)
(* is in memory, or on the disk if the page is not in memory; and it is on *)
(* the disk if the page is neither dirty nor busy, and dirtypage has not   *)
(* refused the store.  So a page that is dirtied while others wait for it, *)
(* or that could not be written, is not taken for a clean one              *)
(* (kernel/mm/pframe.c:505), and a refused store is caught up with by the  *)
(* next one that is not refused.                                           *)
NoLostWrite ==
  Reachable =>
    \A n \in Page :
      /\ \A f \in Resident(m, n) :
           /\ Filling(f) \/ m.frame[f].val = m.last[n]
           /\ \/ m.frame[f].busy \/ m.frame[f].dirty \/ m.frame[f].refused
              \/ m.disk[n] = m.last[n]
      /\ Resident(m, n) = {} => m.disk[n] = m.last[n]

(* A thread sleeps for a page only while it is busy, and for a vnode only  *)
(* while that is in core: who makes it unbusy, or takes it away, wakes the *)
(* thread.                                                                 *)
SleepersWillBeWoken ==
  /\ \A f \in Frame : m.waitq[f] # <<>> => m.frame[f].busy
  /\ m.waitq[NULL] # <<>> => m.core

(* vn_refcount counts the holders and the pages in memory, a page is in    *)
(* memory once, and the assertions of vput and pframe_free hold.  The two  *)
(* things that can go wrong: a thread that slept for a page whose read     *)
(* fails goes on with the freed pframe, and a thread that vget left asleep *)
(* is woken when the file has been deleted, and reads a free inode.        *)
CountsAgree ==
  /\ m.crash \in {NoCrash, "another_page", "read_vnode"}
  /\ \A n \in Page : Cardinality(Resident(m, n)) <= 1
  /\ ToSet(m.alloc) = {f \in Frame : m.frame[f].page # NULL}
  /\ (m.core /\ ~m.busy) =>
       m.ref = Len(m.res) + Cardinality({t \in Thread : m.thr[t].has})
=============================================================================
