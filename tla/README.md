# A verification project for the Weenix kernel and its companions

The repository holds a teaching kernel, Weenix (`src/Kernel Development/kernel3/weenix`),
the tool that makes its disks (`tools/fsmaker`), the two exercises that came before
it (`warmup1`, `warmup2`) and a few unrelated scripts. This directory models the
parts whose correctness depends on the order in which things happen or on
bookkeeping that many operations share: scheduler, mutexes, processes, interrupts,
the page cache and the vnodes, files and directories, address spaces with copy on write,
the memory allocators, the multi-threaded token bucket of `warmup2`, and the
disk structures that fsmaker keeps. TLC checks the models on small instances; TLAPS
proves the mutex, the processes, the scheduler under interrupts, the files with their
directories, the page cache, the address spaces and the token bucket for any number of threads,
processes, inodes, pages and packets.

`K/` below is `src/Kernel Development/kernel3/weenix/kernel/`, `W2` is
`src/Kernel Development/warmup2/warmup2.c`, `FM/` is the directory `tools/fsmaker/` of weenix.
`PROJECT.json` lists the components, the runs, the source lines of every
definition, the seeded faults, and the hazards.

## Inventory of the system

The kernel runs on one CPU and is not preemptive (`UPREEMPT=0` and `MTP=0` in
`Config.mk`): a thread runs until it calls `sched_switch`. Interrupt handlers run
to their end with interrupts off. A process has one thread.

| component | state | operations | interacts with | what is hard | what makes it correct |
|---|---|---|---|---|---|
| scheduler, thread queues (`proc/sched.c`) | `kt_runq`, every `ktqueue_t` (list, `tq_size`), `kt_state`, `kt_wchan`, `kt_cancelled`, `curthr` | sleep, cancellable sleep, wake up, broadcast, cancel, switch, make runnable | everybody calls it; interrupt handlers wake through it | cancellation of sleepers, interrupts between statements, the idle loop | every thread is on exactly the queue its state calls for; no lost wake-up |
| mutexes (`proc/kmutex.c`) | `km_holder`, `km_waitq` | lock, cancellable lock, unlock | scheduler | ownership is handed to a sleeper that does not look again; cancellation between hand-off and return | exclusion, hand-off in order, nobody waits for a mutex without holder |
| threads (`proc/kthread.c`) | `kthread_t`, `kt_retval` | create, clone, cancel, exit, destroy | scheduler, processes | cancelling a thread in any state | a cancelled thread leaves, and only once |
| processes (`proc/proc.c`, `proc/fork.c`) | `_proc_list`, `p_children`, `p_pproc`, `p_state`, `p_status`, `p_wait`, `next_pid` | create, fork, exit, reparent, waitpid, kill, kill all | scheduler, files and address space, init and idle | parent, child and init finish in any order; wake-ups are not counted; `PROC_DEAD` is set early by a cancelled sleep | the family tree is consistent, zombies are reaped once, by their parent; the shutdown ends |
| boot, idle, init (`main/kmain.c`, `user/sbin/init.c`) | – | create init and the daemon, wait, shut down | processes | the order in which init and the daemon finish | the assertions of the shutdown hold and no process is left |
| interrupts (`main/interrupt.c`, `include/main/interrupt.h`) | IPL, IF | mask, unmask, `sti; hlt`, dispatch | scheduler, drivers | the places where the level is low | see scheduler |
| page frames (`mm/pframe.c`) | allocated list, resident lists, busy and dirty flags, wait queues | get, fill, dirty, clean, clean all, migrate, free | vnodes, memory objects, scheduler, disk | frames freed while somebody sleeps for them, dirtied while written, lists that change under an iteration | no store is lost, the counts agree, nobody sleeps for a wake-up that has passed |
| vnodes (`fs/vnode.c`) | in-use list, `vn_refcount`, `vn_nrespages`, `VN_BUSY` | vget, vref, vput | file system, page frames | a vnode brought in or out while it is looked up | as above; references are those of directories, files and processes |
| files (`fs/file.c`, `open.c`, `vfs_syscall.c`, `namev.c`) | `p_files`, `p_cwd`, `f_refcount`, `f_pos` | open, close, read, write, dup, dup2, mknod, mkdir, rmdir, link, unlink, chdir, getdent, lseek, stat; fork and exit | vnodes, ramfs | error paths, table limits, names that go while they are in use | every reference is released once; the machine does not stop |
| ramfs (`fs/ramfs/ramfs.c`) | inodes with link counts, directory entries | create, mknod, mkdir, rmdir, link, unlink, read, write, readdir, mount | vnodes | an inode is freed only after its last name and its last vnode | link counts are the entries; parents contain their children |
| address spaces (`vm/vmmap.c`, `mmap.c`, `brk.c`) | sorted list of areas, break | map, remove, find range, lookup, clone, read, write, mmap, munmap, brk | memory objects, page tables, exec | splitting and trimming, limits, stale translations | areas sorted and disjoint; removing and mapping do what they say |
| anonymous and shadow objects (`vm/anon.c`, `shadow.c`, `shadowd.c`, `pagefault.c`) | reference counts, chains, resident pages | ref, put, lookup, fill, fault, collapse | page frames, fork | counts that include resident pages, recursion in put, pages that move | copy on write isolates parent and child; an object lives as long as it is used |
| page allocator and slabs (`mm/page.c`, `mm/slab.c`) | free lists and bitmaps per order; slabs with free lists and counts | alloc and free of blocks, of objects, kmalloc and kfree, reclaim | everybody | reclaim in the middle of an allocation, both sides of a buddy pair | no two pieces in use overlap; bitmaps agree with lists |
| program loader (`api/elf32.c`, `exec.c`) | – | map the segments, write arguments, switch maps | address spaces, files | failure after the old map has gone | the new map is complete before the old one goes |
| system calls (`api/syscall.c`, `access.c`) | – | dispatch, cancellation at entry and return, copies to and from the user | all of the kernel | a cancelled thread must not return to its program; pages that are not there | see processes and address spaces |
| drivers (`drivers/`) | per device | block, sleep, wake | scheduler, interrupts | an interrupt before the sleep it should end | the sleeper is on the queue before the interrupt can come |
| token bucket (`W2`) | mutex, condition variable, queues Q1 and Q2, tokens, counts, end flags | token arrival, packet arrival, service, ^C, end | POSIX threads, the user's ^C | cancellation inside sections, unlocked tests, wake-ups and ends that cross | packets are served in order, none is forgotten, the emulation ends |
| fsmaker (`FM/api.py`, `sh.py`) | superblock with its list of free blocks, inodes, blocks, current directory | format, mkdir, rmdir, rm, touch, truncate, getfile, cd | the host's files | commands that fail half way for want of space | every block and inode is used once or free; the directories are a tree |
| warmup1, s5fs, hardware set-up, utilities, shell, libc, scripts | – | – | – | – | not modelled (see below) |

The hazards of this code, each at its line, are the `hazards` of `PROJECT.json`;
the properties were chosen from that list.

## Modules

| module | models | how |
|---|---|---|
| `Sched` | `K/proc/sched.c` | State functions on one record: the queues in the order their threads leave, and the scheduler's fields of every thread. The other modules chain them inside their actions, because between two calls of `sched_switch` nothing else runs. `curthr = NoThread` means that the CPU is in the loop of `sched_switch`; `Dispatch` is its end. |
| `KMutex` | `K/proc/kmutex.c` | Threads around one mutex: one action per operation, and one for the return of a lock call whose thread slept. They yield, wait for a device with or without the mutex, cancel each other, exit. |
| `MutexSpec` | – | The abstract lock: first come first served, with direct hand-off, waiters may give up. |
| `Proc` | `K/proc/proc.c`, `kthread.c`, `fork.c`, the waits of `K/main/kmain.c`, `K/mm/pframe.c` and `user/sbin/init.c`, the cancellation checks of `K/api/syscall.c` | Idle, init, the daemon and user processes with their system calls. `pc` says where each thread continues when it is dispatched. |
| `SchedIrq` | `sched_switch` and `sched_cancel` statement by statement, `intr_wait`, the levels | An interrupt can come between any two statements that matter, if the level and the flag allow it. |
| `PageCache` | `K/fs/vnode.c` and `K/mm/pframe.c` on one vnode | Threads get, dirty, sync and put; they sleep for busy frames, the busy vnode and the disk. One record `m` holds frames, lists, vnode, disk and threads. |
| `RamFS` | `K/fs/ramfs/ramfs.c`, references of `K/fs/vnode.c` | State functions on one record: inodes, directory entries, vnode references, the assertion that failed (`crash`). |
| `Files` | `K/fs/vfs_syscall.c`, `open.c`, `file.c`, `namev.c`, `vfs.c`, the file parts of fork and exit | One action per system call, over `RamFS`. The history variables `leaked`, `lost` and `orphan` remember what known defects have cost, so that the invariants stay exact. |
| `VM` | `K/vm/`, `K/api/access.c`, `elf32.c`, the memory parts of fork and exit, `pt_unmap_range` | One action per system call or fault, over objects, areas and translations. |
| `AbsMem` | – | The memory a program expects, page by page, with one action for each thing it can ask for: a store changes the pages that are the same page, fork copies the private ones, mmap gives zeroed pages, exec those of the program. |
| `Kmem` | `K/mm/page.c`, `slab.c` | One action per request. Sizes are in small units (`PAGE_SIZE` 24). |
| `AbsHeap` | – | Pieces of memory in use, which never overlap. |
| `TokenBucket` | `W2` | One action per stretch of a thread between two points where another thread can be noticed: lock, unlock, wait, the unlocked reads and writes. |
| `FsMaker` | `FM/api.py`, `sh.py` | One action per command. `api.py`'s functions are functions on the disk; an exception is a field of the result, and what was done before it stays done. |
| `SchedProofs`, `KMutexProofs`, `ProcProofs`, `SchedIrqProofs`, `FilesProofs`, `PageCacheProofs`, `TokenBucketProofs`, `MemoryProofs` | – | The proofs. `SchedProofs` holds the lemmas on queues that the next three share. |
| `MC...` | – | Give the constants their values for TLC. |

`Proc`, `Files` and `VM` model the three sides of fork and exit. They compose as the
code does: `do_fork` and `proc_cleanup` call the parts one after the other, and the parts
share no state. `Files` extends `RamFS`, `KMutex`, `Proc` and `SchedIrq` extend `Sched`.

### How state and actions correspond to the code

*Threads and places.* A thread that is not running continues at the statement
after its `sched_switch`; `pc` names that statement. An action runs from there
to the next `sched_switch` (in `SchedIrq`, to the next place where an interrupt
matters).

*Queues.* `list_insert_head` and `l_prev` make a queue first in, first out; the
sequences are in the order of service. `kt_qlink` is not a separate variable:
that a thread is linked where `kt_wchan` says is a property (`Linked`), not an
assumption, and in `SchedIrq` unlinking looks for the thread on whichever list
it is on, as `list_remove` does. `PageCache` has a queue for each `pf_waitq` and one for
`vn_waitq`, and a broadcast moves a whole queue to the run queue.

*Cancelled sleeps.* `sched_cancellable_sleep_on` sets `KT_EXITED` and `PROC_DEAD`
before it returns `-EINTR`. Both are modelled (`ReturnEINTR`, `TtyRead_Continues`),
because the thread runs on and its parent may look at it.

*Processes.* Threads, processes and pids are the same numbers, since a process
has one thread. `PROC_FREE` is a slot without a process. Init of `Proc` is the
state in which idle has created init and the daemon and is about to wait.
`kthread_exit` is the rest of the thread's life: `proc_thread_exited`,
`proc_cleanup`, the last `sched_switch`. With `BlockingCleanup` it may sleep after
it has woken the parent, where `do_close` and `vput` may (`K/fs/vnode.c:272`).
`proc_kill` always ends in the effect of `sched_cancel` on another process:
`kthread_cancel` sets the flag and calls `sched_cancel` only for a cancellable
sleep, in which case alone `sched_cancel` does more than set the flag.
`do_waitpid` is one pass over the children; that the second pass of the code does
not test for an empty list again makes no difference, since only the process
itself takes children off its list.

*Levels.* In `SchedIrq` the level of a class is the upper half of the vector
(`INTR_KEYBOARD` 0xe0, `INTR_DISK_PRIMARY` 0xd0); a handler is taken when the
interrupt flag is on and its class is above the level. Handlers come through
interrupt gates and run with the flag off. A local variable goes back to a
default when it is dead, which only merges states that behave alike. The linking
of a list element (`list_remove`) is one step.

*Frames and vnodes.* A freed frame goes back to the slab and the next allocation takes
it: a thread that slept with the pointer then holds another page. `disk` is what the
disk holds, `last` the last store to a page. Reading, writing, dirtying and deleting sleep for
the disk, in whatever order it answers; reads and writes may fail, and `dirtypage` may refuse a store (there is no
free block for the page). `pframe_dirty` then leaves the page clean and returns an error, at which
neither `vmmap_write` nor the page fault looks. `refused` says that the page holds such a store and the disk something else, until
`dirtypage` is asked again or the page goes.

*Files.* A path is a record: absolute or not, the directories on the way, the last
name. A failed `KASSERT`, a panic or the use of a variable that was never assigned ends
the model's behaviour with `fs.crash` naming it. ramfs never sleeps, so each system call is one action;
only reading a character device sleeps (`do_read_Continues`).

*Memory.* Page numbers stand for addresses. A frame is its object and page number;
translations (`pte`) remember object, page, and whether they allow stores. The processor
uses a translation if there is one and faults otherwise.
`mmo_refcount` counts users and resident pages, as in the code.

*Allocators.* A free block is in a free list by order; `page_join` and `page_split1` flip the
bits of the buddy pairs. `blocks` and `objs` are what clients hold. Slab headers and
`bufctl`s lie in the same pages as the objects, so the refinement to `AbsHeap` also says that
a client's memory is apart from them.

*Token bucket.* The threads are the token thread, the packet thread, two servers and the
signal thread. Sleeping for time is a place where a thread may stay as long as it
likes. `pthread_cond_wait` may return without a signal. A cancelled thread ends
at the next cancellation point through `cleanup`.

*fsmaker.* Blocks are sequences of entries; a file longer than `NDIRECT` blocks has an
indirect block. Free blocks are a list of nodes with `NBLKS` entries each in the superblock and in
free blocks, as on the disk. The units of a write are the chunks `Inode.write` writes.

## What the runs check

| run | instance | states | shows |
|---|---|---|---|
| `kmutex` | 3 threads, one mutex, one device | 10,922 | `TypeOK`, `NoThreadLost`, `MutualExclusion`, `HandOff`, `LockCallsReturn`, and `ImplementsLock` (refinement of `MutexSpec`) |
| `kmutex_cancel` | the same | counterexample | `EINTRMeansNotHolder` fails |
| `proc` | 6 pids: idle, init, daemon, 3 user processes | 125,401 | `FamilyTree`, `NoHopelessWait`, `NoPanic`, `ZombiesAwaitTheirParent`, `ShutdownCompletes` |
| `proc_cleanup` | 5 pids, closing files may sleep | 7,229 | `NotReapedAlive` |
| `schedirq` | 3 threads, disk and keyboard | 63,582 | `NoThreadLost`, `LevelsProtect`, `DiskIOReturns` |
| `files` | 2 processes, 2 descriptors, 2 open files, 1 name | 106,540 | `FileRefs`, `OnlyKnownCrashes` |
| `filetree` | 1 process, 2 names, 3 inodes | 39,319 | `VnodeRefs`, `LinkCounts`, `ParentLinks`, `HeldInodeIsKept` |
| `vm` | 2 processes, 2 pages, 4 objects | 11,251 | `AddressSpaces`, `RefCounts`, `Translations`, `ImplementsMem` (each call does what `AbsMem` says of it) |
| `alloc` | 9 pages, 3 orders, 3 allocators, 4 pieces in use | 93,857 | `BuddyBits`, `SlabObjects`, `ImplementsHeap` (refinement of `AbsHeap`) |
| `pagecache` | 3 threads, 2 pages, 2 frames | 1,546,259 | `NoLostWrite`, `SleepersWillBeWoken`, `CountsAgree` |
| `token` | 2 packets, bucket of 2, 2 servers | 507,512 | `TypeOK`, `MutualExclusion`, `HeadWaitsForTokens`, `PacketsAreServed`, `NoPacketLeft`, `EmulationEnds` |
| `fsmaker` | 8 blocks, 4 inodes, 7 commands | 72,578 | `BlocksAccounted`, `InodesAccounted`, `TreeOK` |

Every property of a passing run is also checked against a fault seeded in the
model (the definitions under "Seeded fault"): with the fault the run fails.

### What the failing run found

**A cancelled waiter keeps the mutex** (`K/proc/kmutex.c:73`). `kmutex_unlock` makes a
sleeper the holder; if it is cancelled before it runs,
`kmutex_lock_cancellable` returns `-EINTR` although the thread is the holder.
Nobody unlocks the mutex. `LockCallsReturn` therefore excepts an abandoned mutex.

### Known deviations that the properties step around

The models contain these as the code has them. Where a property would fail because of one, it names
it as an exception, so that anything else that breaks it is seen.

Kernel threads and processes:

- **The parent is woken too early** (`K/proc/proc.c:204`). When `proc_cleanup` sleeps after the
  wake-up, the assertion of `cleanupDeadProcess` or of idle can fail, and a parent can
  go back to sleep for good. `proc_cleanup` therefore checks only that nobody is reaped
  alive, no deadlock and no liveness.
- **Zombies change parents silently** (`K/proc/proc.c:226`). Init is not woken when it
  inherits an exited child; the next child that exits repairs it.
- **A killed process exits with an address** (`K/proc/proc.c:259`), that of the parameter of `proc_kill`.
- **The idle loop can halt with a runnable thread** (`K/proc/sched.c:257`): only the
  first test of the run queue is made with interrupts masked. Without a timer
  (`UPREEMPT=0`) the thread waits for the next device interrupt. `DiskIOReturns`
  excepts that state (`HaltsOnlyWhenIdle`).
- **`sched_cancel` and a wake-up of the same thread** (`K/proc/sched.c:209`) leave
  `tq_size` wrong in two queues; the lists themselves stay right (`NoThreadLost`).

Page cache:

- **A refused store is forgotten** (`K/vm/vmmap.c:609`, `K/vm/pagefault.c:104`). When `dirtypage` refuses, `pframe_dirty` returns an error
  (`K/mm/pframe.c:477`) at which neither caller looks: the page keeps the store and stays clean, and the store does not go to the disk
  unless a later one to the page is accepted. `NoLostWrite` excepts such pages (`refused`).
- `pframe_get` sleeps for a busy frame and uses it although it may have been freed and
  taken for another page (`K/mm/pframe.c:337-366`): crash `another_page`, reached when a read fails.
- `vget` clears `VN_BUSY` without a wake-up (`K/fs/vnode.c:207`): a thread that waited sleeps
  until the vnode is put away, and may then read an inode that has been deleted: crash `read_vnode`.
  `CountsAgree` allows these two and no other.
- In the model a store and the call of `pframe_dirty` are one step up to the sleep in `dirtypage`; a program stores when the fault has
  returned, and may store again through the mapping until it goes. Later stores through the mapping of a page that was refused are taken for
  faults refused again, and stores through a mapping while another thread's `pframe_dirty` has the page are left out. (`pframe_clean`
  takes the mappings away first, so that a store meanwhile faults and waits for the page.)

Files:

- A removed directory that is still some `..` (`K/fs/ramfs/ramfs.c:250`): looking it up
  asserts, or finds an inode that has been used again, and removing through it damages that one. `ParentLinks` and
  `OnlyKnownCrashes` hold while no directory is orphaned (`orphan`), and `LinkCounts` counts what was `lost`.
- A file can be created in a directory that has been removed; it is lost with it.
- `do_link` returns without its vnode when the second path fails (`K/fs/vfs_syscall.c:522`); the
  reference is never dropped (`leaked`), and `vfs_shutdown` panics.
- `do_unlink`, `do_stat` and `do_link` use results of failed look-ups; `fd = NFILES` passes the
  limits (`fd>NFILES`); `do_open` stores into `p_files[-EMFILE]`. These are the crash `undefined`.
- `lseek` can move into the middle of a directory entry, and `ramfs_readdir` asserts
  (`K/fs/ramfs/ramfs.c:631`); a write beyond the one page of a file is its own crash.

Address spaces:

- A shrinking break leaves translations behind (`K/vm/brk.c`); `Translations` and the
  refinement speak of behaviours in which no break has shrunk so far (`shrunk`). `pt_unmap_range` clears
  whole tables beyond its range, which costs faults, not correctness.
- `vmmap_read` and `vmmap_write` copy all `count` bytes from one frame; a copy that crosses a page
  boundary is `copy_to_user_TwoPages`.
- `do_mmap` ignores the result of `vmmap_map`; fork asserts on a map whose area has no pages.
- A translation made for reading a shadow chain survives the copy that
  `vmmap_write` makes (`K/vm/vmmap.c:602`), as the kernel's store does not go through the translation.
  The user reads the old page until it faults.
- The assertion of `shadowd` (`shadowd.c:106`) is not reached with four objects. The repository's
  `Config.mk` has `SHADOWD=0`; the run has it on.

Allocators:

- Pages of a range that fill no block of the largest order are counted in `page_freecount` and in
  no list (`K/mm/page.c:424`).
- `page_alloc` may return NULL although the last reclaim has just freed memory (`K/mm/page.c:243-256`).

Token bucket (`W2`):

- A server that comes to its test after the last broadcast, with nothing left to wake it, waits
  for good (line 470): `EmulationEnds` excepts it (`TooLate`). The program's notes
  claim `Deadlocks : -0` (`w2-README.txt:57`).
- When a packet is dropped, the packet thread unlocks a mutex it has not locked and
  reads both queues without it (449, 444). The data races that follow are the crash `data race`, and the properties
  about exclusion are about runs without a dropped packet.
- The clean-up handlers of two threads may close the trace file twice (281-283), or close it under `fgets`.
- The parser tests the old value for `-P` before it assigns, so that a negative one passes; with `-n 0` the emulation never ends.
- A packet that enters Q1 after ^C is not reported as removed. `My402ListUnlinkAll`
  reads elements it has freed (not modelled: the list is a sequence).

fsmaker:

- `get_parentdir("/a")` looks in the current directory; `cd` with an absolute path appends it to the
  old one; errors of some commands end the tool (`Restart`), `rm -r` of a missing name among them.
- A `mkdir` that fails at its last step leaves the parent's link count raised: the parent cannot be removed by `rmdir` any more.
- A write that runs out of space leaves blocks that are neither the file's nor free, or loses the indirect block.
- Truncating a file of the greatest size raises after its entry has been removed: the inode is orphaned.
- A truncation that grows a file raises, or never ends and zeroes an entry of the indirect block.
- Entries of removed files are never used again (`api.py:367`). `getfile` onto a directory overwrites it.

`disk.spoiled` remembers which of these commands has failed since the last format; `BlocksAccounted`, `InodesAccounted` and `TreeOK` are exact before, and afterwards say what still holds: no block has two users, no block or inode is both used
and free, and after a failed write or `mkdir` the directories still form a tree.

## Bounds, and why they are enough

- `KMutex`: three threads are a holder, a waiter and one that cancels or overtakes;
  the order in which three equal threads start does not matter. The proofs
  cover any number.
- `Proc`: `PROC_MAX_COUNT` is 6 instead of 65536, so pids wrap around and are used
  again. Three user processes make a grandchild, its parent and a bystander.
  A process is created only while a pid is free (`_proc_getid`): what happens
  otherwise is a hazard of its own in `PROJECT.json`. Five pids are enough where
  only a parent and a child matter. The exit status is one of three values.
  The proofs cover any number of pids and of user processes.
  `waitpid` is modelled for the pids its comment supports. Init does not fail to
  open its terminal. The disk waits of idle during `vfs_shutdown` are left out;
  no other process but the daemon exists then. The daemon never finds too few
  free pages: `pageoutd_wakeup` is never called in the code.
- `SchedIrq`: a thread that sleeps, one that cancels it and a third one; a key and a
  disk interrupt can be pending at the same time, an interrupt is pending at
  most once, as in the interrupt controller. One disk operation runs at a time,
  under the disk's mutex.
- `PageCache`: two pages and two frames, so that a freed frame is soon another page; three
  threads: one that has a page busy, one that sleeps for it and one that frees it. Threads, pages and
  frames that differ only in name are one state (symmetry). `SameStores` is `FALSE`: a thread that asks for a page to store into it
  wants to change it, so that the run need not tell apart stores that nobody could see lost. The proofs cover any number of each
  and both values of `SameStores`.
- `Files`: with descriptors in view, two processes share two open files, and one name suffices; with the tree
  in view, one process, two names and three inodes make a directory in a directory, a link and an
  inode that is used again. Directories have room for two entries besides `.` and `..` (`RAMFS_MAX_DIRENT` 4; one in `files`),
  so that they fill up. A page is one byte; positions stop at `MaxPos` and `MaxDirPos`, leaks at `MaxLeaks`.
  The proofs cover any number of processes, descriptors, open files, names, inodes and directory entries.
- `VM`: two pages in one page table, four objects: enough for a chain of three with its sibling.
  All areas are one page, and the break is in the last page of user memory, so that no heap grows or shrinks and no area is
  trimmed or split: three pages would be too many states. What `do_brk` and `vmmap_remove` do there is in the model and in the proofs of
  `AddressSpaces`, `RefCounts` and `Translations`, but not in the run; of the steps that `ImplementsMem` speaks of, those of a heap that moves are not checked.
  All areas may be read and written.
- `Kmem`: nine pages make a block that is split twice, and a page left over; the sizes are chosen so that a
  slab holds few objects, fills up, empties and is reclaimed in an allocation. At most `MaxHeld` pieces are out at a time.
- `TokenBucket`: two packets, one behind the other, two servers; a packet may need more tokens than the bucket
  holds and is dropped. The proofs cover any number. Deadlock is checked: `Stopped` is the end of the program.
- `FsMaker`: one direct block per file, then the indirect one; eight blocks run out within a command, the list of
  free blocks needs more than one node, four inodes run out. `Commands` counts the commands that change
  an inode since the last format, `Depth` the names in the current directory, which `cd /a` makes longer each time.

Deadlock is checked where the system cannot stop on its own: a machine that is off or has panicked and a program
that has ended have a step of their own (`Off`, `Stopped`). It is not checked in `kmutex` and `kmutex_cancel`, where all
threads may have exited; in `proc_cleanup`, where a parent that was woken too early sleeps for good; and in `pagecache`,
where the model ends with a crash or with every thread asleep in `vget` on a vnode nobody holds any more: who may
sleep without being woken is what `SleepersWillBeWoken` says.

## Fairness, and why the code justifies it

The CPU dispatches what is runnable (`WF` of `Dispatch`) and executes the thread it
runs (`WF` of each thread's step). A device that was asked answers (`WF`). Nobody
has to press a key, so nothing that waits for the terminal is claimed to return.
Two assumptions are about clients: since there is no preemption, a thread around
a mutex yields again and again and a holder that is run again and again unlocks
(`SF` in `KMutex`). In `SchedIrq` taking an interrupt is strongly fair, because the
controller keeps a request until the level allows it, and the CPU looks at every
instruction; and a cancelled thread does not go on with system calls for ever
(`SF` of `kthread_exit`; `syscall_handler` sees to it).

In `TokenBucket` every thread goes on (`WF`), and a thread that wants the mutex gets it if it is free again and
again (`SF`: POSIX does not promise it, but the threads sleep between their sections and the
run times of the program rely on it). Nothing is assumed of ^C and of wake-ups
without a signal: neither has to happen. The other modules claim safety and refinement only.

## What is proved

*The mutex.* `SchedProofs` has lemmas on the queue operations: inserting, removing the head and
unlinking keep every queue free of duplicates and in agreement with `kt_wchan`, and
each scheduler operation keeps every thread accounted for. `KMutexProofs` uses them
for `Invariance` (`Spec => []IInv`), for `TypeCorrect`, `NoThreadIsLost`, `Exclusion`,
`Granted` and `HolderForWaiters`, for every set of threads, and for `Implementation`: every step of the mutex is a
step of `MutexSpec` or leaves holder and waiters alone.
They assume only `SchedAssumption` (the run queue, the wait queues, NULL and the
threads are different things) and `KMutexAssumption` (the mutex's queue and the device's
are different, every thread starts once); TLC evaluates both in every run.

`MutualExclusion` alone is not inductive: a thread that wakes up in `kmutex_lock`
enters the critical section without a test, so one has to know that a thread off
the wait queue is the holder (`HandOff`), that a holder is never asleep on the mutex, and that the
sleeper that unlock wakes is the one it makes the holder, which needs the queues to
agree with `kt_wchan` (`NoThreadLost`). The inductive invariant is

    IInv == TypeOK /\ NoThreadLost /\ MutexInv

where `MutexInv` is exclusion, hand-off, and that the queue of a mutex without a holder
is empty. Each action has a lemma; the step theorem combines them. The refinement maps the owner to `km_holder` and
the waiters to the queue of the mutex; locking, sleeping, unlocking and cancelling a cancellable
waiter are `Acquire`, `Wait`, `Release` and `GiveUp`, everything else is a stutter.

*The processes.* `ProcProofs` proves `FamilyTree`, `NoHopelessWait`, `NoPanic`, and the action properties
`NotReapedAlive` and `ZombiesAwaitTheirParent`, for any number of pids (`ProcAssumption`: there are
the pids of idle, init and the daemon, and no queue is a process).
`NoHopelessWait` and `NoPanic` assume `BlockingCleanup = FALSE`, as the run `proc` has it: when
`proc_cleanup` sleeps after it has woken the parent, they are false (see the first deviation above), and
`proc_cleanup` checks and the theorem proves only `NotReapedAlive`. The other theorems cover both. The invariant is

    IInv == /\ TypeOK /\ Linked(sched) /\ Roles /\ Scheduled /\ OwnWaits
            /\ Family /\ Elders /\ Phases /\ Dying /\ Orderly

- `Linked` (queues and `kt_wchan` agree, from `SchedProofs`), `Scheduled` (where a thread is, by `pc` and
  `kt_state`) and `OwnWaits` (on a `p_wait` sleeps nobody but its owner) say that a wake-up reaches the one it is for.
- `Family` is `FamilyTree` with what makes it inductive: a parent has not exited, only idle is
  without one, and no user process is a child of idle or of the daemon.
- `Elders`: on `_proc_list` a parent comes before its children, and init before every user process.
  A fork appends, and `proc_cleanup` gives orphans to init, the eldest; so the order is kept. It rules out a cycle of parents, and
  it shows that the eldest user process is a child of init. That is why init, when it finds no more children, is the
  last but idle and the daemon, which the assertions of the shutdown need.
- `Phases` is the order of the shutdown, and that init is not cancelled while it reaps: `proc_kill_all` spares the children of idle.
- `Dying`: a process is `PROC_DEAD` when its thread is gone, or earlier, in the system call whose
  sleep was cancelled, or in a `proc_cleanup` that sleeps.
- `Orderly` is `NoHopelessWait` and "nobody has panicked", when `proc_cleanup` does not sleep.

The loop of `proc_kill_all` over `_proc_list` is a recursive function; `KillingOnlyWakes` shows what it
keeps by looking at the least iteration that could break it (`LeastNumber`, from the well-foundedness of the natural numbers).
The action properties follow from `FateOfAProcess`: a step leaves a process's slot, state and status alone, is its own step or its
fork, or is the step of its parent that reaps it. `ZombiesAwaitTheirParent` then needs `Family`: the child found in the
list of the process that waits is its own.

*Interrupts.* `SchedIrqProofs` proves `NoThreadLost` and `LevelsProtect` for any finite set of threads.
Between two statements of `sched_switch` or `sched_cancel` a thread may be on no queue. `Placed` says which one
(`OffQueues`: the running thread before it enters `sched_switch`, the victim between its removal and its wake-up) and that every other
thread is on the queue of its state. `DiskIsOneThreads` says that the disk is used by one thread at a time and that
from the start of an operation to the sleep its interrupt is outstanding and masked: this is what an
interrupt before the sleep would break. `RunQueueIsSeen`, `DiskWillAnswer` and `CancelIsUnderWay` are the parts of `LevelsProtect` in a form
that speaks of the threads on the queues instead of the queues' contents. A handler that
wakes a thread between any two statements has to keep all of them (`NoThreadIsLost`, `LevelsDoProtect`).

*The token bucket.* `TokenBucketProofs` proves `TypesHold`, `OnlyHolderWorks`, `NoTokenIsOverlooked`,
`PacketsAreAlwaysServed` and `NoPacketIsLeft` for any number of packets, any bucket size, any needs and any set of servers.
The first inductive invariant is

    IInv == TypeOK /\ Places /\ Counts /\ MutualExclusion /\ OneInSection /\ Waits

`Places` says which flags go with which place of each thread (a thread inside its section has noted
that it must unlock), `Counts` how far the packet thread has come, `OneInSection` that
at most one thread is between lock and unlock unless there has been a data race, `Waits` that only the thread that is about
to move the head of Q1 can see enough tokens for it. `MutualExclusion`
needs `Places` because `cleanup` unlocks by the flag, and `HeadWaitsForTokens` needs `OneInSection` because it speaks of the times
when nobody is inside. The second rests on the first:

    Journey == Hands /\ Ordered /\ Arrivals /\ Accounted /\ Attended

`Hands` and `Ordered` follow a packet from Q1 through the hand of the thread that moves it to Q2 and to a server: what is
further on has come earlier. `Arrivals` and `Accounted` say that until ^C every packet generated so far is somewhere, and that
each of the two signs of the end (`terminate`, `end`) is given only when nothing is left but what the servers hold. `Attended` says that when
all servers wait, the thread that has put a packet into Q2 still has its broadcast before it. The steps that look at `end` and `Q2` under the mutex
need `OneInSection`: nobody else moves a packet between a server's test and its wait.

*The files.* `FilesProofs` proves `FileRefs`, `VnodeRefs`, `LinkCounts`, `ParentLinks`, `OnlyKnownCrashes` and the action
property `HeldInodeIsKept`, for any finite sets of processes and open files, any number of descriptors, inodes
and directory entries, any names and paths. `FilesAssumption` says that NULL is neither an open file nor an inode, that paths consist
of names and that the flags are those `do_open` accepts; `RamFSAssumption` that a directory has room for its two dots, and that these are no names. The
invariant is

    IInv == /\ TypeOK /\ fs \in FSState /\ orphan \in BOOLEAN
            /\ Good([fs EXCEPT !.crash = NoCrash], Holders(cwd, power, leaked), Total(fs, lost))
            /\ FilesAre(fs, Users(files, reading))
            /\ orphan \/ Parents(fs)
            /\ Absent /\ OnlyKnownCrashes

- `Good(m, h, t)` is what holds of the file system at every point *inside* a system call, where
  references are in local variables. `h` says who holds vnodes besides the open files, `t` how many names every inode has or has lost. It says that
  `vn_refcount` is the open files and `h`, that `rf_linkcount` is `t`, the vnode in core and the root's own link, that exactly the inodes
  without links are free, that a directory begins with its two dots and its size counts its entries, that the length in core is the
  length of the file, and that a directory has one name. Every state function of `RamFS` and `Files` (`ramfs_link`, `vput`,
  `fref`, ...) has a lemma that says what it does to `h` and `t`; the system calls chain them, error paths included.
- An inode is not freed under a caller because it is *anchored*: somebody else holds it, it is the root, or it has a name. The walk of
  `dir_namev` puts each directory before it goes on, so what it returns must be anchored in the state it ends with (`DirNamev`,
  `OpenNamev`; the walk is a function on the length of the path, looked at by its least step).
- `Parents` is why looking up `..` finds an inode that exists. It holds until a directory is removed that is still somebody's
  parent; with that step (`orphan`) the model ends, for the proofs as for TLC.
- `OnlyKnownCrashes` is not inductive without the counts: that `fput` and `vput` find a reference to drop follows from
  `FilesAre` and `RefsAre`, and that `ramfs_read_vnode` finds an inode in use from `Unlinked` and `LinksAre`.
- `Absent`: a process that is not there has no files, so fork starts from an empty table.

The loops of fork and exit over the table of descriptors are recursive functions; `TurnsExist` and `Reached` bring what a
round keeps from the first descriptor to the last. `InductiveInvariant` combines one lemma for each system call, and
each of the other theorems counts the sets that `IInv` speaks of in the way the property does. `HeldInodesAreKept` needs both states of a step: a
vnode with a reference before and after keeps its link in core in between, or was anchored, so its inode is not freed and used again.

*Frames and vnodes.* `PageCacheProofs` proves `NoLostWrite`, `SleepersWillBeWoken` and `CountsAgree` for any finite set of threads and
any sets of pages, frames and values (`PageCacheAssumption`: `Zero` is a value, and NULL is no frame, page or value). The invariant is

    IInv == m \in State /\ Sound(m, Thread) /\ Data(m, Thread, {})

where `Sound` joins

- `Queues`: a thread is on one queue at most, and on that of the frame (or vnode) it sleeps for;
- `Workers`: the frame of a thread that fills, dirties or cleans is busy and nobody else's, so that the one who clears
  the flag is the one who set it;
- `Lists` and `Counts`: `alloc_list` and `mmo_respages` are the frames that hold a page, none twice, and `vn_refcount` is the
  holders and the pages while the vnode is in core and not `VN_BUSY`; otherwise there are none of either;
- `Movers` and `Putters`: one thread at most reads or deletes the vnode, and who takes the pages away in `vput` is the
  only holder of a file without a name, so that what remains of its list is what remains in memory;
- `InTurn`: a thread that `vput` has woken from `vn_waitq` is on the run queue before any thread that could have
  started to read the vnode again, and so finds it busy or gone (`NoTurn`). Otherwise it could take a reference
  in the middle of another thread's `vput` loop, to a file without a name that it asked for when it had one;
- `Sleepers`, which is `SleepersWillBeWoken`.

`Data` is `NoLostWrite` with what a failed or pending read needs: the disk is right for a page that is being filled. It holds whether
`dirtypage` accepts a store or not: after a refusal the page is marked `refused`, unless the disk happens to hold what was stored.
An action is a chain of the model's functions on the record, and within it the parts hold of all threads but the running one: the
parameter `T` of each part is the threads they speak of, and `X` is the frame the running thread has in hand. `Begins` takes the
running thread out; each function (`pframe_alloc`, `pframe_free`, `Unbusy`, `SleepOn`, ...) has lemmas that say what it
keeps in between; `Returns`, `SleepsOn` and `WaitsForDisk` put the thread back with its new `pc`.

*Virtual memory.* `MemoryProofs` proves `AddressSpaces`, `RefCounts` and `Translations` for any finite sets of processes and of objects, any
bounds of user memory, any page table size and any program. `VMAssumption` says what the constants are: the bounds of user memory are page
table bounds (`pt_unmap_range` is called with them), the areas of a program are inside it and apart, and there are objects enough for
a program (a shortage ends the model's exec, it is not a state of it); `NULL` and the mark of freed memory are no objects or values. The invariant is

    IInv == /\ Good(s, shrunk) /\ shrunk \in BOOLEAN
            /\ s.crash \in {"vmmap_insert", "store to freed memory"} => shrunk
    Good(m, sh) == /\ m \in State /\ Objects(m.obj, U(m.areas)) /\ \A p \in Proc : Tidy(m.areas[p], m.heap[p], sh)
                   /\ Tops(m.obj, m.areas) /\ PtesOK(m, sh) /\ Dead(m)

- `Objects(b, u)`: every object counts its users `u[o]`, the objects that shadow it and its resident pages, and is free exactly when it has
  neither user nor shadower (`Counts`, `Live`); and no object is below itself (`Grounded`, said of sets: every set of objects has one that shadows
  none of the set). `Grounded` is what makes the chain a chain. By it the recursive functions for the bottom object and for the holder
  of a page are defined (`mmobj_bottom_obj`, `Holder`), and a put that goes on to the object below ends before the loop does.
- `Tidy`: the list is in order, inside user memory and apart, offsets stay inside the object when an area is cut, and only
  a heap that shrank to its start is empty. This is what lets `vmmap_lookup` find the only area of a page.
- `Tops`: shared areas are over anonymous objects; a private area is over a shadow object that nothing shadows and no other process has.
- `PtesOK` is `Translations` with more: a translation leads to an object of its area's chain (`Below`), not only to one over the same bottom object. Without that
  `pframe_migrate` would not be seen to take a translation where the chain goes; and only a translation in a list that shrank may be left over.
- `Dead`: who is gone has no areas and no translations, so fork starts from an empty map.

A system call is a chain of functions on the state, most of them loops over areas or along a chain. Inside one the counts include references that
no area has: the users `u` of `GoodBut(m, u, sh, E)` are those of the areas with those of local variables added or taken, and `E` is the translations that
the call has yet to clear. `put` is followed object by object, and each round moves one reference to the object below (`PutGood`); `vmmap_remove` and
exit area by area; `vmmap_clone` gives every private area of both processes a shadow object of its own; exec maps the whole program
before it puts the old areas; `shadowd` moves the pages of an object into the one parent it has and takes it out of the chain, which keeps
`Grounded`, and every chain the same but for that object (`LiftStep`, `LiftRound`), and it may meet a chain where three are over one object
(the crash `shadowd`, see the deviations). Loops are recursive functions on a number of rounds: `RoundsExist` and `Reached` show once, by
well-founded induction on that number, that such a function exists and that what every round keeps holds at the end.

The theorems cover the states after a heap has shrunk as well, where `AddressSpaces` and `RefCounts` still hold and `Translations` promises nothing.

*Only model-checked:* `ImplementsMem` of `VM`, that each call does to the memory of the processes what `AbsMem` says of this call (on areas of one page); everything about `Kmem` and `FsMaker`; and all liveness
(`LockCallsReturn`, `ShutdownCompletes`, `DiskIOReturns`, `EmulationEnds`), which like `ENABLED` are beyond the prover.
`ImplementsMem` speaks of behaviours in which no heap has shrunk: after that a translation is left through which the process goes on storing into
memory that it has no longer (see the deviations). What the pages hold that a heap grows by is not promised either: they may be
pages of its object that were unmapped before.
`Kmem` and `FsMaker` follow the recursion of the code with RECURSIVE operators, which the prover
does not take, and speak of powers of two and of sums over sets, which are inductions over data. The library's induction rules take a predicate as a parameter, which
the provers cannot instantiate; an induction over one concrete recursive function is possible by least counterexample, as for `proc_kill_all`
and for the loops of `Files` and `VM`.

## What is not modelled, and why

- The bodies of the disk driver, the line discipline, s5fs and `do_rename`: they are stubs in
  this repository (`NOT_YET_IMPLEMENTED`) or prebuilt libraries. Only the contract their comments state
  with the interrupt handlers is used.
- Mappings of files: their pages are those of `PageCache`, their areas those of `VM`; the two
  are not composed. The eviction of the pageout daemon, which nothing wakes.
- Addresses that are not page boundaries, paths that end in a slash, names that are too long.
- Boot, ACPI, APIC, GDT, PCI, PIT, the IDT: hardware set-up.
- ELF headers and their checks; `printf`, string and time functions, kernel shell.
- User programs and the C library: `sh.c`, `ed.c` and `malloc.c`, the longest files of the repository
  after `elf.h`, are third-party; the commands are plain sequential programs.
- `warmup1`: it reads lines, sorts and prints; its list is the list of `warmup2`, where it is a sequence.
- `fsmaker`: `putfile`, `ls`, `cat` and the other commands that only read; `format -d`, which copies a tree of the host.
- `Information_Retrival`: scripts that have nothing to do with the kernel.

Together these are by far the most lines of the repository, headers of constants and imported
programs above all: the definitions of the models stand for about one line in six.

## Plan

1. (done) `Sched`, `KMutex` with `MutexSpec` and the proofs; `Proc`; `SchedIrq`.
2. (done) `PageCache`; `RamFS` and `Files`; `VM` over `AbsMem`; `Kmem` over `AbsHeap`.
3. (done) `TokenBucket` with its proofs; `FsMaker`.
4. Composition of `VM` and `PageCache` for mapped files.
5. (done) Proofs of `Proc` and `SchedIrq` on top of `SchedProofs`; the order and the accounting of the token bucket's packets.
6. (done) Proofs of `Files`, with a lemma on each state function of `RamFS`.
7. (done) Proofs of `PageCache`.
8. (done) Proofs of `VM`: counts, areas and translations, with the loops of the code as recursive functions.
9. `ImplementsMem` as a theorem; proofs of `Kmem` (`BuddyBits`, then `SlabObjects`) and the refinement of `AbsHeap`.
