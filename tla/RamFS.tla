------------------------------- MODULE RamFS -------------------------------
(***************************************************************************)
(* The memory file system (kernel/fs/ramfs/ramfs.c) and the table of the   *)
(* vnodes that are in core (vget and vput of kernel/fs/vnode.c).           *)
(*                                                                         *)
(* Like Sched, this module holds functions on one record m:                *)
(*   inode[i]   type, link count and size; type "free" for no inode        *)
(*   dirent[i]  the entries of a directory, slot by slot                   *)
(*   vref[i]    vn_refcount of the vnode of i, 0 when it is not in core    *)
(*   vlen[i]    vn_len of that vnode                                       *)
(*   crash      the assertion that has stopped the kernel, or NoCrash      *)
(* No operation of this file system sleeps, so none is interrupted.  Names *)
(* are short enough; the pages and the inodes' memory are always there.    *)
(***************************************************************************)
EXTENDS Integers, FiniteSets, SequencesExt

CONSTANTS
  Name,              \* names of files, without "." and ".."
  RAMFS_MAX_FILES,
  RAMFS_MAX_DIRENT,  \* entries of a directory, with "." and ".."
  DIRENT_SIZE,       \* bytes of an entry
  PAGE_SIZE,         \* the largest file
  NULL

Dots   == {".", ".."}
NoName == ""          \* of a slot that is not in use

ASSUME RamFSAssumption ==
  /\ RAMFS_MAX_FILES \in Nat \ {0}
  /\ RAMFS_MAX_DIRENT \in Nat \ {0, 1}
  /\ {DIRENT_SIZE, PAGE_SIZE} \subseteq Nat \ {0}
  /\ Name \cap (Dots \cup {NoName}) = {}

Inode == 0 .. RAMFS_MAX_FILES - 1
Root  == 0
Slot  == 1 .. RAMFS_MAX_DIRENT
NoCrash == "none"

FreeInode == [mode |-> "free", links |-> 0, size |-> 0]
FreeSlot  == [name |-> NoName, ino |-> Root]
NoEntries == [s \in Slot |-> FreeSlot]

Crash(m, why) == [m EXCEPT !.crash = IF @ = NoCrash THEN why ELSE @]

DirentsOf(self, parent) ==
  [s \in Slot |-> CASE s = 1 -> [name |-> ".", ino |-> self]
                    [] s = 2 -> [name |-> "..", ino |-> parent]
                    [] OTHER -> FreeSlot]

(* ramfs_mount, with the vget of the root vnode. *)
ramfs_mount ==
  [inode  |-> [i \in Inode |-> IF i = Root THEN [mode |-> "dir", links |-> 2, size |-> 2 * DIRENT_SIZE]
                                           ELSE FreeInode],
   dirent |-> [i \in Inode |-> IF i = Root THEN DirentsOf(Root, Root) ELSE NoEntries],
   vref   |-> [i \in Inode |-> IF i = Root THEN 1 ELSE 0],
   vlen   |-> [i \in Inode |-> IF i = Root THEN 2 * DIRENT_SIZE ELSE 0],
   crash  |-> NoCrash]

-----------------------------------------------------------------------------
(* Vnodes. *)

(* vget, with ramfs_read_vnode for a vnode that is not in core. *)
vget(m, i) ==
  IF m.vref[i] > 0 THEN [m EXCEPT !.vref[i] = @ + 1]
  ELSE IF m.inode[i].mode = "free" THEN Crash(m, "ramfs_read_vnode")
  ELSE [m EXCEPT !.vref[i] = 1, !.inode[i].links = @ + 1, !.vlen[i] = m.inode[i].size]

vref(m, i) ==
  IF m.vref[i] > 0 THEN [m EXCEPT !.vref[i] = @ + 1] ELSE Crash(m, "vref")

(* ramfs_delete_vnode: the inode goes with its last link. *)
ramfs_delete_vnode(m, i) ==
  IF m.inode[i].links > 1 THEN [m EXCEPT !.inode[i].links = @ - 1]
  ELSE [m EXCEPT !.inode[i] = FreeInode, !.dirent[i] = NoEntries]

(* vput; the vnodes of this file system have no resident pages. *)
vput(m, i) ==
  IF m.vref[i] = 0 THEN Crash(m, "vput")
  ELSE IF m.vref[i] > 1 THEN [m EXCEPT !.vref[i] = @ - 1]
  ELSE ramfs_delete_vnode([m EXCEPT !.vref[i] = 0, !.vlen[i] = 0], i)

vnode_inuse(m) == {i \in Inode : m.vref[i] > 0}

(* vfs_is_in_use: somebody besides the file system holds a vnode. *)
vfs_is_in_use(m) == \E i \in vnode_inuse(m) : i # Root \/ m.vref[i] > 1

-----------------------------------------------------------------------------
(* Directories. *)

SlotsOf(m, d, name) == {s \in Slot : m.dirent[d][s].name = name}
FreeSlots(m, d)     == SlotsOf(m, d, NoName)
SlotOf(m, d, name)  == Min(SlotsOf(m, d, name))
InoOf(m, d, name)   == m.dirent[d][SlotOf(m, d, name)].ino

(* lookup and ramfs_lookup without the reference: where the name leads.    *)
Find(m, d, name) ==
  IF m.inode[d].mode # "dir" THEN [err |-> "ENOTDIR", ino |-> d]
  ELSE IF SlotsOf(m, d, name) = {} THEN [err |-> "ENOENT", ino |-> d]
  ELSE [err |-> "ok", ino |-> InoOf(m, d, name)]

SetEntry(m, d, name, i) ==
  [m EXCEPT !.dirent[d][Min(FreeSlots(m, d))] = [name |-> name, ino |-> i],
            !.inode[d].size = @ + DIRENT_SIZE]

ClearEntry(m, d, name) ==
  [m EXCEPT !.dirent[d][SlotOf(m, d, name)] = FreeSlot, !.inode[d].size = @ - DIRENT_SIZE]

FreeInodes(m) == {i \in Inode : m.inode[i].mode = "free"}

ramfs_alloc_inode(m, type) ==
  [m EXCEPT !.inode[Min(FreeInodes(m))] = [mode |-> type, links |-> 1, size |-> 0]]

HasRoom(m, d) == FreeSlots(m, d) # {} /\ FreeInodes(m) # {}

(* ramfs_create returns the new vnode, ramfs_mknod and ramfs_mkdir do not. *)
ramfs_create(m, d, name) ==
  LET i == Min(FreeInodes(m)) IN
  SetEntry(vget(ramfs_alloc_inode(m, "file"), i), d, name, i)

ramfs_mknod(m, d, name) ==
  SetEntry(ramfs_alloc_inode(m, "chr"), d, name, Min(FreeInodes(m)))

ramfs_mkdir(m, d, name) ==
  LET i == Min(FreeInodes(m)) IN
  [SetEntry(ramfs_alloc_inode(m, "dir"), d, name, i) EXCEPT
     !.dirent[i] = DirentsOf(i, d), !.inode[i].size = 2 * DIRENT_SIZE]

\* Seeded fault: the new link is not counted.
ramfs_link_NotCounted(m, old, d, name) == SetEntry(m, d, name, old)

\* Seeded fault: the inode goes with its name.
ramfs_unlink_FreesInode(m, d, name) ==
  [ClearEntry(m, d, name) EXCEPT !.inode[InoOf(m, d, name)] = FreeInode]

ramfs_link(m, old, d, name) ==
  [SetEntry(m, d, name, old) EXCEPT !.inode[old].links = @ + 1]

(* The lookups of ramfs_unlink and ramfs_rmdir hold a vnode to the end.    *)
ramfs_unlink(m, d, name) ==
  LET i == InoOf(m, d, name)
      c == ClearEntry(vget(m, i), d, name)
  IN  vput([c EXCEPT !.inode[i].links = @ - 1], i)

IsEmpty(m, d) == \A s \in Slot : m.dirent[d][s].name \in Dots \cup {NoName}

ramfs_rmdir(m, d, name) ==
  LET i == InoOf(m, d, name)
      c == ClearEntry(vget(m, i), d, name)
  IN  vput([c EXCEPT !.inode[i].links = @ - 1], i)

(* ramfs_readdir: the way from offset to behind the next slot in use, 0 at *)
(* the end.                                                                *)
ramfs_readdir(m, d, offset) ==
  LET used == {s \in Slot : s * DIRENT_SIZE > offset /\ m.dirent[d][s].name # NoName}
  IN  IF used = {} THEN 0 ELSE Min(used) * DIRENT_SIZE - offset

-----------------------------------------------------------------------------
(* Files: how many bytes a call moves. *)

ramfs_read(m, i, offset, count) == Max({0, Min({count, m.inode[i].size - offset})})
ramfs_write_count(offset, count) == Min({count, PAGE_SIZE - offset})

(* A negative count is a huge one for memcpy. *)
ramfs_write(m, i, offset, count) ==
  LET ret == ramfs_write_count(offset, count)
      len == Max({m.vlen[i], offset + ret})
  IN  IF ret < 0 THEN Crash(m, "memcpy")
      ELSE IF m.vlen[i] # m.inode[i].size THEN Crash(m, "ramfs_write")
      ELSE [m EXCEPT !.vlen[i] = len, !.inode[i].size = len]
=============================================================================
