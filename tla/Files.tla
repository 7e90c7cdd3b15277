------------------------------- MODULE Files -------------------------------
(***************************************************************************)
(* Descriptors, open files, path names and the system calls on files       *)
(* (kernel/fs/vfs_syscall.c, open.c, file.c, namev.c, kernel/api/syscall.c *)
(* and vfs_shutdown of kernel/fs/vfs.c) over the memory file system.       *)
(*                                                                         *)
(* A call on this file system does not sleep, so a system call is one      *)
(* action; only a read of a terminal is two, since the reader waits in the *)
(* driver with the file in its hands.                                      *)
(***************************************************************************)
EXTENDS RamFS

CONSTANTS
  Proc,        \* processes
  InitProc,    \* the one that is there first
  NFILES,      \* descriptors of a process
  FileId,      \* file_t structures, a bound on the files that are open
  Path,        \* path names that processes use
  OFlags,      \* values of oflags that processes use
  MaxPos,      \* bound on positions in files and terminals
  MaxDirPos,   \* bound on positions in directories
  MaxLeaks     \* bound on the references that do_link may lose

Fd == 0 .. NFILES - 1

ASSUME FilesAssumption ==
  /\ NFILES \in Nat \ {0}
  /\ IsFiniteSet(Proc) /\ InitProc \in Proc
  /\ IsFiniteSet(FileId)
  /\ NULL \notin FileId \cup Inode
  /\ {MaxPos, MaxDirPos, MaxLeaks} \subseteq Nat
  /\ \A path \in Path : /\ path.abs \in BOOLEAN
                         /\ path.dirs \in Seq(Name \cup Dots)
                         /\ path.name \in Name \cup Dots
  /\ OFlags \subseteq {"O_RDONLY", "O_WRONLY", "O_RDWR", "O_RDWR|O_APPEND",
                       "O_RDONLY|O_CREAT", "O_WRONLY|O_CREAT", "O_RDWR|O_CREAT"}

VARIABLES
  fs,       \* the file system and the vnodes (see RamFS), with the open files
  files,    \* files[p]: p_files, the descriptor table of p
  cwd,      \* cwd[p]: p_cwd; NULL when there is no process p
  reading,  \* reading[p]: the file whose read p waits in, or NULL
  power,    \* "on", or "off" after vfs_shutdown
  leaked,   \* leaked[i]: references to the vnode of i that nobody will drop
  lost,     \* lost[i]: links to i that went away with a directory
  orphan    \* a directory in core has lost its parent: the bound of the model

vars == <<fs, files, cwd, reading, power, leaked, lost, orphan>>

FreeFile == [mode |-> {}, pos |-> 0, ref |-> 0, vnode |-> NULL]
NoFiles  == [fd \in Fd |-> NULL]

-----------------------------------------------------------------------------
(* Open files (file.c). *)

FreeFiles(m) == {f \in FileId : m.file[f].ref = 0}

fref(m, f) == [m EXCEPT !.file[f].ref = @ + 1]

fput(m, f) ==
  LET v == m.file[f].vnode IN
  IF m.file[f].ref = 0 THEN Crash(m, "fput")
  ELSE IF m.file[f].ref > 1 THEN [m EXCEPT !.file[f].ref = @ - 1]
  ELSE [IF v = NULL THEN m ELSE vput(m, v) EXCEPT !.file[f] = FreeFile]

get_empty_fd(p) == {fd \in Fd : files[p][fd] = NULL}

-----------------------------------------------------------------------------
(* Path names (namev.c).  A path has the components path.dirs and then     *)
(* path.name; it is absolute when path.abs holds.                          *)

(* lookup takes a reference to what it finds. *)
Held(g, i) == [err |-> IF g.crash = NoCrash THEN "ok" ELSE "crash", ino |-> i, m |-> g]

lookup(m, d, name) ==
  LET e == Find(m, d, name) IN
  IF e.err = "ok" THEN Held(vget(m, e.ino), e.ino) ELSE [err |-> e.err, ino |-> d, m |-> m]

(* One round of the loop of dir_namev: the reference to the parent goes    *)
(* once its child has been looked up.                                      *)
Descend(at, name) ==
  IF at.err # "ok" THEN at
  ELSE [lookup(at.m, at.ino, name) EXCEPT !.m = vput(@, at.ino)]

InDirectory(at) ==
  IF at.err = "ok" /\ at.m.inode[at.ino].mode # "dir"
  THEN [at EXCEPT !.err = "ENOTDIR", !.m = vput(@, at.ino)]
  ELSE at

dir_namev(m, p, path) ==
  LET base == IF path.abs THEN Root ELSE cwd[p]
      at[k \in 0 .. Len(path.dirs)] ==
        IF k = 0 THEN [err |-> "ok", ino |-> base, m |-> vref(m, base)]
        ELSE Descend(at[k - 1], path.dirs[k])
  IN  InDirectory(at[Len(path.dirs)])

(* O_CREAT is looked at only when the name does not exist. *)
OpenIn(d, name, creat) ==
  IF d.err # "ok" THEN d
  ELSE IF Find(d.m, d.ino, name).err = "ENOENT" /\ creat /\ HasRoom(d.m, d.ino)
  THEN [err |-> "ok", ino |-> Min(FreeInodes(d.m)),
        m |-> vput(ramfs_create(d.m, d.ino, name), d.ino)]
  ELSE [lookup(d.m, d.ino, name) EXCEPT !.m = vput(@, d.ino)]

open_namev(m, p, path, creat) == OpenIn(dir_namev(m, p, path), path.name, creat)

-----------------------------------------------------------------------------
(* System calls.  p runs in user mode and the kernel has not crashed.  The *)
(* model ends where a directory in core has lost its parent, since ".."    *)
(* then leads to an inode that is free or belongs to another file.         *)

Up == power = "on" /\ fs.crash = NoCrash /\ ~orphan
Running(p) == Up /\ cwd[p] # NULL /\ reading[p] = NULL

(* A crash stops the machine as the call found it. *)
Kernel(m) == fs' = IF m.crash = NoCrash THEN m ELSE [fs EXCEPT !.crash = m.crash]
SameProcs == UNCHANGED <<files, cwd, reading, power>>

(* Links that are lost with the directories that a step frees.             *)
LinksFrom(m, D, i) ==
  Cardinality({e \in D \X Slot : /\ m.dirent[e[1]][e[2]].name \notin Dots \cup {NoName}
                                 /\ m.dirent[e[1]][e[2]].ino = i})

RecordLosses ==
  LET gone == {d \in Inode : fs.inode[d].mode = "dir" /\ fs'.inode[d].mode = "free"} IN
  /\ lost' = [i \in Inode |-> IF fs'.inode[i].mode = "free" THEN 0
                              ELSE lost[i] + LinksFrom(fs, gone, i)]
  /\ orphan' = (orphan \/ \E d \in Inode : /\ fs'.inode[d].mode = "dir"
                                          /\ InoOf(fs', d, "..") \in gone)

(* FMODE_READ, FMODE_WRITE and FMODE_APPEND for the flags do_open accepts. *)
ModeOf(oflags) ==
  CASE oflags \in {"O_RDONLY", "O_RDONLY|O_CREAT"} -> {"READ"}
    [] oflags \in {"O_WRONLY", "O_WRONLY|O_CREAT"} -> {"WRITE"}
    [] oflags \in {"O_RDWR", "O_RDWR|O_CREAT"}     -> {"READ", "WRITE"}
    [] oflags = "O_RDWR|O_APPEND"                  -> {"READ", "WRITE", "APPEND"}

Creates(oflags) == oflags \in {"O_RDONLY|O_CREAT", "O_WRONLY|O_CREAT", "O_RDWR|O_CREAT"}

(* get_empty_fd's -EMFILE is used as an index of p_files.                  *)
do_open(p, path, oflags) ==
  LET f     == CHOOSE g \in FreeFiles(fs) : TRUE
      fresh == [fs EXCEPT !.file[f] = [FreeFile EXCEPT !.ref = 1, !.mode = ModeOf(oflags)]]
  IN  /\ Running(p) /\ FreeFiles(fs) # {}
      /\ \E r \in {open_namev(fresh, p, path, Creates(oflags))} :
           LET m == [r.m EXCEPT !.file[f].vnode = r.ino]
               isdir == m.inode[r.ino].mode = "dir" /\ "WRITE" \in ModeOf(oflags)
           IN  IF get_empty_fd(p) = {} THEN Kernel(Crash(fs, "undefined")) /\ UNCHANGED files
               ELSE IF r.err # "ok" THEN Kernel(fput(r.m, f)) /\ UNCHANGED files
               ELSE IF isdir THEN Kernel(fput(m, f)) /\ UNCHANGED files
               ELSE Kernel(m) /\ files' = [files EXCEPT ![p][Min(get_empty_fd(p))] = f]
      /\ UNCHANGED <<cwd, reading, power, leaked>>

do_close(p, fd) ==
  /\ Running(p) /\ files[p][fd] # NULL
  /\ Kernel(fput(fs, files[p][fd]))
  /\ files' = [files EXCEPT ![p][fd] = NULL]
  /\ UNCHANGED <<cwd, reading, power, leaked>>

do_dup(p, fd) ==
  /\ Running(p) /\ files[p][fd] # NULL /\ get_empty_fd(p) # {}
  /\ Kernel(fref(fs, files[p][fd]))
  /\ files' = [files EXCEPT ![p][Min(get_empty_fd(p))] = files[p][fd]]
  /\ UNCHANGED <<cwd, reading, power, leaked>>

\* Seeded fault: the copy is not counted.
do_dup2_NotCounted(p, ofd, nfd) ==
  /\ Running(p) /\ files[p][ofd] # NULL /\ ofd # nfd
  /\ Kernel(IF files[p][nfd] = NULL THEN fs ELSE fput(fs, files[p][nfd]))
  /\ files' = [files EXCEPT ![p][nfd] = files[p][ofd]]
  /\ UNCHANGED <<cwd, reading, power, leaked>>

\* Seeded fault: the child's files are not counted.
do_fork_FilesNotCounted(p, q) ==
  /\ Running(p) /\ cwd[q] = NULL
  /\ Kernel(vref(fs, cwd[p]))
  /\ files' = [files EXCEPT ![q] = files[p]]
  /\ cwd' = [cwd EXCEPT ![q] = cwd[p]]
  /\ UNCHANGED <<reading, power, leaked>>

\* Seeded fault: directories get second names.
do_link_Directories(p, from, to) ==
  /\ Running(p)
  /\ \E o \in {open_namev(fs, p, from, FALSE)} : \E d \in {dir_namev(o.m, p, to)} :
       /\ o.err = "ok" /\ d.err = "ok"
       /\ Find(d.m, d.ino, to.name).err = "ENOENT" /\ FreeSlots(d.m, d.ino) # {}
       /\ Kernel(vput(vput(ramfs_link(d.m, o.ino, d.ino, to.name), o.ino), d.ino))
  /\ SameProcs /\ UNCHANGED leaked

do_dup2(p, ofd, nfd) ==
  LET old == files[p][ofd]
      new == files[p][nfd]
      m   == fref(fs, old)
  IN  /\ Running(p) /\ old # NULL /\ ofd # nfd
      /\ Kernel(IF new = NULL THEN m ELSE fput(fput(fref(m, new), new), new))
      /\ files' = [files EXCEPT ![p][nfd] = old]
      /\ UNCHANGED <<cwd, reading, power, leaked>>

(* do_read, do_write, do_getdent and do_lseek let fd = NFILES pass, where  *)
(* p_files ends and p_cwd follows it.                                      *)
BeyondTable(p) ==
  /\ Running(p)
  /\ Kernel(Crash(fs, "undefined"))
  /\ SameProcs /\ UNCHANGED leaked

(* A descriptor of p that was opened with mode, and its file and vnode.    *)
OpenFor(p, fd, mode) == files[p][fd] # NULL /\ mode \in fs.file[files[p][fd]].mode
VnodeOf(f) == fs.file[f].vnode
TypeOf(f)  == fs.inode[VnodeOf(f)].mode

Advance(m, f, count) == [m EXCEPT !.file[f].pos = @ + count]

do_read(p, fd, nbytes) ==
  LET f == files[p][fd] IN
  /\ Running(p) /\ OpenFor(p, fd, "READ")
  /\ \/ /\ TypeOf(f) = "file"
        /\ Kernel(fput(Advance(fref(fs, f), f,
                    ramfs_read(fs, VnodeOf(f), fs.file[f].pos, nbytes)), f))
        /\ UNCHANGED reading
     \/ /\ TypeOf(f) = "chr"      \* special_file_read sleeps in the driver
        /\ Kernel(fref(fs, f))
        /\ reading' = [reading EXCEPT ![p] = f]
  /\ UNCHANGED <<files, cwd, power, leaked>>

(* The terminal returns a line, or the error of a cancelled reader (0). *)
do_read_Continues(p, bytesread) ==
  LET f == reading[p] IN
  /\ Up /\ f # NULL /\ fs.file[f].pos + bytesread <= MaxPos
  /\ Kernel(fput(Advance(fs, f, bytesread), f))
  /\ reading' = [reading EXCEPT ![p] = NULL]
  /\ UNCHANGED <<files, cwd, power, leaked>>

do_write(p, fd, nbytes) ==
  LET f == files[p][fd]
      v == VnodeOf(f)
      h == fref(fs, f)
      m == IF "APPEND" \in fs.file[f].mode THEN [h EXCEPT !.file[f].pos = fs.vlen[v]] ELSE h
      w == ramfs_write(m, v, m.file[f].pos, nbytes)
      n == IF TypeOf(f) = "file" THEN ramfs_write_count(m.file[f].pos, nbytes) ELSE nbytes
  IN  /\ Running(p) /\ OpenFor(p, fd, "WRITE")
      /\ m.file[f].pos + n <= MaxPos
      /\ Kernel(IF TypeOf(f) # "file" THEN fput(Advance(m, f, n), f)
                ELSE IF w.crash # NoCrash THEN w
                ELSE IF m.file[f].pos > w.vlen[v] THEN Crash(m, "do_write")
                ELSE fput(Advance(w, f, n), f))
      /\ SameProcs /\ UNCHANGED leaked

do_getdent(p, fd) ==
  LET f == files[p][fd]
      n == ramfs_readdir(fs, VnodeOf(f), fs.file[f].pos)
  IN  /\ Running(p) /\ f # NULL /\ TypeOf(f) = "dir" /\ fs.file[f].pos + n <= MaxDirPos
      /\ Kernel(IF fs.file[f].pos % DIRENT_SIZE # 0 THEN Crash(fs, "ramfs_readdir")
                ELSE fput(Advance(fref(fs, f), f, n), f))
      /\ SameProcs /\ UNCHANGED leaked

(* A negative position becomes 0, and the call fails.                      *)
do_lseek(p, fd, offset, whence) ==
  LET f    == files[p][fd]
      most == IF TypeOf(f) = "dir" THEN MaxDirPos ELSE MaxPos
      from == CASE whence = "SEEK_SET" -> 0
                [] whence = "SEEK_CUR" -> fs.file[f].pos
                [] whence = "SEEK_END" -> fs.vlen[VnodeOf(f)]
  IN  /\ Running(p) /\ f # NULL /\ from + offset <= most
      /\ Kernel([fs EXCEPT !.file[f].pos = Max({0, from + offset})])
      /\ SameProcs /\ UNCHANGED leaked

(* do_mkdir and do_mknod differ in the type of what they make.             *)
MakeNode(p, path, make(_, _, _)) ==
  /\ Running(p)
  /\ \E d \in {dir_namev(fs, p, path)} : \E e \in {lookup(d.m, d.ino, path.name)} :
       Kernel(CASE d.err # "ok"    -> d.m
                [] d.err = "ok" /\ e.err = "ok" -> vput(vput(e.m, e.ino), d.ino)
                [] d.err = "ok" /\ e.err # "ok" ->
                     vput(IF HasRoom(e.m, d.ino) THEN make(e.m, d.ino, path.name) ELSE e.m, d.ino))
  /\ SameProcs /\ UNCHANGED leaked

do_mkdir(p, path) == MakeNode(p, path, ramfs_mkdir)
do_mknod(p, path) == MakeNode(p, path, ramfs_mknod)

do_rmdir(p, path) ==
  /\ Running(p) /\ path.name \notin Dots
  /\ \E d \in {dir_namev(fs, p, path)} : \E e \in {lookup(d.m, d.ino, path.name)} :
       Kernel(IF d.err # "ok" THEN d.m
              ELSE IF e.err # "ok" THEN vput(e.m, d.ino)
              ELSE IF e.m.inode[e.ino].mode = "dir" /\ IsEmpty(e.m, e.ino)
              THEN vput(vput(ramfs_rmdir(e.m, d.ino, path.name), e.ino), d.ino)
              ELSE vput(vput(e.m, e.ino), d.ino))
  /\ SameProcs /\ UNCHANGED leaked

(* The result of dir_namev is not looked at: when it fails, the vnode and  *)
(* the name that are used next were never assigned.                        *)
do_unlink(p, path) ==
  /\ Running(p)
  /\ \E d \in {dir_namev(fs, p, path)} : \E e \in {lookup(d.m, d.ino, path.name)} :
       Kernel(IF d.err # "ok" THEN Crash(d.m, "undefined")
              ELSE IF e.err # "ok" THEN vput(e.m, d.ino)
              ELSE IF e.m.inode[e.ino].mode = "dir" THEN vput(vput(e.m, d.ino), e.ino)
              ELSE vput(ramfs_unlink(vput(e.m, e.ino), d.ino, path.name), d.ino))
  /\ SameProcs /\ UNCHANGED leaked

(* A failed dir_namev is not looked at here either. *)
do_stat(p, path) ==
  /\ Running(p)
  /\ \E d \in {dir_namev(fs, p, path)} : \E e \in {lookup(d.m, d.ino, path.name)} :
       Kernel(IF d.err # "ok" THEN Crash(d.m, "undefined")
              ELSE IF e.err = "ok" THEN vput(vput(e.m, e.ino), d.ino)
              ELSE vput(e.m, d.ino))
  /\ SameProcs /\ UNCHANGED leaked

(* A failed open_namev is not looked at; and when the directory of the new *)
(* name is not found, the reference to the old file is never dropped.      *)
do_link(p, from, to) ==
  /\ Running(p)
  /\ \E o \in {open_namev(fs, p, from, FALSE)} :
       \/ /\ o.err # "ok"
          /\ Kernel(Crash(o.m, "undefined")) /\ UNCHANGED leaked
       \/ /\ o.err = "ok" /\ o.m.inode[o.ino].mode = "dir"
          /\ Kernel(vput(o.m, o.ino)) /\ UNCHANGED leaked
       \/ /\ o.err = "ok" /\ o.m.inode[o.ino].mode # "dir"
          /\ \E d \in {dir_namev(o.m, p, to)} : \E e \in {lookup(d.m, d.ino, to.name)} :
               LET Drop(n) == vput(vput(n, o.ino), d.ino) IN
               \/ /\ d.err # "ok" /\ \A i \in Inode : leaked[i] < MaxLeaks
                  /\ Kernel(d.m)
                  /\ leaked' = IF d.err = "crash" THEN leaked ELSE [leaked EXCEPT ![o.ino] = @ + 1]
               \/ /\ d.err = "ok"
                  /\ Kernel(IF e.err = "ok" THEN vput(Drop(e.m), e.ino)
                            ELSE Drop(IF FreeSlots(d.m, d.ino) = {} THEN d.m
                                      ELSE ramfs_link(d.m, o.ino, d.ino, to.name)))
                  /\ UNCHANGED leaked
  /\ SameProcs

\* Seeded fault: the old directory is not put.
do_chdir_KeepsOld(p, path) ==
  /\ Running(p)
  /\ \E r \in {open_namev(fs, p, path, FALSE)} :
       /\ r.err = "ok" /\ r.m.inode[r.ino].mode = "dir"
       /\ Kernel(r.m) /\ cwd' = [cwd EXCEPT ![p] = r.ino]
  /\ UNCHANGED <<files, reading, power, leaked>>

do_chdir(p, path) ==
  /\ Running(p)
  /\ \E r \in {open_namev(fs, p, path, FALSE)} :
       IF r.err = "ok" /\ r.m.inode[r.ino].mode = "dir"
       THEN Kernel(vput(r.m, cwd[p])) /\ cwd' = [cwd EXCEPT ![p] = r.ino]
       ELSE Kernel(IF r.err = "ok" THEN vput(r.m, r.ino) ELSE r.m) /\ UNCHANGED cwd
  /\ UNCHANGED <<files, reading, power, leaked>>

-----------------------------------------------------------------------------
(* Processes come and go. *)

(* The loop of do_fork over p_files, which counts the copies.              *)
CopyFiles(p) ==
  LET m[n \in 0 .. NFILES] ==
        IF n = 0 THEN fs
        ELSE IF files[p][n - 1] = NULL THEN m[n - 1] ELSE fref(m[n - 1], files[p][n - 1])
  IN  m[NFILES]

(* The loop of proc_cleanup over p_files.                                  *)
CloseFiles(p) ==
  LET m[n \in 0 .. NFILES] ==
        IF n = 0 THEN fs
        ELSE IF files[p][n - 1] = NULL THEN m[n - 1] ELSE fput(m[n - 1], files[p][n - 1])
  IN  m[NFILES]

(* proc_create and do_fork: the child has the files and the directory.     *)
do_fork(p, q) ==
  /\ Running(p) /\ cwd[q] = NULL
  /\ Kernel(vref(CopyFiles(p), cwd[p]))
  /\ files' = [files EXCEPT ![q] = files[p]]
  /\ cwd' = [cwd EXCEPT ![q] = cwd[p]]
  /\ UNCHANGED <<reading, power, leaked>>

(* proc_cleanup: the descriptors in their order, then the directory.       *)
do_exit(p) ==
  /\ Running(p)
  /\ Kernel(vput(CloseFiles(p), cwd[p]))
  /\ files' = [files EXCEPT ![p] = NoFiles]
  /\ cwd' = [cwd EXCEPT ![p] = NULL]
  /\ UNCHANGED <<reading, power, leaked>>

(* idleproc_run has dropped its directory; ramfs_umount drops the root.    *)
vfs_shutdown ==
  /\ Up
  /\ \A p \in Proc : cwd[p] = NULL
  /\ Kernel(IF vfs_is_in_use(fs) THEN Crash(fs, "vfs_shutdown") ELSE vput(fs, Root))
  /\ power' = IF fs'.crash = NoCrash THEN "off" ELSE power
  /\ UNCHANGED <<files, cwd, reading, leaked>>

-----------------------------------------------------------------------------
Init ==
  /\ fs = [inode |-> ramfs_mount.inode, dirent |-> ramfs_mount.dirent,
           vref |-> vref(ramfs_mount, Root).vref, vlen |-> ramfs_mount.vlen,
           crash |-> NoCrash, file |-> [f \in FileId |-> FreeFile]]
  /\ files = [p \in Proc |-> NoFiles]
  /\ cwd = [p \in Proc |-> IF p = InitProc THEN Root ELSE NULL]
  /\ reading = [p \in Proc |-> NULL]
  /\ power = "on"
  /\ leaked = [i \in Inode |-> 0]
  /\ lost = [i \in Inode |-> 0]
  /\ orphan = FALSE

OnDescriptor(p, fd) ==
  \/ do_close(p, fd) \/ do_dup(p, fd) \/ do_getdent(p, fd)
  \/ \E nfd \in Fd : do_dup2(p, fd, nfd)
  \/ \E n \in 1 .. PAGE_SIZE : do_read(p, fd, n) \/ do_write(p, fd, n)
  \/ \E offset \in -1 .. MaxPos, whence \in {"SEEK_SET", "SEEK_CUR", "SEEK_END"} :
       do_lseek(p, fd, offset, whence)

OnPath(p, path) ==
  \/ \E oflags \in OFlags : do_open(p, path, oflags)
  \/ do_mkdir(p, path) \/ do_mknod(p, path) \/ do_rmdir(p, path)
  \/ do_unlink(p, path) \/ do_chdir(p, path) \/ do_stat(p, path)
  \/ \E to \in Path : do_link(p, path, to)

SystemCall(p) ==
  \/ \E fd \in Fd : OnDescriptor(p, fd)
  \/ \E path \in Path : OnPath(p, path)
  \/ \E n \in 0 .. 1 : do_read_Continues(p, n)
  \/ \E q \in Proc : do_fork(p, q)
  \/ BeyondTable(p)
  \/ do_exit(p)

Stopped == ~Up /\ UNCHANGED vars

Next == (((\E p \in Proc : SystemCall(p)) \/ vfs_shutdown) /\ RecordLosses) \/ Stopped

Spec == Init /\ [][Next]_vars
-----------------------------------------------------------------------------
(* What must hold.                                                         *)

TypeOK ==
  /\ fs.inode \in [Inode -> [mode : {"free", "file", "dir", "chr"}, links : Nat, size : Nat]]
  /\ fs.dirent \in [Inode -> [Slot -> [name : Name \cup Dots \cup {NoName}, ino : Inode]]]
  /\ fs.vref \in [Inode -> Nat] /\ fs.vlen \in [Inode -> Nat]
  /\ fs.file \in [FileId -> [mode : SUBSET {"READ", "WRITE", "APPEND"}, pos : Nat,
                              ref : Nat, vnode : Inode \cup {NULL}]]
  /\ files \in [Proc -> [Fd -> FileId \cup {NULL}]]
  /\ cwd \in [Proc -> Inode \cup {NULL}] /\ reading \in [Proc -> FileId \cup {NULL}]
  /\ power \in {"on", "off"}
  /\ leaked \in [Inode -> Nat] /\ lost \in [Inode -> Nat]

One(condition) == IF condition THEN 1 ELSE 0

(* f_refcount is the number of descriptors that refer to the open file, in *)
(* whatever process, and of the readers that hold it; a structure nobody   *)
(* refers to is free (fref and fput through open, dup, dup2, fork, exit,   *)
(* close and the blocked read).                                            *)
FileRefs ==
  /\ TypeOK
  /\ \A f \in FileId :
       /\ fs.file[f].ref = Cardinality({e \in Proc \X Fd : files[e[1]][e[2]] = f})
                             + Cardinality({p \in Proc : reading[p] = f})
       /\ (fs.file[f].ref = 0) <=> (fs.file[f].vnode = NULL)

(* vn_refcount is the number of open files, working directories and file   *)
(* systems that hold the vnode, and of what do_link has lost: no path of   *)
(* a system call, an error path included, keeps or drops one too many.     *)
VnodeRefs ==
  \A i \in Inode :
    fs.vref[i] = Cardinality({f \in FileId : fs.file[f].vnode = i})
                 + Cardinality({p \in Proc : cwd[p] = i})
                 + One(i = Root /\ power = "on") + leaked[i]

(* rf_linkcount is the number of entries that name the inode, plus one for *)
(* its vnode in core, plus those that were lost with a removed directory;  *)
(* an inode in use has a link and a free one has none.                     *)
LinkCounts ==
  \A i \in Inode :
    fs.inode[i].links = LinksFrom(fs, Inode, i) + One(fs.vref[i] > 0)
                        + One(i = Root) + lost[i]

(* A directory has one name, and its ".." is the directory with that name. *)
ParentLinks ==
  \A d, q \in Inode, s \in Slot :
    (fs.dirent[q][s].name \notin Dots \cup {NoName} /\ fs.dirent[q][s].ino = d
       /\ fs.inode[d].mode = "dir")
    => /\ InoOf(fs, d, "..") = q
       /\ LinksFrom(fs, Inode, d) = 1

(* The assertions of the file code that can fail while every directory in  *)
(* core has its parent: results that are used though the call failed and   *)
(* descriptors beyond the table ("undefined"), writing beyond the end of   *)
(* the page, a position inside a directory entry, and the shutdown, which  *)
(* fails only after do_link has lost a reference.  The others (vref, vput, *)
(* fput, ramfs_read_vnode, ramfs_write, do_write) never fail.              *)
OnlyKnownCrashes ==
  /\ fs.crash \in {NoCrash, "undefined", "memcpy", "ramfs_readdir", "vfs_shutdown"}
  /\ fs.crash = "vfs_shutdown" => \E i \in Inode : leaked[i] > 0

(* The inode below a vnode in core stays what it is: it is not freed and   *)
(* used for another file while somebody holds the vnode.                   *)
HeldInodeIsKept ==
  [][\A i \in Inode : (fs.vref[i] > 0 /\ fs'.vref[i] > 0)
        => fs'.inode[i].mode = fs.inode[i].mode]_vars

=============================================================================
