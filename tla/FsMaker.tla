------------------------------ MODULE FsMaker ------------------------------
(***************************************************************************)
(* The tool that makes and edits S5FS disks for the kernel                 *)
(* (tools/fsmaker: api.py is the file system, sh.py the commands).  It is  *)
(* the one implementation of S5FS in source form.                          *)
(*                                                                         *)
(* The operations of api.py are functions on a record d, the disk:         *)
(*   free        the free blocks listed in the superblock, nfree of them   *)
(*   last        the block that lists NBLKS - 1 more, and the next such    *)
(*   free_inode  the first free inode; a free inode's size is the next     *)
(*   inode, block                                                          *)
(*   got         the block or inode that an operation has returned         *)
(*   err         "none", the exception that was raised: "S5" and "space"   *)
(*               are caught by the command, "fatal" ends the tool          *)
(*   spoiled     what has gone wrong on this disk since it was formatted   *)
(* The unit of sizes is a directory entry: a block has W of them, and W    *)
(* numbers where it holds numbers.  What data files contain is left out,   *)
(* and so is what a free block or inode holds besides its place in the     *)
(* list of the free ones: both are overwritten before they are read.       *)
(***************************************************************************)
EXTENDS Integers, FiniteSets, SequencesExt

CONSTANTS
  W,
  INODES,
  FIRST, BLOCKS,  \* the blocks FIRST .. BLOCKS - 1 hold data
  NBLKS,          \* S5_NBLKS_PER_FNODE
  NDIRECT,        \* S5_NDIRECT_BLOCKS
  CHUNK,          \* what getfile reads at a time
  Name, Path,     \* names; paths as normpath returns them, [abs, segs]
  Sizes,          \* of the files that getfile copies and truncate is asked for
  Commands,       \* bound: the commands that change an inode after a format
  Depth           \* bound: the names in the current directory's path

ASSUME FsMakerAssumption ==
  /\ Commands \in Nat /\ Depth \in Nat /\ {INODES, FIRST, NBLKS, NDIRECT, CHUNK} \subseteq Nat \ {0} /\ NBLKS > 1 /\ W >= NBLKS
  /\ BLOCKS > FIRST /\ Sizes \subseteq Nat
  /\ \A p \in Path : p.abs \in BOOLEAN /\ p.segs \in Seq(Name \cup {".."})

END  == -1        \* 0xffffffff
ROOT == 0
MAX  == (NDIRECT + W) * W        \* S5_MAX_FILE_SIZE
Inodes == 0 .. INODES - 1
Blocks == FIRST .. BLOCKS - 1
Zeros(n) == [u \in 1 .. n |-> 0] \o <<>>
Upto(n) == [k \in 1 .. n |-> k]

NewInode(type) ==
  [type |-> type, size |-> 0, links |-> 1, direct |-> [k \in 0 .. NDIRECT - 1 |-> 0], indirect |-> 0]

Raise(d, why) ==
  [d EXCEPT !.err = why, !.spoiled = IF why = "space" THEN @ \cup {"space"} ELSE @]

(* What follows in a function is not reached after an exception.           *)
Then(d, Rest(_)) == IF d.err = "none" THEN Rest(d) ELSE d
-----------------------------------------------------------------------------
(* Blocks. *)

(* alloc_block, and zero, which always follows.                            *)
alloc_block(d) ==
  IF d.free # <<>> THEN [d EXCEPT !.free = Front(@), !.got = Last(d.free), !.block[Last(d.free)] = Zeros(W)]
  ELSE IF d.last = END THEN Raise(d, "space")
  ELSE [d EXCEPT !.free = SubSeq(d.block[d.last], 1, NBLKS - 1), !.last = d.block[d.last][NBLKS],
                 !.got = d.last, !.block[d.last] = Zeros(W)]

free_block(d, b) ==
  IF Len(d.free) < NBLKS - 1 THEN [d EXCEPT !.free = Append(@, b), !.block[b] = Zeros(W)]
  ELSE [d EXCEPT !.block[b] = d.free \o <<d.last>> \o Zeros(W - NBLKS), !.last = b, !.free = <<>>]

(* The k-th block of an inode, 0 for none.                                 *)
blockno(d, i, k) ==
  LET f == d.inode[i] IN
  CASE k < NDIRECT -> f.direct[k]
    [] k >= NDIRECT /\ f.indirect = 0 -> 0
    [] OTHER -> d.block[f.indirect][k - NDIRECT + 1]

WithIndirect(d, i) ==
  IF d.inode[i].indirect # 0 THEN d
  ELSE Then(alloc_block(d), LAMBDA x : [x EXCEPT !.inode[i].indirect = x.got])

WithBlock(d, i, k) ==
  IF blockno(d, i, k) # 0 THEN d
  ELSE Then(alloc_block(d), LAMBDA x :
         IF k < NDIRECT THEN [x EXCEPT !.inode[i].direct[k] = x.got]
         ELSE [x EXCEPT !.block[x.inode[i].indirect][k - NDIRECT + 1] = x.got])

WriteUnit(d, i, o, unit) ==
  LET k == o \div W IN
  Then(Then(IF k < NDIRECT THEN d ELSE WithIndirect(d, i),
            LAMBDA x : WithBlock(x, i, k)),
       LAMBDA x : [x EXCEPT !.block[blockno(x, i, k)][(o % W) + 1] = unit])

(* Inode.write: the size is set when everything is written.                *)
write(d, i, offset, data) ==
  IF d.inode[i].type \notin {"data", "dir"} \/ offset + Len(data) > MAX THEN Raise(d, "S5")
  ELSE Then(FoldLeft(LAMBDA x, n : Then(x, LAMBDA y : WriteUnit(y, i, offset + n - 1, data[n])), d, Upto(Len(data))),
            LAMBDA x : IF offset + Len(data) > x.inode[i].size
                       THEN [x EXCEPT !.inode[i].size = offset + Len(data)] ELSE x)

\* Seeded fault: the file keeps the number of the indirect block it has freed.
FreeAt_KeepsIndirect(d, i, k) ==
  LET b == blockno(d, i, k)
      ind == d.inode[i].indirect
      freed == free_block(d, b)
      cleared == [freed EXCEPT !.block[ind][k - NDIRECT + 1] = 0]
  IN  CASE k >= NDIRECT + W /\ ind # 0 -> [Raise(d, "S5") EXCEPT !.spoiled = @ \cup {"truncate"}]
        [] k >= NDIRECT /\ ind = 0 -> d
        [] k < NDIRECT + W /\ b = 0 -> d
        [] k < NDIRECT /\ b # 0 -> [freed EXCEPT !.inode[i].direct[k] = 0]
        [] k = NDIRECT /\ b # 0 -> free_block(cleared, ind)
        [] OTHER -> cleared

FreeAt(d, i, k) ==
  LET b == blockno(d, i, k)
      ind == d.inode[i].indirect
      freed == free_block(d, b)
      cleared == [freed EXCEPT !.block[ind][k - NDIRECT + 1] = 0]
  IN  CASE k >= NDIRECT + W /\ ind # 0 -> [Raise(d, "S5") EXCEPT !.spoiled = @ \cup {"truncate"}]
        [] k >= NDIRECT /\ ind = 0 -> d
        [] k < NDIRECT + W /\ b = 0 -> d
        [] k < NDIRECT /\ b # 0 -> [freed EXCEPT !.inode[i].direct[k] = 0]
        [] k = NDIRECT /\ b # 0 -> [free_block(cleared, ind) EXCEPT !.inode[i].indirect = 0]
        [] OTHER -> cleared

(* Beyond its last block a file cannot grow: set_direct_blockno lacks an   *)
(* argument, and the loop for indirect blocks never ends.                  *)
Grow(d, i, k) ==
  CASE k < NDIRECT \/ d.inode[i].indirect = 0 -> Raise(d, "fatal")
    [] k >= NDIRECT + W -> Raise(d, "S5")
    [] OTHER -> [Raise(d, "fatal") EXCEPT !.block[d.inode[i].indirect][k - NDIRECT + 1] = 0,
                                          !.spoiled = @ \cup {"truncate"}]

truncate(d, i, size) ==
  LET target == (size - 1) \div W
      curr == d.inode[i].size \div W
  IN  IF curr < target THEN Grow(d, i, curr)
      ELSE Then(FoldLeft(LAMBDA x, n : Then(x, LAMBDA y : FreeAt(y, i, curr + 1 - n)), d, Upto(curr - target)),
                LAMBDA x : [x EXCEPT !.inode[i].size = size])
-----------------------------------------------------------------------------
(* Inodes and directories. *)

alloc_inode(d) ==
  IF d.free_inode = END THEN Raise(d, "S5")
  ELSE [d EXCEPT !.got = d.free_inode, !.free_inode = d.inode[d.free_inode].size]

(* Inode.free. *)
free_inode(d, i) ==
  Then(IF d.inode[i].size # 0 THEN truncate(d, i, 0) ELSE d,
       LAMBDA x : [x EXCEPT !.inode[i] = [NewInode("free") EXCEPT !.size = x.free_inode, !.links = 0],
                            !.free_inode = i])

\* Seeded fault: the inode is not given back.
GiveBack_Not(d, i) == d

(* The handler of create and mkdir: the inode is given back and the        *)
(* exception raised again.                                                 *)
GiveBack(d, i) ==
  Then(free_inode([d EXCEPT !.err = "none"], i), LAMBDA x : [x EXCEPT !.err = d.err])

Dirents(d, i) ==
  [n \in 1 .. d.inode[i].size |-> d.block[blockno(d, i, (n - 1) \div W)][((n - 1) % W) + 1]]

(* Where the entry is, 0 for nowhere.  A removed entry has no name and is  *)
(* not used again: the search for one tests the wrong name.                *)
Find(d, i, name) == SelectInSeq(Dirents(d, i), LAMBDA e : e[2] = name)

remove(d, i, n) == [d EXCEPT !.block[blockno(d, i, (n - 1) \div W)][((n - 1) % W) + 1][2] = ""]

unlink(d, p, name) ==
  LET n == Find(d, p, name)
      i == Dirents(d, p)[n][1]
      gone == remove(d, p, n)
  IN  CASE d.inode[p].type # "dir" -> Raise(d, "S5")
        [] d.inode[p].type = "dir" /\ n = 0 -> Raise(d, "S5")
        [] OTHER ->
             IF d.inode[i].type = "dir" \/ d.inode[i].links < 1 THEN Raise(d, "S5")
             ELSE IF d.inode[i].links = 1 THEN free_inode([gone EXCEPT !.inode[i].links = 0], i)
             ELSE [gone EXCEPT !.inode[i].links = @ - 1]

is_empty(d, i) == \A n \in DOMAIN Dirents(d, i) : Dirents(d, i)[n][2] \in {"", ".", ".."}

\* Seeded fault: the parent keeps the link of the directory that is gone.
rmdir_KeepsLink(d, p, name) ==
  LET n == Find(d, p, name)
      i == Dirents(d, p)[n][1]
  IN  CASE name \in {".", ".."} \/ d.inode[p].type # "dir" -> Raise(d, "S5")
        [] name \notin {".", ".."} /\ d.inode[p].type = "dir" /\ n = 0 -> Raise(d, "S5")
        [] OTHER ->
             IF d.inode[i].type # "dir" \/ ~is_empty(d, i) \/ d.inode[i].links # 1 THEN Raise(d, "S5")
             ELSE free_inode([remove(d, p, n) EXCEPT !.inode[i].links = 0], i)

rmdir(d, p, name) ==
  LET n == Find(d, p, name)
      i == Dirents(d, p)[n][1]
  IN  CASE name \in {".", ".."} \/ d.inode[p].type # "dir" -> Raise(d, "S5")
        [] name \notin {".", ".."} /\ d.inode[p].type = "dir" /\ n = 0 -> Raise(d, "S5")
        [] OTHER ->
             IF d.inode[i].type # "dir" \/ ~is_empty(d, i) \/ d.inode[i].links # 1 THEN Raise(d, "S5")
             ELSE free_inode([remove(d, p, n) EXCEPT !.inode[p].links = @ - 1, !.inode[i].links = 0], i)

_make_dirent(d, p, i, name) ==
  CASE d.inode[p].type # "dir" -> Raise(d, "S5")
    [] d.inode[p].type = "dir" /\ Find(d, p, name) # 0 -> Raise(d, "S5")
    [] OTHER -> write(d, p, d.inode[p].size, << <<i, name>> >>)

create(d, p, name) ==
  Then(alloc_inode(d), LAMBDA a :
    LET made == _make_dirent([a EXCEPT !.inode[a.got] = NewInode("data")], p, a.got, name)
    IN  IF made.err = "none" THEN [made EXCEPT !.got = a.got] ELSE GiveBack(made, a.got))

(* The parent's link is counted before its entry is made.                  *)
mkdir(d, p, name) ==
  Then(alloc_inode(d), LAMBDA a :
    LET dots == Then(_make_dirent([a EXCEPT !.inode[a.got] = NewInode("dir")], a.got, a.got, "."),
                     LAMBDA x : _make_dirent(x, a.got, p, ".."))
        made == Then(dots, LAMBDA x :
                  LET entered == _make_dirent([x EXCEPT !.inode[p].links = @ + 1], p, a.got, name)
                  IN  IF entered.err = "none" THEN entered ELSE [entered EXCEPT !.spoiled = @ \cup {"mkdir"}])
    IN  IF made.err = "none" THEN made ELSE GiveBack(made, a.got))

NONE == -1
RAISED == -2

lookup(d, i, name) ==
  CASE i < 0 -> i
    [] i >= 0 /\ d.inode[i].type # "dir" -> RAISED
    [] OTHER -> LET n == Find(d, i, name) IN IF n = 0 THEN NONE ELSE Dirents(d, i)[n][1]

open(d, segs) == FoldLeft(LAMBDA i, seg : lookup(d, i, seg), ROOT, segs)

(* format, without what it prints and refuses: the blocks enter the list   *)
(* as if they were freed one by one.                                       *)
format ==
  LET empty == [free |-> <<>>, last |-> END, free_inode |-> ROOT, got |-> ROOT, err |-> "none", spoiled |-> {},
                block |-> [b \in Blocks |-> Zeros(W)],
                inode |-> [i \in Inodes |-> [NewInode("free") EXCEPT !.links = 0,
                                               !.size = IF i = INODES - 1 THEN END ELSE i + 1]]]
      blocks == FoldLeft(LAMBDA x, n : free_block(x, FIRST + n - 1), empty, Upto(BLOCKS - FIRST))
      root == LET a == alloc_inode(blocks) IN [a EXCEPT !.inode[ROOT] = NewInode("dir")]
  IN  [_make_dirent(_make_dirent(root, ROOT, ROOT, "."), ROOT, ROOT, "..") EXCEPT !.got = ROOT]
-----------------------------------------------------------------------------
(* The commands. *)

VARIABLES
  disk,
  curdir,     \* the path of the current directory, as names
  left        \* of the commands that Commands allows

vars == <<disk, curdir, left>>

(* os.path.normpath of a relative path below a directory.                  *)
Join(dir, segs) ==
  FoldLeft(LAMBDA q, seg : IF seg # ".." THEN Append(q, seg) ELSE IF q = <<>> THEN q ELSE Front(q), dir, segs)

(* FsmakerShell.open. *)
Resolve(p) == IF p.abs THEN p.segs ELSE Join(curdir, p.segs)

(* "/a" is taken for "a": what is before the last slash is empty.          *)
get_parentdir(p) ==
  IF Len(p.segs) > 1
  THEN [dir |-> open(disk, Resolve([p EXCEPT !.segs = Front(@)])), name |-> Last(p.segs)]
  ELSE [dir |-> open(disk, curdir), name |-> IF p.segs = <<>> THEN "." ELSE p.segs[1]]

Usable == "directory" \notin disk.spoiled

(* A command has ended; after a fatal error the tool is started again.     *)
Ends(d) ==
  /\ left > 0
  /\ disk' = [d EXCEPT !.err = "none", !.got = ROOT]
  /\ left' = IF disk'.inode = disk.inode THEN left ELSE left - 1
  /\ curdir' = IF d.err = "fatal" THEN <<>> ELSE curdir

do_mkdir(p) ==
  LET q == get_parentdir(p) IN
  Usable /\ q.dir >= 0 /\ Ends(mkdir(disk, q.dir, q.name))

do_rmdir(p) ==
  LET q == get_parentdir(p) IN
  Usable /\ q.dir >= 0 /\ Ends(rmdir(disk, q.dir, q.name))

RECURSIVE _dir_clear(_, _)
_dir_clear(d, i) ==
  FoldLeft(LAMBDA x, n : Then(x, LAMBDA y :
             LET e == Dirents(y, i)[n] IN
             CASE e[2] \in {"", ".", ".."} -> y
               [] e[2] \notin {"", ".", ".."} /\ y.inode[e[1]].type = "dir" ->
                    Then(_dir_clear(y, e[1]), LAMBDA z : rmdir(z, i, e[2]))
               [] OTHER -> unlink(y, i, e[2])),
           d, Upto(d.inode[i].size))

(* rm -r of nothing asks None for its type.                                *)
do_rm(p, recursive) ==
  LET q == get_parentdir(p)
      i == lookup(disk, q.dir, q.name)
  IN  /\ Usable /\ q.dir >= 0 /\ i # RAISED
      /\ Ends(CASE recursive /\ i = NONE -> Raise(disk, "fatal")
                [] recursive /\ i # NONE /\ disk.inode[i].type = "dir" ->
                     Then(_dir_clear(disk, i), LAMBDA x : rmdir(x, q.dir, q.name))
                [] OTHER -> unlink(disk, q.dir, q.name))

do_touch(p) ==
  LET q == get_parentdir(p) IN
  Usable /\ q.dir >= 0 /\ lookup(disk, q.dir, q.name) = NONE /\ Ends(create(disk, q.dir, q.name))

(* getfile: a file of the host is copied piece by piece.                   *)
getfile(d, i, size) ==
  LET pieces == (size + CHUNK - 1) \div CHUNK
      piece(n) == [u \in 1 .. (IF n = pieces THEN size - (n - 1) * CHUNK ELSE CHUNK) |-> 0]
  IN  FoldLeft(LAMBDA x, n : Then(x, LAMBDA y : write(y, i, (n - 1) * CHUNK, piece(n))),
               truncate(d, i, 0), Upto(pieces))

(* A directory is overwritten like a file.                                 *)
do_getfile(p, size) ==
  LET segs == Resolve(p)
      dir  == open(disk, IF segs = <<>> THEN segs ELSE Front(segs))
      i    == open(disk, segs)
  IN  /\ Usable /\ dir >= 0 /\ i # RAISED
      /\ Ends(CASE i = NONE -> Then(create(disk, dir, Last(segs)), LAMBDA x : getfile(x, x.got, size))
                [] i # NONE /\ disk.inode[i].type = "data" -> getfile(disk, i, size)
                [] OTHER -> [disk EXCEPT !.spoiled = @ \cup {"directory"}])

do_truncate(p, size) ==
  LET i == open(disk, Resolve(p)) IN
  Usable /\ i >= 0 /\ disk.inode[i].type = "data" /\ Ends(truncate(disk, i, size))

(* An absolute path, too, is put behind the current directory; an          *)
(* exception ends the tool.                                                *)
do_cd(p) ==
  LET i == open(disk, Resolve(p)) IN
  /\ Usable /\ UNCHANGED <<disk, left>>
  /\ \/ i = RAISED /\ curdir' = <<>>
     \/ i >= 0 /\ disk.inode[i].type = "dir" /\ curdir' = Join(curdir, p.segs) /\ Len(curdir') <= Depth

do_format == disk' = format /\ left' = Commands /\ UNCHANGED curdir

(* The tool is left and started again on the same disk.                    *)
Restart == curdir # <<>> /\ curdir' = <<>> /\ UNCHANGED <<disk, left>>

Init == disk = format /\ curdir = <<>> /\ left = Commands

Next ==
  \/ \E p \in Path : do_mkdir(p) \/ do_rmdir(p) \/ do_touch(p) \/ do_cd(p)
  \/ \E p \in Path, recursive \in BOOLEAN : do_rm(p, recursive)
  \/ \E p \in Path, size \in Sizes : do_getfile(p, size) \/ do_truncate(p, size)
  \/ do_format \/ Restart

Spec == Init /\ [][Next]_vars
-----------------------------------------------------------------------------
TypeOK ==
  /\ disk.free \in Seq(Blocks) /\ disk.last \in Blocks \cup {END} /\ disk.free_inode \in Inodes \cup {END}
  /\ disk.err = "none" /\ disk.got = ROOT /\ disk.spoiled \subseteq {"space", "mkdir", "truncate", "directory"}
  /\ \A i \in Inodes : LET f == disk.inode[i] IN
       /\ f.type \in {"free", "data", "dir"} /\ f.links \in Nat /\ f.indirect \in Blocks \cup {0}
       /\ f.size \in IF f.type = "free" THEN Inodes \cup {END} ELSE 0 .. MAX
       /\ f.direct \in [0 .. NDIRECT - 1 -> Blocks \cup {0}]
  /\ DOMAIN disk.block = Blocks /\ \A b \in Blocks : DOMAIN disk.block[b] = 1 .. W
  /\ curdir \in Seq(Name) /\ left \in 0 .. Commands

Live == {i \in Inodes : disk.inode[i].type # "free"}

(* The free blocks, those in the superblock and those in the chain.        *)
RECURSIVE Chain(_, _)
Chain(b, fuel) ==
  IF b = END \/ fuel = 0 THEN <<>>
  ELSE <<b>> \o SubSeq(disk.block[b], 1, NBLKS - 1) \o Chain(disk.block[b][NBLKS], fuel - 1)
FreeBlocks == disk.free \o Chain(disk.last, BLOCKS)

(* Every block is free once, or is used once, by an inode that is in use.  *)
(* Blocks get lost only after the disk was full, or a truncation failed.   *)
IND == -1
Refs == {r \in Live \X (0 .. NDIRECT + W - 1) : blockno(disk, r[1], r[2]) # 0}
          \cup {r \in Live \X {IND} : disk.inode[r[1]].indirect # 0}
Referred == {IF r[2] = IND THEN disk.inode[r[1]].indirect ELSE blockno(disk, r[1], r[2]) : r \in Refs}
BlocksAccounted ==
  /\ TypeOK
  /\ Cardinality(ToSet(FreeBlocks)) = Len(FreeBlocks) /\ Cardinality(Referred) = Cardinality(Refs)
  /\ ToSet(FreeBlocks) \cap Referred = {}
  /\ disk.spoiled = {} => ToSet(FreeBlocks) \cup Referred = Blocks

(* Every inode is free once or in use; an entry never names a free inode,  *)
(* and an inode in use has an entry, unless a failed mkdir has raised the  *)
(* link count of a file, or a truncation failed while it was freed.        *)
RECURSIVE FreeInodes(_, _)
FreeInodes(i, fuel) ==
  IF i = END \/ fuel = 0 THEN <<>> ELSE <<i>> \o FreeInodes(disk.inode[i].size, fuel - 1)

Dir == {i \in Live : disk.inode[i].type = "dir"}
Named(i) == {e \in ToSet(Dirents(disk, i)) : e[2] \notin {"", ".", ".."}}
Entered == UNION {{e[1] : e \in Named(i)} : i \in Dir}

InodesAccounted ==
  LET free == FreeInodes(disk.free_inode, INODES + 1) IN
  /\ Cardinality(ToSet(free)) = Len(free) /\ ToSet(free) = Inodes \ Live
  /\ Entered \subseteq Live \ {ROOT}
  /\ disk.spoiled \cap {"mkdir", "truncate"} = {} => Live = Entered \cup {ROOT}

(* The directories are a tree whose "." and ".." agree with it, no name is *)
(* there twice, and the link counts are the numbers of entries: of the     *)
(* file, or of the subdirectories of a directory and itself.               *)
Parents(i) == {j \in Dir : \E e \in Named(j) : e[1] = i}
Subdirs(i) == {e \in Named(i) : disk.inode[e[1]].type = "dir"}
TreeOK ==
  "truncate" \notin disk.spoiled =>
    /\ \A i \in Dir :
         /\ Cardinality({n \in 1 .. disk.inode[i].size : Dirents(disk, i)[n][2] # ""}) = Cardinality(Named(i)) + 2
         /\ \A e, f \in Named(i) : e[2] = f[2] => e = f
         /\ Dirents(disk, i)[1] = <<i, ".">>
         /\ IF i = ROOT THEN Dirents(disk, i)[2] = <<i, "..">>
            ELSE \E j \in Dir : Parents(i) = {j} /\ Dirents(disk, i)[2] = <<j, "..">>
    /\ "mkdir" \notin disk.spoiled =>
         \A i \in Live : disk.inode[i].links = IF i \in Dir THEN 1 + Cardinality(Subdirs(i))
                                               ELSE Cardinality(Parents(i))
=============================================================================
