---------------------------- MODULE FilesProofs ----------------------------
(***************************************************************************)
(* That no system call on files keeps or drops a reference too many, that  *)
(* the link counts are the names, that the directories are in their        *)
(* parents, and which assertions of the file code can fail: for every      *)
(* number of processes, descriptors, open files and inodes.                *)
(***************************************************************************)
EXTENDS Files, FiniteSetTheorems, TLAPS

-----------------------------------------------------------------------------
(* The inductive invariant.                                                *)

FileRec  == [mode : SUBSET {"READ", "WRITE", "APPEND"}, pos : Nat, ref : Nat,
             vnode : Inode \cup {NULL}]
InodeRec == [mode : {"free", "file", "dir", "chr"}, links : Nat, size : Nat]
Entry    == [name : Name \cup Dots \cup {NoName}, ino : Inode]

Inodes  == [Inode -> InodeRec]
Dirents == [Inode -> [Slot -> Entry]]
Numbers == [Inode -> Nat]
OpenFiles == [FileId -> FileRec]
Stops == {NoCrash, "undefined", "memcpy", "ramfs_readdir", "vfs_shutdown"}
FSState == [inode : Inodes, dirent : Dirents, vref : Numbers, vlen : Numbers,
            crash : Stops, file : OpenFiles]

\* The open files that refer to a vnode, the names of an inode, and the slots of
\* a directory that are in use.
Opened(m, i)    == {f \in FileId : m.file[f].vnode = i}
Named(entry, i) == entry.name \notin Dots \cup {NoName} /\ entry.ino = i
Entries(m, i)   == LinksFrom(m, Inode, i)
Used(m, d)      == {s \in Slot : m.dirent[d][s].name # NoName}

Count(S)     == [S -> Nat]
InCore(m, i) == IF m.vref[i] > 0 THEN 1 ELSE 0
IsRoot(i)    == IF i = Root THEN 1 ELSE 0

\* Of the references to the vnode of i, h[i] are not those of open files.
RefsAre(m, h) ==
  \A i \in Inode : m.vref[i] = Cardinality(Opened(m, i)) + h[i]

\* Of the links of i, t[i] are names, in a directory or lost with one.
LinksAre(m, t) ==
  \A i \in Inode : m.inode[i].links = t[i] + InCore(m, i) + IsRoot(i)
NamesAre(m, t) ==
  \A q, i \in Inode, s \in Slot : Named(m.dirent[q][s], i) => t[i] > 0
Total(m, l) == [i \in Inode |-> Entries(m, i) + l[i]]

\* What the inodes look like: free ones have no links, directories have their
\* dots in the first two slots, other inodes have no entries, and the length of a
\* file in core is that of the file.
Unlinked(m) == \A i \in Inode : m.inode[i].mode = "free" <=> m.inode[i].links = 0
Plain(m) ==
  \A i \in Inode : m.inode[i].mode # "dir" => \A s \in Slot : m.dirent[i][s] = FreeSlot
Dotted(m) ==
  \A i \in Inode : m.inode[i].mode = "dir" =>
    /\ m.dirent[i][1] = [name |-> ".", ino |-> i]
    /\ m.dirent[i][2].name = ".."
    /\ \A s \in Slot \ {1, 2} : m.dirent[i][s].name \notin Dots
Sized(m) ==
  \A i \in Inode : m.inode[i].mode = "dir" =>
    m.inode[i].size = Cardinality(Used(m, i)) * DIRENT_SIZE
Lengths(m) ==
  \A i \in Inode : m.inode[i].mode = "file" /\ m.vref[i] > 0 => m.vlen[i] = m.inode[i].size

\* A directory has one name, in its parent.
OneName(m) ==
  \A d, q \in Inode, s \in Slot :
    Named(m.dirent[q][s], d) /\ m.inode[d].mode = "dir" =>
      /\ m.dirent[d][2].ino = q
      /\ \A r \in Inode, u \in Slot : Named(m.dirent[r][u], d) => r = q /\ u = s

\* What holds of the file system at every point of a system call.
Good(m, h, t) ==
  /\ m \in FSState /\ m.crash = NoCrash
  /\ h \in Count(Inode) /\ t \in Count(Inode)
  /\ RefsAre(m, h) /\ LinksAre(m, t) /\ NamesAre(m, t)
  /\ Unlinked(m) /\ Plain(m) /\ Dotted(m) /\ Sized(m) /\ Lengths(m) /\ OneName(m)

\* The parent of a directory is a directory.
Parents(m) ==
  \A d \in Inode : m.inode[d].mode = "dir" => m.inode[m.dirent[d][2].ino].mode = "dir"

\* The references of file_t structures.
FilesAre(m, g) ==
  \A f \in FileId : /\ m.file[f].ref = g[f]
                    /\ (m.file[f].ref = 0) <=> (m.file[f].vnode = NULL)

\* Who holds open files, and who holds vnodes besides open files.
Descriptors(fl, f) == {e \in Proc \X Fd : fl[e[1]][e[2]] = f}
Readers(rd, f)     == {p \in Proc : rd[p] = f}
Workers(wd, i)     == {p \in Proc : wd[p] = i}
Users(fl, rd) ==
  [f \in FileId |-> Cardinality(Descriptors(fl, f)) + Cardinality(Readers(rd, f))]
Holders(wd, pw, lk) ==
  [i \in Inode |-> Cardinality(Workers(wd, i)) + (IF i = Root /\ pw = "on" THEN 1 ELSE 0) + lk[i]]

\* A process that is not there has no files.
Absent ==
  \A p \in Proc : cwd[p] = NULL => /\ \A fd \in Fd : files[p][fd] = NULL
                                   /\ reading[p] = NULL

IInv ==
  /\ TypeOK /\ fs \in FSState /\ orphan \in BOOLEAN
  /\ Good([fs EXCEPT !.crash = NoCrash], Holders(cwd, power, leaked), Total(fs, lost))
  /\ FilesAre(fs, Users(files, reading))
  /\ orphan \/ Parents(fs)
  /\ Absent
  /\ OnlyKnownCrashes

-----------------------------------------------------------------------------
(* Counting.                                                               *)

LEMMA Basics ==
  /\ IsFiniteSet(Inode) /\ IsFiniteSet(Slot) /\ IsFiniteSet(Fd)
  /\ IsFiniteSet(FileId) /\ IsFiniteSet(Proc)
  /\ Root \in Inode /\ 1 \in Slot /\ 2 \in Slot
  /\ NULL \notin Inode /\ NULL \notin FileId
  /\ Dots \cap Name = {} /\ NoName \notin Name /\ NoName \notin Dots
<1>0. /\ RAMFS_MAX_FILES \in Nat \ {0} /\ RAMFS_MAX_DIRENT \in Nat \ {0, 1}
      /\ NFILES \in Nat \ {0}
  BY RamFSAssumption, FilesAssumption
<1>1. IsFiniteSet(Inode) /\ IsFiniteSet(Slot) /\ IsFiniteSet(Fd)
  BY <1>0, FS_Interval DEF Inode, Slot, Fd
<1>2. Root \in Inode /\ 1 \in Slot /\ 2 \in Slot
  BY <1>0 DEF Root, Inode, Slot
<1>3. Dots \cap Name = {} /\ NoName \notin Name
  BY RamFSAssumption
<1>4. NoName \notin Dots
  BY Zenon DEF NoName, Dots
<1> QED BY <1>1, <1>2, <1>3, <1>4, FilesAssumption

\* A set with one more element.
LEMMA OneMore ==
  ASSUME NEW A, NEW B, NEW x, IsFiniteSet(A), x \notin A, B = A \cup {x}
  PROVE  /\ IsFiniteSet(B) /\ Cardinality(A) \in Nat
         /\ Cardinality(B) = Cardinality(A) + 1
BY FS_AddElement, FS_CardinalityType

\* Two sets that differ in one element at most.
LEMMA OneMoves ==
  ASSUME NEW A, NEW B, IsFiniteSet(A), IsFiniteSet(B), NEW x,
         \A e : e # x => (e \in A <=> e \in B)
  PROVE  /\ Cardinality(A) \in Nat /\ Cardinality(B) \in Nat
         /\ Cardinality(A) + (IF x \in B THEN 1 ELSE 0)
              = Cardinality(B) + (IF x \in A THEN 1 ELSE 0)
<1>1. CASE x \in A /\ x \notin B
  <2>1. A = B \cup {x}
    BY <1>1
  <2> QED BY <1>1, <2>1, OneMore
<1>2. CASE x \notin A /\ x \in B
  <2>1. B = A \cup {x}
    BY <1>2
  <2> QED BY <1>2, <2>1, OneMore
<1>3. CASE x \in A <=> x \in B
  <2>1. A = B
    BY <1>3
  <2> QED BY <1>3, <2>1, FS_CardinalityType
<1> QED BY <1>1, <1>2, <1>3

\* The names of i in the directories of D.
Names(m, D, i)  == {e \in D \X Slot : Named(m.dirent[e[1]][e[2]], i)}

LEMMA NamesAreCounted ==
  ASSUME NEW m, NEW D \in SUBSET Inode, NEW i
  PROVE  /\ IsFiniteSet(Names(m, D, i))
         /\ LinksFrom(m, D, i) = Cardinality(Names(m, D, i))
         /\ LinksFrom(m, D, i) \in Nat
         /\ LinksFrom(m, D, i) = 0 <=> Names(m, D, i) = {}
<1>1. IsFiniteSet(D)
  BY Basics, FS_Subset
<1>2. IsFiniteSet(D \X Slot)
  BY <1>1, Basics, FS_Product
<1>3. IsFiniteSet(Names(m, D, i))
  <2>1. Names(m, D, i) \in SUBSET (D \X Slot)
    BY DEF Names
  <2> QED BY <1>2, <2>1, FS_Subset
<1>4. LinksFrom(m, D, i) = Cardinality(Names(m, D, i))
  BY DEF LinksFrom, Names, Named
<1> QED BY <1>3, <1>4, FS_CardinalityType, FS_EmptySet

\* Entries(m, i) with the set in view.
LEMMA EntriesAreCounted ==
  ASSUME NEW m, NEW i
  PROVE  /\ IsFiniteSet(Names(m, Inode, i))
         /\ Entries(m, i) = Cardinality(Names(m, Inode, i))
         /\ Entries(m, i) \in Nat
         /\ Entries(m, i) = 0 <=> Names(m, Inode, i) = {}
BY NamesAreCounted DEF Entries

\* Directories whose entries name the same inodes.
SameEntries(m, n) ==
  \A q, i \in Inode, s \in Slot : Named(n.dirent[q][s], i) <=> Named(m.dirent[q][s], i)

LEMMA PairOf ==
  ASSUME NEW S, NEW T, NEW e \in S \X T
  PROVE  e[1] \in S /\ e[2] \in T /\ e = <<e[1], e[2]>>
OBVIOUS

LEMMA EntriesTheSame ==
  ASSUME NEW m, NEW n, SameEntries(m, n), NEW i \in Inode
  PROVE  /\ Entries(n, i) = Entries(m, i)
         /\ \A D \in SUBSET Inode : LinksFrom(n, D, i) = LinksFrom(m, D, i)
<1>1. ASSUME NEW D \in SUBSET Inode PROVE LinksFrom(n, D, i) = LinksFrom(m, D, i)
  <2>1. ASSUME NEW e \in D \X Slot
        PROVE  e \in Names(n, D, i) <=> e \in Names(m, D, i)
    <3>1. e[1] \in Inode /\ e[2] \in Slot
      BY PairOf
    <3>2. Named(n.dirent[e[1]][e[2]], i) <=> Named(m.dirent[e[1]][e[2]], i)
      BY <3>1 DEF SameEntries
    <3> QED BY <3>2 DEF Names
  <2>2. Names(n, D, i) \subseteq D \X Slot /\ Names(m, D, i) \subseteq D \X Slot
    BY DEF Names
  <2>3. Names(n, D, i) = Names(m, D, i)
    BY ONLY <2>1, <2>2
  <2> QED BY <2>3, NamesAreCounted
<1> QED BY <1>1 DEF Entries

\* The directories of m and n differ in one slot at most.
OtherSlots(m, n, d, s) ==
  \A q \in Inode, t \in Slot : ~(q = d /\ t = s) => n.dirent[q][t] = m.dirent[q][t]

\* That slot named nothing before.
LEMMA OneSlot ==
  ASSUME NEW m, NEW n, NEW d \in Inode, NEW s \in Slot, NEW j,
         OtherSlots(m, n, d, s),
         ~Named(m.dirent[d][s], j)
  PROVE  /\ Named(n.dirent[d][s], j) => Entries(n, j) = Entries(m, j) + 1
         /\ ~Named(n.dirent[d][s], j) => Entries(n, j) = Entries(m, j)
<1>1. ASSUME NEW e \in Inode \X Slot, e # <<d, s>>
      PROVE  e \in Names(n, Inode, j) <=> e \in Names(m, Inode, j)
  <2>1. e[1] \in Inode /\ e[2] \in Slot /\ ~(e[1] = d /\ e[2] = s)
    BY <1>1, PairOf
  <2>2. n.dirent[e[1]][e[2]] = m.dirent[e[1]][e[2]]
    BY <2>1 DEF OtherSlots
  <2> QED BY <2>2 DEF Names
<1>2. /\ <<d, s>> \in Inode \X Slot
      /\ <<d, s>> \notin Names(m, Inode, j)
      /\ <<d, s>> \in Names(n, Inode, j) <=> Named(n.dirent[d][s], j)
  BY DEF Names
<1>3. Names(m, Inode, j) \subseteq Inode \X Slot /\ Names(n, Inode, j) \subseteq Inode \X Slot
  BY DEF Names
<1>4. CASE Named(n.dirent[d][s], j)
  <2>1. Names(n, Inode, j) = Names(m, Inode, j) \cup {<<d, s>>}
    BY <1>1, <1>2, <1>3, <1>4
  <2> QED BY <1>2, <1>4, <2>1, OneMore, EntriesAreCounted
<1>5. CASE ~Named(n.dirent[d][s], j)
  <2>1. Names(n, Inode, j) = Names(m, Inode, j)
    <3>1. ASSUME NEW e PROVE e \in Names(n, Inode, j) <=> e \in Names(m, Inode, j)
      <4>1. CASE e = <<d, s>>
        BY <1>2, <1>5, <4>1
      <4>2. CASE e # <<d, s>>
        BY <1>1, <1>3, <4>2
      <4> QED BY <4>1, <4>2
    <3> QED BY <3>1
  <2> QED BY <1>5, <2>1, EntriesAreCounted
<1> QED BY <1>4, <1>5

\* A new entry in a free slot, or the other way round an entry that goes.
LEMMA EntryAdded ==
  ASSUME NEW m, NEW n, NEW d \in Inode, NEW s \in Slot, OtherSlots(m, n, d, s),
         m.dirent[d][s].name = NoName, NEW i, Named(n.dirent[d][s], i)
  PROVE  \A j : Entries(n, j) = Entries(m, j) + (IF j = i THEN 1 ELSE 0)
<1>1. ASSUME NEW j PROVE Entries(n, j) = Entries(m, j) + (IF j = i THEN 1 ELSE 0)
  <2>1. ~Named(m.dirent[d][s], j)
    BY DEF Named
  <2>2. Named(n.dirent[d][s], j) <=> j = i
    BY DEF Named
  <2>3. Entries(n, j) \in Nat /\ Entries(m, j) \in Nat
    BY EntriesAreCounted
  <2>4. /\ Named(n.dirent[d][s], j) => Entries(n, j) = Entries(m, j) + 1
        /\ ~Named(n.dirent[d][s], j) => Entries(n, j) = Entries(m, j)
    BY ONLY d \in Inode, s \in Slot, OtherSlots(m, n, d, s), <2>1, OneSlot
  <2> QED BY ONLY <2>2, <2>3, <2>4
<1> QED BY <1>1

\* Directories that go with all their entries.
LEMMA DirectoriesFreed ==
  ASSUME NEW m \in FSState, NEW n, NEW D \in SUBSET Inode,
         \A q \in Inode, t \in Slot :
           n.dirent[q][t] = IF q \in D THEN FreeSlot ELSE m.dirent[q][t]
  PROVE  \A j : Entries(m, j) = Entries(n, j) + LinksFrom(m, D, j)
<1>1. \A j : ~Named(FreeSlot, j)
  BY DEF Named, FreeSlot
<1>2. ASSUME NEW j
      PROVE  Entries(m, j) = Entries(n, j) + LinksFrom(m, D, j)
  <2>1. ASSUME NEW e \in Inode \X Slot
        PROVE  /\ e \in Names(m, Inode, j) <=> e \in Names(n, Inode, j) \/ e \in Names(m, D, j)
               /\ ~(e \in Names(n, Inode, j) /\ e \in Names(m, D, j))
    <3>1. e[1] \in Inode /\ e[2] \in Slot /\ e = <<e[1], e[2]>>
      BY PairOf
    <3>2. e \in D \X Slot <=> e[1] \in D
      BY <3>1
    <3>3. n.dirent[e[1]][e[2]] = IF e[1] \in D THEN FreeSlot ELSE m.dirent[e[1]][e[2]]
      BY <3>1
    <3> QED BY <1>1, <3>2, <3>3 DEF Names
  <2>2. /\ Names(m, Inode, j) \subseteq Inode \X Slot
        /\ Names(n, Inode, j) \subseteq Inode \X Slot
        /\ Names(m, D, j) \subseteq Inode \X Slot
    BY DEF Names
  <2>3. /\ Names(m, Inode, j) = Names(n, Inode, j) \cup Names(m, D, j)
        /\ Names(n, Inode, j) \cap Names(m, D, j) = {}
    BY <2>1, <2>2
  <2>4. /\ IsFiniteSet(Names(n, Inode, j)) /\ IsFiniteSet(Names(m, D, j))
        /\ Entries(n, j) = Cardinality(Names(n, Inode, j))
        /\ Entries(m, j) = Cardinality(Names(m, Inode, j))
        /\ LinksFrom(m, D, j) = Cardinality(Names(m, D, j))
    BY EntriesAreCounted, NamesAreCounted
  <2>5. Cardinality(Names(n, Inode, j)) \in Nat /\ Cardinality(Names(m, D, j)) \in Nat
    BY <2>4, FS_CardinalityType
  <2>6. Cardinality(Names(m, Inode, j)) =
          Cardinality(Names(n, Inode, j)) + Cardinality(Names(m, D, j)) - Cardinality({})
    BY ONLY <2>3, <2>4, FS_Union
  <2> QED BY <2>4, <2>5, <2>6, FS_EmptySet
<1> QED BY <1>2

-----------------------------------------------------------------------------
(* Vnodes.                                                                 *)

Plus(c, x)  == [c EXCEPT ![x] = @ + 1]

\* The directory tree: what the inodes are and what the directories hold.
SameTree(m, n) ==
  /\ n.dirent = m.dirent
  /\ \A i \in Inode : n.inode[i].mode = m.inode[i].mode

\* Inodes of m are free in n, with what they held.
Freed(m, n) ==
  \A i \in Inode : \/ n.inode[i].mode = m.inode[i].mode /\ n.dirent[i] = m.dirent[i]
                   \/ n.inode[i].mode = "free" /\ n.dirent[i] = NoEntries

LEMMA FieldsOfVget ==
  ASSUME NEW m \in FSState, NEW i \in Inode, m.vref[i] > 0 \/ m.inode[i].mode # "free",
         NEW n, n = vget(m, i)
  PROVE  /\ n \in FSState /\ n.crash = m.crash /\ SameTree(m, n) /\ n.file = m.file
         /\ n.vref = [m.vref EXCEPT ![i] = @ + 1]
         /\ \A j \in Inode : /\ n.inode[j].size = m.inode[j].size
                             /\ n.inode[j].links = m.inode[j].links
                                  + (IF j = i /\ m.vref[i] = 0 THEN 1 ELSE 0)
                             /\ n.vlen[j] = IF j = i /\ m.vref[i] = 0 THEN m.inode[i].size
                                            ELSE m.vlen[j]
<1>0. /\ m.vref \in [Inode -> Nat] /\ m.vlen \in [Inode -> Nat]
      /\ m.inode \in [Inode -> InodeRec]
      /\ m.vref[i] \in Nat /\ m.inode[i] \in InodeRec
      /\ m.inode[i].size \in Nat /\ m.inode[i].links \in Nat
      /\ \A j \in Inode : m.inode[j].links \in Nat
  BY DEF FSState, InodeRec, Numbers, Inodes
<1>1. CASE m.vref[i] > 0
  <2>1. n = [m EXCEPT !.vref[i] = @ + 1]
    BY <1>1 DEF vget
  <2>2. n \in FSState
    <3>1. [m.vref EXCEPT ![i] = @ + 1] \in Numbers
      BY <1>0 DEF Numbers
    <3> QED BY <2>1, <3>1 DEF FSState
  <2>3. /\ n.crash = m.crash /\ n.dirent = m.dirent /\ n.file = m.file /\ n.vlen = m.vlen
        /\ n.inode = m.inode /\ n.vref = [m.vref EXCEPT ![i] = @ + 1]
    BY <2>1 DEF FSState
  <2> QED BY <1>0, <1>1, <2>2, <2>3 DEF SameTree
<1>2. CASE ~(m.vref[i] > 0)
  <2>1. m.vref[i] = 0
    BY <1>0, <1>2
  <2>2. n = [m EXCEPT !.vref[i] = 1, !.inode[i].links = @ + 1, !.vlen[i] = m.inode[i].size]
    BY <1>2, <2>1 DEF vget
  <2>3. /\ n.crash = m.crash /\ n.dirent = m.dirent /\ n.file = m.file
        /\ n.inode = [m.inode EXCEPT ![i].links = @ + 1]
        /\ n.vref = [m.vref EXCEPT ![i] = 1]
        /\ n.vlen = [m.vlen EXCEPT ![i] = m.inode[i].size]
    BY <2>2 DEF FSState
  <2>4. n.inode \in Inodes /\ n.vref \in Numbers /\ n.vlen \in Numbers
    BY <1>0, <2>3 DEF InodeRec, Inodes, Numbers
  <2>5. n \in FSState
    BY <2>2, <2>3, <2>4 DEF FSState
  <2>6. \A j \in Inode : /\ n.inode[j].mode = m.inode[j].mode
                         /\ n.inode[j].size = m.inode[j].size
                         /\ n.inode[j].links = m.inode[j].links + (IF j = i THEN 1 ELSE 0)
    BY <1>0, <2>3 DEF InodeRec
  <2> QED BY <1>0, <2>1, <2>3, <2>5, <2>6 DEF SameTree
<1> QED BY <1>1, <1>2

\* A reference more.
LEMMA Get ==
  ASSUME NEW m, NEW h, NEW t, Good(m, h, t), NEW i \in Inode, m.inode[i].mode # "free",
         NEW n, n = vget(m, i)
  PROVE  Good(n, Plus(h, i), t) /\ SameTree(m, n) /\ n.file = m.file
<1>1. /\ n \in FSState /\ n.crash = m.crash /\ SameTree(m, n) /\ n.file = m.file
      /\ n.vref = [m.vref EXCEPT ![i] = @ + 1]
      /\ \A j \in Inode : /\ n.inode[j].size = m.inode[j].size
                          /\ n.inode[j].links = m.inode[j].links
                               + (IF j = i /\ m.vref[i] = 0 THEN 1 ELSE 0)
                          /\ n.vlen[j] = IF j = i /\ m.vref[i] = 0 THEN m.inode[i].size
                                         ELSE m.vlen[j]
  BY FieldsOfVget DEF Good
<1>2. /\ m.vref \in [Inode -> Nat] /\ h \in [Inode -> Nat] /\ t \in [Inode -> Nat]
      /\ Plus(h, i) \in Count(Inode)
      /\ \A j \in Inode : m.inode[j].links \in Nat
  BY DEF Good, FSState, Count, Plus, InodeRec, Numbers, Inodes
<1>3. RefsAre(n, Plus(h, i))
  <2>1. \A j \in Inode : Opened(n, j) = Opened(m, j)
    BY <1>1 DEF Opened
  <2>2. ASSUME NEW j \in Inode PROVE n.vref[j] = Cardinality(Opened(n, j)) + Plus(h, i)[j]
    <3>1. m.vref[j] = Cardinality(Opened(m, j)) + h[j]
      BY DEF Good, RefsAre
    <3>2. Cardinality(Opened(m, j)) \in Nat
      BY Basics, FS_Subset, FS_CardinalityType DEF Opened
    <3> QED BY <1>1, <1>2, <2>1, <3>1, <3>2 DEF Plus
  <2> QED BY <2>2 DEF RefsAre
<1>4. LinksAre(n, t)
  <2>1. ASSUME NEW j \in Inode PROVE n.inode[j].links = t[j] + InCore(n, j) + IsRoot(j)
    <3>1. m.inode[j].links = t[j] + InCore(m, j) + IsRoot(j)
      BY DEF Good, LinksAre
    <3> QED BY <1>1, <1>2, <3>1 DEF InCore, IsRoot
  <2> QED BY <2>1 DEF LinksAre
<1>5. NamesAre(n, t) /\ Plain(n) /\ Dotted(n) /\ OneName(n)
  BY <1>1 DEF Good, SameTree, NamesAre, Plain, Dotted, OneName
<1>6. Sized(n)
  BY <1>1 DEF Good, SameTree, Sized, Used
<1>7. Unlinked(n)
  <2>1. ASSUME NEW j \in Inode PROVE n.inode[j].mode = "free" <=> n.inode[j].links = 0
    <3>1. m.inode[j].mode = "free" <=> m.inode[j].links = 0
      BY DEF Good, Unlinked
    <3> QED BY <1>1, <1>2, <3>1 DEF SameTree
  <2> QED BY <2>1 DEF Unlinked
<1>8. Lengths(n)
  <2>1. ASSUME NEW j \in Inode, n.inode[j].mode = "file", n.vref[j] > 0
        PROVE  n.vlen[j] = n.inode[j].size
    <3>1. m.inode[j].mode = "file" /\ (m.vref[j] > 0 => m.vlen[j] = m.inode[j].size)
      BY <1>1, <2>1 DEF Good, SameTree, Lengths
    <3> QED BY <1>1, <1>2, <2>1, <3>1
  <2> QED BY <2>1 DEF Lengths
<1> QED BY <1>1, <1>2, <1>3, <1>4, <1>5, <1>6, <1>7, <1>8 DEF Good

\* Who has a reference can take another.
LEMMA InUse ==
  ASSUME NEW m, NEW h, NEW t, Good(m, h, t), NEW i \in Inode
  PROVE  /\ m.vref[i] \in Nat /\ m.inode[i].links \in Nat /\ h[i] \in Nat /\ t[i] \in Nat
         /\ Cardinality(Opened(m, i)) \in Nat
         /\ Opened(m, i) # {} => Cardinality(Opened(m, i)) > 0
         /\ m.vref[i] = Cardinality(Opened(m, i)) + h[i]
         /\ m.inode[i].links = t[i] + InCore(m, i) + IsRoot(i)
         /\ h[i] > 0 \/ Opened(m, i) # {} => m.vref[i] > 0
         /\ m.vref[i] > 0 => m.inode[i].mode # "free" /\ vref(m, i) = vget(m, i)
<1>1. /\ m.vref[i] \in Nat /\ m.inode[i].links \in Nat /\ h[i] \in Nat /\ t[i] \in Nat
  BY DEF Good, FSState, Count, InodeRec, Numbers, Inodes
<1>2. IsFiniteSet(Opened(m, i)) /\ Cardinality(Opened(m, i)) \in Nat
  BY Basics, FS_Subset, FS_CardinalityType DEF Opened
<1>3. m.vref[i] = Cardinality(Opened(m, i)) + h[i]
  BY DEF Good, RefsAre
<1>4. m.inode[i].links = t[i] + InCore(m, i) + IsRoot(i)
  BY DEF Good, LinksAre
<1>5. Opened(m, i) # {} => Cardinality(Opened(m, i)) > 0
  BY <1>2, FS_EmptySet
<1>6. m.vref[i] > 0 => m.inode[i].links # 0
  BY <1>1, <1>4 DEF InCore, IsRoot
<1>7. m.inode[i].mode = "free" <=> m.inode[i].links = 0
  BY DEF Good, Unlinked
<1> QED BY <1>1, <1>2, <1>3, <1>4, <1>5, <1>6, <1>7 DEF vref, vget

\* What keeps the inode of i when a reference goes: another reference, a name,
\* or that it is the root.
Anchored(m, h, t, i) == h[i] > 0 \/ Opened(m, i) # {} \/ t[i] > 0 \/ i = Root

LEMMA FieldsOfVput ==
  ASSUME NEW m \in FSState, NEW i \in Inode, m.vref[i] > 0,
         NEW n, n = vput(m, i)
  PROVE  /\ n \in FSState /\ n.crash = m.crash /\ n.file = m.file
         /\ n.vref = [m.vref EXCEPT ![i] = @ - 1]
         /\ \A j \in Inode : j # i => /\ n.inode[j] = m.inode[j] /\ n.dirent[j] = m.dirent[j]
                                      /\ n.vlen[j] = m.vlen[j]
         /\ m.vref[i] > 1 => n.inode = m.inode /\ n.dirent = m.dirent /\ n.vlen = m.vlen
         /\ m.vref[i] = 1 /\ m.inode[i].links > 1 =>
              /\ n.dirent = m.dirent /\ n.inode[i].mode = m.inode[i].mode
              /\ n.inode[i].size = m.inode[i].size
              /\ n.inode[i].links = m.inode[i].links - 1
         /\ m.vref[i] = 1 /\ ~(m.inode[i].links > 1) =>
              n.inode[i] = FreeInode /\ n.dirent[i] = NoEntries
<1>0. /\ m.vref \in [Inode -> Nat] /\ m.vlen \in [Inode -> Nat]
      /\ m.inode \in [Inode -> InodeRec] /\ m.dirent \in [Inode -> [Slot -> Entry]]
      /\ m.vref[i] \in Nat /\ m.inode[i] \in InodeRec
      /\ m.inode[i].size \in Nat /\ m.inode[i].links \in Nat
  BY DEF FSState, InodeRec, Inodes, Numbers, Dirents
<1>1. CASE m.vref[i] > 1
  <2>1. n = [m EXCEPT !.vref[i] = @ - 1]
    BY <1>0, <1>1 DEF vput
  <2>2. [m.vref EXCEPT ![i] = @ - 1] \in Numbers
    BY <1>0, <1>1 DEF Numbers
  <2>3. n \in FSState
    BY <2>1, <2>2 DEF FSState
  <2>4. /\ n.crash = m.crash /\ n.dirent = m.dirent /\ n.file = m.file /\ n.vlen = m.vlen
        /\ n.inode = m.inode /\ n.vref = [m.vref EXCEPT ![i] = @ - 1]
    BY <2>1 DEF FSState
  <2> QED BY <1>0, <1>1, <2>3, <2>4
<1>2. CASE m.vref[i] = 1 /\ m.inode[i].links > 1
  <2>1. n = [m EXCEPT !.vref[i] = 0, !.vlen[i] = 0, !.inode[i].links = @ - 1]
    BY <1>0, <1>2 DEF vput, ramfs_delete_vnode, FSState
  <2>2. /\ n.crash = m.crash /\ n.dirent = m.dirent /\ n.file = m.file
        /\ n.inode = [m.inode EXCEPT ![i].links = @ - 1]
        /\ n.vref = [m.vref EXCEPT ![i] = 0]
        /\ n.vlen = [m.vlen EXCEPT ![i] = 0]
    BY <2>1 DEF FSState
  <2>3. n.inode \in Inodes /\ n.vref \in Numbers /\ n.vlen \in Numbers
    <3>1. m.inode[i].links - 1 \in Nat
      BY <1>0, <1>2
    <3>2. n.inode \in Inodes
      <4>1. [m.inode[i] EXCEPT !.links = @ - 1] \in InodeRec
        BY <1>0, <3>1 DEF InodeRec
      <4>2. n.inode = [m.inode EXCEPT ![i] = [m.inode[i] EXCEPT !.links = @ - 1]]
        BY <1>0, <2>2
      <4> QED BY <1>0, <4>1, <4>2 DEF Inodes
    <3> QED BY <1>0, <2>2, <3>2 DEF Numbers
  <2>4. n \in FSState
    BY <2>1, <2>2, <2>3 DEF FSState
  <2>5. /\ n.inode[i].mode = m.inode[i].mode /\ n.inode[i].size = m.inode[i].size
        /\ n.inode[i].links = m.inode[i].links - 1
        /\ \A j \in Inode : j # i => n.inode[j] = m.inode[j]
    BY <1>0, <2>2 DEF InodeRec
  <2> QED BY <1>0, <1>2, <2>2, <2>4, <2>5
<1>3. CASE m.vref[i] = 1 /\ ~(m.inode[i].links > 1)
  <2>1. n = [m EXCEPT !.vref[i] = 0, !.vlen[i] = 0, !.inode[i] = FreeInode,
                      !.dirent[i] = NoEntries]
    BY <1>0, <1>3 DEF vput, ramfs_delete_vnode, FSState
  <2>2. /\ n.crash = m.crash /\ n.file = m.file
        /\ n.dirent = [m.dirent EXCEPT ![i] = NoEntries]
        /\ n.inode = [m.inode EXCEPT ![i] = FreeInode]
        /\ n.vref = [m.vref EXCEPT ![i] = 0]
        /\ n.vlen = [m.vlen EXCEPT ![i] = 0]
    BY <2>1 DEF FSState
  <2>3. FreeInode \in InodeRec /\ NoEntries \in [Slot -> Entry]
    BY Basics DEF FreeInode, InodeRec, NoEntries, FreeSlot, Entry
  <2>4. n.inode \in Inodes /\ n.vref \in Numbers /\ n.vlen \in Numbers /\ n.dirent \in Dirents
    BY <1>0, <1>3, <2>2, <2>3 DEF Inodes, Numbers, Dirents
  <2>5. n \in FSState
    BY <2>1, <2>2, <2>4 DEF FSState
  <2> QED BY <1>0, <1>3, <2>2, <2>5
<1> QED BY <1>0, <1>1, <1>2, <1>3

\* A reference less: the inode goes when nothing anchors it.
LEMMA Put ==
  ASSUME NEW m, NEW h \in Count(Inode), NEW t, NEW i \in Inode, Good(m, Plus(h, i), t),
         NEW n, n = vput(m, i)
  PROVE  /\ Good(n, h, t) /\ Freed(m, n) /\ n.file = m.file
         /\ Anchored(m, h, t, i) => SameTree(m, n)
         /\ \A j \in Inode \ {i} : n.inode[j] = m.inode[j] /\ n.dirent[j] = m.dirent[j]
<1>1. /\ m \in FSState /\ m.crash = NoCrash /\ t \in Count(Inode)
      /\ Plus(h, i)[i] = h[i] + 1 /\ h[i] \in Nat
      /\ \A j \in Inode : j # i => Plus(h, i)[j] = h[j]
  BY DEF Good, Plus, Count
<1>2. \A j \in Inode : /\ m.vref[j] \in Nat /\ m.inode[j].links \in Nat /\ t[j] \in Nat
                       /\ Cardinality(Opened(m, j)) \in Nat
                       /\ m.vref[j] = Cardinality(Opened(m, j)) + Plus(h, i)[j]
                       /\ m.inode[j].links = t[j] + InCore(m, j) + IsRoot(j)
  BY InUse
<1>3. m.vref[i] > 0
  BY <1>1, <1>2
<1>4. /\ n \in FSState /\ n.crash = m.crash /\ n.file = m.file
      /\ n.vref = [m.vref EXCEPT ![i] = @ - 1]
      /\ \A j \in Inode : j # i => /\ n.inode[j] = m.inode[j] /\ n.dirent[j] = m.dirent[j]
                                   /\ n.vlen[j] = m.vlen[j]
      /\ m.vref[i] > 1 => n.inode = m.inode /\ n.dirent = m.dirent /\ n.vlen = m.vlen
      /\ m.vref[i] = 1 /\ m.inode[i].links > 1 =>
           /\ n.dirent = m.dirent /\ n.inode[i].mode = m.inode[i].mode
           /\ n.inode[i].size = m.inode[i].size
           /\ n.inode[i].links = m.inode[i].links - 1
      /\ m.vref[i] = 1 /\ ~(m.inode[i].links > 1) =>
           n.inode[i] = FreeInode /\ n.dirent[i] = NoEntries
  BY <1>1, <1>3, FieldsOfVput
<1>5. /\ n.vref[i] = m.vref[i] - 1 /\ n.vref[i] \in Nat
      /\ \A j \in Inode : j # i => n.vref[j] = m.vref[j]
  BY <1>1, <1>2, <1>3, <1>4 DEF FSState, Numbers
<1> DEFINE Keeps == m.vref[i] > 1 \/ m.inode[i].links > 1
<1>6. FreeInode.mode = "free" /\ FreeInode.links = 0
  BY DEF FreeInode
<1>7. \/ /\ Keeps
         /\ n.dirent = m.dirent
         /\ \A j \in Inode : n.inode[j].mode = m.inode[j].mode /\ n.inode[j].size = m.inode[j].size
      \/ /\ ~Keeps /\ m.vref[i] = 1
         /\ n.inode[i] = FreeInode /\ n.dirent[i] = NoEntries
         /\ m.inode[i].links = 1 /\ t[i] = 0 /\ i # Root
  BY <1>1, <1>2, <1>3, <1>4 DEF InCore, IsRoot
<1>8. SameTree(m, n) \/ ~Keeps
  BY <1>7 DEF SameTree
<1>9. Freed(m, n)
  BY <1>4, <1>6, <1>7 DEF Freed
<1>10. \A j \in Inode : n.inode[j].links = t[j] + InCore(n, j) + IsRoot(j)
  <2>1. ASSUME NEW j \in Inode PROVE n.inode[j].links = t[j] + InCore(n, j) + IsRoot(j)
    <3>1. CASE j # i
      BY <1>2, <1>4, <1>5, <3>1 DEF InCore, IsRoot
    <3>2. CASE j = i
      BY <1>1, <1>2, <1>3, <1>4, <1>5, <1>6, <1>7, <3>2 DEF InCore, IsRoot
    <3> QED BY <3>1, <3>2
  <2> QED BY <2>1
<1>11. LinksAre(n, t)
  BY <1>10 DEF LinksAre
<1>12. RefsAre(n, h)
  <2>1. \A j \in Inode : Opened(n, j) = Opened(m, j)
    BY <1>4 DEF Opened
  <2> QED BY <1>1, <1>2, <1>5, <2>1 DEF RefsAre
<1>13. \A q \in Inode, s \in Slot : n.dirent[q][s] = m.dirent[q][s] \/ n.dirent[q][s] = FreeSlot
  BY <1>9 DEF Freed, NoEntries
<1>14. \A q, j \in Inode, s \in Slot : Named(n.dirent[q][s], j) => Named(m.dirent[q][s], j)
  BY <1>13 DEF Named, FreeSlot
<1>15. NamesAre(n, t)
  BY <1>14 DEF Good, NamesAre
<1>16. Unlinked(n)
  <2>1. ASSUME NEW j \in Inode PROVE n.inode[j].mode = "free" <=> n.inode[j].links = 0
    <3>1. /\ m.inode[j].mode = "free" <=> m.inode[j].links = 0
          /\ m.inode[i].mode = "free" <=> m.inode[i].links = 0
      BY DEF Good, Unlinked
    <3>2. CASE j # i
      BY <1>4, <3>1, <3>2
    <3>3. CASE j = i /\ Keeps
      <4>1. n.inode[j].mode = m.inode[j].mode
        BY <1>7, <3>3
      <4>2. m.inode[i].links # 0 /\ n.inode[i].links # 0
        BY <1>2, <1>3, <1>4, <3>3 DEF InCore, IsRoot
      <4> QED BY <3>1, <3>3, <4>1, <4>2
    <3>4. CASE j = i /\ ~Keeps
      BY <1>6, <1>7, <3>4
    <3> QED BY <3>2, <3>3, <3>4
  <2> QED BY <2>1 DEF Unlinked
<1>17. Plain(n)
  <2>1. \A s \in Slot : NoEntries[s] = FreeSlot
    BY DEF NoEntries
  <2> QED BY <1>9, <2>1 DEF Good, Plain, Freed
<1>18. \A j \in Inode : n.inode[j].mode = "dir" =>
         /\ m.inode[j].mode = "dir" /\ n.dirent[j] = m.dirent[j]
         /\ n.inode[j].size = m.inode[j].size
  BY <1>4, <1>6, <1>7
<1>19. Dotted(n)
  BY <1>18 DEF Good, Dotted
<1>20. Sized(n)
  BY <1>18 DEF Good, Sized, Used
<1>21. Lengths(n)
  <2>1. ASSUME NEW j \in Inode, n.inode[j].mode = "file", n.vref[j] > 0
        PROVE  n.vlen[j] = n.inode[j].size
    <3>1. m.inode[j].mode = "file" /\ m.vref[j] > 0
             => m.vlen[j] = m.inode[j].size
      BY DEF Good, Lengths
    <3>2. CASE j # i
      BY <1>4, <1>5, <2>1, <3>1, <3>2
    <3>3. CASE j = i
      <4>1. m.vref[i] > 1
        BY <1>2, <1>5, <2>1, <3>3
      <4>2. n.inode = m.inode /\ n.vlen = m.vlen
        BY <1>4, <4>1
      <4> QED BY <1>2, <2>1, <3>1, <3>3, <4>1, <4>2
    <3> QED BY <3>2, <3>3
  <2> QED BY <2>1 DEF Lengths
<1>22. OneName(n)
  BY <1>14, <1>18 DEF Good, OneName
<1>23. Anchored(m, h, t, i) => Keeps
  <2>1. Opened(m, i) # {} => Cardinality(Opened(m, i)) > 0
    BY <1>1, InUse
  <2> QED BY <1>1, <1>2, <1>7, <2>1 DEF Anchored
<1> QED BY <1>1, <1>4, <1>8, <1>9, <1>11, <1>12, <1>15, <1>16, <1>17, <1>19, <1>20, <1>21,
           <1>22, <1>23 DEF Good

LEMMA Counting ==
  ASSUME NEW S, NEW c \in Count(S), NEW x \in S
  PROVE  /\ Plus(c, x) \in Count(S) /\ Plus(c, x)[x] = c[x] + 1
         /\ \A y \in S : /\ c[y] \in Nat
                         /\ y # x => Plus(c, x)[y] = c[y]
                         /\ Plus(Plus(c, x), y) = Plus(Plus(c, y), x)
BY DEF Count, Plus

\* An inode in use is anchored before anybody refers to it once more.
LEMMA InUseIsAnchored ==
  ASSUME NEW m, NEW h, NEW t, Good(m, h, t), NEW i \in Inode, m.inode[i].mode # "free"
  PROVE  Anchored(m, h, t, i)
<1>1. m.inode[i].links # 0
  BY DEF Good, Unlinked
<1>2. /\ m.vref[i] \in Nat /\ h[i] \in Nat /\ t[i] \in Nat
      /\ m.vref[i] = Cardinality(Opened(m, i)) + h[i]
      /\ m.inode[i].links = t[i] + InCore(m, i) + IsRoot(i)
  BY InUse
<1>3. Opened(m, i) = {} => Cardinality(Opened(m, i)) = 0
  BY FS_EmptySet
<1> QED BY <1>1, <1>2, <1>3 DEF Anchored, InCore, IsRoot

\* An inode that is anchored stays so while nothing but h grows.
LEMMA StaysAnchored ==
  ASSUME NEW m, NEW n, NEW h \in Count(Inode), NEW t, NEW i \in Inode, NEW j \in Inode,
         Anchored(m, h, t, i), n.file = m.file
  PROVE  Anchored(n, h, t, i) /\ Anchored(n, Plus(h, j), t, i)
<1>1. Opened(n, i) = Opened(m, i)
  BY DEF Opened
<1>2. h[i] > 0 => Plus(h, j)[i] > 0
  BY Counting
<1> QED BY <1>1, <1>2 DEF Anchored

LEMMA SameTreeFacts ==
  ASSUME NEW m, NEW n, SameTree(m, n)
  PROVE  /\ \A k : SameTree(k, m) => SameTree(k, n)
         /\ Parents(m) /\ m \in FSState => Parents(n)
         /\ SameEntries(m, n) /\ Freed(m, n)
         /\ \A d, name : SlotsOf(n, d, name) = SlotsOf(m, d, name)
                         /\ SlotOf(n, d, name) = SlotOf(m, d, name)
                         /\ InoOf(n, d, name) = InoOf(m, d, name)
<1>1. n.dirent = m.dirent /\ \A i \in Inode : n.inode[i].mode = m.inode[i].mode
  BY DEF SameTree
<1>2. \A d, name : SlotsOf(n, d, name) = SlotsOf(m, d, name)
  BY <1>1 DEF SlotsOf
<1>3. \A d, name : SlotOf(n, d, name) = SlotOf(m, d, name)
  BY <1>2 DEF SlotOf
<1>4. \A d, name : InoOf(n, d, name) = InoOf(m, d, name)
  BY <1>1, <1>3 DEF InoOf
<1>5. SameEntries(m, n) /\ Freed(m, n)
  BY <1>1 DEF SameEntries, Freed
<1>6. \A k : SameTree(k, m) => SameTree(k, n)
  BY <1>1 DEF SameTree
<1>7. ASSUME Parents(m) /\ m \in FSState PROVE Parents(n)
  <2>1. \A d \in Inode : m.dirent[d][2].ino \in Inode
    BY <1>7, Basics DEF FSState, Dirents, Entry
  <2> QED BY <1>1, <1>7, <2>1 DEF Parents
<1> QED BY <1>2, <1>3, <1>4, <1>5, <1>6, <1>7

LEMMA LeastNumber ==
  ASSUME NEW T \in SUBSET Nat, T # {}
  PROVE  Min(T) \in T /\ \A n \in T : Min(T) <= n
<1> DEFINE R == {ss \in Nat \X Nat : ss[1] < ss[2]}
<1>1. IsWellFoundedOn(R, Nat)
  BY NatLessThanWellFounded DEF OpToRel
<1>2. \A x, y \in Nat : x < y => <<x, y>> \in R
  OBVIOUS
<1> HIDE DEF R
<1>3. \E x \in T : \A y \in T : ~(<<y, x>> \in R)
  BY <1>1, WFMin
<1>4. PICK x \in T : \A y \in T : ~(<<y, x>> \in R)
  BY <1>3
<1>5. \A n \in T : x <= n
  <2>1. ASSUME NEW n \in T PROVE x <= n
    <3>1. x \in Nat /\ n \in Nat /\ ~(n < x)
      BY <1>2, <1>4
    <3> QED BY <3>1
  <2> QED BY <2>1
<1> QED BY <1>5 DEF Min

LEMMA LeastSlot ==
  ASSUME NEW m, NEW d, NEW name, SlotsOf(m, d, name) # {}
  PROVE  SlotOf(m, d, name) \in Slot /\ m.dirent[d][SlotOf(m, d, name)].name = name
<1>1. SlotsOf(m, d, name) \in SUBSET Nat /\ SlotsOf(m, d, name) \subseteq Slot
  <2>1. RAMFS_MAX_DIRENT \in Nat
    BY RamFSAssumption
  <2> QED BY <2>1 DEF SlotsOf, Slot
<1>2. SlotOf(m, d, name) \in SlotsOf(m, d, name)
  BY <1>1, LeastNumber DEF SlotOf
<1> QED BY <1>1, <1>2 DEF SlotsOf

-----------------------------------------------------------------------------
(* Path names.                                                             *)

Component == Name \cup Dots
Answers   == {"ok", "ENOTDIR", "ENOENT"}

\* Every name in a directory leads to an inode that is in use.
LEMMA TargetInUse ==
  ASSUME NEW m, NEW h, NEW t, Good(m, h, t), Parents(m), NEW d \in Inode,
         NEW name \in Component, m.inode[d].mode = "dir", SlotsOf(m, d, name) # {}
  PROVE  InoOf(m, d, name) \in Inode /\ m.inode[InoOf(m, d, name)].mode # "free"
<1> DEFINE s == SlotOf(m, d, name)
           i == InoOf(m, d, name)
<1>1. s \in Slot /\ m.dirent[d][s].name = name /\ i = m.dirent[d][s].ino
  BY LeastSlot DEF InoOf
<1>2. i \in Inode
  BY <1>1 DEF Good, FSState, Dirents, Entry
<1>3. name # NoName
  BY Basics DEF Component
<1> HIDE DEF s, i
<1>4. ASSUME s = 1 PROVE m.inode[i].mode # "free"
  <2>1. m.dirent[d][1] = [name |-> ".", ino |-> d]
    BY DEF Good, Dotted
  <2>2. i = d
    BY ONLY <1>1, <1>4, <2>1
  <2> QED BY <2>2
<1>5. ASSUME s = 2 PROVE m.inode[i].mode # "free"
  BY <1>1, <1>5 DEF Parents
<1>6. ASSUME s \notin {1, 2} PROVE m.inode[i].mode # "free"
  <2>1. Named(m.dirent[d][s], i)
    BY <1>1, <1>3, <1>6 DEF Good, Dotted, Named
  <2>2. t[i] > 0
    BY <1>1, <1>2, <2>1 DEF Good, NamesAre
  <2>3. m.inode[i].links # 0
    BY <1>2, <2>2, InUse DEF InCore, IsRoot
  <2> QED BY <1>2, <2>3 DEF Good, Unlinked
<1> QED BY <1>2, <1>4, <1>5, <1>6 DEF i

IsAnswer(e) == e.err \in Answers /\ e.ino \in Inode /\ e = [err |-> e.err, ino |-> e.ino, m |-> e.m]

LEMMA Lookup ==
  ASSUME NEW m, NEW h, NEW t, Good(m, h, t), Parents(m), NEW d \in Inode,
         NEW name \in Component, NEW e, e = lookup(m, d, name)
  PROVE  /\ IsAnswer(e) /\ SameTree(m, e.m) /\ e.m.file = m.file
         /\ e.err = "ok" => /\ Good(e.m, Plus(h, e.ino), t) /\ m.inode[e.ino].mode # "free"
                            /\ e.ino = InoOf(m, d, name)
                            /\ m.inode[d].mode = "dir" /\ SlotsOf(m, d, name) # {}
         /\ e.err # "ok" => e.m = m /\ e.ino = d
         /\ e.err = "ENOENT" => m.inode[d].mode = "dir"
<1>1. SameTree(m, m)
  BY DEF SameTree
<1>2. CASE m.inode[d].mode # "dir"
  <2>1. e = [err |-> "ENOTDIR", ino |-> d, m |-> m]
    BY <1>2 DEF lookup, Find
  <2> QED BY <1>1, <2>1 DEF IsAnswer, Answers
<1>3. CASE m.inode[d].mode = "dir" /\ SlotsOf(m, d, name) = {}
  <2>1. e = [err |-> "ENOENT", ino |-> d, m |-> m]
    BY <1>3 DEF lookup, Find
  <2> QED BY <1>1, <1>3, <2>1 DEF IsAnswer, Answers
<1>4. CASE m.inode[d].mode = "dir" /\ SlotsOf(m, d, name) # {}
  <2> DEFINE i == InoOf(m, d, name)
             n == vget(m, i)
  <2>1. i \in Inode /\ m.inode[i].mode # "free"
    BY <1>4, TargetInUse
  <2>2. Good(n, Plus(h, i), t) /\ SameTree(m, n) /\ n.file = m.file
    BY <2>1, Get
  <2>3. n.crash = NoCrash
    BY <2>2 DEF Good
  <2>4. e = Held(n, i)
    BY <1>4 DEF lookup, Find
  <2> HIDE DEF i, n
  <2>5. e = [err |-> "ok", ino |-> i, m |-> n]
    BY <2>3, <2>4 DEF Held
  <2> QED BY <1>4, <2>1, <2>2, <2>5 DEF IsAnswer, Answers, i
<1> QED BY <1>2, <1>3, <1>4

\* On its way through the tree, a call holds the vnode it has come to.
Walked(m, h, t, at) ==
  /\ IsAnswer(at) /\ SameTree(m, at.m) /\ at.m.file = m.file
  /\ at.err = "ok" => Good(at.m, Plus(h, at.ino), t)
  /\ at.err # "ok" => Good(at.m, h, t)
  /\ Anchored(m, h, t, at.ino)

\* What is put on the way is anchored.
LEMMA PutAnchored ==
  ASSUME NEW m, NEW n, NEW t, NEW h \in Count(Inode), NEW i \in Inode,
         SameTree(m, n), Good(n, Plus(h, i), t), Anchored(n, h, t, i), NEW k, k = vput(n, i)
  PROVE  Good(k, h, t) /\ SameTree(m, k) /\ k.file = n.file
<1>1. Good(k, h, t) /\ SameTree(n, k) /\ k.file = n.file
  BY Put
<1> QED BY <1>1, SameTreeFacts

LEMMA Descended ==
  ASSUME NEW m, NEW h, NEW t, Good(m, h, t), Parents(m), NEW at, Walked(m, h, t, at),
         NEW name \in Component
  PROVE  Walked(m, h, t, Descend(at, name))
<1>1. CASE at.err # "ok"
  BY <1>1 DEF Descend
<1>2. CASE at.err = "ok"
  <2> DEFINE e == lookup(at.m, at.ino, name)
             k == vput(e.m, at.ino)
  <2>1. /\ at.ino \in Inode /\ SameTree(m, at.m) /\ at.m.file = m.file
        /\ Good(at.m, Plus(h, at.ino), t) /\ Anchored(m, h, t, at.ino)
        /\ h \in Count(Inode)
    BY <1>2 DEF Walked, IsAnswer, Good
  <2>2. Parents(at.m)
    BY <2>1, SameTreeFacts DEF Good
  <2>3. /\ IsAnswer(e) /\ SameTree(at.m, e.m) /\ e.m.file = m.file
        /\ e.err = "ok" => /\ Good(e.m, Plus(Plus(h, at.ino), e.ino), t)
                           /\ at.m.inode[e.ino].mode # "free"
        /\ e.err # "ok" => e.m = at.m /\ e.ino = at.ino
    BY <2>1, <2>2, Lookup
  <2>4. SameTree(m, e.m)
    BY <2>1, <2>3, SameTreeFacts
  <2>5. Descend(at, name) = [e EXCEPT !.m = vput(@, at.ino)]
    BY <1>2 DEF Descend
  <2> HIDE DEF e
  <2>6. Descend(at, name) = [err |-> e.err, ino |-> e.ino, m |-> k]
    BY <2>3, <2>5 DEF IsAnswer
  <2>7. e.ino \in Inode
    BY <2>3 DEF IsAnswer
  <2> HIDE DEF k
  <2>8. CASE e.err = "ok"
    <3>1. Good(e.m, Plus(Plus(h, e.ino), at.ino), t)
      BY <2>1, <2>3, <2>7, <2>8, Counting
    <3>2. Good(k, Plus(h, e.ino), t) /\ SameTree(m, k) /\ k.file = m.file
      <4>1. Plus(h, e.ino) \in Count(Inode)
        BY <2>1, <2>7, Counting
      <4>2. Anchored(e.m, Plus(h, e.ino), t, at.ino)
        BY <2>1, <2>3, <2>7, StaysAnchored
      <4> QED BY <2>1, <2>3, <2>4, <3>1, <4>1, <4>2, PutAnchored DEF k
    <3>3. m.inode[e.ino].mode # "free"
      BY <2>1, <2>3, <2>7, <2>8 DEF SameTree
    <3>4. Anchored(m, h, t, e.ino)
      BY <2>7, <3>3, InUseIsAnchored
    <3> QED BY <2>3, <2>6, <2>8, <3>2, <3>4 DEF Walked, IsAnswer
  <2>9. CASE e.err # "ok"
    <3>1. Good(k, h, t) /\ SameTree(m, k) /\ k.file = m.file
      <4>1. Anchored(e.m, h, t, at.ino)
        BY <2>1, <2>3, StaysAnchored
      <4> QED BY <2>1, <2>3, <2>4, <2>9, <4>1, PutAnchored DEF k
    <3> QED BY <2>1, <2>3, <2>6, <2>9, <3>1 DEF Walked, IsAnswer
  <2> QED BY <2>8, <2>9
<1> QED BY <1>1, <1>2

LEMMA PathFacts ==
  ASSUME NEW path \in Path
  PROVE  /\ path.dirs \in Seq(Component) /\ path.name \in Component
         /\ Len(path.dirs) \in Nat
         /\ \A k \in 1 .. Len(path.dirs) : path.dirs[k] \in Component
<1>1. path.dirs \in Seq(Component) /\ path.name \in Component
  BY FilesAssumption DEF Component
<1> HIDE DEF Component
<1> QED BY <1>1

\* The directory of the last component.
LEMMA DirectoryFound ==
  ASSUME NEW m, NEW h, NEW t, Good(m, h, t), Parents(m), NEW p, NEW path \in Path,
         NEW base \in Inode, base = (IF path.abs THEN Root ELSE cwd[p]), h[base] > 0,
         NEW r, r = dir_namev(m, p, path)
  PROVE  Walked(m, h, t, r) /\ (r.err = "ok" => m.inode[r.ino].mode = "dir")
<1> DEFINE N == Len(path.dirs)
           first == [err |-> "ok", ino |-> base, m |-> vref(m, base)]
           Round(a, k) == Descend(a, path.dirs[k])
           Loop(f, n) == [k \in 0 .. n |-> IF k = 0 THEN first ELSE Round(f[k - 1], k)]
<1>1. N \in Nat /\ \A k \in 1 .. N : path.dirs[k] \in Component
  BY PathFacts
<1>2. \A n \in Nat : \E f : f = Loop(f, n)
  <2> DEFINE T == {n \in Nat : ~ \E f : f = Loop(f, n)}
  <2> SUFFICES ASSUME T # {} PROVE FALSE
    OBVIOUS
  <2>1. PICK n \in T : \A k \in T : n <= k
    <3>1. T \in SUBSET Nat
      OBVIOUS
    <3> HIDE DEF T
    <3> QED BY <3>1, LeastNumber
  <2> HIDE DEF Round, first
  <2>2. n # 0
    <3>1. \E f : f = Loop(f, 0)
      <4> DEFINE f == [k \in 0 .. 0 |-> first]
      <4>1. f = Loop(f, 0)
        OBVIOUS
      <4> QED BY <4>1
    <3> QED BY <2>1, <3>1
  <2>3. n - 1 \in Nat /\ n - 1 \notin T
    <3>1. n \in Nat
      BY <2>1
    <3> HIDE DEF T
    <3> QED BY <2>1, <2>2, <3>1
  <2>4. PICK g : g = Loop(g, n - 1)
    BY <2>3
  <2> DEFINE l == [k \in 0 .. n |-> IF k = n THEN Round(g[n - 1], n) ELSE g[k]]
  <2>5. ASSUME NEW k \in 0 .. n
        PROVE  l[k] = IF k = 0 THEN first ELSE Round(l[k - 1], k)
    <3>1. CASE k = n
      BY <2>2, <2>3, <3>1
    <3>2. CASE k # n /\ k # 0
      <4>1. k \in 0 .. n - 1 /\ k - 1 \in 0 .. n - 1 /\ k - 1 # n /\ k - 1 \in 0 .. n
        BY <2>3, <3>2
      <4>2. g[k] = Round(g[k - 1], k)
        BY <2>4, <3>2, <4>1
      <4> QED BY <3>2, <4>1, <4>2
    <3>3. CASE k = 0
      <4>1. 0 \in 0 .. n - 1
        BY <2>3
      <4>2. g[0] = first
        BY <2>4, <4>1
      <4> QED BY <2>2, <3>3, <4>2
    <3> QED BY <3>1, <3>2, <3>3
  <2>6. l = Loop(l, n)
    BY <2>5
  <2> QED BY <2>1, <2>6
<1> DEFINE at == CHOOSE f : f = Loop(f, N)
<1>3. at = Loop(at, N)
  BY <1>1, <1>2
<1>4. r = InDirectory(at[N])
  BY DEF dir_namev
<1> HIDE DEF at
<1>5. \A k \in 0 .. N : at[k] = IF k = 0 THEN first ELSE Round(at[k - 1], k)
  BY <1>3
<1>6. Walked(m, h, t, first)
  <2>1. m.inode[base].mode # "free" /\ vref(m, base) = vget(m, base)
    BY InUse
  <2>2. /\ Good(vref(m, base), Plus(h, base), t) /\ SameTree(m, vref(m, base))
        /\ vref(m, base).file = m.file
    BY <2>1, Get
  <2>3. Anchored(m, h, t, base)
    BY DEF Anchored
  <2> QED BY <2>2, <2>3 DEF Walked, IsAnswer, Answers
<1> HIDE DEF first
<1>7. \A k \in 0 .. N : Walked(m, h, t, at[k])
  <2> DEFINE T == {k \in 0 .. N : ~Walked(m, h, t, at[k])}
  <2> SUFFICES ASSUME T # {} PROVE FALSE
    OBVIOUS
  <2>1. T \in SUBSET Nat
    BY <1>1
  <2>2. PICK n \in T : \A k \in T : n <= k
    <3> HIDE DEF T
    <3> QED BY <2>1, LeastNumber
  <2>3. n # 0
    BY <1>1, <1>5, <1>6, <2>2
  <2>4. n \in 1 .. N /\ n - 1 \in 0 .. N /\ n - 1 \notin T
    BY <1>1, <2>2, <2>3
  <2>5. Walked(m, h, t, at[n - 1])
    BY <2>4
  <2>6. at[n] = Descend(at[n - 1], path.dirs[n])
    BY <1>5, <2>3, <2>4
  <2>7. Walked(m, h, t, at[n])
    BY <1>1, <2>4, <2>5, <2>6, Descended
  <2> QED BY <2>2, <2>7
<1> DEFINE a == at[N]
<1>8. Walked(m, h, t, a)
  BY <1>1, <1>7
<1> HIDE DEF a
<1>9. CASE a.err = "ok" /\ a.m.inode[a.ino].mode # "dir"
  <2>1. r = [err |-> "ENOTDIR", ino |-> a.ino, m |-> vput(a.m, a.ino)]
    <3>1. r = [a EXCEPT !.err = "ENOTDIR", !.m = vput(@, a.ino)]
      BY <1>4, <1>9 DEF InDirectory, a
    <3> QED BY <1>8, <3>1 DEF Walked, IsAnswer
  <2>2. /\ a.ino \in Inode /\ SameTree(m, a.m) /\ a.m.file = m.file
        /\ Good(a.m, Plus(h, a.ino), t) /\ Anchored(m, h, t, a.ino) /\ h \in Count(Inode)
    BY <1>8, <1>9 DEF Walked, IsAnswer, Good
  <2>3. Anchored(a.m, h, t, a.ino)
    BY <2>2, StaysAnchored
  <2>4. /\ Good(vput(a.m, a.ino), h, t) /\ SameTree(m, vput(a.m, a.ino))
        /\ vput(a.m, a.ino).file = m.file
    BY <2>2, <2>3, PutAnchored
  <2> QED BY <2>1, <2>2, <2>4 DEF Walked, IsAnswer, Answers
<1>10. CASE ~(a.err = "ok" /\ a.m.inode[a.ino].mode # "dir")
  <2>1. r = a
    BY <1>4, <1>10 DEF InDirectory, a
  <2> QED BY <1>8, <1>10, <2>1 DEF Walked, IsAnswer, SameTree
<1> QED BY <1>9, <1>10

-----------------------------------------------------------------------------
(* Directories.                                                            *)

LEMMA Sizes == DIRENT_SIZE \in Nat /\ DIRENT_SIZE > 0
BY RamFSAssumption

\* A change of directories that keeps what they must look like.
LEMMA GoodAgain ==
  ASSUME NEW m, NEW h, NEW t, Good(m, h, t), NEW n \in FSState,
         n.crash = m.crash, n.vref = m.vref, n.file = m.file,
         \A i \in Inode : n.inode[i].mode = m.inode[i].mode
                          /\ n.inode[i].links = m.inode[i].links,
         NamesAre(n, t), Plain(n), Dotted(n), Sized(n), Lengths(n), OneName(n)
  PROVE  Good(n, h, t)
<1>1. RefsAre(n, h)
  BY DEF Good, RefsAre, Opened
<1>2. LinksAre(n, t)
  BY DEF Good, LinksAre, InCore
<1>3. Unlinked(n)
  BY DEF Good, Unlinked
<1> QED BY <1>1, <1>2, <1>3 DEF Good

SetSlot(m, d, s, x, k) == [m EXCEPT !.dirent[d][s] = x, !.inode[d].size = k]

LEMMA SlotSet ==
  ASSUME NEW m \in FSState, NEW d \in Inode, NEW s \in Slot, NEW x \in Entry, NEW k \in Nat,
         NEW n, n = SetSlot(m, d, s, x, k)
  PROVE  /\ n \in FSState /\ n.crash = m.crash /\ n.vref = m.vref /\ n.file = m.file
         /\ n.vlen = m.vlen
         /\ n.dirent[d][s] = x /\ OtherSlots(m, n, d, s)
         /\ \A i \in Inode : /\ n.inode[i].mode = m.inode[i].mode
                             /\ n.inode[i].links = m.inode[i].links
                             /\ n.inode[i].size = IF i = d THEN k ELSE m.inode[i].size
<1>0. /\ m.inode \in [Inode -> InodeRec] /\ m.dirent \in [Inode -> [Slot -> Entry]]
      /\ m.inode[d] \in InodeRec /\ m.dirent[d] \in [Slot -> Entry]
  BY DEF FSState, Inodes, Dirents
<1>1. /\ n.crash = m.crash /\ n.vref = m.vref /\ n.file = m.file /\ n.vlen = m.vlen
      /\ n.dirent = [m.dirent EXCEPT ![d][s] = x]
      /\ n.inode = [m.inode EXCEPT ![d].size = k]
  BY DEF FSState, SetSlot
<1>2. n.dirent \in Dirents
  <2>1. [m.dirent[d] EXCEPT ![s] = x] \in [Slot -> Entry]
    BY <1>0
  <2> QED BY <1>0, <1>1, <2>1 DEF Dirents
<1>3. n.inode \in Inodes
  <2>1. [m.inode[d] EXCEPT !.size = k] \in InodeRec
    BY <1>0 DEF InodeRec
  <2> QED BY <1>0, <1>1, <2>1 DEF Inodes
<1>4. n \in FSState
  BY <1>1, <1>2, <1>3 DEF FSState, SetSlot
<1>5. \A i \in Inode : /\ n.inode[i].mode = m.inode[i].mode
                       /\ n.inode[i].links = m.inode[i].links
                       /\ n.inode[i].size = IF i = d THEN k ELSE m.inode[i].size
  BY <1>0, <1>1 DEF InodeRec
<1>6. n.dirent[d][s] = x /\ OtherSlots(m, n, d, s)
  BY <1>0, <1>1 DEF OtherSlots
<1> QED BY <1>1, <1>4, <1>5, <1>6

\* A slot behind the dots of a directory gets another entry.
LEMMA SlotChanges ==
  ASSUME NEW m, NEW h, NEW t, Good(m, h, t), NEW d \in Inode, m.inode[d].mode = "dir",
         NEW s \in Slot \ {1, 2}, NEW n \in FSState, OtherSlots(m, n, d, s),
         n.dirent[d][s].name \notin Dots,
         \A i \in Inode : n.inode[i].mode = m.inode[i].mode
  PROVE  Plain(n) /\ Dotted(n)
<1>1. Plain(n)
  <2>1. ASSUME NEW i \in Inode, n.inode[i].mode # "dir", NEW u \in Slot
        PROVE  n.dirent[i][u] = FreeSlot
    <3>1. i # d /\ m.inode[i].mode # "dir"
      BY <2>1
    <3>2. n.dirent[i][u] = m.dirent[i][u]
      BY <3>1 DEF OtherSlots
    <3> QED BY <3>1, <3>2 DEF Good, Plain
  <2> QED BY <2>1 DEF Plain
<1>2. Dotted(n)
  <2>1. ASSUME NEW i \in Inode, n.inode[i].mode = "dir"
        PROVE  /\ n.dirent[i][1] = [name |-> ".", ino |-> i]
               /\ n.dirent[i][2].name = ".."
               /\ \A u \in Slot \ {1, 2} : n.dirent[i][u].name \notin Dots
    <3>1. /\ m.dirent[i][1] = [name |-> ".", ino |-> i]
          /\ m.dirent[i][2].name = ".."
          /\ \A u \in Slot \ {1, 2} : m.dirent[i][u].name \notin Dots
      BY <2>1 DEF Good, Dotted
    <3>2. n.dirent[i][1] = m.dirent[i][1] /\ n.dirent[i][2] = m.dirent[i][2]
      BY Basics DEF OtherSlots
    <3>3. ASSUME NEW u \in Slot \ {1, 2} PROVE n.dirent[i][u].name \notin Dots
      <4>1. CASE i = d /\ u = s
        BY <4>1
      <4>2. CASE ~(i = d /\ u = s)
        <5>1. n.dirent[i][u] = m.dirent[i][u]
          BY <4>2 DEF OtherSlots
        <5> QED BY <3>1, <5>1
      <4> QED BY <4>1, <4>2
    <3> QED BY <3>1, <3>2, <3>3
  <2> QED BY <2>1 DEF Dotted
<1> QED BY <1>1, <1>2

LEMMA DotsAreFirst ==
  ASSUME NEW m, NEW h, NEW t, Good(m, h, t), NEW d \in Inode, m.inode[d].mode = "dir",
         NEW s \in Slot, m.dirent[d][s].name \notin Dots
  PROVE  s \in Slot \ {1, 2}
<1>1. m.dirent[d][1] = [name |-> ".", ino |-> d] /\ m.dirent[d][2].name = ".."
  BY DEF Good, Dotted
<1>2. m.dirent[d][1].name = "."
  BY <1>1
<1> QED BY <1>1, <1>2 DEF Dots

LEMMA UsedIsFinite ==
  ASSUME NEW m, NEW d
  PROVE  IsFiniteSet(Used(m, d)) /\ Cardinality(Used(m, d)) \in Nat
BY Basics, FS_Subset, FS_CardinalityType DEF Used

\* A new entry for i in the directory d.
LEMMA EntrySet ==
  ASSUME NEW m, NEW h, NEW t, Good(m, h, t), NEW d \in Inode, m.inode[d].mode = "dir",
         FreeSlots(m, d) # {}, NEW nom \in Name, NEW i \in Inode, t[i] > 0,
         m.inode[i].mode = "dir" =>
           m.dirent[i][2].ino = d /\ \A q \in Inode, u \in Slot : ~Named(m.dirent[q][u], i),
         NEW n, n = SetEntry(m, d, nom, i)
  PROVE  /\ Good(n, h, t) /\ n.file = m.file
         /\ \A j \in Inode : n.inode[j].mode = m.inode[j].mode
                             /\ n.inode[j].links = m.inode[j].links
         /\ \A j \in Inode : Entries(n, j) = Entries(m, j) + (IF j = i THEN 1 ELSE 0)
         /\ \A j \in Inode : n.dirent[j][2] = m.dirent[j][2]
         /\ n.vref = m.vref
<1> DEFINE s == SlotOf(m, d, NoName)
           x == [name |-> nom, ino |-> i]
           k == m.inode[d].size + DIRENT_SIZE
<1>1. s \in Slot /\ m.dirent[d][s].name = NoName
  BY LeastSlot DEF FreeSlots
<1>2. n = SetSlot(m, d, s, x, k)
  BY DEF SetEntry, FreeSlots, SlotOf, SetSlot
<1> HIDE DEF s
<1>3. s \in Slot \ {1, 2}
  BY <1>1, Basics, DotsAreFirst
<1>4. x \in Entry /\ nom \notin Dots /\ nom # NoName /\ nom \notin Dots \cup {NoName}
  BY Basics DEF Entry
<1>5. m \in FSState /\ m.inode[d].size \in Nat /\ k \in Nat
  BY Sizes DEF Good, FSState, Inodes, InodeRec
<1> HIDE DEF x, k
<1>6. /\ n \in FSState /\ n.crash = m.crash /\ n.vref = m.vref /\ n.file = m.file
      /\ n.vlen = m.vlen
      /\ n.dirent[d][s] = x /\ OtherSlots(m, n, d, s)
      /\ \A j \in Inode : /\ n.inode[j].mode = m.inode[j].mode
                          /\ n.inode[j].links = m.inode[j].links
                          /\ n.inode[j].size = IF j = d THEN k ELSE m.inode[j].size
  BY <1>1, <1>2, <1>4, <1>5, SlotSet
<1>7. n.dirent[d][s].name = nom /\ n.dirent[d][s].ino = i
  BY ONLY <1>6 DEF x
<1>8. Plain(n) /\ Dotted(n)
  <2>1. \A j \in Inode : n.inode[j].mode = m.inode[j].mode
    BY <1>6
  <2> QED BY ONLY Good(m, h, t), d \in Inode, m.inode[d].mode = "dir", <1>3, <1>4, <1>6, <1>7,
                  <2>1, SlotChanges
<1>9. ASSUME NEW q \in Inode, NEW u \in Slot, NEW e
      PROVE  /\ q = d /\ u = s => (Named(n.dirent[q][u], e) <=> e = i)
             /\ ~(q = d /\ u = s) => n.dirent[q][u] = m.dirent[q][u]
  BY <1>4, <1>6, <1>7 DEF Named, OtherSlots
<1>10. NamesAre(n, t)
  BY <1>9 DEF Good, NamesAre
<1>11. OneName(n)
  <2>1. ASSUME NEW e \in Inode, NEW q \in Inode, NEW u \in Slot,
               Named(n.dirent[q][u], e), n.inode[e].mode = "dir"
        PROVE  /\ n.dirent[e][2].ino = q
               /\ \A r \in Inode, v \in Slot : Named(n.dirent[r][v], e) => r = q /\ v = u
    <3>1. m.inode[e].mode = "dir" /\ n.dirent[e][2] = m.dirent[e][2]
      BY <1>3, <1>6, <1>9, <2>1, Basics
    <3>2. CASE e = i
      <4>1. \A r \in Inode, v \in Slot : Named(n.dirent[r][v], e) => r = d /\ v = s
        BY <1>9, <3>1, <3>2
      <4> QED BY <2>1, <3>1, <3>2, <4>1
    <3>3. CASE e # i
      <4>1. \A r \in Inode, v \in Slot : Named(n.dirent[r][v], e) => Named(m.dirent[r][v], e)
        BY <1>9, <3>3
      <4>2. /\ m.dirent[e][2].ino = q
            /\ \A r \in Inode, v \in Slot : Named(m.dirent[r][v], e) => r = q /\ v = u
        BY <2>1, <3>1, <4>1 DEF Good, OneName
      <4> QED BY <3>1, <4>1, <4>2
    <3> QED BY <3>2, <3>3
  <2> QED BY <2>1 DEF OneName
<1>12. Sized(n)
  <2>1. ASSUME NEW j \in Inode, n.inode[j].mode = "dir"
        PROVE  n.inode[j].size = Cardinality(Used(n, j)) * DIRENT_SIZE
    <3>1. m.inode[j].size = Cardinality(Used(m, j)) * DIRENT_SIZE
      BY <1>6, <2>1 DEF Good, Sized
    <3>2. CASE j # d
      <4>1. Used(n, j) = Used(m, j)
        BY <1>9, <3>2 DEF Used
      <4> QED BY <1>6, <3>1, <3>2, <4>1
    <3>3. CASE j = d
      <4>1. Used(n, d) = Used(m, d) \cup {s} /\ s \notin Used(m, d)
        BY <1>1, <1>4, <1>7, <1>9 DEF Used
      <4>2. /\ Cardinality(Used(n, d)) = Cardinality(Used(m, d)) + 1
            /\ Cardinality(Used(m, d)) \in Nat
        BY <4>1, OneMore, UsedIsFinite
      <4>3. n.inode[d].size = Cardinality(Used(m, d)) * DIRENT_SIZE + DIRENT_SIZE
        BY <1>6, <3>1, <3>3 DEF k
      <4> QED BY ONLY <3>3, <4>2, <4>3, Sizes
    <3> QED BY <3>2, <3>3
  <2> QED BY <2>1 DEF Sized
<1>13. Lengths(n)
  <2>1. \A j \in Inode : n.inode[j].mode = "file" => n.inode[j].size = m.inode[j].size
    BY <1>6
  <2> QED BY <1>6, <2>1 DEF Good, Lengths
<1>14. Good(n, h, t)
  BY <1>6, <1>8, <1>10, <1>11, <1>12, <1>13, GoodAgain
<1>15. \A j \in Inode : Entries(n, j) = Entries(m, j) + (IF j = i THEN 1 ELSE 0)
  <2>1. OtherSlots(m, n, d, s)
    BY <1>6
  <2>2. Named(n.dirent[d][s], i)
    BY <1>4, <1>7 DEF Named
  <2> QED BY ONLY d \in Inode, <1>1, <2>1, <2>2, EntryAdded
<1>16. \A j \in Inode : n.dirent[j][2] = m.dirent[j][2]
  BY <1>3, <1>9, Basics
<1> QED BY <1>6, <1>14, <1>15, <1>16

\* The entry of nom goes from the directory d.
LEMMA EntryGone ==
  ASSUME NEW m, NEW h, NEW t, Good(m, h, t), NEW d \in Inode, m.inode[d].mode = "dir",
         NEW nom \in Name, SlotsOf(m, d, nom) # {}, NEW i, i = InoOf(m, d, nom),
         NEW n, n = ClearEntry(m, d, nom)
  PROVE  /\ Good(n, h, t) /\ n.file = m.file /\ n.vref = m.vref
         /\ \A j \in Inode : n.inode[j].mode = m.inode[j].mode
                             /\ n.inode[j].links = m.inode[j].links
         /\ \A j \in Inode : Entries(m, j) = Entries(n, j) + (IF j = i THEN 1 ELSE 0)
         /\ \A j \in Inode : n.dirent[j][2] = m.dirent[j][2]
         /\ \A q, j \in Inode, u \in Slot : Named(n.dirent[q][u], j) => Named(m.dirent[q][u], j)
         /\ \E s \in Slot : Named(m.dirent[d][s], i)
<1> DEFINE s == SlotOf(m, d, nom)
           k == m.inode[d].size - DIRENT_SIZE
<1>1. s \in Slot /\ m.dirent[d][s].name = nom /\ m.dirent[d][s].ino = i
  BY LeastSlot DEF InoOf
<1>2. n = SetSlot(m, d, s, FreeSlot, k)
  BY DEF ClearEntry, SetSlot
<1> HIDE DEF s
<1>3. nom \notin Dots /\ nom # NoName /\ Named(m.dirent[d][s], i)
  BY <1>1, Basics DEF Named
<1>4. s \in Slot \ {1, 2}
  BY <1>1, <1>3, DotsAreFirst
<1>5. FreeSlot \in Entry /\ FreeSlot.name = NoName /\ NoName \notin Dots
  BY Basics DEF Entry, FreeSlot
<1>6. /\ IsFiniteSet(Used(m, d) \ {s}) /\ s \notin Used(m, d) \ {s}
      /\ Used(m, d) = (Used(m, d) \ {s}) \cup {s}
  <2>1. IsFiniteSet(Used(m, d) \ {s})
    BY UsedIsFinite, FS_Subset
  <2> QED BY <1>1, <1>3, <2>1 DEF Used
<1>7. /\ Cardinality(Used(m, d) \ {s}) \in Nat
      /\ Cardinality(Used(m, d)) = Cardinality(Used(m, d) \ {s}) + 1
  BY <1>6, OneMore
<1>8. k = Cardinality(Used(m, d) \ {s}) * DIRENT_SIZE /\ k \in Nat
  <2>1. m.inode[d].size = Cardinality(Used(m, d)) * DIRENT_SIZE
    BY DEF Good, Sized
  <2> QED BY <1>7, <2>1, Sizes
<1>9. m \in FSState
  BY DEF Good
<1> HIDE DEF k
<1>10. /\ n \in FSState /\ n.crash = m.crash /\ n.vref = m.vref /\ n.file = m.file
       /\ n.vlen = m.vlen
       /\ n.dirent[d][s] = FreeSlot /\ OtherSlots(m, n, d, s)
       /\ \A j \in Inode : /\ n.inode[j].mode = m.inode[j].mode
                           /\ n.inode[j].links = m.inode[j].links
                           /\ n.inode[j].size = IF j = d THEN k ELSE m.inode[j].size
  <2>1. s \in Slot /\ FreeSlot \in Entry /\ k \in Nat
    BY <1>1, <1>5, <1>8
  <2> QED BY ONLY d \in Inode, <1>2, <1>9, <2>1, SlotSet
<1>11. n.dirent[d][s].name = NoName
  BY <1>5, <1>10
<1>12. Plain(n) /\ Dotted(n)
  <2>1. \A j \in Inode : n.inode[j].mode = m.inode[j].mode
    BY <1>10
  <2> QED BY ONLY Good(m, h, t), d \in Inode, m.inode[d].mode = "dir", <1>4, <1>5, <1>10, <1>11,
                  <2>1, SlotChanges
<1>13. ASSUME NEW q \in Inode, NEW u \in Slot
       PROVE  /\ q = d /\ u = s => n.dirent[q][u].name = NoName
              /\ ~(q = d /\ u = s) => n.dirent[q][u] = m.dirent[q][u]
  BY <1>10, <1>11 DEF OtherSlots
<1>14. \A q, j \in Inode, u \in Slot : Named(n.dirent[q][u], j) => Named(m.dirent[q][u], j)
  BY <1>13 DEF Named
<1>15. NamesAre(n, t)
  BY <1>14 DEF Good, NamesAre
<1>16. \A j \in Inode : n.dirent[j][2] = m.dirent[j][2]
  BY <1>4, <1>13, Basics
<1>17. OneName(n)
  BY <1>10, <1>14, <1>16 DEF Good, OneName
<1>18. Sized(n)
  <2>1. ASSUME NEW j \in Inode, n.inode[j].mode = "dir"
        PROVE  n.inode[j].size = Cardinality(Used(n, j)) * DIRENT_SIZE
    <3>1. CASE j # d
      <4>1. Used(n, j) = Used(m, j)
        BY <1>13, <3>1 DEF Used
      <4>2. m.inode[j].size = Cardinality(Used(m, j)) * DIRENT_SIZE
        BY <1>10, <2>1 DEF Good, Sized
      <4> QED BY <1>10, <3>1, <4>1, <4>2
    <3>2. CASE j = d
      <4>1. Used(n, d) = Used(m, d) \ {s}
        BY <1>13 DEF Used
      <4> QED BY <1>8, <1>10, <3>2, <4>1
    <3> QED BY <3>1, <3>2
  <2> QED BY <2>1 DEF Sized
<1>19. Lengths(n)
  <2>1. \A j \in Inode : n.inode[j].mode = "file" => n.inode[j].size = m.inode[j].size
    BY <1>10
  <2> QED BY <1>10, <2>1 DEF Good, Lengths
<1>20. Good(n, h, t)
  BY <1>10, <1>12, <1>15, <1>17, <1>18, <1>19, GoodAgain
<1>21. \A j \in Inode : Entries(m, j) = Entries(n, j) + (IF j = i THEN 1 ELSE 0)
  <2>1. OtherSlots(n, m, d, s)
    BY <1>10 DEF OtherSlots
  <2>2. s \in Slot /\ Named(m.dirent[d][s], i)
    BY <1>1, <1>3
  <2>3. \A j : Entries(m, j) = Entries(n, j) + (IF j = i THEN 1 ELSE 0)
    BY ONLY d \in Inode, <1>11, <2>1, <2>2, EntryAdded
  <2> QED BY <2>3
<1> QED BY <1>1, <1>3, <1>10, <1>14, <1>16, <1>20, <1>21

\* The link count of i changes with its names.
SetLinks(m, i, k) == [m EXCEPT !.inode[i].links = k]

LEMMA LinksSet ==
  ASSUME NEW m, NEW h, NEW t, Good(m, h, t), NEW i \in Inode, NEW k \in Nat, k > 0,
         m.inode[i].mode # "free", NEW c \in Count(Inode),
         \A j \in Inode : j # i => c[j] = t[j],
         k = c[i] + InCore(m, i) + IsRoot(i), NamesAre(m, c),
         NEW n, n = SetLinks(m, i, k)
  PROVE  /\ Good(n, h, c) /\ SameTree(m, n) /\ n.file = m.file /\ n.vref = m.vref
         /\ n.vlen = m.vlen /\ \A j \in Inode : n.inode[j].size = m.inode[j].size
<1>0. m.inode \in [Inode -> InodeRec] /\ m.inode[i] \in InodeRec
  BY DEF Good, FSState, Inodes
<1>1. /\ n.crash = m.crash /\ n.vref = m.vref /\ n.file = m.file /\ n.vlen = m.vlen
      /\ n.dirent = m.dirent
      /\ n.inode = [m.inode EXCEPT ![i].links = k]
  BY DEF Good, FSState, SetLinks
<1>2. n \in FSState
  <2>1. [m.inode[i] EXCEPT !.links = k] \in InodeRec
    BY <1>0 DEF InodeRec
  <2>2. n.inode \in Inodes
    BY <1>0, <1>1, <2>1 DEF Inodes
  <2> QED BY <1>1, <2>2 DEF Good, FSState, SetLinks
<1>3. \A j \in Inode : /\ n.inode[j].mode = m.inode[j].mode
                       /\ n.inode[j].size = m.inode[j].size
                       /\ n.inode[j].links = IF j = i THEN k ELSE m.inode[j].links
  BY <1>0, <1>1 DEF InodeRec
<1>4. SameTree(m, n)
  BY <1>1, <1>3 DEF SameTree
<1>5. RefsAre(n, h) /\ NamesAre(n, c)
  BY <1>1 DEF Good, RefsAre, NamesAre, Opened
<1>6. LinksAre(n, c)
  BY <1>1, <1>3 DEF Good, LinksAre, InCore
<1>7. Unlinked(n)
  BY <1>3 DEF Good, Unlinked
<1>8. Plain(n) /\ Dotted(n) /\ OneName(n) /\ Lengths(n)
  BY <1>1, <1>3 DEF Good, Plain, Dotted, OneName, Lengths
<1>9. Sized(n)
  BY <1>1, <1>3 DEF Good, Sized, Used
<1> QED BY <1>1, <1>2, <1>3, <1>4, <1>5, <1>6, <1>7, <1>8, <1>9 DEF Good

\* Nothing refers to a free inode.
LEMMA FreeIsUnused ==
  ASSUME NEW m, NEW h, NEW t, Good(m, h, t), FreeInodes(m) # {},
         NEW i, i = Min(FreeInodes(m))
  PROVE  /\ i \in Inode /\ m.inode[i].mode = "free" /\ i # Root
         /\ t[i] = 0 /\ m.vref[i] = 0 /\ m.dirent[i] = NoEntries
         /\ \A q \in Inode, u \in Slot : ~Named(m.dirent[q][u], i)
<1>1. i \in FreeInodes(m)
  <2>1. FreeInodes(m) \in SUBSET Nat
    <3>1. RAMFS_MAX_FILES \in Nat
      BY RamFSAssumption
    <3> QED BY <3>1 DEF FreeInodes, Inode
  <2> QED BY <2>1, LeastNumber
<1>2. i \in Inode /\ m.inode[i].mode = "free"
  BY <1>1 DEF FreeInodes
<1>3. m.inode[i].links = 0
  BY <1>2 DEF Good, Unlinked
<1>4. /\ m.vref[i] \in Nat /\ t[i] \in Nat
      /\ m.inode[i].links = t[i] + InCore(m, i) + IsRoot(i)
  BY <1>2, InUse
<1>5. t[i] = 0 /\ m.vref[i] = 0 /\ i # Root
  BY <1>3, <1>4 DEF InCore, IsRoot
<1>6. m.dirent[i] \in [Slot -> Entry] /\ \A u \in Slot : m.dirent[i][u] = FreeSlot
  BY <1>2 DEF Good, FSState, Dirents, Plain
<1>7. m.dirent[i] = NoEntries
  BY <1>6 DEF NoEntries
<1>8. \A q \in Inode, u \in Slot : ~Named(m.dirent[q][u], i)
  BY <1>2, <1>5 DEF Good, NamesAre
<1> QED BY <1>2, <1>5, <1>7, <1>8

\* A free inode becomes what r says, with the entries D.
SetInode(m, i, r, D) == [m EXCEPT !.inode[i] = r, !.dirent[i] = D]

LEMMA InodeSet ==
  ASSUME NEW m \in FSState, NEW i \in Inode, NEW r \in InodeRec, NEW D \in [Slot -> Entry],
         NEW n, n = SetInode(m, i, r, D)
  PROVE  /\ n \in FSState /\ n.crash = m.crash /\ n.vref = m.vref /\ n.file = m.file
         /\ n.vlen = m.vlen
         /\ n.inode[i] = r /\ n.dirent[i] = D
         /\ \A j \in Inode : j # i => n.inode[j] = m.inode[j] /\ n.dirent[j] = m.dirent[j]
<1>0. m.inode \in [Inode -> InodeRec] /\ m.dirent \in [Inode -> [Slot -> Entry]]
  BY DEF FSState, Inodes, Dirents
<1>1. /\ n.crash = m.crash /\ n.vref = m.vref /\ n.file = m.file /\ n.vlen = m.vlen
      /\ n.inode = [m.inode EXCEPT ![i] = r] /\ n.dirent = [m.dirent EXCEPT ![i] = D]
  BY DEF FSState, SetInode
<1>2. n.inode \in Inodes /\ n.dirent \in Dirents
  BY <1>0, <1>1 DEF Inodes, Dirents
<1>3. n \in FSState
  BY <1>1, <1>2 DEF FSState, SetInode
<1> QED BY <1>0, <1>1, <1>3

\* A new inode has the link of the entry that will name it.
LEMMA InodeMade ==
  ASSUME NEW m, NEW h, NEW t, Good(m, h, t), FreeInodes(m) # {},
         NEW i, i = Min(FreeInodes(m)), NEW r \in InodeRec, r.links = 1,
         NEW D \in [Slot -> Entry], NEW d \in Inode, m.inode[d].mode = "dir",
         \/ r.mode \in {"file", "chr"} /\ D = NoEntries
         \/ r.mode = "dir" /\ D = DirentsOf(i, d) /\ r.size = 2 * DIRENT_SIZE,
         NEW n, n = SetInode(m, i, r, D)
  PROVE  /\ Good(n, h, Plus(t, i)) /\ n.file = m.file /\ SameEntries(m, n)
         /\ n.inode[i].mode = r.mode /\ n.dirent[i] = D /\ i # d /\ i \in Inode
         /\ \A j \in Inode : j # i => n.inode[j] = m.inode[j] /\ n.dirent[j] = m.dirent[j]
<1>1. /\ i \in Inode /\ m.inode[i].mode = "free" /\ i # Root
      /\ t[i] = 0 /\ m.vref[i] = 0 /\ m.dirent[i] = NoEntries
      /\ \A q \in Inode, u \in Slot : ~Named(m.dirent[q][u], i)
  BY FreeIsUnused
<1>2. /\ n \in FSState /\ n.crash = m.crash /\ n.vref = m.vref /\ n.file = m.file
      /\ n.vlen = m.vlen
      /\ n.inode[i] = r /\ n.dirent[i] = D
      /\ \A j \in Inode : j # i => n.inode[j] = m.inode[j] /\ n.dirent[j] = m.dirent[j]
  BY <1>1, InodeSet DEF Good
<1>3. i # d
  BY <1>1
<1>4. \A u \in Slot, j \in Inode : ~Named(D[u], j)
  <2>1. \A u \in Slot, j \in Inode : ~Named(FreeSlot, j)
    BY DEF Named, FreeSlot
  <2>2. CASE D = NoEntries
    BY <2>1, <2>2 DEF NoEntries
  <2>3. CASE D = DirentsOf(i, d)
    <3>1. \A u \in Slot : D[u].name \in Dots \cup {NoName}
      <4>1. {".", ".."} \subseteq Dots
        BY DEF Dots
      <4> QED BY <2>3, <4>1 DEF DirentsOf, FreeSlot
    <3> QED BY <3>1 DEF Named
  <2> QED BY <2>2, <2>3
<1>5. \A u \in Slot, j \in Inode : ~Named(m.dirent[i][u], j)
  BY <1>1 DEF Named, NoEntries, FreeSlot
<1>6. SameEntries(m, n)
  BY <1>1, <1>2, <1>4, <1>5 DEF SameEntries
<1>7. Plus(t, i) \in Count(Inode) /\ t \in Count(Inode)
      /\ \A j \in Inode : t[j] \in Nat /\ Plus(t, i)[j] = IF j = i THEN 1 ELSE t[j]
  BY <1>1, Counting DEF Good
<1>8. RefsAre(n, h)
  BY <1>2 DEF Good, RefsAre, Opened
<1>9. LinksAre(n, Plus(t, i))
  <2>1. ASSUME NEW j \in Inode
        PROVE  n.inode[j].links = Plus(t, i)[j] + InCore(n, j) + IsRoot(j)
    <3>1. CASE j = i
      BY <1>1, <1>2, <1>7, <3>1 DEF InCore, IsRoot
    <3>2. CASE j # i
      BY <1>2, <1>7, <3>2 DEF Good, LinksAre, InCore
    <3> QED BY <3>1, <3>2
  <2> QED BY <2>1 DEF LinksAre
<1>10. NamesAre(n, Plus(t, i))
  <2>1. \A j \in Inode : t[j] > 0 => Plus(t, i)[j] > 0
    BY <1>7
  <2> QED BY <1>6, <2>1 DEF Good, NamesAre, SameEntries
<1>11. Unlinked(n)
  BY <1>2 DEF Good, Unlinked
<1>12. Plain(n)
  <2>1. r.mode # "dir" => D = NoEntries
    OBVIOUS
  <2> QED BY <1>2, <2>1 DEF Good, Plain, NoEntries
<1>13. r.mode = "dir" => /\ D[1] = [name |-> ".", ino |-> i] /\ D[2] = [name |-> "..", ino |-> d]
                         /\ \A u \in Slot \ {1, 2} : D[u] = FreeSlot
  BY Basics DEF DirentsOf
<1>14. FreeSlot.name = NoName /\ NoName \notin Dots
  BY Basics DEF FreeSlot
<1>15. Dotted(n)
  <2>1. ASSUME NEW j \in Inode, n.inode[j].mode = "dir"
        PROVE  /\ n.dirent[j][1] = [name |-> ".", ino |-> j]
               /\ n.dirent[j][2].name = ".."
               /\ \A u \in Slot \ {1, 2} : n.dirent[j][u].name \notin Dots
    <3>1. CASE j = i
      BY <1>2, <1>13, <1>14, <2>1, <3>1
    <3>2. CASE j # i
      BY <1>2, <2>1, <3>2 DEF Good, Dotted
    <3> QED BY <3>1, <3>2
  <2> QED BY <2>1 DEF Dotted
<1>16. Sized(n)
  <2>1. ASSUME NEW j \in Inode, n.inode[j].mode = "dir"
        PROVE  n.inode[j].size = Cardinality(Used(n, j)) * DIRENT_SIZE
    <3>1. CASE j = i
      <4>1. D[1].name # NoName /\ D[2].name # NoName
        <5>1. D[1].name \in Dots /\ D[2].name \in Dots
          BY <1>2, <1>13, <2>1, <3>1 DEF Dots
        <5> QED BY <5>1, <1>14
      <4>2. Used(n, i) = {1} \cup {2}
        BY <1>2, <1>13, <1>14, <2>1, <3>1, <4>1, Basics DEF Used
      <4>3. Cardinality(Used(n, i)) = 2
        <5>1. IsFiniteSet({1}) /\ Cardinality({1}) = 1
          BY FS_Singleton
        <5> QED BY ONLY <4>2, <5>1, OneMore
      <4> QED BY <1>2, <2>1, <3>1, <4>3
    <3>2. CASE j # i
      BY <1>2, <2>1, <3>2 DEF Good, Sized, Used
    <3> QED BY <3>1, <3>2
  <2> QED BY <2>1 DEF Sized
<1>17. Lengths(n)
  BY <1>1, <1>2 DEF Good, Lengths
<1>18. OneName(n)
  <2>1. ASSUME NEW e \in Inode, NEW q \in Inode, NEW u \in Slot,
               Named(n.dirent[q][u], e), n.inode[e].mode = "dir"
        PROVE  /\ n.dirent[e][2].ino = q
               /\ \A p \in Inode, v \in Slot : Named(n.dirent[p][v], e) => p = q /\ v = u
    <3>1. Named(m.dirent[q][u], e) /\ e # i
      BY <1>1, <1>6, <2>1 DEF SameEntries
    <3>2. n.inode[e] = m.inode[e] /\ n.dirent[e] = m.dirent[e]
      BY <1>2, <3>1
    <3> QED BY <1>6, <2>1, <3>1, <3>2 DEF Good, OneName, SameEntries
  <2> QED BY <2>1 DEF OneName
<1> QED BY <1>1, <1>2, <1>3, <1>6, <1>7, <1>8, <1>9, <1>10, <1>11, <1>12, <1>15, <1>16, <1>17,
           <1>18 DEF Good

LEMMA Allocated ==
  ASSUME NEW m, NEW h, NEW t, Good(m, h, t), FreeInodes(m) # {},
         NEW i, i = Min(FreeInodes(m)), NEW type
  PROVE  ramfs_alloc_inode(m, type) = SetInode(m, i, [mode |-> type, links |-> 1, size |-> 0], NoEntries)
<1>1. i \in Inode /\ m.dirent[i] = NoEntries
  BY FreeIsUnused
<1>2. m.dirent \in [Inode -> [Slot -> Entry]]
  BY DEF Good, FSState, Dirents
<1>3. [m.dirent EXCEPT ![i] = NoEntries] = m.dirent
  BY <1>1, <1>2
<1> DEFINE r == [mode |-> type, links |-> 1, size |-> 0]
<1> HIDE DEF r
<1>4. [m EXCEPT !.inode[i] = r] = [m EXCEPT !.inode[i] = r, !.dirent = m.dirent]
  BY DEF Good, FSState
<1>5. SetInode(m, i, r, NoEntries) = [m EXCEPT !.inode[i] = r, !.dirent = m.dirent]
  BY <1>3 DEF SetInode, Good, FSState
<1>6. ramfs_alloc_inode(m, type) = [m EXCEPT !.inode[i] = r]
  BY DEF ramfs_alloc_inode, r
<1> QED BY <1>4, <1>5, <1>6 DEF r

\* A new name for i, which may be new as well.
Grown(m, n, i) ==
  /\ i \in Inode /\ n.file = m.file
  /\ \A j \in Inode : n.inode[j].mode = m.inode[j].mode \/ (j = i /\ m.inode[j].mode = "free")
  /\ n.inode[i].mode # "free"
  /\ \A j \in Inode : Entries(n, j) = Entries(m, j) + (IF j = i THEN 1 ELSE 0)
  /\ \A j \in Inode : n.inode[j].mode = "dir" =>
       \/ n.dirent[j][2] = m.dirent[j][2] /\ m.inode[j].mode = "dir"
       \/ n.inode[n.dirent[j][2].ino].mode = "dir"

\* An inode that SetInode has made gets its name.
LEMMA NewInodeNamed ==
  ASSUME NEW m, NEW h, NEW t, Good(m, h, t), NEW d \in Inode, m.inode[d].mode = "dir",
         HasRoom(m, d), NEW nom \in Name, NEW i, i = Min(FreeInodes(m)),
         NEW k, k.file = m.file, SameEntries(m, k), k.inode[i].mode # "free", i # d, i \in Inode,
         NEW g, Good(k, g, Plus(t, i)),
         \A j \in Inode : j # i => k.inode[j].mode = m.inode[j].mode /\ k.dirent[j] = m.dirent[j],
         k.inode[i].mode = "dir" => k.dirent[i][2].ino = d,
         NEW n, n = SetEntry(k, d, nom, i)
  PROVE  Good(n, g, Plus(t, i)) /\ Grown(m, n, i) /\ n.inode[i].mode = k.inode[i].mode
<1>1. m.inode[i].mode = "free" /\ \A q \in Inode, u \in Slot : ~Named(m.dirent[q][u], i)
  BY FreeIsUnused DEF HasRoom
<1>2. k.inode[d].mode = "dir" /\ FreeSlots(k, d) # {}
  BY DEF HasRoom, FreeSlots, SlotsOf
<1>3. Plus(t, i)[i] > 0
  <2>1. t \in Count(Inode)
    BY DEF Good
  <2>2. Plus(t, i)[i] = t[i] + 1 /\ t[i] \in Nat
    BY <2>1, Counting
  <2> QED BY <2>2
<1>4. \A q \in Inode, u \in Slot : ~Named(k.dirent[q][u], i)
  BY <1>1 DEF SameEntries
<1>5. /\ Good(n, g, Plus(t, i)) /\ n.file = k.file
      /\ \A j \in Inode : n.inode[j].mode = k.inode[j].mode
      /\ \A j \in Inode : Entries(n, j) = Entries(k, j) + (IF j = i THEN 1 ELSE 0)
      /\ \A j \in Inode : n.dirent[j][2] = k.dirent[j][2]
  BY <1>2, <1>3, <1>4, EntrySet
<1>6. \A j \in Inode : Entries(k, j) = Entries(m, j)
  BY EntriesTheSame
<1>7. ASSUME NEW j \in Inode, n.inode[j].mode = "dir"
      PROVE  \/ n.dirent[j][2] = m.dirent[j][2] /\ m.inode[j].mode = "dir"
             \/ n.inode[n.dirent[j][2].ino].mode = "dir"
  <2>1. CASE j = i
    BY <1>2, <1>5, <1>7, <2>1
  <2>2. CASE j # i
    BY <1>5, <1>7, <2>2
  <2> QED BY <2>1, <2>2
<1>8. /\ \A j \in Inode : n.inode[j].mode = m.inode[j].mode \/ (j = i /\ m.inode[j].mode = "free")
      /\ n.inode[i].mode # "free"
  BY <1>1, <1>5
<1> QED BY <1>5, <1>6, <1>7, <1>8 DEF Grown

LEMMA Mknod ==
  ASSUME NEW m, NEW h, NEW t, Good(m, h, t), NEW d \in Inode, m.inode[d].mode = "dir",
         HasRoom(m, d), NEW nom \in Name, NEW i, i = Min(FreeInodes(m)),
         NEW n, n = ramfs_mknod(m, d, nom)
  PROVE  Good(n, h, Plus(t, i)) /\ Grown(m, n, i)
<1> DEFINE r == [mode |-> "chr", links |-> 1, size |-> 0]
           k == SetInode(m, i, r, NoEntries)
<1>1. FreeInodes(m) # {}
  BY DEF HasRoom
<1>2. n = SetEntry(k, d, nom, i)
  BY <1>1, Allocated DEF ramfs_mknod
<1>3. r \in InodeRec /\ r.links = 1 /\ r.mode = "chr"
  BY DEF InodeRec
<1>4. NoEntries \in [Slot -> Entry]
  BY Basics DEF NoEntries, FreeSlot, Entry
<1> HIDE DEF r
<1>5. /\ Good(k, h, Plus(t, i)) /\ k.file = m.file /\ SameEntries(m, k)
      /\ k.inode[i].mode = "chr" /\ i # d /\ i \in Inode
      /\ \A j \in Inode : j # i => k.inode[j] = m.inode[j] /\ k.dirent[j] = m.dirent[j]
  BY <1>1, <1>3, <1>4, InodeMade
<1> HIDE DEF k
<1> QED BY <1>2, <1>5, NewInodeNamed

LEMMA Create ==
  ASSUME NEW m, NEW h, NEW t, Good(m, h, t), NEW d \in Inode, m.inode[d].mode = "dir",
         HasRoom(m, d), NEW nom \in Name, NEW i, i = Min(FreeInodes(m)),
         NEW n, n = ramfs_create(m, d, nom)
  PROVE  Good(n, Plus(h, i), Plus(t, i)) /\ Grown(m, n, i) /\ n.inode[i].mode = "file"
<1> DEFINE r == [mode |-> "file", links |-> 1, size |-> 0]
           a == SetInode(m, i, r, NoEntries)
           k == vget(a, i)
<1>1. FreeInodes(m) # {}
  BY DEF HasRoom
<1>2. n = SetEntry(k, d, nom, i)
  BY <1>1, Allocated DEF ramfs_create
<1>3. r \in InodeRec /\ r.links = 1 /\ r.mode = "file"
  BY DEF InodeRec
<1>4. NoEntries \in [Slot -> Entry]
  BY Basics DEF NoEntries, FreeSlot, Entry
<1> HIDE DEF r
<1>5. /\ Good(a, h, Plus(t, i)) /\ a.file = m.file /\ SameEntries(m, a)
      /\ a.inode[i].mode = "file" /\ i # d /\ i \in Inode
      /\ \A j \in Inode : j # i => a.inode[j] = m.inode[j] /\ a.dirent[j] = m.dirent[j]
  BY <1>1, <1>3, <1>4, InodeMade
<1> HIDE DEF a
<1>6. Good(k, Plus(h, i), Plus(t, i)) /\ SameTree(a, k) /\ k.file = a.file
  BY <1>5, Get
<1> HIDE DEF k
<1>7. /\ k.file = m.file /\ SameEntries(m, k) /\ k.inode[i].mode = "file"
      /\ \A j \in Inode : j # i => k.inode[j].mode = m.inode[j].mode /\ k.dirent[j] = m.dirent[j]
  BY <1>5, <1>6 DEF SameTree, SameEntries
<1> QED BY <1>2, <1>5, <1>6, <1>7, NewInodeNamed

LEMMA Mkdir ==
  ASSUME NEW m, NEW h, NEW t, Good(m, h, t), NEW d \in Inode, m.inode[d].mode = "dir",
         HasRoom(m, d), NEW nom \in Name, NEW i, i = Min(FreeInodes(m)),
         NEW n, n = ramfs_mkdir(m, d, nom)
  PROVE  Good(n, h, Plus(t, i)) /\ Grown(m, n, i)
<1> DEFINE r == [mode |-> "dir", links |-> 1, size |-> 2 * DIRENT_SIZE]
           D == DirentsOf(i, d)
           k == SetInode(m, i, r, D)
<1>1. FreeInodes(m) # {} /\ FreeSlots(m, d) # {}
  BY DEF HasRoom
<1>2. i \in Inode /\ i # d
  BY <1>1, FreeIsUnused
<1>3. r \in InodeRec /\ r.links = 1 /\ r.mode = "dir" /\ r.size = 2 * DIRENT_SIZE
  BY Sizes DEF InodeRec
<1>4. D \in [Slot -> Entry] /\ D[2].ino = d
  <2>1. [name |-> ".", ino |-> i] \in Entry /\ [name |-> "..", ino |-> d] \in Entry
    BY <1>2 DEF Entry, Dots
  <2>2. FreeSlot \in Entry
    BY Basics DEF FreeSlot, Entry
  <2> QED BY <2>1, <2>2, Basics DEF DirentsOf
<1>5. n = SetEntry(k, d, nom, i)
  <2> DEFINE s == SlotOf(m, d, NoName)
             x == [name |-> nom, ino |-> i]
             e == [mode |-> "dir", links |-> 1, size |-> 0]
  <2>1. /\ m.inode \in [Inode -> InodeRec] /\ m.dirent \in [Inode -> [Slot -> Entry]]
        /\ m \in FSState
    BY DEF Good, FSState, Inodes, Dirents
  <2>2. r = [e EXCEPT !.size = 2 * DIRENT_SIZE]
    OBVIOUS
  <2>3. ramfs_alloc_inode(m, "dir") = [m EXCEPT !.inode[i] = e]
    BY DEF ramfs_alloc_inode
  <2> HIDE DEF e, x, r, D
  <2> DEFINE a == [m EXCEPT !.inode[i] = e]
  <2>4. Min(FreeSlots(a, d)) = s /\ Min(FreeSlots(k, d)) = s
    <3>1. a.dirent = m.dirent /\ k.dirent[d] = m.dirent[d]
      BY <1>2, <2>1 DEF FSState, SetInode
    <3>2. FreeSlots(a, d) = FreeSlots(m, d) /\ FreeSlots(k, d) = FreeSlots(m, d)
      BY <3>1 DEF FreeSlots, SlotsOf
    <3> QED BY <3>2 DEF SlotOf, FreeSlots
  <2> HIDE DEF s
  <2> DEFINE I1 == [m.inode EXCEPT ![i] = e]
             I2 == [I1 EXCEPT ![d].size = @ + DIRENT_SIZE]
             I3 == [I2 EXCEPT ![i].size = 2 * DIRENT_SIZE]
             J1 == [m.inode EXCEPT ![i] = r]
             J2 == [J1 EXCEPT ![d].size = @ + DIRENT_SIZE]
             D1 == [m.dirent EXCEPT ![d][s] = x]
             D2 == [D1 EXCEPT ![i] = D]
             E1 == [m.dirent EXCEPT ![i] = D]
             E2 == [E1 EXCEPT ![d][s] = x]
  <2>5. I3 = J2
    BY <1>2, <2>1, <2>2
  <2>6. D2 = E2
    BY <1>2, <2>1
  <2> HIDE DEF I3, D2, J2, E2
  <2>7. n = [m EXCEPT !.inode = I3, !.dirent = D2]
    <3>1. n = [SetEntry(a, d, nom, i) EXCEPT !.dirent[i] = D, !.inode[i].size = 2 * DIRENT_SIZE]
      BY <2>3 DEF ramfs_mkdir, D
    <3>2. SetEntry(a, d, nom, i) = [a EXCEPT !.dirent[d][s] = x, !.inode[d].size = @ + DIRENT_SIZE]
      BY <2>4 DEF SetEntry, x
    <3> HIDE DEF I2, D1, I1
    <3>3. a = [m EXCEPT !.inode = I1]
      BY <2>1 DEF FSState, I1
    <3> HIDE DEF a
    <3>4. [a EXCEPT !.dirent[d][s] = x, !.inode[d].size = @ + DIRENT_SIZE]
             = [m EXCEPT !.inode = I2, !.dirent = D1]
      BY <2>1, <3>3 DEF FSState, I2, D1
    <3>5. n = [[m EXCEPT !.inode = I2, !.dirent = D1] EXCEPT !.dirent[i] = D,
                                                          !.inode[i].size = 2 * DIRENT_SIZE]
      BY <3>1, <3>2, <3>4
    <3> QED BY <2>1, <3>5 DEF FSState, I3, D2
  <2>8. SetEntry(k, d, nom, i) = [m EXCEPT !.inode = J2, !.dirent = E2]
    <3>1. SetEntry(k, d, nom, i) = [k EXCEPT !.dirent[d][s] = x, !.inode[d].size = @ + DIRENT_SIZE]
      BY <2>4 DEF SetEntry, x
    <3> HIDE DEF J1, E1
    <3>2. k = [m EXCEPT !.inode = J1, !.dirent = E1]
      BY <2>1 DEF FSState, SetInode, J1, E1
    <3> QED BY <2>1, <3>1, <3>2 DEF FSState, J2, E2
  <2> QED BY <2>5, <2>6, <2>7, <2>8
<1> HIDE DEF r
<1>6. /\ Good(k, h, Plus(t, i)) /\ k.file = m.file /\ SameEntries(m, k)
      /\ k.inode[i].mode = "dir" /\ k.dirent[i] = D
      /\ \A j \in Inode : j # i => k.inode[j] = m.inode[j] /\ k.dirent[j] = m.dirent[j]
  BY <1>1, <1>3, <1>4, InodeMade
<1> HIDE DEF k, D
<1> QED BY <1>2, <1>4, <1>5, <1>6, NewInodeNamed

\* One more name for an inode that is not a directory.
LEMMA Link ==
  ASSUME NEW m, NEW h, NEW t, Good(m, h, t), NEW d \in Inode, m.inode[d].mode = "dir",
         FreeSlots(m, d) # {}, NEW nom \in Name, NEW i \in Inode,
         m.inode[i].mode \notin {"free", "dir"},
         NEW n, n = ramfs_link(m, i, d, nom)
  PROVE  Good(n, h, Plus(t, i)) /\ Grown(m, n, i)
<1> DEFINE k == SetLinks(m, i, m.inode[i].links + 1)
<1>1. /\ m.inode[i].links \in Nat /\ t \in Count(Inode) /\ t[i] \in Nat
      /\ m.inode[i].links = t[i] + InCore(m, i) + IsRoot(i)
  BY InUse DEF Good
<1>2. /\ Plus(t, i) \in Count(Inode) /\ Plus(t, i)[i] = t[i] + 1
      /\ \A j \in Inode : t[j] \in Nat /\ (j # i => Plus(t, i)[j] = t[j])
  BY <1>1, Counting
<1>3. NamesAre(m, Plus(t, i))
  BY <1>1, <1>2 DEF Good, NamesAre
<1>4. /\ Good(k, h, Plus(t, i)) /\ SameTree(m, k) /\ k.file = m.file
  <2>1. /\ m.inode[i].links + 1 \in Nat /\ m.inode[i].links + 1 > 0
        /\ m.inode[i].links + 1 = Plus(t, i)[i] + InCore(m, i) + IsRoot(i)
    BY <1>1, <1>2 DEF InCore, IsRoot
  <2> QED BY <1>2, <1>3, <2>1, LinksSet
<1>5. n = SetEntry(k, d, nom, i)
  <2> DEFINE s == SlotOf(m, d, NoName)
             x == [name |-> nom, ino |-> i]
  <2>1. /\ m.inode \in [Inode -> InodeRec] /\ m.dirent \in [Inode -> [Slot -> Entry]]
        /\ m \in FSState
    BY DEF Good, FSState, Inodes, Dirents
  <2>2. FreeSlots(k, d) = FreeSlots(m, d)
    BY <1>4 DEF SameTree, FreeSlots, SlotsOf
  <2>3. Min(FreeSlots(m, d)) = s /\ Min(FreeSlots(k, d)) = s
    BY <2>2 DEF SlotOf, FreeSlots
  <2> HIDE DEF s, x
  <2> DEFINE I1 == [m.inode EXCEPT ![d].size = @ + DIRENT_SIZE]
             I2 == [I1 EXCEPT ![i].links = @ + 1]
             J1 == [m.inode EXCEPT ![i].links = m.inode[i].links + 1]
             J2 == [J1 EXCEPT ![d].size = @ + DIRENT_SIZE]
             D1 == [m.dirent EXCEPT ![d][s] = x]
  <2>4. I2 = J2
    BY <2>1 DEF InodeRec
  <2> HIDE DEF I2, J2, D1
  <2>5. n = [m EXCEPT !.inode = I2, !.dirent = D1]
    <3>1. n = [SetEntry(m, d, nom, i) EXCEPT !.inode[i].links = @ + 1]
      BY DEF ramfs_link
    <3>2. SetEntry(m, d, nom, i) = [m EXCEPT !.dirent[d][s] = x, !.inode[d].size = @ + DIRENT_SIZE]
      BY <2>3 DEF SetEntry, x
    <3> HIDE DEF I1
    <3>3. SetEntry(m, d, nom, i) = [m EXCEPT !.inode = I1, !.dirent = D1]
      BY <2>1, <3>2 DEF FSState, I1, D1
    <3> QED BY <2>1, <3>1, <3>3 DEF FSState, I2
  <2>6. SetEntry(k, d, nom, i) = [m EXCEPT !.inode = J2, !.dirent = D1]
    <3>1. SetEntry(k, d, nom, i) = [k EXCEPT !.dirent[d][s] = x, !.inode[d].size = @ + DIRENT_SIZE]
      BY <2>3 DEF SetEntry, x
    <3> HIDE DEF J1
    <3>2. k = [m EXCEPT !.inode = J1]
      BY <2>1 DEF FSState, SetLinks, J1
    <3> QED BY <2>1, <3>1, <3>2 DEF FSState, J2, D1
  <2> QED BY <2>4, <2>5, <2>6
<1> HIDE DEF k
<1>6. Plus(t, i)[i] > 0 /\ k.inode[d].mode = "dir" /\ k.inode[i].mode \notin {"free", "dir"}
      /\ FreeSlots(k, d) # {}
  BY <1>1, <1>2, <1>4 DEF SameTree, FreeSlots, SlotsOf
<1>7. /\ Good(n, h, Plus(t, i)) /\ n.file = k.file
      /\ \A j \in Inode : n.inode[j].mode = k.inode[j].mode
      /\ \A j \in Inode : Entries(n, j) = Entries(k, j) + (IF j = i THEN 1 ELSE 0)
      /\ \A j \in Inode : n.dirent[j][2] = k.dirent[j][2]
  BY <1>4, <1>5, <1>6, EntrySet
<1>8. \A j \in Inode : Entries(k, j) = Entries(m, j)
  BY <1>4, SameTreeFacts, EntriesTheSame
<1> QED BY <1>4, <1>6, <1>7, <1>8 DEF Grown, SameTree

-----------------------------------------------------------------------------
(* What a system call leaves.                                              *)

Gone(m, n) == {d \in Inode : m.inode[d].mode = "dir" /\ n.inode[d].mode = "free"}

\* A state m that a system call may end in: an inode that has changed its type is
\* new or free, every name is there or was lost with a directory, and directories
\* have their parents unless those are gone.
Ends(m, h, t) ==
  /\ Good(m, h, t)
  /\ \A i \in Inode : m.inode[i].mode = fs.inode[i].mode
                      \/ m.inode[i].mode = "free" \/ fs.inode[i].mode = "free"
  /\ \A i \in Inode : t[i] = Entries(m, i) + LinksFrom(fs, Gone(fs, m), i) + lost[i]
  /\ \A d \in Inode : m.inode[d].mode = "dir" =>
       m.inode[m.dirent[d][2].ino].mode = "dir" \/ m.dirent[d][2].ino \in Gone(fs, m)

Ready ==
  /\ Good(fs, Holders(cwd, power, leaked), Total(fs, lost))
  /\ FilesAre(fs, Users(files, reading))
  /\ Parents(fs) /\ Absent /\ TypeOK

LEMMA Start ==
  ASSUME IInv, Up
  PROVE  Ready
<1>1. fs \in FSState /\ fs.crash = NoCrash /\ Parents(fs)
  BY DEF IInv, Up
<1>2. [fs EXCEPT !.crash = NoCrash] = fs
  BY <1>1 DEF FSState
<1> QED BY <1>1, <1>2 DEF IInv, Ready

LEMMA StartFacts ==
  ASSUME Ready
  PROVE  /\ Total(fs, lost) \in Count(Inode)
         /\ \A i \in Inode : /\ Total(fs, lost)[i] = Entries(fs, i) + lost[i]
                             /\ Entries(fs, i) \in Nat /\ lost[i] \in Nat
         /\ \A d \in Inode : fs.dirent[d][2].ino \in Inode
<1>1. Total(fs, lost) \in Count(Inode)
  BY DEF Ready, Good
<1>2. \A i \in Inode : lost[i] \in Nat
  BY DEF Ready, TypeOK
<1>3. \A i \in Inode : Entries(fs, i) \in Nat
  BY EntriesAreCounted
<1>4. \A d \in Inode : fs.dirent[d][2].ino \in Inode
  BY Basics DEF Ready, Good, FSState, Dirents, Entry
<1> QED BY <1>1, <1>2, <1>3, <1>4 DEF Total

\* A call that has freed some inodes and done nothing else to the tree.
LEMMA EndsFreed ==
  ASSUME Ready, NEW m, NEW h, Good(m, h, Total(fs, lost)), Freed(fs, m)
  PROVE  Ends(m, h, Total(fs, lost))
<1>1. \A q \in Inode, u \in Slot :
        m.dirent[q][u] = IF q \in Gone(fs, m) THEN FreeSlot ELSE fs.dirent[q][u]
  <2>1. \A u \in Slot : NoEntries[u] = FreeSlot
    BY DEF NoEntries
  <2>2. Plain(fs)
    BY DEF Ready, Good
  <2>3. ASSUME NEW q \in Inode, NEW u \in Slot
        PROVE  m.dirent[q][u] = IF q \in Gone(fs, m) THEN FreeSlot ELSE fs.dirent[q][u]
    <3>1. CASE q \in Gone(fs, m)
      BY <2>1, <3>1 DEF Gone, Freed
    <3>2. CASE q \notin Gone(fs, m)
      BY <2>1, <2>2, <3>2 DEF Gone, Freed, Plain
    <3> QED BY <3>1, <3>2
  <2> QED BY <2>3
<1>2. Gone(fs, m) \in SUBSET Inode
  BY DEF Gone
<1>3. \A i : Entries(fs, i) = Entries(m, i) + LinksFrom(fs, Gone(fs, m), i)
  BY <1>1, <1>2, DirectoriesFreed DEF Ready, Good
<1>4. \A i \in Inode : /\ Entries(m, i) \in Nat /\ LinksFrom(fs, Gone(fs, m), i) \in Nat
  BY <1>2, EntriesAreCounted, NamesAreCounted
<1>5. \A i \in Inode : Total(fs, lost)[i] = Entries(m, i) + LinksFrom(fs, Gone(fs, m), i) + lost[i]
  BY <1>3, <1>4, StartFacts
<1>6. ASSUME NEW d \in Inode, m.inode[d].mode = "dir"
      PROVE  m.inode[m.dirent[d][2].ino].mode = "dir" \/ m.dirent[d][2].ino \in Gone(fs, m)
  <2>1. fs.inode[d].mode = "dir" /\ m.dirent[d] = fs.dirent[d]
    BY <1>6 DEF Freed
  <2>2. fs.inode[fs.dirent[d][2].ino].mode = "dir" /\ fs.dirent[d][2].ino \in Inode
    BY <2>1, StartFacts DEF Ready, Parents
  <2> QED BY <2>1, <2>2 DEF Freed, Gone
<1>7. \A i \in Inode : m.inode[i].mode = fs.inode[i].mode
                       \/ m.inode[i].mode = "free" \/ fs.inode[i].mode = "free"
  BY DEF Freed
<1> QED BY <1>5, <1>6, <1>7 DEF Ends

\* A call that has added a name for i.
LEMMA EndsGrown ==
  ASSUME Ready, NEW m, SameTree(fs, m), NEW n, NEW i, Grown(m, n, i),
         NEW h, Good(n, h, Plus(Total(fs, lost), i))
  PROVE  Ends(n, h, Plus(Total(fs, lost), i)) /\ Gone(fs, n) = {}
<1>1. /\ m.dirent = fs.dirent /\ \A j \in Inode : m.inode[j].mode = fs.inode[j].mode
      /\ \A j \in Inode : Entries(m, j) = Entries(fs, j)
  BY SameTreeFacts, EntriesTheSame DEF SameTree
<1>2. /\ i \in Inode
      /\ \A j \in Inode : n.inode[j].mode = m.inode[j].mode \/ (j = i /\ m.inode[j].mode = "free")
      /\ n.inode[i].mode # "free"
      /\ \A j \in Inode : Entries(n, j) = Entries(m, j) + (IF j = i THEN 1 ELSE 0)
  BY DEF Grown
<1>3. Gone(fs, n) = {}
  BY <1>1, <1>2 DEF Gone
<1>4. \A j : LinksFrom(fs, {}, j) = 0
  <2>1. \A j : Names(fs, {}, j) = {}
    BY DEF Names
  <2> QED BY <2>1, NamesAreCounted
<1>5. \A j \in Inode : Plus(Total(fs, lost), i)[j]
        = Entries(n, j) + LinksFrom(fs, Gone(fs, n), j) + lost[j]
  <2>1. /\ Plus(Total(fs, lost), i)[i] = Total(fs, lost)[i] + 1
        /\ \A j \in Inode : j # i => Plus(Total(fs, lost), i)[j] = Total(fs, lost)[j]
    BY <1>2, StartFacts, Counting
  <2> QED BY <1>1, <1>2, <1>3, <1>4, <2>1, StartFacts
<1>6. ASSUME NEW d \in Inode, n.inode[d].mode = "dir"
      PROVE  n.inode[n.dirent[d][2].ino].mode = "dir"
  <2>1. \/ n.dirent[d][2] = m.dirent[d][2] /\ m.inode[d].mode = "dir"
        \/ n.inode[n.dirent[d][2].ino].mode = "dir"
    BY <1>6 DEF Grown
  <2>2. ASSUME n.dirent[d][2] = m.dirent[d][2], m.inode[d].mode = "dir"
        PROVE  n.inode[n.dirent[d][2].ino].mode = "dir"
    <3>1. fs.inode[fs.dirent[d][2].ino].mode = "dir" /\ fs.dirent[d][2].ino \in Inode
      BY <1>1, <2>2, StartFacts DEF Ready, Parents
    <3> QED BY <1>1, <1>2, <2>2, <3>1
  <2> QED BY <2>1, <2>2
<1>7. \A j \in Inode : n.inode[j].mode = fs.inode[j].mode
                       \/ n.inode[j].mode = "free" \/ fs.inode[j].mode = "free"
  BY <1>1, <1>2
<1> QED BY <1>3, <1>5, <1>6, <1>7 DEF Ends

LEMMA EndsSame ==
  ASSUME NEW m, NEW h, NEW t, Ends(m, h, t), NEW n, NEW g, Good(n, g, t), SameTree(m, n)
  PROVE  Ends(n, g, t)
<1>1. /\ n.dirent = m.dirent /\ \A i \in Inode : n.inode[i].mode = m.inode[i].mode
      /\ \A i \in Inode : Entries(n, i) = Entries(m, i)
  BY SameTreeFacts, EntriesTheSame DEF SameTree
<1>2. Gone(fs, n) = Gone(fs, m)
  BY <1>1 DEF Gone
<1>3. \A d \in Inode : m.dirent[d][2].ino \in Inode
  BY Basics DEF Ends, Good, FSState, Dirents, Entry
<1> QED BY <1>1, <1>2, <1>3 DEF Ends

\* A call that frees directories in which nothing is named, and other inodes.
LEMMA EndsEmptied ==
  ASSUME Ready, NEW m, NEW h, NEW t, Ends(m, h, t), Gone(fs, m) = {},
         NEW n, NEW g, Good(n, g, t), Freed(m, n),
         \A q \in Gone(m, n) : /\ fs.inode[q].mode = "dir"
                               /\ IsEmpty(m, q) /\ IsEmpty(fs, q)
  PROVE  Ends(n, g, t)
<1>1. \A i : LinksFrom(fs, {}, i) = 0
  <2>1. \A i : Names(fs, {}, i) = {}
    BY DEF Names
  <2> QED BY <2>1, NamesAreCounted
<1>2. SameEntries(m, n)
  <2>1. ASSUME NEW q \in Inode, NEW u \in Slot, NEW i \in Inode
        PROVE  Named(n.dirent[q][u], i) <=> Named(m.dirent[q][u], i)
    <3>1. ~Named(FreeSlot, i) /\ NoEntries[u] = FreeSlot
      BY DEF Named, FreeSlot, NoEntries
    <3>2. CASE n.dirent[q] = m.dirent[q]
      BY <3>2
    <3>3. CASE n.dirent[q] # m.dirent[q]
      <4>1. n.inode[q].mode = "free" /\ n.dirent[q] = NoEntries
        BY <3>3 DEF Freed
      <4>2. m.inode[q].mode = "dir" => IsEmpty(m, q)
        BY <4>1 DEF Gone
      <4>3. m.inode[q].mode # "dir" => m.dirent[q][u] = FreeSlot
        BY DEF Ends, Good, Plain
      <4> QED BY <3>1, <4>1, <4>2, <4>3 DEF IsEmpty, Named
    <3> QED BY <3>2, <3>3
  <2> QED BY <2>1 DEF SameEntries
<1>3. \A i \in Inode : Entries(n, i) = Entries(m, i)
  BY <1>2, EntriesTheSame
<1>4. \A i : LinksFrom(fs, Gone(fs, n), i) = 0
  <2>1. ASSUME NEW i PROVE Names(fs, Gone(fs, n), i) = {}
    <3>1. ASSUME NEW q \in Gone(fs, n), NEW u \in Slot PROVE ~Named(fs.dirent[q][u], i)
      <4>1. m.inode[q].mode = "free" => FALSE
        BY DEF Gone
      <4>2. q \in Gone(m, n)
        BY <4>1 DEF Gone, Ends
      <4>3. IsEmpty(fs, q)
        BY <4>2
      <4> QED BY <4>3 DEF IsEmpty, Named
    <3>2. \A e \in Gone(fs, n) \X Slot : ~Named(fs.dirent[e[1]][e[2]], i)
      BY <3>1, PairOf
    <3> QED BY <3>2 DEF Names
  <2>2. Gone(fs, n) \in SUBSET Inode
    BY DEF Gone
  <2> QED BY <2>1, <2>2, NamesAreCounted
<1>5. \A i \in Inode : t[i] = Entries(n, i) + LinksFrom(fs, Gone(fs, n), i) + lost[i]
  BY <1>1, <1>3, <1>4 DEF Ends
<1>6. ASSUME NEW d \in Inode, n.inode[d].mode = "dir"
      PROVE  n.inode[n.dirent[d][2].ino].mode = "dir" \/ n.dirent[d][2].ino \in Gone(fs, n)
  <2> DEFINE e == m.dirent[d][2].ino
  <2>1. m.inode[d].mode = "dir" /\ n.dirent[d] = m.dirent[d] /\ e \in Inode
    <3>1. \A q \in Inode : m.dirent[q][2].ino \in Inode
      BY Basics DEF Ends, Good, FSState, Dirents, Entry
    <3> QED BY <1>6, <3>1 DEF Freed
  <2>2. m.inode[e].mode = "dir"
    BY <2>1 DEF Ends
  <2>3. CASE n.inode[e].mode = "dir"
    BY <2>1, <2>3
  <2>4. CASE n.inode[e].mode # "dir"
    <3>1. e \in Gone(m, n)
      BY <2>1, <2>2, <2>4 DEF Freed, Gone
    <3>2. fs.inode[e].mode = "dir"
      BY <3>1
    <3> QED BY <2>1, <3>1, <3>2 DEF Gone
  <2> QED BY <2>3, <2>4
<1>7. \A i \in Inode : n.inode[i].mode = fs.inode[i].mode
                       \/ n.inode[i].mode = "free" \/ fs.inode[i].mode = "free"
  BY DEF Freed, Ends
<1> QED BY <1>5, <1>6, <1>7 DEF Ends

\* The vnodes in core keep the types of their inodes.
Kept == \A i \in Inode : (fs.vref[i] > 0 /\ fs'.vref[i] > 0) => fs'.inode[i].mode = fs.inode[i].mode

ProcTypes ==
  /\ files \in [Proc -> [Fd -> FileId \cup {NULL}]]
  /\ cwd \in [Proc -> Inode \cup {NULL}] /\ reading \in [Proc -> FileId \cup {NULL}]
  /\ power \in {"on", "off"} /\ leaked \in [Inode -> Nat]

LEMMA TypesOfFs ==
  ASSUME NEW m \in FSState
  PROVE  /\ m.inode \in [Inode -> [mode : {"free", "file", "dir", "chr"}, links : Nat, size : Nat]]
         /\ m.dirent \in [Inode -> [Slot -> [name : Name \cup Dots \cup {NoName}, ino : Inode]]]
         /\ m.vref \in [Inode -> Nat] /\ m.vlen \in [Inode -> Nat]
         /\ m.file \in [FileId -> [mode : SUBSET {"READ", "WRITE", "APPEND"}, pos : Nat,
                                   ref : Nat, vnode : Inode \cup {NULL}]]
<1>1. /\ m.inode \in Inodes /\ m.dirent \in Dirents /\ m.vref \in Numbers /\ m.vlen \in Numbers
      /\ m.file \in OpenFiles
  BY DEF FSState
<1>2. m.inode \in [Inode -> [mode : {"free", "file", "dir", "chr"}, links : Nat, size : Nat]]
  BY <1>1 DEF Inodes, InodeRec
<1>3. m.dirent \in [Inode -> [Slot -> [name : Name \cup Dots \cup {NoName}, ino : Inode]]]
  BY <1>1 DEF Dirents, Entry
<1>4. m.file \in [FileId -> [mode : SUBSET {"READ", "WRITE", "APPEND"}, pos : Nat,
                             ref : Nat, vnode : Inode \cup {NULL}]]
  BY <1>1 DEF OpenFiles, FileRec
<1> QED BY <1>1, <1>2, <1>3, <1>4 DEF Numbers

LEMMA ParentIs ==
  ASSUME NEW m, Dotted(m), NEW d \in Inode, m.inode[d].mode = "dir"
  PROVE  InoOf(m, d, "..") = m.dirent[d][2].ino
<1>1. /\ m.dirent[d][1].name = "." /\ m.dirent[d][2].name = ".."
      /\ \A s \in Slot \ {1, 2} : m.dirent[d][s].name # ".."
  <2>1. /\ m.dirent[d][1] = [name |-> ".", ino |-> d] /\ m.dirent[d][2].name = ".."
        /\ \A s \in Slot \ {1, 2} : m.dirent[d][s].name \notin Dots
    BY DEF Dotted
  <2> QED BY <2>1 DEF Dots
<1>2. SlotsOf(m, d, "..") = {2}
  BY <1>1, Basics DEF SlotsOf
<1>3. {2} \in SUBSET Nat /\ {2} # {}
  OBVIOUS
<1>4. Min({2}) = 2
  <2>1. Min({2}) \in {2}
    BY ONLY <1>3, LeastNumber
  <2> QED BY <2>1
<1> QED BY <1>2, <1>4 DEF InoOf, SlotOf

\* The end of a call that succeeds or fails with an error.
LEMMA Finish ==
  ASSUME Ready, fs.crash = NoCrash, power = "on", ~orphan,
         NEW m, NEW t, Ends(m, Holders(cwd', power', leaked'), t),
         FilesAre(m, Users(files', reading')), Kernel(m), RecordLosses,
         ProcTypes', Absent'
  PROVE  IInv' /\ Kept
<1> DEFINE gone == {d \in Inode : fs.inode[d].mode = "dir" /\ m.inode[d].mode = "free"}
<1>1. fs' = m /\ m \in FSState /\ m.crash = NoCrash
  BY DEF Kernel, Ends, Good
<1>2. gone = Gone(fs, m)
  BY DEF Gone
<1>3. /\ lost' = [i \in Inode |-> IF m.inode[i].mode = "free" THEN 0
                                  ELSE lost[i] + LinksFrom(fs, Gone(fs, m), i)]
      /\ orphan' = \E d \in Inode : /\ m.inode[d].mode = "dir"
                                    /\ InoOf(m, d, "..") \in Gone(fs, m)
  BY <1>1, <1>2 DEF RecordLosses
<1> HIDE DEF gone
<1>4. \A i \in Inode : /\ Entries(m, i) \in Nat /\ lost[i] \in Nat
                       /\ LinksFrom(fs, Gone(fs, m), i) \in Nat
  <2>1. Gone(fs, m) \in SUBSET Inode
    BY DEF Gone
  <2> QED BY <2>1, EntriesAreCounted, NamesAreCounted, StartFacts
<1>5. lost' \in [Inode -> Nat]
  BY <1>3, <1>4
<1>6. \A i \in Inode : m.inode[i].mode = "free" => t[i] = 0
  <2>1. ASSUME NEW i \in Inode, m.inode[i].mode = "free" PROVE t[i] = 0
    <3>1. Good(m, Holders(cwd', power', leaked'), t)
      BY DEF Ends
    <3>2. /\ m.inode[i].links \in Nat /\ t[i] \in Nat
          /\ m.inode[i].links = t[i] + InCore(m, i) + IsRoot(i)
      BY <3>1, InUse
    <3>3. m.inode[i].links = 0
      BY <2>1, <3>1 DEF Good, Unlinked
    <3> QED BY <3>2, <3>3 DEF InCore, IsRoot
  <2> QED BY <2>1
<1>7. Total(m, lost') = t
  <2>1. ASSUME NEW i \in Inode PROVE Entries(m, i) + lost'[i] = t[i]
    <3>1. t[i] = Entries(m, i) + LinksFrom(fs, Gone(fs, m), i) + lost[i]
      BY DEF Ends
    <3> QED BY <1>3, <1>4, <1>6, <3>1
  <2>2. t \in [Inode -> Nat]
    BY DEF Ends, Good, Count
  <2> QED BY <2>1, <2>2 DEF Total
<1>8. Good([m EXCEPT !.crash = NoCrash], Holders(cwd', power', leaked'), Total(m, lost'))
  <2>1. [m EXCEPT !.crash = NoCrash] = m
    BY <1>1 DEF FSState
  <2> QED BY <1>7, <2>1 DEF Ends
<1>9. TypeOK'
  BY <1>1, <1>5, TypesOfFs DEF TypeOK, ProcTypes
<1>10. orphan' \in BOOLEAN
  BY <1>3
<1>11. orphan' \/ Parents(m)
  <2>1. ASSUME NEW d \in Inode, m.inode[d].mode = "dir",
               m.inode[m.dirent[d][2].ino].mode # "dir"
        PROVE  orphan'
    <3>1. m.dirent[d][2].ino \in Gone(fs, m)
      BY <2>1 DEF Ends
    <3>2. InoOf(m, d, "..") = m.dirent[d][2].ino
      BY <2>1, ParentIs DEF Ends, Good
    <3> QED BY <1>3, <2>1, <3>1, <3>2
  <2> QED BY <2>1 DEF Parents
<1>12. OnlyKnownCrashes'
  BY <1>1 DEF OnlyKnownCrashes, NoCrash
<1>13. Kept
  <2>1. ASSUME NEW i \in Inode, fs.vref[i] > 0, m.vref[i] > 0
        PROVE  m.inode[i].mode = fs.inode[i].mode
    <3>1. m.inode[i].mode # "free" /\ fs.inode[i].mode # "free"
      BY <2>1, InUse DEF Ends, Ready
    <3> QED BY <3>1 DEF Ends
  <2> QED BY <1>1, <2>1 DEF Kept
<1>14. IInv'
  BY <1>1, <1>8, <1>9, <1>10, <1>11, <1>12 DEF IInv
<1> QED BY <1>13, <1>14

\* The end of a call that stops the machine.
LEMMA FinishCrashed ==
  ASSUME IInv, Up, UNCHANGED <<files, cwd, reading, power, leaked>>,
         NEW why \in {"undefined", "memcpy", "ramfs_readdir", "vfs_shutdown"},
         NEW m, m.crash = why,
         Kernel(m), RecordLosses, why = "vfs_shutdown" => \E i \in Inode : leaked[i] > 0
  PROVE  IInv' /\ Kept
<1>1. Ready /\ fs \in FSState /\ ~orphan
  BY Start DEF IInv, Up
<1>2. why # NoCrash /\ why \in Stops
  BY DEF NoCrash, Stops
<1>3. fs' = [fs EXCEPT !.crash = why]
  BY <1>2 DEF Kernel
<1>4. /\ fs' \in FSState /\ fs'.crash = why
      /\ fs'.inode = fs.inode /\ fs'.dirent = fs.dirent /\ fs'.vref = fs.vref
      /\ fs'.vlen = fs.vlen /\ fs'.file = fs.file
  BY <1>1, <1>2, <1>3 DEF FSState
<1>5. [fs' EXCEPT !.crash = NoCrash] = fs
  BY <1>1, <1>3 DEF FSState, Up
<1>6. /\ lost' = [i \in Inode |-> IF fs.inode[i].mode = "free" THEN 0
                                  ELSE lost[i] + LinksFrom(fs, {}, i)]
      /\ orphan' = FALSE
  <2>1. {d \in Inode : fs.inode[d].mode = "dir" /\ fs'.inode[d].mode = "free"} = {}
    BY <1>4
  <2> QED BY <1>1, <1>4, <2>1 DEF RecordLosses
<1>7. \A i : LinksFrom(fs, {}, i) = 0
  <2>1. \A i : Names(fs, {}, i) = {}
    BY DEF Names
  <2> QED BY <2>1, NamesAreCounted
<1>8. \A i \in Inode : lost[i] \in Nat /\ (fs.inode[i].mode = "free" => lost[i] = 0)
  <2>1. ASSUME NEW i \in Inode, fs.inode[i].mode = "free" PROVE lost[i] = 0
    <3>1. Good(fs, Holders(cwd, power, leaked), Total(fs, lost))
      BY <1>1 DEF Ready
    <3>2. /\ fs.inode[i].links \in Nat /\ Total(fs, lost)[i] \in Nat
          /\ fs.inode[i].links = Total(fs, lost)[i] + InCore(fs, i) + IsRoot(i)
      BY <3>1, InUse
    <3>3. fs.inode[i].links = 0
      BY <2>1, <3>1 DEF Good, Unlinked
    <3>4. Total(fs, lost)[i] = 0
      BY <3>2, <3>3 DEF InCore, IsRoot
    <3> QED BY <1>1, <3>4, StartFacts
  <2> QED BY <1>1, <2>1, StartFacts
<1>9. lost' = lost
  <2>1. lost \in [Inode -> Nat]
    BY <1>1 DEF Ready, TypeOK
  <2>2. \A i \in Inode : lost'[i] = lost[i]
    BY <1>6, <1>7, <1>8
  <2> QED BY <1>6, <2>1, <2>2
<1>10. Good([fs' EXCEPT !.crash = NoCrash], Holders(cwd', power', leaked'), Total(fs', lost'))
  <2>1. Total(fs', lost') = Total(fs, lost)
    BY <1>4, <1>9 DEF Total, Entries, LinksFrom
  <2> QED BY <1>1, <1>5, <2>1 DEF Ready
<1>11. FilesAre(fs', Users(files', reading'))
  BY <1>1, <1>4 DEF Ready, FilesAre
<1>12. TypeOK' /\ orphan' \in BOOLEAN /\ Absent'
  BY <1>1, <1>4, <1>6, <1>9 DEF Ready, TypeOK, Absent
<1>13. Parents(fs')
  BY <1>1, <1>4 DEF Ready, Parents
<1>14. OnlyKnownCrashes'
  BY <1>4 DEF OnlyKnownCrashes
<1>15. Kept
  BY <1>4 DEF Kept
<1> QED BY <1>4, <1>10, <1>11, <1>12, <1>13, <1>14, <1>15 DEF IInv

-----------------------------------------------------------------------------
(* Open files.                                                             *)

SetFile(m, f, r) == [m EXCEPT !.file[f] = r]

LEMMA FileSet ==
  ASSUME NEW m, NEW h, NEW t, Good(m, h, t), NEW f \in FileId, NEW r \in FileRec,
         NEW n, n = SetFile(m, f, r)
  PROVE  /\ n.file[f] = r /\ \A e \in FileId : e # f => n.file[e] = m.file[e]
         /\ SameTree(m, n) /\ n.vref = m.vref /\ n.vlen = m.vlen /\ n.crash = NoCrash
         /\ n.inode = m.inode
         /\ r.vnode = m.file[f].vnode => Good(n, h, t)
         /\ m.file[f].vnode \in Inode /\ r.vnode = NULL => Good(n, Plus(h, m.file[f].vnode), t)
         /\ \A g \in Count(Inode) :
              m.file[f].vnode = NULL /\ r.vnode \in Inode /\ h = Plus(g, r.vnode) => Good(n, g, t)
<1>0. m.file \in [FileId -> FileRec] /\ m \in FSState /\ m.crash = NoCrash /\ h \in Count(Inode)
  BY DEF Good, FSState, OpenFiles
<1>1. /\ n.inode = m.inode /\ n.dirent = m.dirent /\ n.vref = m.vref /\ n.vlen = m.vlen
      /\ n.crash = m.crash /\ n.file = [m.file EXCEPT ![f] = r]
  BY <1>0 DEF FSState, SetFile
<1>2. n \in FSState
  <2>1. n.file \in OpenFiles
    BY <1>0, <1>1 DEF OpenFiles
  <2> QED BY <1>0, <1>1, <2>1 DEF FSState, SetFile
<1>3. n.file[f] = r /\ \A e \in FileId : e # f => n.file[e] = m.file[e]
  BY <1>0, <1>1
<1>4. SameTree(m, n)
  BY <1>1 DEF SameTree
<1>5. ASSUME NEW g \in Count(Inode), RefsAre(n, g) PROVE Good(n, g, t)
  <2>1. LinksAre(n, t) /\ NamesAre(n, t) /\ Unlinked(n) /\ Plain(n)
    BY <1>1 DEF Good, LinksAre, NamesAre, Unlinked, Plain, InCore
  <2>2. Dotted(n) /\ Sized(n) /\ Lengths(n) /\ OneName(n)
    BY <1>1 DEF Good, Dotted, Sized, Lengths, OneName, Used
  <2> QED BY <1>0, <1>1, <1>2, <1>5, <2>1, <2>2 DEF Good
<1>6. ASSUME NEW i \in Inode
      PROVE  /\ Cardinality(Opened(m, i)) \in Nat /\ Cardinality(Opened(n, i)) \in Nat
             /\ Cardinality(Opened(n, i)) + (IF m.file[f].vnode = i THEN 1 ELSE 0)
                  = Cardinality(Opened(m, i)) + (IF r.vnode = i THEN 1 ELSE 0)
  <2>1. IsFiniteSet(Opened(m, i)) /\ IsFiniteSet(Opened(n, i))
    BY Basics, FS_Subset DEF Opened
  <2>2. /\ f \in Opened(m, i) <=> m.file[f].vnode = i
        /\ f \in Opened(n, i) <=> r.vnode = i
        /\ \A e : e # f => (e \in Opened(n, i) <=> e \in Opened(m, i))
    BY <1>3 DEF Opened
  <2>3. /\ Cardinality(Opened(n, i)) \in Nat /\ Cardinality(Opened(m, i)) \in Nat
        /\ Cardinality(Opened(n, i)) + (IF f \in Opened(m, i) THEN 1 ELSE 0)
             = Cardinality(Opened(m, i)) + (IF f \in Opened(n, i) THEN 1 ELSE 0)
    BY <2>1, <2>2, OneMoves
  <2> QED BY ONLY <2>2, <2>3
<1>7. \A i \in Inode : m.vref[i] = Cardinality(Opened(m, i)) + h[i] /\ h[i] \in Nat
  BY <1>0, InUse
<1>8. r.vnode = m.file[f].vnode => Good(n, h, t)
  <2>1. ASSUME r.vnode = m.file[f].vnode PROVE RefsAre(n, h)
    BY <1>1, <1>6, <1>7, <2>1 DEF RefsAre
  <2> QED BY <1>0, <1>5, <2>1
<1>9. m.file[f].vnode \in Inode /\ r.vnode = NULL => Good(n, Plus(h, m.file[f].vnode), t)
  <2> DEFINE v == m.file[f].vnode
  <2>1. ASSUME v \in Inode, r.vnode = NULL PROVE Good(n, Plus(h, v), t)
    <3>1. /\ Plus(h, v) \in Count(Inode) /\ Plus(h, v)[v] = h[v] + 1
          /\ \A i \in Inode : i # v => Plus(h, v)[i] = h[i]
      BY <1>0, <2>1, Counting
    <3>2. NULL \notin Inode
      BY Basics
    <3>3. \A i \in Inode : n.vref[i] = Cardinality(Opened(n, i)) + Plus(h, v)[i]
      BY <1>1, <1>6, <1>7, <2>1, <3>1, <3>2
    <3> QED BY <1>5, <3>1, <3>3 DEF RefsAre
  <2> QED BY <2>1
<1>10. ASSUME NEW g \in Count(Inode), m.file[f].vnode = NULL, r.vnode \in Inode,
              h = Plus(g, r.vnode)
       PROVE  Good(n, g, t)
  <2>1. /\ h[r.vnode] = g[r.vnode] + 1
        /\ \A i \in Inode : g[i] \in Nat /\ (i # r.vnode => h[i] = g[i])
    BY <1>10, Counting
  <2>2. NULL \notin Inode
    BY Basics
  <2>3. \A i \in Inode : n.vref[i] = Cardinality(Opened(n, i)) + g[i]
    BY <1>1, <1>6, <1>7, <1>10, <2>1, <2>2
  <2> QED BY <1>5, <2>3 DEF RefsAre
<1> QED BY <1>0, <1>1, <1>3, <1>4, <1>8, <1>9, <1>10

\* vput does not look at the open files.
LEMMA VputOfFiles ==
  ASSUME NEW m \in FSState, NEW i \in Inode, m.vref[i] > 0, NEW f \in FileId, NEW r
  PROVE  vput(SetFile(m, f, r), i) = SetFile(vput(m, i), f, r)
<1> DEFINE n == SetFile(m, f, r)
<1>1. /\ n.inode = m.inode /\ n.dirent = m.dirent /\ n.vref = m.vref /\ n.vlen = m.vlen
      /\ m.vref \in [Inode -> Nat] /\ m.inode \in [Inode -> InodeRec]
      /\ m.vref[i] \in Nat
  BY DEF FSState, SetFile, Numbers, Inodes
<1>2. CASE m.vref[i] > 1
  <2>1. vput(m, i) = [m EXCEPT !.vref[i] = @ - 1] /\ vput(n, i) = [n EXCEPT !.vref[i] = @ - 1]
    BY <1>1, <1>2 DEF vput
  <2> QED BY <2>1 DEF SetFile, FSState
<1>3. CASE m.vref[i] = 1 /\ m.inode[i].links > 1
  <2>1. /\ vput(m, i) = [m EXCEPT !.vref[i] = 0, !.vlen[i] = 0, !.inode[i].links = @ - 1]
        /\ vput(n, i) = [n EXCEPT !.vref[i] = 0, !.vlen[i] = 0, !.inode[i].links = @ - 1]
    BY <1>1, <1>3 DEF vput, ramfs_delete_vnode, SetFile, FSState
  <2> QED BY <2>1 DEF SetFile, FSState
<1>4. CASE m.vref[i] = 1 /\ ~(m.inode[i].links > 1)
  <2>1. /\ vput(m, i) = [m EXCEPT !.vref[i] = 0, !.vlen[i] = 0, !.inode[i] = FreeInode,
                                  !.dirent[i] = NoEntries]
        /\ vput(n, i) = [n EXCEPT !.vref[i] = 0, !.vlen[i] = 0, !.inode[i] = FreeInode,
                                  !.dirent[i] = NoEntries]
    BY <1>1, <1>4 DEF vput, ramfs_delete_vnode, SetFile, FSState
  <2> QED BY <2>1 DEF SetFile, FSState
<1> QED BY <1>1, <1>2, <1>3, <1>4

LEMMA FreeFileIs == FreeFile \in FileRec /\ FreeFile.vnode = NULL /\ FreeFile.ref = 0
BY DEF FreeFile, FileRec

\* fref and fput keep f_refcount and the vnodes right.
LEMMA Fref ==
  ASSUME NEW m, NEW h, NEW t, Good(m, h, t), NEW g \in Count(FileId), FilesAre(m, g),
         NEW f \in FileId, g[f] > 0, NEW n, n = fref(m, f)
  PROVE  /\ Good(n, h, t) /\ FilesAre(n, Plus(g, f)) /\ SameTree(m, n)
         /\ n.vref = m.vref /\ n.vlen = m.vlen /\ n.inode = m.inode
         /\ \A e \in FileId : n.file[e].vnode = m.file[e].vnode /\ n.file[e].pos = m.file[e].pos
<1> DEFINE r == [m.file[f] EXCEPT !.ref = @ + 1]
<1>1. /\ m.file \in [FileId -> FileRec] /\ m.file[f] \in FileRec
      /\ m.file[f].ref \in Nat /\ m.file[f].ref = g[f]
  BY DEF Good, FSState, OpenFiles, FileRec, FilesAre
<1>2. r \in FileRec /\ r.vnode = m.file[f].vnode /\ r.ref = g[f] + 1 /\ r.pos = m.file[f].pos
  BY <1>1 DEF FileRec
<1>3. n = SetFile(m, f, r)
  BY <1>1 DEF fref, SetFile, Good, FSState
<1> HIDE DEF r
<1>4. /\ n.file[f] = r /\ \A e \in FileId : e # f => n.file[e] = m.file[e]
      /\ SameTree(m, n) /\ n.vref = m.vref /\ n.vlen = m.vlen /\ n.inode = m.inode
      /\ Good(n, h, t)
  BY <1>2, <1>3, FileSet
<1>5. FilesAre(n, Plus(g, f))
  <2>1. Plus(g, f)[f] = g[f] + 1 /\ \A e \in FileId : g[e] \in Nat /\ (e # f => Plus(g, f)[e] = g[e])
    BY Counting
  <2>2. (m.file[f].ref = 0) <=> (m.file[f].vnode = NULL)
    BY DEF FilesAre
  <2> QED BY <1>1, <1>2, <1>4, <2>1, <2>2 DEF FilesAre
<1> QED BY <1>2, <1>4, <1>5

LEMMA Fput ==
  ASSUME NEW m, NEW h, NEW t, Good(m, h, t), NEW g \in Count(FileId), NEW f \in FileId,
         FilesAre(m, Plus(g, f)), NEW n, n = fput(m, f)
  PROVE  Good(n, h, t) /\ FilesAre(n, g) /\ Freed(m, n)
<1>1. /\ m.file \in [FileId -> FileRec] /\ m.file[f] \in FileRec /\ m \in FSState
      /\ m.file[f].ref \in Nat /\ m.file[f].vnode \in Inode \cup {NULL}
      /\ h \in Count(Inode)
  BY DEF Good, FSState, OpenFiles, FileRec
<1>2. /\ Plus(g, f)[f] = g[f] + 1
      /\ \A e \in FileId : g[e] \in Nat /\ (e # f => Plus(g, f)[e] = g[e])
  BY Counting
<1>3. /\ m.file[f].ref = g[f] + 1
      /\ (m.file[f].ref = 0) <=> (m.file[f].vnode = NULL)
      /\ \A e \in FileId : e # f => /\ m.file[e].ref = g[e]
                                    /\ (m.file[e].ref = 0) <=> (m.file[e].vnode = NULL)
  BY <1>2 DEF FilesAre
<1>4. m.file[f].vnode \in Inode
  BY <1>1, <1>2, <1>3
<1>5. CASE g[f] > 0
  <2> DEFINE r == [m.file[f] EXCEPT !.ref = @ - 1]
  <2>1. r \in FileRec /\ r.vnode = m.file[f].vnode /\ r.ref = g[f]
    BY <1>1, <1>2, <1>3, <1>5 DEF FileRec
  <2>2. n = SetFile(m, f, r)
    BY <1>1, <1>2, <1>3, <1>5 DEF fput, SetFile, FSState
  <2> HIDE DEF r
  <2>3. /\ n.file[f] = r /\ \A e \in FileId : e # f => n.file[e] = m.file[e]
        /\ SameTree(m, n) /\ Good(n, h, t)
    BY <2>1, <2>2, FileSet
  <2>4. FilesAre(n, g)
    BY <1>2, <1>3, <1>4, <1>5, <2>1, <2>3, Basics DEF FilesAre
  <2> QED BY <2>3, <2>4, SameTreeFacts
<1>6. CASE g[f] = 0
  <2> DEFINE v == m.file[f].vnode
             k == SetFile(m, f, FreeFile)
  <2>1. f \in Opened(m, v)
    BY DEF Opened
  <2>2. m.vref[v] > 0
    BY <1>4, <2>1, InUse
  <2>3. n = SetFile(vput(m, v), f, FreeFile)
    BY <1>3, <1>4, <1>6, Basics DEF fput, SetFile
  <2>4. n = vput(k, v)
    BY <1>1, <1>4, <2>2, <2>3, VputOfFiles
  <2>5. /\ k.file[f] = FreeFile /\ \A e \in FileId : e # f => k.file[e] = m.file[e]
        /\ SameTree(m, k) /\ Good(k, Plus(h, v), t)
    BY <1>4, FreeFileIs, FileSet
  <2> HIDE DEF k, v
  <2>6. Good(n, h, t) /\ Freed(k, n) /\ n.file = k.file
    BY <1>1, <1>4, <2>4, <2>5, Put DEF v
  <2>7. Freed(m, n)
    BY <2>5, <2>6 DEF SameTree, Freed
  <2>8. FilesAre(n, g)
    BY <1>2, <1>3, <1>6, <2>5, <2>6, FreeFileIs DEF FilesAre
  <2> QED BY <2>6, <2>7, <2>8
<1> QED BY <1>2, <1>5, <1>6

-----------------------------------------------------------------------------
(* Who holds what.                                                         *)

OtherFds(fl, l, p, fd) == \A q \in Proc, e \in Fd : ~(q = p /\ e = fd) => l[q][e] = fl[q][e]

LEMMA FiniteHolders ==
  ASSUME NEW fl, NEW rd, NEW wd
  PROVE  /\ \A f : IsFiniteSet(Descriptors(fl, f)) /\ Cardinality(Descriptors(fl, f)) \in Nat
         /\ \A f : IsFiniteSet(Readers(rd, f)) /\ Cardinality(Readers(rd, f)) \in Nat
         /\ \A i : IsFiniteSet(Workers(wd, i)) /\ Cardinality(Workers(wd, i)) \in Nat
<1>1. IsFiniteSet(Proc \X Fd)
  BY Basics, FS_Product
<1>2. \A f : Descriptors(fl, f) \subseteq Proc \X Fd
  BY DEF Descriptors
<1>3. /\ \A f : Readers(rd, f) \subseteq Proc
      /\ \A i : Workers(wd, i) \subseteq Proc
  BY DEF Readers, Workers
<1>4. ASSUME NEW f PROVE IsFiniteSet(Descriptors(fl, f)) /\ Cardinality(Descriptors(fl, f)) \in Nat
  BY <1>1, <1>2, FS_Subset, FS_CardinalityType
<1>5. ASSUME NEW f PROVE IsFiniteSet(Readers(rd, f)) /\ Cardinality(Readers(rd, f)) \in Nat
  BY <1>3, Basics, FS_Subset, FS_CardinalityType
<1>6. ASSUME NEW i PROVE IsFiniteSet(Workers(wd, i)) /\ Cardinality(Workers(wd, i)) \in Nat
  BY <1>3, Basics, FS_Subset, FS_CardinalityType
<1> QED BY <1>4, <1>5, <1>6

LEMMA UsersCount ==
  ASSUME NEW fl, NEW rd
  PROVE  /\ Users(fl, rd) \in Count(FileId)
         /\ \A f \in FileId :
              /\ Users(fl, rd)[f] = Cardinality(Descriptors(fl, f)) + Cardinality(Readers(rd, f))
              /\ Cardinality(Descriptors(fl, f)) \in Nat /\ Cardinality(Readers(rd, f)) \in Nat
BY FiniteHolders DEF Users, Count

\* One descriptor more that refers to f.
Gains(fl, l, p, fd, f) == fl[p][fd] = NULL /\ l[p][fd] = f /\ OtherFds(fl, l, p, fd)

LEMMA DescriptorAdded ==
  ASSUME NEW fl, NEW l, NEW rd, NEW p \in Proc, NEW fd \in Fd, NEW f \in FileId,
         Gains(fl, l, p, fd, f)
  PROVE  Users(l, rd) = Plus(Users(fl, rd), f)
<1>0. fl[p][fd] = NULL /\ l[p][fd] = f /\ OtherFds(fl, l, p, fd)
  BY DEF Gains
<1>1. ASSUME NEW e \in FileId
      PROVE  Cardinality(Descriptors(l, e))
               = Cardinality(Descriptors(fl, e)) + (IF e = f THEN 1 ELSE 0)
  <2>1. IsFiniteSet(Descriptors(l, e)) /\ IsFiniteSet(Descriptors(fl, e))
    BY FiniteHolders
  <2>2. ASSUME NEW x, x # <<p, fd>> PROVE x \in Descriptors(l, e) <=> x \in Descriptors(fl, e)
    <3>1. CASE x \in Proc \X Fd
      <4>1. x[1] \in Proc /\ x[2] \in Fd /\ x = <<x[1], x[2]>>
        BY <3>1, PairOf
      <4>2. l[x[1]][x[2]] = fl[x[1]][x[2]]
        BY <1>0, <2>2, <4>1 DEF OtherFds
      <4> QED BY <4>2 DEF Descriptors
    <3>2. CASE x \notin Proc \X Fd
      BY <3>2 DEF Descriptors
    <3> QED BY <3>1, <3>2
  <2>3. /\ <<p, fd>> \notin Descriptors(fl, e)
        /\ <<p, fd>> \in Descriptors(l, e) <=> e = f
    <3>1. NULL # e
      BY Basics
    <3> QED BY <1>0, <3>1 DEF Descriptors
  <2>4. /\ Cardinality(Descriptors(l, e)) \in Nat /\ Cardinality(Descriptors(fl, e)) \in Nat
        /\ Cardinality(Descriptors(l, e)) + (IF <<p, fd>> \in Descriptors(fl, e) THEN 1 ELSE 0)
             = Cardinality(Descriptors(fl, e)) + (IF <<p, fd>> \in Descriptors(l, e) THEN 1 ELSE 0)
    BY <2>1, <2>2, OneMoves
  <2> QED BY ONLY <2>3, <2>4
<1>2. \A e \in FileId : Users(l, rd)[e] = Users(fl, rd)[e] + (IF e = f THEN 1 ELSE 0)
  BY <1>1, UsersCount
<1>3. Users(l, rd) \in Count(FileId) /\ Users(fl, rd) \in Count(FileId)
  BY UsersCount
<1> QED BY <1>2, <1>3 DEF Count, Plus

\* One reader more.
LEMMA ReaderAdded ==
  ASSUME NEW fl, NEW rd, NEW r, NEW p \in Proc, NEW f \in FileId,
         rd[p] = NULL, r[p] = f, \A q \in Proc : q # p => r[q] = rd[q]
  PROVE  Users(fl, r) = Plus(Users(fl, rd), f)
<1>1. ASSUME NEW e \in FileId
      PROVE  Cardinality(Readers(r, e)) = Cardinality(Readers(rd, e)) + (IF e = f THEN 1 ELSE 0)
  <2>1. IsFiniteSet(Readers(r, e)) /\ IsFiniteSet(Readers(rd, e))
    BY FiniteHolders
  <2>2. \A x : x # p => (x \in Readers(r, e) <=> x \in Readers(rd, e))
    BY DEF Readers
  <2>3. p \notin Readers(rd, e) /\ (p \in Readers(r, e) <=> e = f)
    <3>1. NULL # e
      BY Basics
    <3> QED BY <3>1 DEF Readers
  <2>4. /\ Cardinality(Readers(r, e)) \in Nat /\ Cardinality(Readers(rd, e)) \in Nat
        /\ Cardinality(Readers(r, e)) + (IF p \in Readers(rd, e) THEN 1 ELSE 0)
             = Cardinality(Readers(rd, e)) + (IF p \in Readers(r, e) THEN 1 ELSE 0)
    BY <2>1, <2>2, OneMoves
  <2> QED BY ONLY <2>3, <2>4
<1>2. \A e \in FileId : Users(fl, r)[e] = Users(fl, rd)[e] + (IF e = f THEN 1 ELSE 0)
  BY <1>1, UsersCount
<1>3. Users(fl, r) \in Count(FileId) /\ Users(fl, rd) \in Count(FileId)
  BY UsersCount
<1> QED BY <1>2, <1>3 DEF Count, Plus

LEMMA HoldersCount ==
  ASSUME NEW wd, NEW pw, NEW lk \in Count(Inode)
  PROVE  /\ Holders(wd, pw, lk) \in Count(Inode)
         /\ \A i \in Inode :
              /\ Holders(wd, pw, lk)[i] = Cardinality(Workers(wd, i))
                   + (IF i = Root /\ pw = "on" THEN 1 ELSE 0) + lk[i]
              /\ Cardinality(Workers(wd, i)) \in Nat /\ lk[i] \in Nat
BY FiniteHolders DEF Holders, Count

\* One more process that works in the directory i.
Comes(wd, w, p, i) == wd[p] = NULL /\ w[p] = i /\ \A q \in Proc : q # p => w[q] = wd[q]

LEMMA WorkerAdded ==
  ASSUME NEW wd, NEW w, NEW pw, NEW lk \in Count(Inode), NEW p \in Proc, NEW i \in Inode,
         Comes(wd, w, p, i)
  PROVE  Holders(w, pw, lk) = Plus(Holders(wd, pw, lk), i)
<1>1. ASSUME NEW e \in Inode
      PROVE  Cardinality(Workers(w, e)) = Cardinality(Workers(wd, e)) + (IF e = i THEN 1 ELSE 0)
  <2>1. IsFiniteSet(Workers(w, e)) /\ IsFiniteSet(Workers(wd, e))
    BY FiniteHolders
  <2>2. \A x : x # p => (x \in Workers(w, e) <=> x \in Workers(wd, e))
    BY DEF Workers, Comes
  <2>3. p \notin Workers(wd, e) /\ (p \in Workers(w, e) <=> e = i)
    <3>1. NULL # e
      BY Basics
    <3> QED BY <3>1 DEF Workers, Comes
  <2>4. /\ Cardinality(Workers(w, e)) \in Nat /\ Cardinality(Workers(wd, e)) \in Nat
        /\ Cardinality(Workers(w, e)) + (IF p \in Workers(wd, e) THEN 1 ELSE 0)
             = Cardinality(Workers(wd, e)) + (IF p \in Workers(w, e) THEN 1 ELSE 0)
    BY <2>1, <2>2, OneMoves
  <2> QED BY ONLY <2>3, <2>4
<1>2. \A e \in Inode : Holders(w, pw, lk)[e] = Holders(wd, pw, lk)[e] + (IF e = i THEN 1 ELSE 0)
  BY <1>1, HoldersCount
<1>3. Holders(w, pw, lk) \in Count(Inode) /\ Holders(wd, pw, lk) \in Count(Inode)
  BY HoldersCount
<1> QED BY <1>2, <1>3 DEF Count, Plus

\* One more reference that do_link has lost.
LEMMA LeakAdded ==
  ASSUME NEW wd, NEW pw, NEW lk \in Count(Inode), NEW i \in Inode
  PROVE  Holders(wd, pw, Plus(lk, i)) = Plus(Holders(wd, pw, lk), i)
<1>1. /\ Plus(lk, i) \in Count(Inode)
      /\ \A e \in Inode : Plus(lk, i)[e] = lk[e] + (IF e = i THEN 1 ELSE 0)
  BY DEF Count, Plus
<1>2. \A e \in Inode : Holders(wd, pw, Plus(lk, i))[e]
        = Holders(wd, pw, lk)[e] + (IF e = i THEN 1 ELSE 0)
  BY <1>1, HoldersCount
<1>3. Holders(wd, pw, Plus(lk, i)) \in Count(Inode) /\ Holders(wd, pw, lk) \in Count(Inode)
  BY <1>1, HoldersCount
<1> DEFINE new == Holders(wd, pw, Plus(lk, i))
           old == Holders(wd, pw, lk)
<1>4. new = Plus(old, i)
  <2>1. new \in Count(Inode) /\ old \in Count(Inode)
        /\ \A e \in Inode : new[e] = old[e] + (IF e = i THEN 1 ELSE 0)
    BY <1>2, <1>3
  <2> HIDE DEF new, old
  <2> QED BY <2>1 DEF Count, Plus
<1> QED BY <1>4

\* Whoever holds something is counted.
LEMMA Counted ==
  ASSUME NEW fl, NEW rd, NEW wd, NEW pw, NEW lk \in Count(Inode), NEW p \in Proc
  PROVE  /\ \A fd \in Fd, f \in FileId : fl[p][fd] = f => Users(fl, rd)[f] > 0
         /\ \A f \in FileId : rd[p] = f => Users(fl, rd)[f] > 0
         /\ \A i \in Inode : wd[p] = i => Holders(wd, pw, lk)[i] > 0
<1>1. ASSUME NEW fd \in Fd, NEW f \in FileId, fl[p][fd] = f PROVE Users(fl, rd)[f] > 0
  <2>1. <<p, fd>> \in Descriptors(fl, f)
    BY <1>1 DEF Descriptors
  <2>2. Cardinality(Descriptors(fl, f)) # 0
    BY <2>1, FiniteHolders, FS_EmptySet
  <2> QED BY <2>2, UsersCount
<1>2. ASSUME NEW f \in FileId, rd[p] = f PROVE Users(fl, rd)[f] > 0
  <2>1. p \in Readers(rd, f)
    BY <1>2 DEF Readers
  <2>2. Cardinality(Readers(rd, f)) # 0
    BY <2>1, FiniteHolders, FS_EmptySet
  <2> QED BY <2>2, UsersCount
<1>3. ASSUME NEW i \in Inode, wd[p] = i PROVE Holders(wd, pw, lk)[i] > 0
  <2>1. p \in Workers(wd, i)
    BY <1>3 DEF Workers
  <2>2. Cardinality(Workers(wd, i)) # 0
    BY <2>1, FiniteHolders, FS_EmptySet
  <2> QED BY <2>2, HoldersCount
<1> QED BY <1>1, <1>2, <1>3

-----------------------------------------------------------------------------
(* Paths in a system call.                                                 *)

LEMMA FreedTwice ==
  ASSUME NEW m, NEW n, NEW k, Freed(m, n), Freed(n, k)
  PROVE  Freed(m, k)
BY DEF Freed

LEMMA GrownSame ==
  ASSUME NEW m, NEW c, SameTree(m, c), c.file = m.file, NEW n \in FSState, NEW i, Grown(c, n, i),
         NEW k, SameTree(n, k), k.file = n.file
  PROVE  Grown(m, k, i)
<1>1. /\ c.dirent = m.dirent /\ \A j \in Inode : c.inode[j].mode = m.inode[j].mode
      /\ k.dirent = n.dirent /\ \A j \in Inode : k.inode[j].mode = n.inode[j].mode
  BY DEF SameTree
<1>2. \A j \in Inode : Entries(c, j) = Entries(m, j) /\ Entries(k, j) = Entries(n, j)
  BY SameTreeFacts, EntriesTheSame
<1>3. \A j \in Inode : n.dirent[j][2].ino \in Inode
  BY Basics DEF FSState, Dirents, Entry
<1> QED BY <1>1, <1>2, <1>3 DEF Grown

\* A name that is not in a directory is a name of the user.
LEMMA NewName ==
  ASSUME NEW m, NEW h, NEW t, Good(m, h, t), NEW d \in Inode, m.inode[d].mode = "dir",
         NEW name \in Component, SlotsOf(m, d, name) = {}
  PROVE  name \in Name
<1>1. m.dirent[d][1] = [name |-> ".", ino |-> d] /\ m.dirent[d][2].name = ".."
  BY DEF Good, Dotted
<1>2. m.dirent[d][1].name = "." /\ m.dirent[d][2].name = ".."
  BY <1>1
<1>3. name \notin Dots
  BY <1>2, Basics DEF SlotsOf, Dots
<1> QED BY <1>3 DEF Component

\* So is the name of anything but a directory.
LEMMA NameOfFile ==
  ASSUME NEW m, NEW h, NEW t, Good(m, h, t), Parents(m), NEW d \in Inode,
         m.inode[d].mode = "dir", NEW name \in Component, SlotsOf(m, d, name) # {},
         m.inode[InoOf(m, d, name)].mode # "dir"
  PROVE  name \in Name
<1>1. SlotOf(m, d, name) \in Slot /\ m.dirent[d][SlotOf(m, d, name)].name = name
  BY LeastSlot
<1> DEFINE s == SlotOf(m, d, name)
<1>2. /\ m.dirent[d][1] = [name |-> ".", ino |-> d]
      /\ \A u \in Slot \ {1, 2} : m.dirent[d][u].name \notin Dots
  BY DEF Good, Dotted
<1>3. m.dirent[d][s].ino = InoOf(m, d, name)
  BY DEF InoOf
<1> HIDE DEF s
<1>4. ASSUME name \in Dots PROVE FALSE
  <2>1. s \in {1, 2}
    <3>1. s \in Slot /\ m.dirent[d][s].name \in Dots
      BY <1>1, <1>4 DEF s
    <3> QED BY <1>2, <3>1
  <2>2. s # 1
    <3>1. m.dirent[d][1].ino = d
      BY <1>2
    <3> QED BY <1>3, <3>1
  <2>3. m.inode[m.dirent[d][2].ino].mode = "dir"
    BY DEF Parents
  <2> QED BY <1>3, <2>1, <2>2, <2>3
<1> QED BY <1>4 DEF Component

\* The file was not there, and was made.
Made(m, h, t, r) ==
  /\ IsAnswer(r) /\ r.err = "ok"
  /\ Good(r.m, Plus(h, r.ino), Plus(t, r.ino)) /\ Grown(m, r.m, r.ino)
  /\ r.m.inode[r.ino].mode = "file"

LEMMA FileFound ==
  ASSUME NEW m, NEW h, NEW t, Good(m, h, t), Parents(m), NEW d, Walked(m, h, t, d),
         d.err = "ok" => m.inode[d.ino].mode = "dir", NEW name \in Component, NEW creat,
         NEW r, r = OpenIn(d, name, creat)
  PROVE  Walked(m, h, t, r) \/ (creat /\ Made(m, h, t, r))
<1> DEFINE new == d.err = "ok" /\ Find(d.m, d.ino, name).err = "ENOENT" /\ creat
                  /\ HasRoom(d.m, d.ino)
<1>1. CASE ~new
  <2>1. r = Descend(d, name)
    BY <1>1 DEF OpenIn, Descend
  <2> QED BY <2>1, Descended
<1>2. CASE new
  <2> DEFINE i == Min(FreeInodes(d.m))
             n == ramfs_create(d.m, d.ino, name)
             k == vput(n, d.ino)
  <2>1. r = [err |-> "ok", ino |-> i, m |-> k]
    BY <1>2 DEF OpenIn
  <2>2. /\ d.ino \in Inode /\ SameTree(m, d.m) /\ d.m.file = m.file
        /\ Good(d.m, Plus(h, d.ino), t) /\ Anchored(m, h, t, d.ino)
        /\ h \in Count(Inode) /\ t \in Count(Inode)
    BY <1>2 DEF Walked, IsAnswer, Good
  <2>3. d.m.inode[d.ino].mode = "dir" /\ SlotsOf(d.m, d.ino, name) = {}
    <3>1. d.m.inode[d.ino].mode = "dir"
      BY <1>2, <2>2 DEF SameTree
    <3> QED BY <1>2, <3>1 DEF Find
  <2>4. name \in Name
    BY <2>2, <2>3, NewName
  <2>5. HasRoom(d.m, d.ino) /\ creat
    BY <1>2
  <2> HIDE DEF new
  <2>6. Good(n, Plus(Plus(h, d.ino), i), Plus(t, i)) /\ Grown(d.m, n, i) /\ n.inode[i].mode = "file"
    BY <2>2, <2>3, <2>4, <2>5, Create
  <2> HIDE DEF n, i
  <2>7. i \in Inode /\ n.file = d.m.file
    BY <2>6 DEF Grown
  <2>8. Good(n, Plus(Plus(h, i), d.ino), Plus(t, i))
    BY <2>2, <2>6, <2>7, Counting
  <2>9. Plus(h, i) \in Count(Inode)
    BY <2>2, <2>7, Counting
  <2>10. Anchored(n, Plus(h, i), Plus(t, i), d.ino)
    <3>1. Plus(h, i)[d.ino] >= h[d.ino] /\ Plus(t, i)[d.ino] >= t[d.ino]
      BY <2>2, <2>7, Counting
    <3>2. /\ h[d.ino] \in Nat /\ t[d.ino] \in Nat
          /\ Plus(h, i)[d.ino] \in Nat /\ Plus(t, i)[d.ino] \in Nat
      <4>1. Plus(t, i) \in Count(Inode)
        BY <2>2, <2>7, Counting
      <4> QED BY <2>2, <2>9, <4>1 DEF Count
    <3> QED BY <2>2, <2>7, <3>1, <3>2 DEF Anchored, Opened
  <2>11. Good(k, Plus(h, i), Plus(t, i)) /\ SameTree(n, k) /\ k.file = n.file
    BY <2>2, <2>8, <2>9, <2>10, Put
  <2> HIDE DEF k
  <2>12. k.inode[i].mode = "file"
    BY <2>6, <2>7, <2>11 DEF SameTree
  <2>13. Grown(m, k, i)
    <3>1. n \in FSState
      BY <2>8 DEF Good
    <3> QED BY <2>2, <2>6, <2>11, <3>1, GrownSame
  <2> QED BY <2>1, <2>5, <2>7, <2>11, <2>12, <2>13 DEF Made, IsAnswer, Answers
<1> QED BY <1>1, <1>2

-----------------------------------------------------------------------------
(* The parts of a system call.                                             *)

Hold == Holders(cwd, power, leaked)
Tot  == Total(fs, lost)
Use  == Users(files, reading)

LEMMA ReadyFacts ==
  ASSUME Ready
  PROVE  /\ Hold \in Count(Inode) /\ Tot \in Count(Inode) /\ Use \in Count(FileId)
         /\ Good(fs, Hold, Tot) /\ FilesAre(fs, Use) /\ Parents(fs)
         /\ fs.crash = NoCrash /\ fs \in FSState /\ leaked \in Count(Inode)
<1>1. leaked \in Count(Inode)
  BY DEF Ready, TypeOK, Count
<1>2. Good(fs, Hold, Tot) /\ FilesAre(fs, Use) /\ Parents(fs)
  BY DEF Ready, Hold, Tot, Use
<1>3. Hold \in Count(Inode) /\ Tot \in Count(Inode) /\ fs.crash = NoCrash /\ fs \in FSState
  BY <1>2 DEF Good
<1>4. Use \in Count(FileId)
  BY UsersCount DEF Use
<1> QED BY <1>1, <1>2, <1>3, <1>4

\* A call that changes nothing but the file system.
LEMMA FinishSame ==
  ASSUME IInv, Up, UNCHANGED <<files, cwd, reading, power, leaked>>,
         NEW m, NEW t, Ends(m, Hold, t), FilesAre(m, Use), Kernel(m), RecordLosses
  PROVE  IInv' /\ Kept
<1>1. Ready /\ fs.crash = NoCrash /\ power = "on" /\ ~orphan
  BY Start DEF Up
<1>2. Ends(m, Holders(cwd', power', leaked'), t) /\ FilesAre(m, Users(files', reading'))
  BY DEF Hold, Use
<1>3. ProcTypes' /\ Absent'
  BY <1>1 DEF ProcTypes, Absent, Ready, TypeOK
<1> QED BY <1>1, <1>2, <1>3, Finish

LEMMA FinishFreed ==
  ASSUME IInv, Up, UNCHANGED <<files, cwd, reading, power, leaked>>,
         NEW m, Good(m, Hold, Tot), Freed(fs, m), FilesAre(m, Use), Kernel(m), RecordLosses
  PROVE  IInv' /\ Kept
<1>1. Ends(m, Hold, Tot)
  BY Start, EndsFreed DEF Tot
<1> QED BY <1>1, FinishSame

LEMMA Stop ==
  ASSUME IInv, Up, UNCHANGED <<files, cwd, reading, power, leaked>>,
         NEW m, m.crash = NoCrash, m \in FSState,
         NEW why \in {"undefined", "memcpy", "ramfs_readdir"},
         Kernel(Crash(m, why)), RecordLosses
  PROVE  IInv' /\ Kept
<1>1. Crash(m, why).crash = why
  BY DEF Crash, FSState
<1>2. why # "vfs_shutdown"
  OBVIOUS
<1> QED BY <1>1, <1>2, FinishCrashed

\* The table of open files as it was.
LEMMA SameFiles ==
  ASSUME NEW m, NEW n, NEW g, n.file = m.file, FilesAre(m, g)
  PROVE  FilesAre(n, g)
BY DEF FilesAre

\* The directory that a path of p leads to, from a state m of the call.
LEMMA DirNamev ==
  ASSUME Ready, NEW p \in Proc, Running(p), NEW path \in Path,
         NEW m, NEW h, Good(m, h, Tot), Parents(m), \A i \in Inode : h[i] >= Hold[i],
         NEW r, r = dir_namev(m, p, path)
  PROVE  Walked(m, h, Tot, r) /\ (r.err = "ok" => m.inode[r.ino].mode = "dir")
<1> DEFINE base == IF path.abs THEN Root ELSE cwd[p]
<1>1. base \in Inode /\ Hold[base] > 0
  <2>1. power = "on" /\ cwd[p] \in Inode
    BY DEF Running, Up, Ready, TypeOK
  <2>2. Hold[Root] > 0
    <3>1. Hold[Root] = Cardinality(Workers(cwd, Root)) + 1 + leaked[Root]
          /\ Cardinality(Workers(cwd, Root)) \in Nat /\ leaked[Root] \in Nat
      BY <2>1, ReadyFacts, HoldersCount, Basics DEF Hold
    <3> QED BY <3>1
  <2>3. Hold[cwd[p]] > 0
    BY <2>1, ReadyFacts, Counted DEF Hold
  <2> QED BY <2>1, <2>2, <2>3, Basics
<1>2. h[base] > 0
  <2>1. h[base] \in Nat /\ Hold[base] \in Nat /\ h[base] >= Hold[base]
    BY <1>1, ReadyFacts DEF Good, Count
  <2> QED BY <1>1, <2>1
<1> QED BY <1>1, <1>2, DirectoryFound

LEMMA OpenNamev ==
  ASSUME Ready, NEW p \in Proc, Running(p), NEW path \in Path,
         NEW m, NEW h, Good(m, h, Tot), Parents(m), \A i \in Inode : h[i] >= Hold[i],
         NEW creat, NEW r, r = open_namev(m, p, path, creat)
  PROVE  Walked(m, h, Tot, r) \/ (creat /\ Made(m, h, Tot, r))
<1> DEFINE d == dir_namev(m, p, path)
<1>1. Walked(m, h, Tot, d) /\ (d.err = "ok" => m.inode[d.ino].mode = "dir")
  BY DirNamev
<1>2. r = OpenIn(d, path.name, creat)
  BY DEF open_namev
<1> HIDE DEF d
<1>3. path.name \in Component
  BY PathFacts
<1> QED BY <1>1, <1>2, <1>3, FileFound

\* The last component is looked up in that directory.
LEMMA LastComponent ==
  ASSUME NEW m, NEW h, NEW t, Good(m, h, t), Parents(m), NEW d, Walked(m, h, t, d),
         d.err = "ok", m.inode[d.ino].mode = "dir", NEW name \in Component,
         NEW e, e = lookup(d.m, d.ino, name)
  PROVE  /\ d.ino \in Inode /\ e.ino \in Inode /\ SameTree(m, d.m) /\ SameTree(m, e.m)
         /\ d.m.file = m.file /\ e.m.file = m.file
         /\ Good(d.m, Plus(h, d.ino), t) /\ h \in Count(Inode) /\ t \in Count(Inode)
         /\ d.m.inode[d.ino].mode = "dir" /\ e.m.inode[d.ino].mode = "dir"
         /\ e.err = "ok" =>
              /\ Good(e.m, Plus(Plus(h, d.ino), e.ino), t)
              /\ e.ino = InoOf(e.m, d.ino, name)
              /\ e.m.inode[e.ino].mode # "free" /\ SlotsOf(e.m, d.ino, name) # {}
         /\ e.err # "ok" =>
              /\ e.m = d.m /\ SlotsOf(e.m, d.ino, name) = {} /\ name \in Name
<1>1. /\ d.ino \in Inode /\ SameTree(m, d.m) /\ d.m.file = m.file
      /\ Good(d.m, Plus(h, d.ino), t) /\ h \in Count(Inode) /\ t \in Count(Inode)
  BY DEF Walked, IsAnswer, Good
<1>2. Parents(d.m) /\ d.m.inode[d.ino].mode = "dir"
  BY <1>1, SameTreeFacts DEF Good, SameTree
<1>3. /\ IsAnswer(e) /\ SameTree(d.m, e.m) /\ e.m.file = d.m.file
      /\ e.err = "ok" => /\ Good(e.m, Plus(Plus(h, d.ino), e.ino), t)
                         /\ d.m.inode[e.ino].mode # "free"
                         /\ e.ino = InoOf(d.m, d.ino, name)
                         /\ SlotsOf(d.m, d.ino, name) # {}
      /\ e.err # "ok" => e.m = d.m
  BY <1>1, <1>2, Lookup
<1>4. e.ino \in Inode /\ SameTree(m, e.m) /\ e.m.inode[d.ino].mode = "dir"
  BY <1>1, <1>2, <1>3, SameTreeFacts DEF IsAnswer, SameTree
<1>5. /\ SlotsOf(e.m, d.ino, name) = SlotsOf(d.m, d.ino, name)
      /\ InoOf(e.m, d.ino, name) = InoOf(d.m, d.ino, name)
  BY <1>3, SameTreeFacts
<1>6. ASSUME e.err # "ok" PROVE SlotsOf(d.m, d.ino, name) = {} /\ name \in Name
  <2>1. SlotsOf(d.m, d.ino, name) = {}
    <3>1. ASSUME SlotsOf(d.m, d.ino, name) # {} PROVE FALSE
      <4>1. Find(d.m, d.ino, name).err = "ok"
        BY <1>2, <3>1 DEF Find
      <4>2. e.err \in {"ok", "crash"}
        BY <4>1 DEF lookup, Held
      <4> QED BY <1>3, <1>6, <4>2 DEF IsAnswer, Answers
    <3> QED BY <3>1
  <2> QED BY <1>1, <1>2, <2>1, NewName
<1>7. ASSUME e.err = "ok" PROVE e.m.inode[e.ino].mode # "free"
  BY <1>3, <1>4, <1>7 DEF SameTree
<1> QED BY <1>1, <1>2, <1>3, <1>4, <1>5, <1>6, <1>7

\* One reference goes.
LEMMA PutOne ==
  ASSUME NEW m, NEW h \in Count(Inode), NEW t, NEW i \in Inode, Good(m, Plus(h, i), t),
         NEW n, n = vput(m, i)
  PROVE  /\ Good(n, h, t) /\ Freed(m, n) /\ n.file = m.file
         /\ Anchored(m, h, t, i) => SameTree(m, n)
BY Put

\* Two references go.
LEMMA PutTwo ==
  ASSUME NEW m, NEW h \in Count(Inode), NEW t, NEW i \in Inode, NEW j \in Inode,
         Good(m, Plus(Plus(h, i), j), t), NEW n, n = vput(vput(m, j), i)
  PROVE  Good(n, h, t) /\ Freed(m, n) /\ n.file = m.file
<1>1. Plus(h, i) \in Count(Inode)
  BY Counting
<1> DEFINE k == vput(m, j)
<1>2. Good(k, Plus(h, i), t) /\ Freed(m, k) /\ k.file = m.file
  BY <1>1, Put
<1>3. n = vput(k, i)
  OBVIOUS
<1> HIDE DEF k
<1>4. Good(n, h, t) /\ Freed(k, n) /\ n.file = k.file
  BY <1>2, <1>3, Put
<1> QED BY <1>2, <1>4, FreedTwice

\* In the other order.
LEMMA PutTwoBack ==
  ASSUME NEW m, NEW h \in Count(Inode), NEW t, NEW i \in Inode, NEW j \in Inode,
         Good(m, Plus(Plus(h, i), j), t), NEW n, n = vput(vput(m, i), j)
  PROVE  Good(n, h, t) /\ Freed(m, n) /\ n.file = m.file
<1>1. Good(m, Plus(Plus(h, j), i), t)
  BY Counting
<1> QED BY <1>1, PutTwo

-----------------------------------------------------------------------------
(* The calls that change names.                                            *)

LEMMA Stat ==
  ASSUME IInv, NEW p \in Proc, NEW path \in Path, do_stat(p, path), RecordLosses
  PROVE  IInv' /\ Kept
<1>1. /\ Running(p) /\ Up /\ UNCHANGED <<files, cwd, reading, power, leaked>> /\ Ready
      /\ path.name \in Component
  BY Start, PathFacts DEF do_stat, SameProcs, Running
<1> DEFINE d == dir_namev(fs, p, path)
           e == lookup(d.m, d.ino, path.name)
<1>2. Kernel(IF d.err # "ok" THEN Crash(d.m, "undefined")
             ELSE IF e.err = "ok" THEN vput(vput(e.m, e.ino), d.ino)
             ELSE vput(e.m, d.ino))
  BY DEF do_stat
<1>3. /\ Good(fs, Hold, Tot) /\ Parents(fs) /\ FilesAre(fs, Use)
      /\ \A i \in Inode : Hold[i] >= Hold[i]
  BY <1>1, ReadyFacts DEF Count
<1>4. Walked(fs, Hold, Tot, d) /\ (d.err = "ok" => fs.inode[d.ino].mode = "dir")
  BY <1>1, <1>3, DirNamev
<1> HIDE DEF d
<1>5. CASE d.err # "ok"
  <2>1. d.m.crash = NoCrash /\ d.m \in FSState
    BY <1>4, <1>5 DEF Walked, Good
  <2>2. Kernel(Crash(d.m, "undefined"))
    BY <1>2, <1>5
  <2> QED BY <1>1, <2>1, <2>2, Stop
<1>6. CASE d.err = "ok"
  <2>1. /\ d.ino \in Inode /\ e.ino \in Inode /\ SameTree(fs, e.m) /\ e.m.file = fs.file
        /\ Hold \in Count(Inode) /\ Good(d.m, Plus(Hold, d.ino), Tot)
        /\ e.err = "ok" => Good(e.m, Plus(Plus(Hold, d.ino), e.ino), Tot)
        /\ e.err # "ok" => e.m = d.m
    BY <1>1, <1>3, <1>4, <1>6, LastComponent
  <2> HIDE DEF e
  <2> DEFINE n == IF e.err = "ok" THEN vput(vput(e.m, e.ino), d.ino) ELSE vput(e.m, d.ino)
  <2>2. Good(n, Hold, Tot) /\ Freed(e.m, n) /\ n.file = e.m.file
    <3>1. CASE e.err = "ok"
      BY <2>1, <3>1, PutTwo
    <3>2. CASE e.err # "ok"
      <4>1. Good(e.m, Plus(Hold, d.ino), Tot) /\ n = vput(e.m, d.ino)
        BY <2>1, <3>2
      <4> HIDE DEF n
      <4> QED BY ONLY <2>1, <4>1, PutOne
    <3> QED BY <3>1, <3>2
  <2>3. Kernel(n)
    BY <1>2, <1>6
  <2> HIDE DEF n
  <2>4. Freed(fs, n) /\ FilesAre(n, Use)
    BY <1>3, <2>1, <2>2, SameTreeFacts, FreedTwice, SameFiles
  <2> QED BY <1>1, <2>2, <2>3, <2>4, FinishFreed
<1> QED BY <1>5, <1>6

\* A directory that a call has come to stays anchored.
LEMMA StillAnchored ==
  ASSUME NEW m, NEW n, n.file = m.file, NEW i \in Inode,
         NEW h \in Count(Inode), NEW g \in Count(Inode), g[i] >= h[i],
         NEW t \in Count(Inode), NEW u \in Count(Inode), u[i] >= t[i],
         Anchored(m, h, t, i)
  PROVE  Anchored(n, g, u, i)
<1>1. h[i] \in Nat /\ g[i] \in Nat /\ t[i] \in Nat /\ u[i] \in Nat
  BY DEF Count
<1> QED BY <1>1 DEF Anchored, Opened

LEMMA MoreCounted ==
  ASSUME NEW S, NEW c \in Count(S), NEW x \in S, NEW y \in S
  PROVE  Plus(c, x) \in Count(S) /\ Plus(c, x)[y] >= c[y] /\ c[y] >= c[y] /\ c[y] \in Nat
<1>1. c[y] \in Nat /\ c[x] \in Nat
  BY DEF Count
<1>2. Plus(c, x) \in Count(S) /\ Plus(c, x)[x] = c[x] + 1 /\ (y # x => Plus(c, x)[y] = c[y])
  BY Counting
<1> QED BY <1>1, <1>2

\* A name was added in the directory d, and the reference to d goes.
LEMMA EndsMade ==
  ASSUME Ready, NEW m, SameTree(fs, m), m.file = fs.file, NEW n, NEW i, Grown(m, n, i),
         NEW h \in Count(Inode), NEW d \in Inode, Good(n, Plus(h, d), Plus(Tot, i)),
         Anchored(fs, h, Tot, d), NEW k, k = vput(n, d)
  PROVE  Ends(k, h, Plus(Tot, i)) /\ k.file = fs.file
<1>1. i \in Inode /\ n.file = m.file
  BY DEF Grown
<1>2. Anchored(n, h, Plus(Tot, i), d)
  <2>1. /\ Tot \in Count(Inode) /\ Plus(Tot, i) \in Count(Inode)
        /\ Plus(Tot, i)[d] >= Tot[d] /\ h[d] >= h[d]
    BY <1>1, ReadyFacts, MoreCounted
  <2> QED BY <1>1, <2>1, StillAnchored
<1>3. Good(k, h, Plus(Tot, i)) /\ SameTree(n, k) /\ k.file = n.file
  BY <1>2, PutOne
<1>4. Ends(n, Plus(h, d), Plus(Tot, i))
  BY EndsGrown DEF Tot
<1> QED BY <1>1, <1>3, <1>4, EndsSame

\* x is m with a new inode of that name in the directory c.
MakesNode(m, c, nom, x) ==
  \A h, t : (Good(m, h, t) /\ c \in Inode /\ m.inode[c].mode = "dir" /\ HasRoom(m, c) /\ nom \in Name)
            => \E i : Good(x, h, Plus(t, i)) /\ Grown(m, x, i)

AfterMake(d, e, x) ==
  CASE d.err # "ok"    -> d.m
    [] d.err = "ok" /\ e.err = "ok" -> vput(vput(e.m, e.ino), d.ino)
    [] d.err = "ok" /\ e.err # "ok" -> vput(IF HasRoom(e.m, d.ino) THEN x ELSE e.m, d.ino)

\* do_mkdir and do_mknod, with x for the state after the new inode has its name.
LEMMA NodeMade ==
  ASSUME IInv, NEW p \in Proc, NEW path \in Path, Running(p), RecordLosses,
         UNCHANGED <<files, cwd, reading, power, leaked>>,
         NEW d, d = dir_namev(fs, p, path), NEW e, e = lookup(d.m, d.ino, path.name), NEW x,
         MakesNode(e.m, d.ino, path.name, x), Kernel(AfterMake(d, e, x))
  PROVE  IInv' /\ Kept
<1>1. Up /\ Ready /\ path.name \in Component
  BY Start, PathFacts DEF Running
<1>2. /\ Good(fs, Hold, Tot) /\ Parents(fs) /\ FilesAre(fs, Use)
      /\ \A i \in Inode : Hold[i] >= Hold[i]
  BY <1>1, ReadyFacts DEF Count
<1>3. Walked(fs, Hold, Tot, d) /\ (d.err = "ok" => fs.inode[d.ino].mode = "dir")
  BY <1>1, <1>2, DirNamev
<1>4. CASE d.err # "ok"
  <2>1. Kernel(d.m)
    BY <1>4 DEF AfterMake
  <2>2. Good(d.m, Hold, Tot) /\ SameTree(fs, d.m) /\ d.m.file = fs.file
    BY <1>3, <1>4 DEF Walked
  <2>3. Freed(fs, d.m) /\ FilesAre(d.m, Use)
    BY <1>2, <2>2, SameTreeFacts, SameFiles
  <2> QED BY <1>1, <2>1, <2>2, <2>3, FinishFreed
<1>5. CASE d.err = "ok"
  <2>1. /\ d.ino \in Inode /\ e.ino \in Inode /\ SameTree(fs, e.m) /\ e.m.file = fs.file
        /\ e.m.inode[d.ino].mode = "dir"
        /\ Hold \in Count(Inode) /\ Good(d.m, Plus(Hold, d.ino), Tot)
        /\ e.err = "ok" => Good(e.m, Plus(Plus(Hold, d.ino), e.ino), Tot)
        /\ e.err # "ok" => e.m = d.m /\ path.name \in Name
    BY <1>1, <1>2, <1>3, <1>5, LastComponent
  <2>2. Anchored(fs, Hold, Tot, d.ino)
    BY <1>3 DEF Walked
  <2>3. CASE e.err # "ok" /\ HasRoom(e.m, d.ino)
    <3>1. Good(e.m, Plus(Hold, d.ino), Tot) /\ path.name \in Name
      BY <2>1, <2>3
    <3>2. PICK i : Good(x, Plus(Hold, d.ino), Plus(Tot, i)) /\ Grown(e.m, x, i)
      BY <2>1, <2>3, <3>1 DEF MakesNode
    <3>3. Ends(vput(x, d.ino), Hold, Plus(Tot, i)) /\ vput(x, d.ino).file = fs.file
      BY <1>1, <2>1, <2>2, <3>2, EndsMade
    <3>4. Kernel(vput(x, d.ino))
      BY <1>5, <2>3 DEF AfterMake
    <3>5. FilesAre(vput(x, d.ino), Use)
      BY <1>2, <3>3, SameFiles
    <3> QED BY <1>1, <3>3, <3>4, <3>5, FinishSame
  <2>4. CASE ~(e.err # "ok" /\ HasRoom(e.m, d.ino))
    <3> DEFINE n == IF e.err = "ok" THEN vput(vput(e.m, e.ino), d.ino) ELSE vput(e.m, d.ino)
    <3>1. Good(n, Hold, Tot) /\ Freed(e.m, n) /\ n.file = e.m.file
      <4>1. CASE e.err = "ok"
        <5>1. n = vput(vput(e.m, e.ino), d.ino)
          BY <4>1
        <5> HIDE DEF n
        <5> QED BY <2>1, <4>1, <5>1, PutTwo
      <4>2. CASE e.err # "ok"
        <5>1. Good(e.m, Plus(Hold, d.ino), Tot) /\ n = vput(e.m, d.ino)
          BY <2>1, <4>2
        <5> HIDE DEF n
        <5> QED BY ONLY <2>1, <5>1, PutOne
      <4> QED BY <4>1, <4>2
    <3>2. Kernel(n)
      BY <1>5, <2>4 DEF AfterMake
    <3> HIDE DEF n
    <3>3. Freed(fs, n) /\ FilesAre(n, Use)
      BY <1>2, <2>1, <3>1, SameTreeFacts, FreedTwice, SameFiles
    <3> QED BY <1>1, <3>1, <3>2, <3>3, FinishFreed
  <2> QED BY <2>3, <2>4
<1> QED BY <1>4, <1>5

LEMMA DoMkdir ==
  ASSUME IInv, NEW p \in Proc, NEW path \in Path, do_mkdir(p, path), RecordLosses
  PROVE  IInv' /\ Kept
<1> DEFINE d == dir_namev(fs, p, path)
           e == lookup(d.m, d.ino, path.name)
           x == ramfs_mkdir(e.m, d.ino, path.name)
<1>1. /\ Running(p) /\ UNCHANGED <<files, cwd, reading, power, leaked>>
      /\ Kernel(AfterMake(d, e, x))
  BY DEF do_mkdir, MakeNode, SameProcs, AfterMake
<1>2. MakesNode(e.m, d.ino, path.name, x)
  <2> HIDE DEF d, e
  <2> QED BY Mkdir DEF MakesNode
<1>3. d = dir_namev(fs, p, path) /\ e = lookup(d.m, d.ino, path.name)
  OBVIOUS
<1> HIDE DEF x, e, d
<1> QED BY <1>1, <1>2, <1>3, NodeMade

LEMMA DoMknod ==
  ASSUME IInv, NEW p \in Proc, NEW path \in Path, do_mknod(p, path), RecordLosses
  PROVE  IInv' /\ Kept
<1> DEFINE d == dir_namev(fs, p, path)
           e == lookup(d.m, d.ino, path.name)
           x == ramfs_mknod(e.m, d.ino, path.name)
<1>1. /\ Running(p) /\ UNCHANGED <<files, cwd, reading, power, leaked>>
      /\ Kernel(AfterMake(d, e, x))
  BY DEF do_mknod, MakeNode, SameProcs, AfterMake
<1>2. MakesNode(e.m, d.ino, path.name, x)
  <2> HIDE DEF d, e
  <2> QED BY Mknod DEF MakesNode
<1>3. d = dir_namev(fs, p, path) /\ e = lookup(d.m, d.ino, path.name)
  OBVIOUS
<1> HIDE DEF x, e, d
<1> QED BY <1>1, <1>2, <1>3, NodeMade

\* A name of i goes.
Shrunk(m, c, i) ==
  /\ \A j \in Inode : c.inode[j].mode = m.inode[j].mode /\ c.dirent[j][2] = m.dirent[j][2]
  /\ \A j \in Inode : Entries(m, j) = Entries(c, j) + (IF j = i THEN 1 ELSE 0)
  /\ \A q \in Inode : IsEmpty(m, q) => IsEmpty(c, q)

LEMMA OneLess ==
  ASSUME NEW t \in Count(Inode), NEW i \in Inode, t[i] > 0
  PROVE  \E u \in Count(Inode) : t = Plus(u, i)
<1> DEFINE u == [j \in Inode |-> IF j = i THEN t[j] - 1 ELSE t[j]]
<1>1. \A j \in Inode : t[j] \in Nat
  BY DEF Count
<1>2. u \in Count(Inode)
  BY <1>1 DEF Count
<1>3. t = Plus(u, i)
  BY <1>1 DEF Plus, Count
<1> HIDE DEF u
<1> QED BY <1>2, <1>3

\* ramfs_unlink and ramfs_rmdir: the entry and its link go, then the reference.
LEMMA Removed ==
  ASSUME NEW m, NEW h, NEW t, Good(m, h, t), NEW d \in Inode, m.inode[d].mode = "dir",
         NEW nom \in Name, SlotsOf(m, d, nom) # {}, NEW i \in Inode, i = InoOf(m, d, nom),
         m.inode[i].mode # "free", \A j \in Inode : t[j] >= Entries(m, j),
         NEW n, n = ramfs_unlink(m, d, nom)
  PROVE  \E u \in Count(Inode) : \E c :
           /\ t = Plus(u, i) /\ Good(c, Plus(h, i), u) /\ n = vput(c, i)
           /\ c.file = m.file /\ Shrunk(m, c, i)
<1> DEFINE g  == vget(m, i)
           c0 == ClearEntry(g, d, nom)
           k  == c0.inode[i].links - 1
           c  == SetLinks(c0, i, k)
<1>1. Good(g, Plus(h, i), t) /\ SameTree(m, g) /\ g.file = m.file
  BY Get
<1>2. /\ g.inode[d].mode = "dir" /\ SlotsOf(g, d, nom) # {} /\ i = InoOf(g, d, nom)
      /\ \A j \in Inode : g.inode[j].mode = m.inode[j].mode
      /\ g.dirent = m.dirent /\ \A j \in Inode : Entries(g, j) = Entries(m, j)
  BY <1>1, SameTreeFacts, EntriesTheSame DEF SameTree
<1>3. n = vput(c, i)
  BY DEF ramfs_unlink, SetLinks
<1> HIDE DEF g
<1>4. /\ Good(c0, Plus(h, i), t) /\ c0.file = g.file
      /\ \A j \in Inode : c0.inode[j].mode = g.inode[j].mode
      /\ \A j \in Inode : Entries(g, j) = Entries(c0, j) + (IF j = i THEN 1 ELSE 0)
      /\ \A j \in Inode : c0.dirent[j][2] = g.dirent[j][2]
      /\ \A q, j \in Inode, u \in Slot : Named(c0.dirent[q][u], j) => Named(g.dirent[q][u], j)
      /\ \E s \in Slot : Named(g.dirent[d][s], i)
  BY <1>1, <1>2, EntryGone
<1> HIDE DEF c0
<1>5. h \in Count(Inode) /\ t \in Count(Inode) /\ c0 \in FSState /\ NamesAre(c0, t)
  BY <1>4 DEF Good
<1>6. t[i] > 0
  BY <1>1, <1>4 DEF Good, NamesAre
<1>7. PICK u \in Count(Inode) : t = Plus(u, i)
  BY <1>5, <1>6, OneLess
<1>8. t[i] = u[i] + 1 /\ u[i] \in Nat /\ \A j \in Inode : j # i => t[j] = u[j]
  BY <1>7, Counting
<1>9. k = u[i] + InCore(c0, i) + IsRoot(i) /\ k \in Nat /\ k > 0
  <2>1. Plus(h, i)[i] > 0
    <3>1. Plus(h, i)[i] = h[i] + 1 /\ h[i] \in Nat
      BY <1>5, Counting
    <3> QED BY <3>1
  <2>2. c0.vref[i] > 0 /\ c0.inode[i].links = t[i] + InCore(c0, i) + IsRoot(i)
    BY <1>4, <2>1, InUse
  <2> QED BY <1>8, <2>2 DEF InCore, IsRoot
<1>10. NamesAre(c0, u)
  <2>1. ASSUME NEW q \in Inode, NEW j \in Inode, NEW s \in Slot, Named(c0.dirent[q][s], j)
        PROVE  u[j] > 0
    <3>1. CASE j # i
      BY <1>5, <1>8, <2>1, <3>1 DEF NamesAre
    <3>2. CASE j = i
      <4>1. <<q, s>> \in Names(c0, Inode, i)
        BY <2>1, <3>2 DEF Names
      <4>2. Entries(c0, i) \in Nat /\ Entries(c0, i) # 0
        BY <4>1, EntriesAreCounted
      <4>3. t[i] >= Entries(c0, i) + 1
        BY <1>2, <1>4
      <4> QED BY <1>8, <3>2, <4>2, <4>3
    <3> QED BY <3>1, <3>2
  <2> QED BY <2>1 DEF NamesAre
<1>11. c0.inode[i].mode # "free"
  BY <1>2, <1>4
<1>12. \A j \in Inode : j # i => u[j] = t[j]
  BY <1>8
<1> HIDE DEF k
<1>13. Good(c, Plus(h, i), u) /\ SameTree(c0, c) /\ c.file = c0.file
  BY <1>4, <1>9, <1>10, <1>11, <1>12, LinksSet
<1> HIDE DEF c
<1>14. /\ c.dirent = c0.dirent /\ \A j \in Inode : c.inode[j].mode = c0.inode[j].mode
       /\ \A j \in Inode : Entries(c, j) = Entries(c0, j)
  BY <1>13, SameTreeFacts, EntriesTheSame DEF SameTree
<1>15. ASSUME NEW q \in Inode, IsEmpty(m, q) PROVE IsEmpty(c, q)
  <2>1. ASSUME NEW s \in Slot PROVE c.dirent[q][s].name \in Dots \cup {NoName}
    <3>1. c0.dirent[q][s].ino \in Inode
      BY <1>5 DEF FSState, Dirents, Entry
    <3>2. Named(c0.dirent[q][s], c0.dirent[q][s].ino) =>
            Named(m.dirent[q][s], c0.dirent[q][s].ino)
      BY <1>2, <1>4, <3>1
    <3> QED BY <1>14, <1>15, <3>2 DEF IsEmpty, Named
  <2> QED BY <2>1 DEF IsEmpty
<1>16. Shrunk(m, c, i)
  BY <1>2, <1>4, <1>14, <1>15 DEF Shrunk
<1> QED BY <1>1, <1>3, <1>4, <1>7, <1>13, <1>16

LEMMA EndsShrunk ==
  ASSUME Ready, NEW m, SameTree(fs, m), NEW c, NEW i \in Inode, Shrunk(m, c, i),
         NEW u \in Count(Inode), Tot = Plus(u, i), NEW h, Good(c, h, u)
  PROVE  Ends(c, h, u) /\ Gone(fs, c) = {}
<1>1. /\ m.dirent = fs.dirent /\ \A j \in Inode : m.inode[j].mode = fs.inode[j].mode
      /\ \A j \in Inode : Entries(m, j) = Entries(fs, j)
  BY SameTreeFacts, EntriesTheSame DEF SameTree
<1>2. /\ \A j \in Inode : c.inode[j].mode = fs.inode[j].mode /\ c.dirent[j][2] = fs.dirent[j][2]
      /\ \A j \in Inode : Entries(fs, j) = Entries(c, j) + (IF j = i THEN 1 ELSE 0)
  BY <1>1 DEF Shrunk
<1>3. Gone(fs, c) = {}
  BY <1>2 DEF Gone
<1>4. \A j : LinksFrom(fs, {}, j) = 0
  <2>1. \A j : Names(fs, {}, j) = {}
    BY DEF Names
  <2> QED BY <2>1, NamesAreCounted
<1>5. \A j \in Inode : u[j] = Entries(c, j) + LinksFrom(fs, Gone(fs, c), j) + lost[j]
  <2>1. ASSUME NEW j \in Inode
        PROVE  u[j] = Entries(c, j) + lost[j]
    <3>1. Tot[j] = u[j] + (IF j = i THEN 1 ELSE 0) /\ u[j] \in Nat
      BY Counting
    <3>2. /\ Tot[j] = Entries(fs, j) + lost[j] /\ lost[j] \in Nat /\ Entries(c, j) \in Nat
      BY StartFacts, EntriesAreCounted DEF Tot
    <3> QED BY <1>2, <3>1, <3>2
  <2>2. \A j \in Inode : lost[j] \in Nat /\ Entries(c, j) \in Nat
    BY StartFacts, EntriesAreCounted
  <2> QED BY <1>3, <1>4, <2>1, <2>2
<1>6. ASSUME NEW d \in Inode, c.inode[d].mode = "dir"
      PROVE  c.inode[c.dirent[d][2].ino].mode = "dir"
  <2>1. fs.inode[fs.dirent[d][2].ino].mode = "dir" /\ fs.dirent[d][2].ino \in Inode
    BY <1>2, <1>6, StartFacts DEF Ready, Parents
  <2> QED BY <1>2, <2>1
<1> QED BY <1>2, <1>3, <1>5, <1>6 DEF Ends

\* After that, what nobody refers to any more goes.
LEMMA EndsRemoved ==
  ASSUME Ready, NEW m, SameTree(fs, m), m.file = fs.file, NEW c, NEW i \in Inode,
         Shrunk(m, c, i), c.file = m.file, NEW u \in Count(Inode), Tot = Plus(u, i),
         NEW g, Good(c, g, u), fs.inode[i].mode = "dir" => IsEmpty(fs, i),
         NEW d \in Inode, d # i, Anchored(fs, Hold, Tot, d),
         NEW n, Good(n, Plus(Hold, d), u), Freed(c, n), n.file = c.file,
         \A j \in Inode \ {i} : n.inode[j] = c.inode[j], NEW k, k = vput(n, d)
  PROVE  Ends(k, Hold, u) /\ FilesAre(k, Use)
<1>1. Hold \in Count(Inode) /\ Tot \in Count(Inode) /\ FilesAre(fs, Use)
  BY ReadyFacts
<1>2. Anchored(n, Hold, u, d)
  <2>1. u[d] = Tot[d] /\ Hold[d] \in Nat /\ u[d] \in Nat
    BY <1>1, Counting
  <2>2. u[d] >= Tot[d] /\ Hold[d] >= Hold[d] /\ n.file = fs.file
    BY <2>1
  <2> QED BY <1>1, <2>2, StillAnchored
<1>3. Good(k, Hold, u) /\ SameTree(n, k) /\ k.file = n.file
  BY <1>1, <1>2, PutOne
<1>4. Freed(c, k) /\ FilesAre(k, Use)
  BY <1>1, <1>3, SameTreeFacts, FreedTwice, SameFiles
<1>5. Ends(c, g, u) /\ Gone(fs, c) = {}
  BY EndsShrunk
<1>6. ASSUME NEW q \in Gone(c, k)
      PROVE  fs.inode[q].mode = "dir" /\ IsEmpty(c, q) /\ IsEmpty(fs, q)
  <2>1. q \in Inode /\ c.inode[q].mode = "dir" /\ k.inode[q].mode = "free"
    BY DEF Gone
  <2>2. q = i
    BY <1>3, <2>1 DEF SameTree
  <2>3. fs.inode[q].mode = "dir" /\ m.dirent = fs.dirent
    BY <2>1 DEF Shrunk, SameTree
  <2>4. IsEmpty(fs, q) /\ IsEmpty(m, q)
    BY <2>2, <2>3 DEF IsEmpty
  <2> QED BY <2>1, <2>3, <2>4 DEF Shrunk
<1> QED BY <1>3, <1>4, <1>5, <1>6, EndsEmptied

LEMMA DoUnlink ==
  ASSUME IInv, NEW p \in Proc, NEW path \in Path, do_unlink(p, path), RecordLosses
  PROVE  IInv' /\ Kept
<1>1. /\ Running(p) /\ Up /\ UNCHANGED <<files, cwd, reading, power, leaked>> /\ Ready
      /\ path.name \in Component
  BY Start, PathFacts DEF do_unlink, SameProcs, Running
<1> DEFINE d == dir_namev(fs, p, path)
           e == lookup(d.m, d.ino, path.name)
           x == ramfs_unlink(vput(e.m, e.ino), d.ino, path.name)
<1>2. Kernel(IF d.err # "ok" THEN Crash(d.m, "undefined")
             ELSE IF e.err # "ok" THEN vput(e.m, d.ino)
             ELSE IF e.m.inode[e.ino].mode = "dir" THEN vput(vput(e.m, d.ino), e.ino)
             ELSE vput(x, d.ino))
  BY DEF do_unlink
<1>3. /\ Good(fs, Hold, Tot) /\ Parents(fs) /\ FilesAre(fs, Use)
      /\ \A i \in Inode : Hold[i] >= Hold[i]
  BY <1>1, ReadyFacts DEF Count
<1>4. Walked(fs, Hold, Tot, d) /\ (d.err = "ok" => fs.inode[d.ino].mode = "dir")
  BY <1>1, <1>3, DirNamev
<1> HIDE DEF d
<1>5. CASE d.err # "ok"
  <2>1. d.m.crash = NoCrash /\ d.m \in FSState
    BY <1>4, <1>5 DEF Walked, Good
  <2>2. Kernel(Crash(d.m, "undefined"))
    BY <1>2, <1>5
  <2> QED BY <1>1, <2>1, <2>2, Stop
<1>6. CASE d.err = "ok"
  <2>1. /\ d.ino \in Inode /\ e.ino \in Inode /\ SameTree(fs, e.m) /\ e.m.file = fs.file
        /\ e.m.inode[d.ino].mode = "dir"
        /\ Hold \in Count(Inode) /\ Good(d.m, Plus(Hold, d.ino), Tot)
        /\ e.err = "ok" => /\ Good(e.m, Plus(Plus(Hold, d.ino), e.ino), Tot)
                           /\ e.ino = InoOf(e.m, d.ino, path.name)
                           /\ e.m.inode[e.ino].mode # "free"
                           /\ SlotsOf(e.m, d.ino, path.name) # {}
        /\ e.err # "ok" => e.m = d.m
    BY <1>1, <1>3, <1>4, <1>6, LastComponent
  <2>2. Anchored(fs, Hold, Tot, d.ino)
    BY <1>4 DEF Walked
  <2>3. CASE e.err # "ok" \/ e.m.inode[e.ino].mode = "dir"
    <3> DEFINE n == IF e.err # "ok" THEN vput(e.m, d.ino) ELSE vput(vput(e.m, d.ino), e.ino)
    <3>1. Kernel(n)
      BY <1>2, <1>6, <2>3
    <3> HIDE DEF e
    <3>2. Good(n, Hold, Tot) /\ Freed(e.m, n) /\ n.file = e.m.file
      <4>1. CASE e.err # "ok"
        <5>1. Good(e.m, Plus(Hold, d.ino), Tot) /\ n = vput(e.m, d.ino)
          BY <2>1, <4>1
        <5> HIDE DEF n
        <5> QED BY ONLY <2>1, <5>1, PutOne
      <4>2. CASE e.err = "ok"
        <5>1. /\ n = vput(vput(e.m, d.ino), e.ino)
              /\ Good(e.m, Plus(Plus(Hold, d.ino), e.ino), Tot)
          BY <2>1, <2>3, <4>2
        <5> HIDE DEF n
        <5> QED BY ONLY <2>1, <5>1, PutTwoBack
      <4> QED BY <4>1, <4>2
    <3> HIDE DEF n
    <3>3. Freed(fs, n) /\ FilesAre(n, Use)
      BY <1>3, <2>1, <3>2, SameTreeFacts, FreedTwice, SameFiles
    <3> QED BY <1>1, <3>1, <3>2, <3>3, FinishFreed
  <2>4. CASE e.err = "ok" /\ e.m.inode[e.ino].mode # "dir"
    <3> DEFINE m1 == vput(e.m, e.ino)
               i  == e.ino
               g  == Plus(Hold, d.ino)
    <3>1. Kernel(vput(x, d.ino)) /\ x = ramfs_unlink(m1, d.ino, path.name)
      BY <1>2, <1>6, <2>4
    <3> HIDE DEF x, e
    <3>2. path.name \in Name
      <4>1. Parents(e.m)
        BY <1>3, <2>1, SameTreeFacts DEF Good
      <4> QED BY <1>1, <2>1, <2>4, <4>1, NameOfFile
    <3>3. i \in Inode /\ fs.inode[i].mode # "free" /\ fs.inode[i].mode # "dir" /\ i # d.ino
      BY <2>1, <2>4 DEF SameTree
    <3>4. g \in Count(Inode)
      BY <2>1, MoreCounted
    <3>5. Good(m1, g, Tot) /\ SameTree(e.m, m1) /\ m1.file = e.m.file
      <4>1. Anchored(fs, Hold, Tot, i)
        BY <1>3, <3>3, InUseIsAnchored
      <4>2. Anchored(e.m, g, Tot, i)
        BY <2>1, <3>3, <4>1, StaysAnchored
      <4>3. Good(e.m, Plus(g, i), Tot)
        BY <2>1, <2>4
      <4> HIDE DEF g, i
      <4> QED BY <3>3, <3>4, <4>2, <4>3, PutOne DEF i
    <3> HIDE DEF m1
    <3>6. /\ SameTree(fs, m1) /\ m1.file = fs.file /\ m1.inode[d.ino].mode = "dir"
          /\ m1.inode[i].mode # "free" /\ SlotsOf(m1, d.ino, path.name) # {}
          /\ i = InoOf(m1, d.ino, path.name)
      <4>1. SameTree(fs, m1) /\ m1.file = fs.file
        BY <2>1, <3>5, SameTreeFacts
      <4>2. m1.inode[d.ino].mode = "dir" /\ m1.inode[i].mode # "free"
        BY <2>1, <2>4, <3>3, <3>5 DEF SameTree
      <4>3. /\ SlotsOf(m1, d.ino, path.name) = SlotsOf(e.m, d.ino, path.name)
            /\ InoOf(m1, d.ino, path.name) = InoOf(e.m, d.ino, path.name)
        BY <3>5, SameTreeFacts
      <4> QED BY <2>1, <2>4, <4>1, <4>2, <4>3
    <3>7. \A j \in Inode : Tot[j] >= Entries(m1, j)
      <4>1. \A j \in Inode : Entries(m1, j) = Entries(fs, j)
        BY <3>6, SameTreeFacts, EntriesTheSame
      <4> QED BY <1>1, <4>1, StartFacts DEF Tot
    <3> HIDE DEF g, i
    <3>8. PICK u \in Count(Inode) : \E c :
             /\ Tot = Plus(u, i) /\ Good(c, Plus(g, i), u) /\ x = vput(c, i)
             /\ c.file = m1.file /\ Shrunk(m1, c, i)
      BY <2>1, <3>1, <3>2, <3>3, <3>5, <3>6, <3>7, Removed
    <3>9. PICK c : /\ Tot = Plus(u, i) /\ Good(c, Plus(g, i), u) /\ x = vput(c, i)
                   /\ c.file = m1.file /\ Shrunk(m1, c, i)
      BY <3>8
    <3>10. /\ Good(x, g, u) /\ Freed(c, x) /\ x.file = c.file
           /\ \A j \in Inode \ {i} : x.inode[j] = c.inode[j]
      <4>1. i \in Inode
        BY <3>3
      <4> QED BY ONLY <3>4, <3>9, <4>1, Put
    <3>11. Good(x, Plus(Hold, d.ino), u)
      BY <3>10 DEF g
    <3>12. Ends(vput(x, d.ino), Hold, u) /\ FilesAre(vput(x, d.ino), Use)
      BY <1>1, <2>1, <2>2, <3>3, <3>6, <3>9, <3>10, <3>11, EndsRemoved
    <3> QED BY <1>1, <3>1, <3>12, FinishSame
  <2> QED BY <2>3, <2>4
<1> QED BY <1>5, <1>6

LEMMA DoRmdir ==
  ASSUME IInv, NEW p \in Proc, NEW path \in Path, do_rmdir(p, path), RecordLosses
  PROVE  IInv' /\ Kept
<1>1. /\ Running(p) /\ Up /\ UNCHANGED <<files, cwd, reading, power, leaked>> /\ Ready
      /\ path.name \in Component /\ path.name \notin Dots
  BY Start, PathFacts DEF do_rmdir, SameProcs, Running
<1> DEFINE d == dir_namev(fs, p, path)
           e == lookup(d.m, d.ino, path.name)
           x == ramfs_rmdir(e.m, d.ino, path.name)
           empty == e.m.inode[e.ino].mode = "dir" /\ IsEmpty(e.m, e.ino)
<1>2. Kernel(IF d.err # "ok" THEN d.m
             ELSE IF e.err # "ok" THEN vput(e.m, d.ino)
             ELSE IF empty THEN vput(vput(x, e.ino), d.ino)
             ELSE vput(vput(e.m, e.ino), d.ino))
  BY DEF do_rmdir
<1>3. /\ Good(fs, Hold, Tot) /\ Parents(fs) /\ FilesAre(fs, Use)
      /\ \A i \in Inode : Hold[i] >= Hold[i]
  BY <1>1, ReadyFacts DEF Count
<1>4. Walked(fs, Hold, Tot, d) /\ (d.err = "ok" => fs.inode[d.ino].mode = "dir")
  BY <1>1, <1>3, DirNamev
<1> HIDE DEF d
<1>5. CASE d.err # "ok"
  <2>1. Kernel(d.m)
    BY <1>2, <1>5
  <2>2. Good(d.m, Hold, Tot) /\ SameTree(fs, d.m) /\ d.m.file = fs.file
    BY <1>4, <1>5 DEF Walked
  <2>3. Freed(fs, d.m) /\ FilesAre(d.m, Use)
    BY <1>3, <2>2, SameTreeFacts, SameFiles
  <2> QED BY <1>1, <2>1, <2>2, <2>3, FinishFreed
<1>6. CASE d.err = "ok"
  <2>1. /\ d.ino \in Inode /\ e.ino \in Inode /\ SameTree(fs, e.m) /\ e.m.file = fs.file
        /\ e.m.inode[d.ino].mode = "dir"
        /\ Hold \in Count(Inode) /\ Good(d.m, Plus(Hold, d.ino), Tot)
        /\ e.err = "ok" => /\ Good(e.m, Plus(Plus(Hold, d.ino), e.ino), Tot)
                           /\ e.ino = InoOf(e.m, d.ino, path.name)
                           /\ e.m.inode[e.ino].mode # "free"
                           /\ SlotsOf(e.m, d.ino, path.name) # {}
        /\ e.err # "ok" => e.m = d.m
    BY <1>1, <1>3, <1>4, <1>6, LastComponent
  <2>2. Anchored(fs, Hold, Tot, d.ino)
    BY <1>4 DEF Walked
  <2>3. CASE ~(e.err = "ok" /\ empty)
    <3> DEFINE n == IF e.err # "ok" THEN vput(e.m, d.ino) ELSE vput(vput(e.m, e.ino), d.ino)
    <3>1. Kernel(n)
      BY <1>2, <1>6, <2>3
    <3> HIDE DEF e
    <3>2. Good(n, Hold, Tot) /\ Freed(e.m, n) /\ n.file = e.m.file
      <4>1. CASE e.err # "ok"
        <5>1. Good(e.m, Plus(Hold, d.ino), Tot) /\ n = vput(e.m, d.ino)
          BY <2>1, <4>1
        <5> HIDE DEF n
        <5> QED BY ONLY <2>1, <5>1, PutOne
      <4>2. CASE e.err = "ok"
        <5>1. n = vput(vput(e.m, e.ino), d.ino)
          BY <4>2
        <5> HIDE DEF n
        <5> QED BY <2>1, <4>2, <5>1, PutTwo
      <4> QED BY <4>1, <4>2
    <3> HIDE DEF n
    <3>3. Freed(fs, n) /\ FilesAre(n, Use)
      BY <1>3, <2>1, <3>2, SameTreeFacts, FreedTwice, SameFiles
    <3> QED BY <1>1, <3>1, <3>2, <3>3, FinishFreed
  <2>4. CASE e.err = "ok" /\ empty
    <3> DEFINE i  == e.ino
               g  == Plus(Plus(Hold, d.ino), i)
               n  == vput(x, i)
    <3>1. Kernel(vput(n, d.ino)) /\ x = ramfs_unlink(e.m, d.ino, path.name)
      BY <1>2, <1>6, <2>4 DEF ramfs_rmdir, ramfs_unlink
    <3>2. path.name \in Name
      BY <1>1 DEF Component
    <3>3. /\ e.m.inode[i].mode = "dir" /\ IsEmpty(e.m, i) /\ i \in Inode
          /\ i = InoOf(e.m, d.ino, path.name) /\ SlotsOf(e.m, d.ino, path.name) # {}
      BY <2>1, <2>4
    <3> HIDE DEF x, e, empty
    <3>4. fs.inode[i].mode = "dir" /\ IsEmpty(fs, i)
      BY <2>1, <3>3 DEF SameTree, IsEmpty
    <3>5. i # d.ino
      <4>1. /\ SlotOf(e.m, d.ino, path.name) \in Slot
            /\ e.m.dirent[d.ino][SlotOf(e.m, d.ino, path.name)].name = path.name
        BY <3>3, LeastSlot
      <4>2. path.name \notin Dots \cup {NoName}
        BY <3>2, Basics
      <4> QED BY <3>3, <4>1, <4>2 DEF IsEmpty
    <3>6. Plus(Hold, d.ino) \in Count(Inode) /\ g \in Count(Inode) /\ Good(e.m, g, Tot)
      BY <2>1, <2>4, MoreCounted
    <3>7. \A j \in Inode : Tot[j] >= Entries(e.m, j)
      <4>1. \A j \in Inode : Entries(e.m, j) = Entries(fs, j)
        BY <2>1, SameTreeFacts, EntriesTheSame
      <4> QED BY <1>1, <4>1, StartFacts DEF Tot
    <3> HIDE DEF g, i, n
    <3>8. e.m.inode[i].mode # "free"
      BY <3>3
    <3>9. PICK u \in Count(Inode) : \E c :
             /\ Tot = Plus(u, i) /\ Good(c, Plus(g, i), u) /\ x = vput(c, i)
             /\ c.file = e.m.file /\ Shrunk(e.m, c, i)
      BY <2>1, <3>1, <3>2, <3>3, <3>6, <3>7, <3>8, Removed
    <3>10. PICK c : /\ Tot = Plus(u, i) /\ Good(c, Plus(g, i), u) /\ x = vput(c, i)
                    /\ c.file = e.m.file /\ Shrunk(e.m, c, i)
      BY <3>9
    <3>11. /\ Good(x, g, u) /\ Freed(c, x) /\ x.file = c.file
           /\ \A j \in Inode \ {i} : x.inode[j] = c.inode[j]
      BY ONLY <3>3, <3>6, <3>10, Put
    <3>12. Good(x, Plus(Plus(Hold, d.ino), i), u) /\ n = vput(x, i)
      BY <3>11 DEF g, n
    <3>13. /\ Good(n, Plus(Hold, d.ino), u) /\ Freed(x, n) /\ n.file = x.file
           /\ \A j \in Inode \ {i} : n.inode[j] = x.inode[j]
      BY ONLY <3>3, <3>6, <3>12, Put
    <3>14. Freed(c, n) /\ n.file = c.file /\ \A j \in Inode \ {i} : n.inode[j] = c.inode[j]
      BY <3>11, <3>13, FreedTwice
    <3>15. Ends(vput(n, d.ino), Hold, u) /\ FilesAre(vput(n, d.ino), Use)
      BY <1>1, <2>1, <2>2, <3>3, <3>4, <3>5, <3>10, <3>13, <3>14, EndsRemoved
    <3> QED BY <1>1, <3>1, <3>15, FinishSame
  <2> QED BY <2>3, <2>4
<1> QED BY <1>5, <1>6

LEMMA DoLink ==
  ASSUME IInv, NEW p \in Proc, NEW from \in Path, NEW to \in Path, do_link(p, from, to),
         RecordLosses
  PROVE  IInv' /\ Kept
<1>1. /\ Running(p) /\ Up /\ UNCHANGED <<files, cwd, reading, power>> /\ Ready
      /\ to.name \in Component
  BY Start, PathFacts DEF do_link, SameProcs, Running
<1>2. /\ Good(fs, Hold, Tot) /\ Parents(fs) /\ FilesAre(fs, Use) /\ Hold \in Count(Inode)
      /\ Tot \in Count(Inode) /\ leaked \in Count(Inode)
      /\ \A i \in Inode : Hold[i] >= Hold[i]
  BY <1>1, ReadyFacts DEF Count
<1> DEFINE o == open_namev(fs, p, from, FALSE)
           d == dir_namev(o.m, p, to)
           e == lookup(d.m, d.ino, to.name)
           x == IF FreeSlots(d.m, d.ino) = {} THEN d.m ELSE ramfs_link(d.m, o.ino, d.ino, to.name)
<1>3. \/ o.err # "ok" /\ Kernel(Crash(o.m, "undefined")) /\ UNCHANGED leaked
      \/ /\ o.err = "ok" /\ o.m.inode[o.ino].mode = "dir"
         /\ Kernel(vput(o.m, o.ino)) /\ UNCHANGED leaked
      \/ /\ o.err = "ok" /\ o.m.inode[o.ino].mode # "dir"
         /\ \/ /\ d.err # "ok" /\ Kernel(d.m)
               /\ leaked' = IF d.err = "crash" THEN leaked ELSE [leaked EXCEPT ![o.ino] = @ + 1]
            \/ /\ d.err = "ok" /\ UNCHANGED leaked
               /\ Kernel(IF e.err = "ok" THEN vput(vput(vput(e.m, o.ino), d.ino), e.ino)
                         ELSE vput(vput(x, o.ino), d.ino))
  BY DEF do_link
<1>4. Walked(fs, Hold, Tot, o)
  BY <1>1, <1>2, OpenNamev
<1> HIDE DEF o
<1>5. CASE o.err # "ok" /\ Kernel(Crash(o.m, "undefined")) /\ UNCHANGED leaked
  <2>1. o.m.crash = NoCrash /\ o.m \in FSState
    BY <1>4, <1>5 DEF Walked, Good
  <2> QED BY <1>1, <1>5, <2>1, Stop
<1>6. CASE /\ o.err = "ok" /\ o.m.inode[o.ino].mode = "dir"
           /\ Kernel(vput(o.m, o.ino)) /\ UNCHANGED leaked
  <2>1. /\ Good(o.m, Plus(Hold, o.ino), Tot) /\ SameTree(fs, o.m) /\ o.m.file = fs.file
        /\ o.ino \in Inode
    BY <1>4, <1>6 DEF Walked, IsAnswer
  <2> DEFINE n == vput(o.m, o.ino)
  <2>2. Good(n, Hold, Tot) /\ Freed(o.m, n) /\ n.file = o.m.file
    BY <1>2, <2>1, PutOne
  <2>3. Kernel(n)
    BY <1>6
  <2> HIDE DEF n
  <2>4. Freed(fs, n) /\ FilesAre(n, Use)
    BY <1>2, <2>1, <2>2, SameTreeFacts, FreedTwice, SameFiles
  <2> QED BY <1>1, <1>6, <2>2, <2>3, <2>4, FinishFreed
<1>7. ASSUME o.err = "ok", o.m.inode[o.ino].mode # "dir",
             \/ /\ d.err # "ok" /\ Kernel(d.m)
                /\ leaked' = IF d.err = "crash" THEN leaked ELSE [leaked EXCEPT ![o.ino] = @ + 1]
             \/ /\ d.err = "ok" /\ UNCHANGED leaked
                /\ Kernel(IF e.err = "ok" THEN vput(vput(vput(e.m, o.ino), d.ino), e.ino)
                          ELSE vput(vput(x, o.ino), d.ino))
      PROVE  IInv' /\ Kept
  <2> DEFINE h == Plus(Hold, o.ino)
  <2>1. /\ Good(o.m, h, Tot) /\ SameTree(fs, o.m) /\ o.m.file = fs.file /\ o.ino \in Inode
    BY <1>4, <1>7 DEF Walked, IsAnswer
  <2>2. Parents(o.m) /\ \A i \in Inode : h[i] >= Hold[i]
    BY <1>2, <2>1, SameTreeFacts, MoreCounted DEF Good
  <2>3. h \in Count(Inode)
    BY <1>2, <2>1, MoreCounted
  <2> HIDE DEF h
  <2>4. Walked(o.m, h, Tot, d) /\ (d.err = "ok" => o.m.inode[d.ino].mode = "dir")
    BY <1>1, <2>1, <2>2, DirNamev
  <2> HIDE DEF d
  <2>5. CASE d.err # "ok"
    <3>1. Kernel(d.m) /\ leaked' = Plus(leaked, o.ino)
      BY <1>7, <2>4, <2>5 DEF Walked, IsAnswer, Answers, Plus
    <3>2. Good(d.m, h, Tot) /\ SameTree(o.m, d.m) /\ d.m.file = o.m.file
      BY <2>4, <2>5 DEF Walked
    <3>3. Ends(d.m, h, Tot)
      <4>1. Freed(fs, d.m)
        BY <2>1, <3>2, SameTreeFacts, FreedTwice
      <4> QED BY <1>1, <3>2, <4>1, EndsFreed DEF Tot
    <3>4. Holders(cwd', power', leaked') = h
      BY <1>1, <1>2, <2>1, <3>1, LeakAdded DEF h, Hold
    <3>5. FilesAre(d.m, Users(files', reading'))
      BY <1>1, <1>2, <2>1, <3>2, SameFiles DEF Use
    <3>6. ProcTypes' /\ Absent'
      <4>1. leaked' \in [Inode -> Nat]
        BY <1>2, <2>1, <3>1, MoreCounted DEF Count
      <4> QED BY <1>1, <4>1 DEF ProcTypes, Absent, Ready, TypeOK
    <3> QED BY <1>1, <3>1, <3>3, <3>4, <3>5, <3>6, Finish DEF Up
  <2>6. CASE d.err = "ok"
    <3>1. UNCHANGED leaked /\ Kernel(IF e.err = "ok" THEN vput(vput(vput(e.m, o.ino), d.ino), e.ino)
                                     ELSE vput(vput(x, o.ino), d.ino))
      BY <1>7, <2>6
    <3>2. /\ d.ino \in Inode /\ e.ino \in Inode /\ SameTree(o.m, d.m) /\ SameTree(o.m, e.m)
          /\ d.m.file = o.m.file /\ e.m.file = o.m.file
          /\ d.m.inode[d.ino].mode = "dir" /\ Good(d.m, Plus(h, d.ino), Tot)
          /\ e.err = "ok" => Good(e.m, Plus(Plus(h, d.ino), e.ino), Tot)
          /\ e.err # "ok" => to.name \in Name
      BY <1>1, <2>1, <2>2, <2>4, <2>6, LastComponent
    <3>3. SameTree(fs, d.m) /\ SameTree(fs, e.m)
      BY <2>1, <3>2, SameTreeFacts
    <3> HIDE DEF e
    <3>4. CASE e.err = "ok"
      <4> DEFINE a == vput(e.m, o.ino)
                 n == vput(vput(a, d.ino), e.ino)
      <4>1. Kernel(n)
        BY <3>1, <3>4
      <4>2. Good(e.m, Plus(Plus(Plus(Hold, d.ino), e.ino), o.ino), Tot)
        <5>1. Plus(Hold, d.ino) \in Count(Inode)
          BY <1>2, <3>2, MoreCounted
        <5>2. Plus(h, d.ino) = Plus(Plus(Hold, d.ino), o.ino)
          BY <1>2, <2>1, <3>2, Counting DEF h
        <5>3. Plus(Plus(Plus(Hold, d.ino), o.ino), e.ino) = Plus(Plus(Plus(Hold, d.ino), e.ino), o.ino)
          BY <2>1, <3>2, <5>1, Counting
        <5> QED BY <3>2, <3>4, <5>2, <5>3
      <4>3. Good(a, Plus(Plus(Hold, d.ino), e.ino), Tot) /\ Freed(e.m, a) /\ a.file = e.m.file
        <5>1. Plus(Plus(Hold, d.ino), e.ino) \in Count(Inode)
          BY <1>2, <3>2, MoreCounted
        <5> QED BY <2>1, <4>2, <5>1, PutOne
      <4> HIDE DEF a
      <4>4. Good(n, Hold, Tot) /\ Freed(a, n) /\ n.file = a.file
        BY <1>2, <3>2, <4>3, PutTwoBack
      <4> HIDE DEF n
      <4>5. Freed(fs, n) /\ FilesAre(n, Use)
        BY <1>2, <2>1, <3>2, <3>3, <4>3, <4>4, SameTreeFacts, FreedTwice, SameFiles
      <4> QED BY <1>1, <3>1, <4>1, <4>4, <4>5, FinishFreed
    <3>5. CASE e.err # "ok" /\ FreeSlots(d.m, d.ino) = {}
      <4> DEFINE n == vput(vput(d.m, o.ino), d.ino)
      <4>1. Kernel(n)
        BY <3>1, <3>5
      <4>2. Good(n, Hold, Tot) /\ Freed(d.m, n) /\ n.file = d.m.file
        <5>1. Good(d.m, Plus(Plus(Hold, o.ino), d.ino), Tot) /\ n = vput(vput(d.m, o.ino), d.ino)
          BY <3>2 DEF h
        <5> HIDE DEF n
        <5> QED BY <1>2, <2>1, <3>2, <5>1, PutTwoBack
      <4> HIDE DEF n
      <4>3. Freed(fs, n) /\ FilesAre(n, Use)
        BY <1>2, <2>1, <3>2, <3>3, <4>2, SameTreeFacts, FreedTwice, SameFiles
      <4> QED BY <1>1, <3>1, <4>1, <4>2, <4>3, FinishFreed
    <3>6. CASE e.err # "ok" /\ FreeSlots(d.m, d.ino) # {}
      <4> DEFINE y == ramfs_link(d.m, o.ino, d.ino, to.name)
                 a == vput(y, o.ino)
                 g == Plus(Hold, d.ino)
                 t == Plus(Tot, o.ino)
      <4>1. Kernel(vput(a, d.ino))
        BY <3>1, <3>6
      <4> HIDE DEF x
      <4>2. d.m.inode[o.ino].mode \notin {"free", "dir"}
        <5>1. o.m.inode[o.ino].mode # "free"
          <6>1. h[o.ino] > 0
            <7>1. h[o.ino] = Hold[o.ino] + 1 /\ Hold[o.ino] \in Nat
              BY <1>2, <2>1, Counting DEF h
            <7> QED BY <7>1
          <6> QED BY <2>1, <6>1, InUse
        <5> QED BY <1>7, <2>1, <3>2, <5>1 DEF SameTree
      <4>3. Good(y, Plus(h, d.ino), t) /\ Grown(d.m, y, o.ino)
        BY <2>1, <3>2, <3>6, <4>2, Link
      <4> HIDE DEF y
      <4>4. g \in Count(Inode) /\ t \in Count(Inode) /\ t[o.ino] > 0
        <5>1. t[o.ino] = Tot[o.ino] + 1 /\ Tot[o.ino] \in Nat
          BY <1>2, <2>1, Counting
        <5> QED BY <1>2, <2>1, <3>2, <5>1, MoreCounted
      <4>5. Good(y, Plus(g, o.ino), t)
        BY <1>2, <2>1, <3>2, <4>3, Counting DEF h
      <4> HIDE DEF g, t
      <4>6. Good(a, g, t) /\ SameTree(y, a) /\ a.file = y.file
        <5>1. Anchored(y, g, t, o.ino)
          BY <4>4 DEF Anchored
        <5> QED BY <2>1, <4>4, <4>5, <5>1, PutOne
      <4> HIDE DEF a
      <4>7. Grown(d.m, a, o.ino)
        <5>1. y \in FSState /\ SameTree(d.m, d.m)
          BY <4>3 DEF Good, SameTree
        <5> QED BY <4>3, <4>6, <5>1, GrownSame
      <4>8. Anchored(fs, Hold, Tot, d.ino)
        <5>1. fs.inode[d.ino].mode # "free"
          BY <3>2, <3>3 DEF SameTree
        <5> QED BY <1>2, <3>2, <5>1, InUseIsAnchored
      <4>9. Ends(vput(a, d.ino), Hold, Plus(Tot, o.ino)) /\ vput(a, d.ino).file = fs.file
        <5>1. Good(a, Plus(Hold, d.ino), Plus(Tot, o.ino))
          BY <4>6 DEF g, t
        <5> QED BY <1>1, <1>2, <2>1, <3>2, <3>3, <4>7, <4>8, <5>1, EndsMade
      <4>10. FilesAre(vput(a, d.ino), Use)
        BY <1>2, <4>9, SameFiles
      <4> QED BY <1>1, <3>1, <4>1, <4>9, <4>10, FinishSame
    <3> QED BY <3>4, <3>5, <3>6
  <2> QED BY <2>5, <2>6
<1> QED BY <1>3, <1>5, <1>6, <1>7

-----------------------------------------------------------------------------
(* The calls on descriptors.                                               *)

\* A call that changes open files, descriptors and readers.
LEMMA FinishFiles ==
  ASSUME IInv, Up, UNCHANGED <<cwd, power, leaked>>,
         NEW m, Good(m, Hold, Tot), Freed(fs, m), FilesAre(m, Users(files', reading')),
         Kernel(m), RecordLosses,
         files' \in [Proc -> [Fd -> FileId \cup {NULL}]],
         reading' \in [Proc -> FileId \cup {NULL}], Absent'
  PROVE  IInv' /\ Kept
<1>1. Ready /\ fs.crash = NoCrash /\ power = "on" /\ ~orphan
  BY Start DEF Up
<1>2. Ends(m, Holders(cwd', power', leaked'), Tot)
  <2>1. Ends(m, Hold, Tot)
    BY <1>1, EndsFreed DEF Tot
  <2> QED BY <2>1 DEF Hold
<1>3. ProcTypes'
  BY <1>1 DEF ProcTypes, Ready, TypeOK
<1> QED BY <1>1, <1>2, <1>3, Finish

\* What is known when the kernel is entered.
LEMMA AtUp ==
  ASSUME IInv, Up
  PROVE  /\ Ready /\ power = "on" /\ ~orphan
         /\ files \in [Proc -> [Fd -> FileId \cup {NULL}]]
         /\ reading \in [Proc -> FileId \cup {NULL}] /\ cwd \in [Proc -> Inode \cup {NULL}]
         /\ leaked \in Count(Inode)
         /\ Good(fs, Hold, Tot) /\ FilesAre(fs, Use) /\ Use \in Count(FileId)
         /\ Hold \in Count(Inode) /\ Tot \in Count(Inode) /\ Parents(fs)
         /\ fs.crash = NoCrash /\ fs \in FSState /\ SameTree(fs, fs) /\ Absent
<1>1. Ready /\ power = "on" /\ ~orphan
  BY Start DEF Up
<1>2. TypeOK /\ Absent
  BY <1>1 DEF Ready
<1> QED BY <1>1, <1>2, ReadyFacts DEF TypeOK, SameTree

LEMMA AtCall ==
  ASSUME IInv, NEW p \in Proc, Running(p)
  PROVE  /\ Ready /\ Up /\ cwd[p] \in Inode /\ cwd[p] # NULL /\ reading[p] = NULL
         /\ files \in [Proc -> [Fd -> FileId \cup {NULL}]]
         /\ reading \in [Proc -> FileId \cup {NULL}] /\ cwd \in [Proc -> Inode \cup {NULL}]
         /\ leaked \in Count(Inode)
         /\ Good(fs, Hold, Tot) /\ FilesAre(fs, Use) /\ Use \in Count(FileId)
         /\ Hold \in Count(Inode) /\ Tot \in Count(Inode) /\ Parents(fs)
         /\ fs.crash = NoCrash /\ fs \in FSState /\ SameTree(fs, fs) /\ Absent
<1>1. Up /\ cwd[p] # NULL /\ reading[p] = NULL
  BY DEF Running
<1> QED BY <1>1, AtUp

\* A descriptor that is in use.
LEMMA OpenDescriptor ==
  ASSUME IInv, NEW p \in Proc, Running(p), NEW fd \in Fd, files[p][fd] # NULL,
         NEW f, f = files[p][fd]
  PROVE  /\ f \in FileId /\ Use[f] > 0 /\ Use[f] \in Nat
         /\ fs.file[f] \in FileRec /\ fs.file[f].pos \in Nat /\ fs.file[f].vnode \in Inode
         /\ fs.vref[fs.file[f].vnode] > 0 /\ fs.inode[fs.file[f].vnode].mode # "free"
<1>1. /\ files \in [Proc -> [Fd -> FileId \cup {NULL}]] /\ leaked \in Count(Inode)
      /\ Good(fs, Hold, Tot) /\ FilesAre(fs, Use) /\ Use \in Count(FileId) /\ fs \in FSState
  BY AtCall
<1>2. f \in FileId
  BY <1>1
<1>3. Use[f] > 0 /\ Use[f] \in Nat
  <2>1. Users(files, reading)[f] > 0
    BY <1>1, <1>2, Counted
  <2> QED BY <1>1, <1>2, <2>1 DEF Use, Count
<1>4. fs.file[f] \in FileRec
  BY <1>1, <1>2 DEF FSState, OpenFiles
<1>5. fs.file[f].pos \in Nat /\ fs.file[f].vnode \in Inode \cup {NULL}
  BY <1>4 DEF FileRec
<1>6. fs.file[f].vnode # NULL
  BY <1>1, <1>2, <1>3 DEF FilesAre
<1>7. fs.file[f].vnode \in Inode /\ Opened(fs, fs.file[f].vnode) # {}
  BY <1>2, <1>5, <1>6 DEF Opened
<1>8. fs.vref[fs.file[f].vnode] > 0 /\ fs.inode[fs.file[f].vnode].mode # "free"
  BY <1>1, <1>7, InUse
<1> QED BY <1>2, <1>3, <1>4, <1>5, <1>7, <1>8

LEMMA FreeDescriptor ==
  ASSUME NEW p, get_empty_fd(p) # {}
  PROVE  Min(get_empty_fd(p)) \in Fd /\ files[p][Min(get_empty_fd(p))] = NULL
<1>1. get_empty_fd(p) \in SUBSET Nat
  BY FilesAssumption DEF get_empty_fd, Fd
<1>2. Min(get_empty_fd(p)) \in get_empty_fd(p)
  BY <1>1, LeastNumber
<1> QED BY <1>2 DEF get_empty_fd

\* A process that is there and the descriptors of the others.
LEMMA AbsentStill ==
  ASSUME IInv, NEW p \in Proc, cwd[p] # NULL, UNCHANGED cwd,
         \A q \in Proc \ {p} : files'[q] = files[q] /\ reading'[q] = reading[q]
  PROVE  Absent'
BY DEF IInv, Absent

LEMMA DoClose ==
  ASSUME IInv, NEW p \in Proc, NEW fd \in Fd, do_close(p, fd), RecordLosses
  PROVE  IInv' /\ Kept
<1> DEFINE f == files[p][fd]
           m == fput(fs, f)
           g == Users(files', reading)
<1>1. /\ Running(p) /\ f # NULL /\ Kernel(m) /\ files' = [files EXCEPT ![p][fd] = NULL]
      /\ UNCHANGED <<cwd, reading, power, leaked>>
  BY DEF do_close
<1>2. /\ files \in [Proc -> [Fd -> FileId \cup {NULL}]] /\ reading \in [Proc -> FileId \cup {NULL}]
      /\ Up /\ cwd[p] # NULL /\ FilesAre(fs, Use) /\ Good(fs, Hold, Tot)
  BY <1>1, AtCall
<1>3. f \in FileId
  BY <1>1, <1>2
<1>4. /\ files' \in [Proc -> [Fd -> FileId \cup {NULL}]] /\ files'[p][fd] = NULL
      /\ OtherFds(files', files, p, fd)
      /\ \A q \in Proc \ {p} : files'[q] = files[q]
  BY <1>1, <1>2 DEF OtherFds
<1>5. Use = Plus(g, f)
  <2>1. Gains(files', files, p, fd, f)
    BY <1>4 DEF Gains
  <2> HIDE DEF f
  <2>2. Users(files, reading) = Plus(Users(files', reading), f)
    BY <1>3, <2>1, DescriptorAdded
  <2> QED BY <2>2 DEF Use
<1>6. g \in Count(FileId)
  BY UsersCount
<1> HIDE DEF f, m, g
<1>7. Good(m, Hold, Tot) /\ FilesAre(m, g) /\ Freed(fs, m)
  BY <1>2, <1>3, <1>5, <1>6, Fput DEF m
<1>8. FilesAre(m, Users(files', reading'))
  BY <1>1, <1>7 DEF g
<1>9. Absent'
  BY <1>1, <1>2, <1>4, AbsentStill
<1> QED BY <1>1, <1>2, <1>4, <1>7, <1>8, <1>9, FinishFiles

LEMMA DoDup ==
  ASSUME IInv, NEW p \in Proc, NEW fd \in Fd, do_dup(p, fd), RecordLosses
  PROVE  IInv' /\ Kept
<1> DEFINE f == files[p][fd]
           m == fref(fs, f)
           nfd == Min(get_empty_fd(p))
<1>1. /\ Running(p) /\ f # NULL /\ get_empty_fd(p) # {} /\ Kernel(m)
      /\ files' = [files EXCEPT ![p][nfd] = f] /\ UNCHANGED <<cwd, reading, power, leaked>>
  BY DEF do_dup
<1>2. /\ files \in [Proc -> [Fd -> FileId \cup {NULL}]] /\ reading \in [Proc -> FileId \cup {NULL}]
      /\ Up /\ cwd[p] # NULL /\ FilesAre(fs, Use) /\ Good(fs, Hold, Tot) /\ Use \in Count(FileId)
  BY <1>1, AtCall
<1>3. f \in FileId /\ Use[f] > 0
  BY <1>1, OpenDescriptor
<1>4. nfd \in Fd /\ files[p][nfd] = NULL
  BY <1>1, FreeDescriptor
<1> HIDE DEF f, nfd
<1>5. /\ files' \in [Proc -> [Fd -> FileId \cup {NULL}]] /\ files'[p][nfd] = f
      /\ OtherFds(files, files', p, nfd)
      /\ \A q \in Proc \ {p} : files'[q] = files[q]
  BY <1>1, <1>2, <1>3, <1>4 DEF OtherFds
<1>6. Users(files', reading) = Plus(Use, f)
  <2>1. Gains(files, files', p, nfd, f)
    BY <1>4, <1>5 DEF Gains
  <2> QED BY <1>3, <1>4, <2>1, DescriptorAdded DEF Use
<1>7. Good(m, Hold, Tot) /\ FilesAre(m, Plus(Use, f)) /\ SameTree(fs, m)
  BY <1>2, <1>3, Fref
<1> HIDE DEF m
<1>8. FilesAre(m, Users(files', reading')) /\ Freed(fs, m)
  BY <1>1, <1>6, <1>7, SameTreeFacts
<1>9. Absent'
  BY <1>1, <1>2, <1>5, AbsentStill
<1> QED BY <1>1, <1>2, <1>5, <1>7, <1>8, <1>9, FinishFiles

LEMMA DoDup2 ==
  ASSUME IInv, NEW p \in Proc, NEW ofd \in Fd, NEW nfd \in Fd, do_dup2(p, ofd, nfd), RecordLosses
  PROVE  IInv' /\ Kept
<1> DEFINE old == files[p][ofd]
           new == files[p][nfd]
           m   == fref(fs, old)
           n   == IF new = NULL THEN m ELSE fput(fput(fref(m, new), new), new)
           cut == [files EXCEPT ![p][nfd] = NULL]
           u   == Users(cut, reading)
<1>1. /\ Running(p) /\ old # NULL /\ ofd # nfd /\ Kernel(n)
      /\ files' = [files EXCEPT ![p][nfd] = old] /\ UNCHANGED <<cwd, reading, power, leaked>>
  BY DEF do_dup2
<1>2. /\ files \in [Proc -> [Fd -> FileId \cup {NULL}]] /\ reading \in [Proc -> FileId \cup {NULL}]
      /\ Up /\ cwd[p] # NULL /\ FilesAre(fs, Use) /\ Good(fs, Hold, Tot) /\ Use \in Count(FileId)
  BY <1>1, AtCall
<1>3. old \in FileId /\ Use[old] > 0 /\ new \in FileId \cup {NULL} /\ files[p][nfd] = new
  BY <1>1, <1>2, OpenDescriptor
<1>4. /\ cut[p][nfd] = NULL /\ OtherFds(cut, files, p, nfd)
      /\ files' \in [Proc -> [Fd -> FileId \cup {NULL}]] /\ files'[p][nfd] = old
      /\ OtherFds(cut, files', p, nfd)
      /\ \A q \in Proc \ {p} : files'[q] = files[q]
  BY <1>1, <1>2, <1>3 DEF OtherFds
<1>5. u \in Count(FileId)
  BY UsersCount
<1> HIDE DEF old, new, cut, u, n
<1>6. Users(files', reading) = Plus(u, old)
  <2>1. Gains(cut, files', p, nfd, old)
    BY <1>4 DEF Gains
  <2> QED BY <1>3, <2>1, DescriptorAdded DEF u
<1>7. Good(m, Hold, Tot) /\ FilesAre(m, Plus(Use, old)) /\ SameTree(fs, m)
  BY <1>2, <1>3, Fref
<1> HIDE DEF m
<1>8. Good(n, Hold, Tot) /\ FilesAre(n, Plus(u, old)) /\ Freed(fs, n)
  <2>1. CASE new = NULL
    <3>1. cut = files
      BY <1>2, <1>3, <2>1 DEF cut
    <3>2. n = m
      BY <2>1 DEF n
    <3> QED BY <1>7, <3>1, <3>2, SameTreeFacts DEF u, Use
  <2>2. CASE new # NULL
    <3>1. new \in FileId
      BY <1>3, <2>2
    <3>2. Use = Plus(u, new)
      <4>1. Gains(cut, files, p, nfd, new)
        BY <1>3, <1>4 DEF Gains
      <4>2. Users(files, reading) = Plus(Users(cut, reading), new)
        BY <3>1, <4>1, DescriptorAdded
      <4> QED BY <4>2 DEF u, Use
    <3>3. Plus(Use, old) = Plus(Plus(u, old), new)
      BY <1>3, <1>5, <3>1, <3>2, Counting
    <3> DEFINE k == fref(m, new)
               l == fput(k, new)
               g == Plus(u, old)
    <3>4. g \in Count(FileId) /\ Plus(g, new) \in Count(FileId) /\ Plus(g, new)[new] > 0
      <4>1. g \in Count(FileId)
        BY <1>3, <1>5, MoreCounted
      <4>2. Plus(g, new)[new] = g[new] + 1 /\ g[new] \in Nat /\ Plus(g, new) \in Count(FileId)
        BY <3>1, <4>1, Counting
      <4> QED BY <4>1, <4>2
    <3>5. n = fput(l, new)
      BY <2>2 DEF n
    <3>6. FilesAre(m, Plus(g, new))
      BY <1>7, <3>3
    <3> HIDE DEF g
    <3>7. Good(k, Hold, Tot) /\ FilesAre(k, Plus(Plus(g, new), new)) /\ SameTree(m, k)
      BY <1>7, <3>1, <3>4, <3>6, Fref
    <3> HIDE DEF k
    <3>8. Good(l, Hold, Tot) /\ FilesAre(l, Plus(g, new)) /\ Freed(k, l)
      BY <3>1, <3>4, <3>7, Fput
    <3> HIDE DEF l
    <3>9. Good(n, Hold, Tot) /\ FilesAre(n, g) /\ Freed(l, n)
      BY <3>1, <3>4, <3>5, <3>8, Fput
    <3>10. Freed(fs, n)
      BY <1>7, <3>7, <3>8, <3>9, SameTreeFacts, FreedTwice
    <3> QED BY <3>9, <3>10 DEF g
  <2> QED BY <2>1, <2>2
<1>9. FilesAre(n, Users(files', reading'))
  BY <1>1, <1>6, <1>8
<1>10. Absent'
  BY <1>1, <1>2, <1>4, AbsentStill
<1> QED BY <1>1, <1>2, <1>4, <1>8, <1>9, <1>10, FinishFiles

LEMMA DoBeyondTable ==
  ASSUME IInv, NEW p \in Proc, BeyondTable(p), RecordLosses
  PROVE  IInv' /\ Kept
BY AtCall, Stop DEF BeyondTable, SameProcs

\* The position of an open file changes.
SetPos(m, f, k) == [m EXCEPT !.file[f].pos = k]

LEMMA PosSet ==
  ASSUME NEW m, NEW h, NEW t, Good(m, h, t), NEW g, FilesAre(m, g), NEW f \in FileId,
         NEW k \in Nat, NEW n, n = SetPos(m, f, k)
  PROVE  /\ Good(n, h, t) /\ FilesAre(n, g) /\ SameTree(m, n)
         /\ n.vref = m.vref /\ n.vlen = m.vlen /\ n.inode = m.inode
         /\ n.file[f].pos = k
         /\ \A e \in FileId : n.file[e].vnode = m.file[e].vnode
<1> DEFINE r == [m.file[f] EXCEPT !.pos = k]
<1>1. m.file \in [FileId -> FileRec] /\ m.file[f] \in FileRec
  BY DEF Good, FSState, OpenFiles
<1>2. /\ r \in FileRec /\ r.vnode = m.file[f].vnode /\ r.ref = m.file[f].ref /\ r.pos = k
  BY <1>1 DEF FileRec
<1>3. n = SetFile(m, f, r)
  BY <1>1 DEF SetPos, SetFile, Good, FSState
<1> HIDE DEF r
<1>4. /\ n.file[f] = r /\ \A e \in FileId : e # f => n.file[e] = m.file[e]
      /\ SameTree(m, n) /\ n.vref = m.vref /\ n.vlen = m.vlen /\ n.inode = m.inode
      /\ Good(n, h, t)
  BY <1>2, <1>3, FileSet
<1> QED BY <1>2, <1>4 DEF FilesAre

LEMMA Advanced ==
  ASSUME NEW m, NEW h, NEW t, Good(m, h, t), NEW g, FilesAre(m, g), NEW f \in FileId,
         NEW k \in Int, m.file[f].pos + k >= 0, NEW n, n = Advance(m, f, k)
  PROVE  /\ Good(n, h, t) /\ FilesAre(n, g) /\ SameTree(m, n)
         /\ n.vref = m.vref /\ n.vlen = m.vlen /\ n.inode = m.inode
<1>1. m.file \in [FileId -> FileRec] /\ m.file[f] \in FileRec
  BY DEF Good, FSState, OpenFiles
<1>2. m.file[f].pos \in Nat
  BY <1>1 DEF FileRec
<1>3. m.file[f].pos + k \in Nat
  BY <1>2
<1>4. n = SetPos(m, f, m.file[f].pos + k)
  BY <1>1 DEF Advance, SetPos, Good, FSState
<1> QED BY <1>3, <1>4, PosSet

\* fref, the call's work on the position, and fput: what do_read and the like do.
LEMMA UsedFile ==
  ASSUME IInv, NEW p \in Proc, Running(p), NEW f \in FileId, Use[f] > 0,
         UNCHANGED <<files, cwd, reading, power, leaked>>,
         NEW m, Good(m, Hold, Tot), FilesAre(m, Plus(Use, f)), SameTree(fs, m),
         NEW n, n = fput(m, f), Kernel(n), RecordLosses
  PROVE  IInv' /\ Kept
<1>1. Up /\ Use \in Count(FileId)
  BY AtCall
<1>2. Good(n, Hold, Tot) /\ FilesAre(n, Use) /\ Freed(m, n)
  BY <1>1, Fput
<1>3. Freed(fs, n)
  BY <1>2, SameTreeFacts, FreedTwice
<1> QED BY <1>1, <1>2, <1>3, FinishFreed

LEMMA TwoNumbers ==
  ASSUME NEW a \in Int, NEW b \in Int
  PROVE  /\ Max({a, b}) \in {a, b} /\ Max({a, b}) >= a /\ Max({a, b}) >= b
         /\ Min({a, b}) \in {a, b} /\ Min({a, b}) <= a /\ Min({a, b}) <= b
<1>1. \E x \in {a, b} : \A y \in {a, b} : x >= y
  OBVIOUS
<1>2. \E x \in {a, b} : \A y \in {a, b} : x =< y
  OBVIOUS
<1>3. Max({a, b}) \in {a, b} /\ \A y \in {a, b} : Max({a, b}) >= y
  BY <1>1 DEF Max
<1>4. Min({a, b}) \in {a, b} /\ \A y \in {a, b} : Min({a, b}) =< y
  BY <1>2 DEF Min
<1> QED BY <1>3, <1>4

LEMMA DoRead ==
  ASSUME IInv, NEW p \in Proc, NEW fd \in Fd, NEW nbytes \in 1 .. PAGE_SIZE,
         do_read(p, fd, nbytes), RecordLosses
  PROVE  IInv' /\ Kept
<1> DEFINE f == files[p][fd]
           m == fref(fs, f)
           k == ramfs_read(fs, VnodeOf(f), fs.file[f].pos, nbytes)
<1>1. /\ Running(p) /\ f # NULL /\ UNCHANGED <<files, cwd, power, leaked>>
      /\ \/ Kernel(fput(Advance(m, f, k), f)) /\ UNCHANGED reading
         \/ Kernel(m) /\ reading' = [reading EXCEPT ![p] = f]
  BY DEF do_read, OpenFor
<1>2. /\ files \in [Proc -> [Fd -> FileId \cup {NULL}]] /\ reading \in [Proc -> FileId \cup {NULL}]
      /\ Up /\ cwd[p] # NULL /\ FilesAre(fs, Use) /\ Good(fs, Hold, Tot) /\ Use \in Count(FileId)
      /\ reading[p] = NULL /\ fs \in FSState
  BY <1>1, AtCall
<1>3. f \in FileId /\ Use[f] > 0 /\ fs.file[f].pos \in Nat /\ VnodeOf(f) \in Inode
  BY <1>1, OpenDescriptor DEF VnodeOf
<1>4. k \in Int /\ k >= 0
  <2> DEFINE left == fs.inode[VnodeOf(f)].size - fs.file[f].pos
  <2>1. left \in Int /\ nbytes \in Int
    BY <1>2, <1>3, Sizes DEF FSState, Inodes, InodeRec
  <2> HIDE DEF left
  <2> DEFINE least == Min({nbytes, left})
  <2>2. least \in Int
    BY <2>1, TwoNumbers
  <2>3. k = Max({0, least})
    BY DEF ramfs_read, left
  <2> HIDE DEF least, k
  <2>4. k \in {0, least} /\ k >= 0
    BY <2>2, <2>3, TwoNumbers
  <2> QED BY <2>2, <2>4
<1> HIDE DEF f, k
<1>5. /\ Good(m, Hold, Tot) /\ FilesAre(m, Plus(Use, f)) /\ SameTree(fs, m)
      /\ m.file[f].pos = fs.file[f].pos
  BY <1>2, <1>3, Fref
<1> HIDE DEF m
<1>6. CASE Kernel(fput(Advance(m, f, k), f)) /\ UNCHANGED reading
  <2> DEFINE n == Advance(m, f, k)
  <2>1. m.file[f].pos + k >= 0
    BY <1>3, <1>4, <1>5
  <2>2. Good(n, Hold, Tot) /\ FilesAre(n, Plus(Use, f)) /\ SameTree(m, n)
    BY <1>3, <1>4, <1>5, <2>1, Advanced
  <2>3. SameTree(fs, n)
    BY <1>5, <2>2, SameTreeFacts
  <2>4. UNCHANGED <<files, cwd, reading, power, leaked>> /\ Kernel(fput(n, f))
    BY <1>1, <1>6
  <2> HIDE DEF n
  <2> QED BY <1>1, <1>3, <2>2, <2>3, <2>4, UsedFile
<1>7. CASE Kernel(m) /\ reading' = [reading EXCEPT ![p] = f]
  <2>1. /\ reading' \in [Proc -> FileId \cup {NULL}] /\ reading'[p] = f
        /\ \A q \in Proc : q # p => reading'[q] = reading[q]
    BY <1>2, <1>3, <1>7
  <2>2. Users(files, reading') = Plus(Use, f)
    BY <1>2, <1>3, <2>1, ReaderAdded DEF Use
  <2>3. FilesAre(m, Users(files', reading')) /\ Freed(fs, m)
    BY <1>1, <1>5, <2>2, SameTreeFacts
  <2>4. Absent'
    BY <1>1, <1>2, <2>1, AbsentStill
  <2>5. files' \in [Proc -> [Fd -> FileId \cup {NULL}]]
    BY <1>1, <1>2
  <2> QED BY <1>1, <1>2, <1>5, <1>7, <2>1, <2>3, <2>4, <2>5, FinishFiles
<1> QED BY <1>1, <1>6, <1>7

LEMMA DoReadContinues ==
  ASSUME IInv, NEW p \in Proc, NEW bytesread \in 0 .. 1, do_read_Continues(p, bytesread),
         RecordLosses
  PROVE  IInv' /\ Kept
<1> DEFINE f == reading[p]
           m == Advance(fs, f, bytesread)
           n == fput(m, f)
           g == Users(files, reading')
<1>1. /\ Up /\ f # NULL /\ Kernel(n) /\ reading' = [reading EXCEPT ![p] = NULL]
      /\ UNCHANGED <<files, cwd, power, leaked>>
  BY DEF do_read_Continues
<1>2. /\ files \in [Proc -> [Fd -> FileId \cup {NULL}]] /\ reading \in [Proc -> FileId \cup {NULL}]
      /\ FilesAre(fs, Use) /\ Good(fs, Hold, Tot) /\ Absent /\ fs \in FSState
  BY <1>1, AtUp
<1>3. f \in FileId /\ cwd[p] # NULL /\ reading[p] = f
  BY <1>1, <1>2 DEF Absent
<1>4. /\ reading' \in [Proc -> FileId \cup {NULL}] /\ reading'[p] = NULL
      /\ \A q \in Proc : q # p => reading[q] = reading'[q]
  BY <1>1, <1>2
<1>5. g \in Count(FileId)
  BY UsersCount
<1>6. fs.file[f].pos + bytesread >= 0 /\ bytesread \in Int
  BY <1>2, <1>3 DEF FSState, OpenFiles, FileRec
<1> HIDE DEF f, m, n, g
<1>7. Use = Plus(g, f)
  BY <1>3, <1>4, ReaderAdded DEF Use, g
<1>8. Good(m, Hold, Tot) /\ FilesAre(m, Plus(g, f)) /\ SameTree(fs, m)
  BY <1>2, <1>3, <1>6, <1>7, Advanced DEF m
<1>9. Good(n, Hold, Tot) /\ FilesAre(n, g) /\ Freed(m, n)
  BY <1>3, <1>5, <1>8, Fput DEF n
<1>10. Freed(fs, n) /\ FilesAre(n, Users(files', reading'))
  BY <1>1, <1>8, <1>9, SameTreeFacts, FreedTwice DEF g
<1>11. Absent'
  BY <1>1, <1>3, <1>4, AbsentStill
<1>12. files' \in [Proc -> [Fd -> FileId \cup {NULL}]]
  BY <1>1, <1>2
<1> QED BY <1>1, <1>4, <1>9, <1>10, <1>11, <1>12, FinishFiles

LEMMA DoGetdent ==
  ASSUME IInv, NEW p \in Proc, NEW fd \in Fd, do_getdent(p, fd), RecordLosses
  PROVE  IInv' /\ Kept
<1> DEFINE f == files[p][fd]
           m == fref(fs, f)
           k == ramfs_readdir(fs, VnodeOf(f), fs.file[f].pos)
<1>1. /\ Running(p) /\ f # NULL /\ UNCHANGED <<files, cwd, reading, power, leaked>>
      /\ Kernel(IF fs.file[f].pos % DIRENT_SIZE # 0 THEN Crash(fs, "ramfs_readdir")
                ELSE fput(Advance(m, f, k), f))
  BY DEF do_getdent, SameProcs
<1>2. /\ Up /\ FilesAre(fs, Use) /\ Good(fs, Hold, Tot) /\ Use \in Count(FileId)
      /\ fs.crash = NoCrash /\ fs \in FSState
  BY <1>1, AtCall
<1>3. f \in FileId /\ Use[f] > 0 /\ fs.file[f].pos \in Nat
  BY <1>1, OpenDescriptor
<1>4. k \in Int /\ k >= 0
  <2> DEFINE used == {s \in Slot : s * DIRENT_SIZE > fs.file[f].pos
                                   /\ fs.dirent[VnodeOf(f)][s].name # NoName}
  <2>1. CASE used = {}
    BY <2>1 DEF ramfs_readdir
  <2>2. CASE used # {}
    <3>1. Min(used) \in used
      <4>1. used \in SUBSET Nat
        BY RamFSAssumption DEF Slot
      <4> HIDE DEF used
      <4> QED BY <2>2, <4>1, LeastNumber
    <3>2. \A s \in used : s \in Nat /\ s * DIRENT_SIZE > fs.file[f].pos
      BY RamFSAssumption DEF Slot
    <3>3. k = Min(used) * DIRENT_SIZE - fs.file[f].pos
      BY <2>2 DEF ramfs_readdir
    <3> HIDE DEF used, k
    <3> DEFINE a == Min(used) * DIRENT_SIZE
    <3>4. a \in Int
      BY <3>1, <3>2, Sizes
    <3> QED BY <1>3, <3>1, <3>2, <3>3, <3>4
  <2> QED BY <2>1, <2>2
<1> HIDE DEF f, k
<1>5. CASE fs.file[f].pos % DIRENT_SIZE # 0
  <2>1. Kernel(Crash(fs, "ramfs_readdir"))
    BY <1>1, <1>5
  <2> QED BY <1>1, <1>2, <2>1, Stop
<1>6. CASE ~(fs.file[f].pos % DIRENT_SIZE # 0)
  <2> DEFINE n == Advance(m, f, k)
  <2>1. Kernel(fput(n, f))
    BY <1>1, <1>6
  <2>2. /\ Good(m, Hold, Tot) /\ FilesAre(m, Plus(Use, f)) /\ SameTree(fs, m)
        /\ m.file[f].pos = fs.file[f].pos
    BY <1>2, <1>3, Fref
  <2> HIDE DEF m
  <2>3. m.file[f].pos + k >= 0
    BY <1>3, <1>4, <2>2
  <2>4. Good(n, Hold, Tot) /\ FilesAre(n, Plus(Use, f)) /\ SameTree(m, n)
    BY <1>3, <1>4, <2>2, <2>3, Advanced
  <2> HIDE DEF n
  <2>5. SameTree(fs, n)
    BY <2>2, <2>4, SameTreeFacts
  <2> QED BY <1>1, <1>3, <2>1, <2>4, <2>5, UsedFile
<1> QED BY <1>5, <1>6

LEMMA DoLseek ==
  ASSUME IInv, NEW p \in Proc, NEW fd \in Fd, NEW offset \in -1 .. MaxPos,
         NEW whence \in {"SEEK_SET", "SEEK_CUR", "SEEK_END"},
         do_lseek(p, fd, offset, whence), RecordLosses
  PROVE  IInv' /\ Kept
<1> DEFINE f == files[p][fd]
           from == CASE whence = "SEEK_SET" -> 0
                     [] whence = "SEEK_CUR" -> fs.file[f].pos
                     [] whence = "SEEK_END" -> fs.vlen[VnodeOf(f)]
           k == Max({0, from + offset})
           m == SetPos(fs, f, k)
<1>1. /\ Running(p) /\ f # NULL /\ UNCHANGED <<files, cwd, reading, power, leaked>>
      /\ Kernel(m)
  BY DEF do_lseek, SameProcs, SetPos
<1>2. /\ Up /\ FilesAre(fs, Use) /\ Good(fs, Hold, Tot) /\ fs \in FSState
  BY <1>1, AtCall
<1>3. f \in FileId /\ fs.file[f].pos \in Nat /\ VnodeOf(f) \in Inode
  BY <1>1, OpenDescriptor DEF VnodeOf
<1> HIDE DEF f
<1>4. from \in Nat
  BY <1>2, <1>3 DEF FSState, Numbers
<1> HIDE DEF from
<1>5. k \in Nat
  <2>1. from + offset \in Int /\ 0 \in Int
    BY <1>4, FilesAssumption
  <2>2. k \in {0, from + offset} /\ k >= 0
    BY <2>1, TwoNumbers
  <2> QED BY <2>1, <2>2
<1> HIDE DEF k
<1>6. Good(m, Hold, Tot) /\ FilesAre(m, Use) /\ SameTree(fs, m)
  BY <1>2, <1>3, <1>5, PosSet
<1> HIDE DEF m
<1>7. Freed(fs, m)
  BY <1>6, SameTreeFacts
<1> QED BY <1>1, <1>2, <1>6, <1>7, FinishFreed

\* The length of a file in core and of its vnode.
SetLength(m, i, len) == [m EXCEPT !.vlen[i] = len, !.inode[i].size = len]

LEMMA LengthSet ==
  ASSUME NEW m, NEW h, NEW t, Good(m, h, t), NEW i \in Inode, m.inode[i].mode = "file",
         NEW len \in Nat, NEW n, n = SetLength(m, i, len)
  PROVE  Good(n, h, t) /\ SameTree(m, n) /\ n.file = m.file /\ n.vlen[i] = len
<1>1. /\ m \in FSState /\ m.inode \in [Inode -> InodeRec] /\ m.vlen \in [Inode -> Nat]
      /\ NamesAre(m, t) /\ Plain(m) /\ Dotted(m) /\ Sized(m) /\ Lengths(m) /\ OneName(m)
  BY DEF Good, FSState, Inodes, Numbers
<1> DEFINE J == [m.inode EXCEPT ![i].size = len]
           V == [m.vlen EXCEPT ![i] = len]
<1>2. J \in Inodes /\ V \in Numbers
  BY <1>1 DEF Inodes, Numbers, InodeRec
<1>3. /\ \A j \in Inode : /\ J[j].mode = m.inode[j].mode /\ J[j].links = m.inode[j].links
                          /\ J[j].size = IF j = i THEN len ELSE m.inode[j].size
                          /\ V[j] = IF j = i THEN len ELSE m.vlen[j]
  BY <1>1 DEF InodeRec
<1>4. n = [m EXCEPT !.vlen = V, !.inode = J]
  BY DEF SetLength
<1> HIDE DEF J, V
<1>5. /\ n \in FSState /\ n.crash = m.crash /\ n.vref = m.vref /\ n.file = m.file
      /\ n.dirent = m.dirent /\ n.inode = J /\ n.vlen = V
  BY <1>1, <1>2, <1>4 DEF FSState
<1>6. \A j \in Inode : n.inode[j].mode = m.inode[j].mode /\ n.inode[j].links = m.inode[j].links
  BY <1>3, <1>5
<1>7. NamesAre(n, t) /\ Plain(n) /\ Dotted(n) /\ OneName(n)
  <2>1. NamesAre(n, t)
    BY <1>1, <1>5 DEF NamesAre
  <2>2. Plain(n)
    BY <1>1, <1>5, <1>6 DEF Plain
  <2>3. Dotted(n)
    BY <1>1, <1>5, <1>6 DEF Dotted
  <2>4. OneName(n)
    BY <1>1, <1>5, <1>6 DEF OneName
  <2> QED BY <2>1, <2>2, <2>3, <2>4
<1>8. Sized(n)
  <2>1. ASSUME NEW j \in Inode, n.inode[j].mode = "dir"
        PROVE  n.inode[j].size = Cardinality(Used(n, j)) * DIRENT_SIZE
    <3>1. m.inode[j].mode = "dir" /\ j # i
      BY <1>6, <2>1
    <3>2. Used(n, j) = Used(m, j) /\ n.inode[j].size = m.inode[j].size
      BY <1>3, <1>5, <3>1 DEF Used
    <3> QED BY <1>1, <3>1, <3>2 DEF Sized
  <2> QED BY <2>1 DEF Sized
<1>9. Lengths(n)
  BY <1>1, <1>3, <1>5, <1>6 DEF Lengths
<1>10. Good(n, h, t)
  BY <1>5, <1>6, <1>7, <1>8, <1>9, GoodAgain
<1> QED BY <1>3, <1>5, <1>6, <1>10 DEF SameTree

\* ramfs_write: a file in core ends where its vnode says, and a write ends in it.
LEMMA Written ==
  ASSUME NEW m, NEW h, NEW t, Good(m, h, t), NEW i \in Inode, m.inode[i].mode = "file",
         m.vref[i] > 0, NEW pos \in Nat, NEW count \in Int,
         NEW ret, ret = ramfs_write_count(pos, count), NEW w, w = ramfs_write(m, i, pos, count)
  PROVE  /\ ret \in Int
         /\ ret < 0 => w = Crash(m, "memcpy")
         /\ ret >= 0 => /\ Good(w, h, t) /\ SameTree(m, w) /\ w.file = m.file
                        /\ w.vlen[i] \in Nat /\ w.vlen[i] >= pos
<1>1. m.vlen[i] = m.inode[i].size /\ m.vlen[i] \in Nat
  BY DEF Good, Lengths, FSState, Numbers
<1>2. ret \in Int
  <2> DEFINE room == PAGE_SIZE - pos
  <2>1. room \in Int
    BY RamFSAssumption
  <2>2. ret = Min({count, room})
    BY DEF ramfs_write_count
  <2> HIDE DEF room
  <2> QED BY <2>1, <2>2, TwoNumbers
<1> DEFINE end == pos + ret
           len == Max({m.vlen[i], end})
<1>3. end \in Int
  BY <1>2
<1>4. w = IF ret < 0 THEN Crash(m, "memcpy")
          ELSE IF m.vlen[i] # m.inode[i].size THEN Crash(m, "ramfs_write")
          ELSE SetLength(m, i, len)
  BY DEF ramfs_write, SetLength
<1>5. ASSUME ret >= 0
      PROVE  /\ Good(w, h, t) /\ SameTree(m, w) /\ w.file = m.file
             /\ w.vlen[i] \in Nat /\ w.vlen[i] >= pos
  <2>1. end >= pos
    BY <1>2, <1>5
  <2> HIDE DEF end
  <2>2. len \in {m.vlen[i], end} /\ len >= end
    <3> DEFINE a == m.vlen[i]
    <3>1. a \in Int /\ end \in Int /\ len = Max({a, end})
      BY <1>1, <1>3
    <3> HIDE DEF a, len
    <3>2. len \in {a, end} /\ len >= end
      BY <3>1, TwoNumbers
    <3> QED BY <3>2 DEF a
  <2>3. w = SetLength(m, i, len)
    BY <1>1, <1>2, <1>4, <1>5
  <2> HIDE DEF len
  <2>4. len \in Nat /\ len >= pos
    BY <1>1, <1>3, <2>1, <2>2
  <2> QED BY <2>3, <2>4, LengthSet
<1> QED BY <1>1, <1>2, <1>4, <1>5

LEMMA DoWrite ==
  ASSUME IInv, NEW p \in Proc, NEW fd \in Fd, NEW nbytes \in 1 .. PAGE_SIZE,
         do_write(p, fd, nbytes), RecordLosses
  PROVE  IInv' /\ Kept
<1> DEFINE f == files[p][fd]
           v == VnodeOf(f)
           h == fref(fs, f)
           m == IF "APPEND" \in fs.file[f].mode THEN SetPos(h, f, fs.vlen[v]) ELSE h
           pos == m.file[f].pos
           w == ramfs_write(m, v, pos, nbytes)
           n == IF TypeOf(f) = "file" THEN ramfs_write_count(pos, nbytes) ELSE nbytes
<1>1. /\ Running(p) /\ f # NULL /\ UNCHANGED <<files, cwd, reading, power, leaked>>
      /\ Kernel(IF TypeOf(f) # "file" THEN fput(Advance(m, f, n), f)
                ELSE IF w.crash # NoCrash THEN w
                ELSE IF pos > w.vlen[v] THEN Crash(m, "do_write")
                ELSE fput(Advance(w, f, n), f))
  BY DEF do_write, SameProcs, SetPos, OpenFor
<1>2. /\ Up /\ FilesAre(fs, Use) /\ Good(fs, Hold, Tot) /\ Use \in Count(FileId) /\ fs \in FSState
  BY <1>1, AtCall
<1>3. /\ f \in FileId /\ Use[f] > 0 /\ fs.file[f].pos \in Nat /\ v \in Inode
      /\ fs.vref[v] > 0 /\ fs.vlen[v] \in Nat
  BY <1>1, <1>2, OpenDescriptor DEF VnodeOf, FSState, Numbers
<1>4. TypeOf(f) = fs.inode[v].mode
  BY DEF TypeOf
<1> HIDE DEF f, v
<1>5. /\ Good(h, Hold, Tot) /\ FilesAre(h, Plus(Use, f)) /\ SameTree(fs, h)
      /\ h.vref = fs.vref /\ h.file[f].pos = fs.file[f].pos
  BY <1>2, <1>3, Fref
<1> HIDE DEF h
<1>6. /\ Good(m, Hold, Tot) /\ FilesAre(m, Plus(Use, f)) /\ SameTree(fs, m)
      /\ m.vref = fs.vref /\ pos \in Nat
  <2>1. CASE "APPEND" \in fs.file[f].mode
    <3>1. m = SetPos(h, f, fs.vlen[v])
      BY <2>1
    <3> HIDE DEF m
    <3>2. /\ Good(m, Hold, Tot) /\ FilesAre(m, Plus(Use, f)) /\ SameTree(h, m)
          /\ m.vref = h.vref /\ pos = fs.vlen[v]
      BY <1>3, <1>5, <3>1, PosSet
    <3> QED BY <1>3, <1>5, <3>2, SameTreeFacts
  <2>2. CASE "APPEND" \notin fs.file[f].mode
    <3>1. m = h
      BY <2>2
    <3> HIDE DEF m
    <3> QED BY <1>3, <1>5, <3>1
  <2> QED BY <2>1, <2>2
<1> HIDE DEF m
<1>7. CASE TypeOf(f) # "file"
  <2> DEFINE k == Advance(m, f, nbytes)
  <2>1. Kernel(fput(k, f))
    <3>1. n = nbytes
      BY <1>7
    <3> HIDE DEF n, w, pos
    <3> QED BY <1>1, <1>7, <3>1
  <2>2. nbytes \in Int /\ pos + nbytes >= 0
    BY <1>6, RamFSAssumption
  <2>3. Good(k, Hold, Tot) /\ FilesAre(k, Plus(Use, f)) /\ SameTree(m, k)
    BY <1>3, <1>6, <2>2, Advanced
  <2> HIDE DEF k
  <2>4. SameTree(fs, k)
    BY <1>6, <2>3, SameTreeFacts
  <2> QED BY <1>1, <1>3, <2>1, <2>3, <2>4, UsedFile
<1>8. CASE TypeOf(f) = "file"
  <2>1. n = ramfs_write_count(pos, nbytes) /\ nbytes \in Int
    BY <1>8, RamFSAssumption
  <2>2. m.inode[v].mode = "file" /\ m.vref[v] > 0
    BY <1>3, <1>4, <1>6, <1>8 DEF SameTree
  <2>3. w = ramfs_write(m, v, pos, nbytes)
    OBVIOUS
  <2> HIDE DEF n, w, pos
  <2>4. Kernel(IF w.crash # NoCrash THEN w ELSE IF pos > w.vlen[v] THEN Crash(m, "do_write")
               ELSE fput(Advance(w, f, n), f))
    BY <1>1, <1>8
  <2>5. /\ n \in Int
        /\ n < 0 => w = Crash(m, "memcpy")
        /\ n >= 0 => /\ Good(w, Hold, Tot) /\ SameTree(m, w) /\ w.file = m.file
                     /\ w.vlen[v] \in Nat /\ w.vlen[v] >= pos
    BY <1>3, <1>6, <2>1, <2>2, <2>3, Written
  <2>6. CASE n < 0
    <3>1. m.crash = NoCrash /\ m \in FSState
      BY <1>6 DEF Good
    <3>2. Crash(m, "memcpy").crash # NoCrash
      BY <3>1 DEF Crash, FSState, NoCrash
    <3>3. Kernel(Crash(m, "memcpy"))
      BY <2>4, <2>5, <2>6, <3>2
    <3> QED BY <1>1, <1>2, <3>1, <3>3, Stop
  <2>7. CASE n >= 0
    <3> DEFINE k == Advance(w, f, n)
    <3>1. w.crash = NoCrash /\ ~(pos > w.vlen[v])
      BY <1>6, <2>5, <2>7 DEF Good
    <3>2. Kernel(fput(k, f))
      BY <2>4, <3>1
    <3>3. FilesAre(w, Plus(Use, f)) /\ w.file[f].pos + n >= 0
      <4>1. w.file = m.file
        BY <2>5, <2>7
      <4> QED BY <1>6, <2>5, <2>7, <4>1, SameFiles DEF pos
    <3>4. Good(k, Hold, Tot) /\ FilesAre(k, Plus(Use, f)) /\ SameTree(w, k)
      BY <1>3, <2>5, <2>7, <3>3, Advanced
    <3> HIDE DEF k
    <3>5. SameTree(fs, k)
      BY <1>6, <2>5, <2>7, <3>4, SameTreeFacts
    <3> QED BY <1>1, <1>3, <3>2, <3>4, <3>5, UsedFile
  <2> QED BY <2>5, <2>6, <2>7
<1> QED BY <1>7, <1>8

-----------------------------------------------------------------------------
(* do_open. *)

Modes == SUBSET {"READ", "WRITE", "APPEND"}

LEMMA ModeOfFlags ==
  ASSUME NEW oflags \in OFlags
  PROVE  ModeOf(oflags) \in Modes
<1>1. oflags \in {"O_RDONLY", "O_WRONLY", "O_RDWR", "O_RDWR|O_APPEND",
                  "O_RDONLY|O_CREAT", "O_WRONLY|O_CREAT", "O_RDWR|O_CREAT"}
  BY FilesAssumption
<1>2. /\ {"READ"} \in Modes /\ {"WRITE"} \in Modes /\ {"READ", "WRITE"} \in Modes
      /\ {"READ", "WRITE", "APPEND"} \in Modes
  BY DEF Modes
<1> HIDE DEF Modes
<1> QED BY <1>1, <1>2 DEF ModeOf

\* The file_t of a call of open, before the path is looked at.
NewFile(oflags) == [FreeFile EXCEPT !.ref = 1, !.mode = ModeOf(oflags)]
Opening(f, oflags) == SetFile(fs, f, NewFile(oflags))

LEMMA FileOpening ==
  ASSUME Ready, NEW f, f = (CHOOSE g \in FreeFiles(fs) : TRUE), FreeFiles(fs) # {},
         NEW oflags \in OFlags, NEW m, m = Opening(f, oflags)
  PROVE  /\ f \in FileId /\ Use[f] = 0
         /\ Good(m, Hold, Tot) /\ Parents(m) /\ SameTree(fs, m)
         /\ m.file[f] = NewFile(oflags) /\ m.file[f].vnode = NULL /\ m.file[f].ref = 1
         /\ m.file[f] \in FileRec
         /\ \A e \in FileId : e # f => m.file[e] = fs.file[e]
<1>1. /\ Good(fs, Hold, Tot) /\ Parents(fs) /\ FilesAre(fs, Use) /\ Use \in Count(FileId)
      /\ fs \in FSState
  BY ReadyFacts
<1>2. f \in FileId /\ fs.file[f].ref = 0
  <2>1. f \in FreeFiles(fs)
    BY Zenon
  <2> QED BY <2>1 DEF FreeFiles
<1>3. Use[f] = 0 /\ fs.file[f].vnode = NULL
  BY <1>1, <1>2 DEF FilesAre
<1>4. /\ NewFile(oflags) \in FileRec /\ NewFile(oflags).vnode = NULL
      /\ NewFile(oflags).ref = 1
  <2> DEFINE M == ModeOf(oflags)
  <2>1. M \in SUBSET {"READ", "WRITE", "APPEND"}
    BY ModeOfFlags DEF Modes
  <2>2. NewFile(oflags) = [FreeFile EXCEPT !.ref = 1, !.mode = M]
    BY DEF NewFile
  <2> HIDE DEF M
  <2>3. NewFile(oflags) = [mode |-> M, pos |-> 0, ref |-> 1, vnode |-> NULL]
    BY ONLY <2>2 DEF FreeFile
  <2> QED BY ONLY <2>1, <2>3 DEF FileRec
<1>5. m = SetFile(fs, f, NewFile(oflags))
  BY DEF Opening
<1> HIDE DEF Opening
<1>6. /\ m.file[f] = NewFile(oflags) /\ \A e \in FileId : e # f => m.file[e] = fs.file[e]
      /\ SameTree(fs, m) /\ Good(m, Hold, Tot)
  <2> DEFINE r == NewFile(oflags)
  <2>1. r \in FileRec /\ r.vnode = fs.file[f].vnode /\ m = SetFile(fs, f, r)
    BY <1>3, <1>4, <1>5
  <2> HIDE DEF r
  <2>2. m.file[f] = r /\ \A e \in FileId : e # f => m.file[e] = fs.file[e]
    BY ONLY <1>1, <1>2, <2>1, FileSet
  <2>3. SameTree(fs, m) /\ Good(m, Hold, Tot)
    BY ONLY <1>1, <1>2, <2>1, FileSet
  <2> QED BY <2>2, <2>3 DEF r
<1>7. Parents(m)
  BY <1>1, <1>6, SameTreeFacts
<1> QED BY <1>2, <1>3, <1>4, <1>6, <1>7

\* The file refers to the vnode that the path leads to.
LEMMA VnodeSet ==
  ASSUME NEW m, NEW t, NEW i \in Inode, NEW h \in Count(Inode), Good(m, Plus(h, i), t),
         NEW f \in FileId, m.file[f].vnode = NULL, m.file[f].ref = 1, m.file[f] \in FileRec,
         NEW g \in Count(FileId), g[f] = 0,
         \A e \in FileId \ {f} : /\ m.file[e].ref = g[e]
                                 /\ (m.file[e].ref = 0) <=> (m.file[e].vnode = NULL),
         NEW n, n = [m EXCEPT !.file[f].vnode = i]
  PROVE  Good(n, h, t) /\ SameTree(m, n) /\ n.inode = m.inode /\ FilesAre(n, Plus(g, f))
<1> DEFINE r == [m.file[f] EXCEPT !.vnode = i]
<1>1. n = SetFile(m, f, r)
  BY DEF SetFile
<1>2. r \in FileRec /\ r.vnode = i /\ r.ref = 1
  BY DEF FileRec
<1> HIDE DEF r
<1>3. /\ n.file[f] = r /\ \A e \in FileId : e # f => n.file[e] = m.file[e]
      /\ SameTree(m, n) /\ n.inode = m.inode /\ Good(n, h, t)
  <2>1. /\ n.file[f] = r /\ \A e \in FileId : e # f => n.file[e] = m.file[e]
        /\ SameTree(m, n) /\ n.inode = m.inode
    BY ONLY Good(m, Plus(h, i), t), f \in FileId, <1>1, <1>2, FileSet
  <2>2. \A k \in Count(Inode) :
          m.file[f].vnode = NULL /\ r.vnode \in Inode /\ Plus(h, i) = Plus(k, r.vnode)
            => Good(n, k, t)
    BY ONLY Good(m, Plus(h, i), t), f \in FileId, <1>1, <1>2, FileSet
  <2> QED BY <1>2, <2>1, <2>2
<1>4. FilesAre(n, Plus(g, f))
  <2>1. /\ Plus(g, f)[f] = 1 /\ \A e \in FileId \ {f} : Plus(g, f)[e] = g[e]
    BY Counting
  <2>2. i # NULL
    BY Basics
  <2> QED BY <1>2, <1>3, <2>1, <2>2 DEF FilesAre
<1> QED BY <1>3, <1>4

\* When the path leads nowhere, the file_t is free again.
LEMMA FileGivenUp ==
  ASSUME NEW m, NEW h, NEW t, Good(m, h, t),
         NEW f \in FileId, m.file[f].vnode = NULL, m.file[f].ref = 1,
         NEW g \in Count(FileId), g[f] = 0,
         \A e \in FileId \ {f} : /\ m.file[e].ref = g[e]
                                 /\ (m.file[e].ref = 0) <=> (m.file[e].vnode = NULL),
         NEW n, n = fput(m, f)
  PROVE  Good(n, h, t) /\ SameTree(m, n) /\ FilesAre(n, g)
<1>1. n = SetFile(m, f, FreeFile)
  BY DEF fput, SetFile
<1>2. FreeFile \in FileRec /\ FreeFile.vnode = NULL /\ FreeFile.ref = 0
  BY FreeFileIs
<1>3. /\ n.file[f] = FreeFile /\ \A e \in FileId : e # f => n.file[e] = m.file[e]
      /\ SameTree(m, n) /\ Good(n, h, t)
  BY <1>1, <1>2, FileSet
<1>4. FilesAre(n, g)
  BY <1>2, <1>3 DEF FilesAre
<1> QED BY <1>3, <1>4

\* The new file_t in the first free descriptor.
LEMMA OpenSucceeds ==
  ASSUME IInv, NEW p \in Proc, Running(p), get_empty_fd(p) # {},
         NEW f \in FileId, files' = [files EXCEPT ![p][Min(get_empty_fd(p))] = f],
         UNCHANGED <<cwd, reading, power, leaked>>
  PROVE  /\ Users(files', reading') = Plus(Use, f) /\ ProcTypes' /\ Absent'
         /\ files' \in [Proc -> [Fd -> FileId \cup {NULL}]]
         /\ reading' \in [Proc -> FileId \cup {NULL}]
<1> DEFINE nfd == Min(get_empty_fd(p))
<1>1. /\ files \in [Proc -> [Fd -> FileId \cup {NULL}]] /\ cwd[p] # NULL
      /\ reading \in [Proc -> FileId \cup {NULL}] /\ Ready
  BY AtCall
<1>2. nfd \in Fd /\ files[p][nfd] = NULL /\ files' = [files EXCEPT ![p][nfd] = f]
  BY FreeDescriptor
<1> HIDE DEF nfd
<1>3. /\ files' \in [Proc -> [Fd -> FileId \cup {NULL}]] /\ files'[p][nfd] = f
      /\ OtherFds(files, files', p, nfd)
      /\ \A q \in Proc \ {p} : files'[q] = files[q]
  BY ONLY f \in FileId, p \in Proc, <1>1, <1>2 DEF OtherFds
<1>4. Gains(files, files', p, nfd, f)
  BY <1>2, <1>3 DEF Gains
<1>5. Users(files', reading') = Plus(Use, f)
  <2>1. Users(files', reading) = Plus(Users(files, reading), f)
    BY <1>2, <1>4, DescriptorAdded
  <2> QED BY <2>1 DEF Use
<1>6. Absent'
  BY <1>1, <1>3, AbsentStill
<1>7. ProcTypes'
  BY <1>1, <1>3 DEF ProcTypes, Ready, TypeOK
<1> QED BY <1>1, <1>3, <1>5, <1>6, <1>7

LEMMA DoOpen ==
  ASSUME IInv, NEW p \in Proc, NEW path \in Path, NEW oflags \in OFlags,
         do_open(p, path, oflags), RecordLosses
  PROVE  IInv' /\ Kept
<1> DEFINE f == CHOOSE g \in FreeFiles(fs) : TRUE
           fresh == Opening(f, oflags)
           r == open_namev(fresh, p, path, Creates(oflags))
           m == [r.m EXCEPT !.file[f].vnode = r.ino]
           isdir == m.inode[r.ino].mode = "dir" /\ "WRITE" \in ModeOf(oflags)
<1>1. /\ Running(p) /\ FreeFiles(fs) # {} /\ UNCHANGED <<cwd, reading, power, leaked>>
      /\ IF get_empty_fd(p) = {} THEN Kernel(Crash(fs, "undefined")) /\ UNCHANGED files
         ELSE IF r.err # "ok" THEN Kernel(fput(r.m, f)) /\ UNCHANGED files
         ELSE IF isdir THEN Kernel(fput(m, f)) /\ UNCHANGED files
         ELSE Kernel(m) /\ files' = [files EXCEPT ![p][Min(get_empty_fd(p))] = f]
  BY DEF do_open, Opening, SetFile, NewFile
<1>2. /\ Ready /\ Up /\ FilesAre(fs, Use) /\ Use \in Count(FileId) /\ Good(fs, Hold, Tot)
      /\ Hold \in Count(Inode) /\ Tot \in Count(Inode) /\ fs.crash = NoCrash /\ fs \in FSState
      /\ power = "on" /\ ~orphan
  BY <1>1, AtCall, AtUp
<1> HIDE DEF f
<1>3. /\ f \in FileId /\ Use[f] = 0
      /\ Good(fresh, Hold, Tot) /\ Parents(fresh) /\ SameTree(fs, fresh)
      /\ fresh.file[f].vnode = NULL /\ fresh.file[f].ref = 1
      /\ fresh.file[f] \in FileRec
      /\ \A e \in FileId : e # f => fresh.file[e] = fs.file[e]
  BY <1>1, <1>2, FileOpening DEF f
<1> HIDE DEF fresh
<1>4. Walked(fresh, Hold, Tot, r) \/ Made(fresh, Hold, Tot, r)
  <2>1. \A i \in Inode : Hold[i] >= Hold[i]
    BY <1>2 DEF Count
  <2> QED BY <1>1, <1>2, <1>3, <2>1, OpenNamev
<1> HIDE DEF r
<1>5. r.m.file = fresh.file /\ r.ino \in Inode
  BY <1>4 DEF Walked, Made, Grown, IsAnswer
<1>6. /\ r.m.file[f].vnode = NULL /\ r.m.file[f].ref = 1 /\ r.m.file[f] \in FileRec
      /\ \A e \in FileId \ {f} : /\ r.m.file[e].ref = Use[e]
                                 /\ (r.m.file[e].ref = 0) <=> (r.m.file[e].vnode = NULL)
  BY <1>2, <1>3, <1>5 DEF FilesAre
<1>7. CASE get_empty_fd(p) = {}
  BY <1>1, <1>2, <1>7, Stop
<1>8. CASE get_empty_fd(p) # {} /\ r.err # "ok"
  <2> DEFINE n == fput(r.m, f)
  <2>1. Kernel(n) /\ UNCHANGED files
    BY <1>1, <1>8
  <2>2. Good(r.m, Hold, Tot) /\ SameTree(fs, r.m)
    <3>1. Walked(fresh, Hold, Tot, r)
      BY <1>4, <1>8 DEF Made
    <3> QED BY <1>3, <1>8, <3>1, SameTreeFacts DEF Walked
  <2>3. Good(n, Hold, Tot) /\ SameTree(r.m, n) /\ FilesAre(n, Use)
    BY <1>2, <1>3, <1>6, <2>2, FileGivenUp
  <2> HIDE DEF n
  <2>4. Freed(fs, n)
    BY <2>2, <2>3, SameTreeFacts
  <2> QED BY <1>1, <1>2, <2>1, <2>3, <2>4, FinishFreed
<1>9. CASE get_empty_fd(p) # {} /\ r.err = "ok" /\ Walked(fresh, Hold, Tot, r)
  <2>1. Good(r.m, Plus(Hold, r.ino), Tot) /\ SameTree(fs, r.m)
    BY <1>3, <1>9, SameTreeFacts DEF Walked
  <2>2. Good(m, Hold, Tot) /\ SameTree(r.m, m) /\ FilesAre(m, Plus(Use, f))
    BY <1>2, <1>3, <1>5, <1>6, <2>1, VnodeSet
  <2>3. Freed(fs, m)
    BY <2>1, <2>2, SameTreeFacts
  <2>4. CASE isdir
    <3> DEFINE n == fput(m, f)
    <3>1. Kernel(n) /\ UNCHANGED files
      BY <1>1, <1>9, <2>4
    <3> HIDE DEF m
    <3>2. Good(n, Hold, Tot) /\ FilesAre(n, Use) /\ Freed(m, n)
      BY <1>2, <1>3, <2>2, Fput
    <3> HIDE DEF n
    <3>3. Freed(fs, n)
      BY <2>3, <3>2, FreedTwice
    <3> QED BY <1>1, <1>2, <3>1, <3>2, <3>3, FinishFreed
  <2>5. CASE ~isdir
    <3>1. Kernel(m) /\ files' = [files EXCEPT ![p][Min(get_empty_fd(p))] = f]
      BY <1>1, <1>9, <2>5
    <3> HIDE DEF m
    <3>2. /\ Users(files', reading') = Plus(Use, f) /\ Absent'
          /\ files' \in [Proc -> [Fd -> FileId \cup {NULL}]]
          /\ reading' \in [Proc -> FileId \cup {NULL}]
      BY <1>1, <1>3, <1>9, <3>1, OpenSucceeds
    <3>3. FilesAre(m, Users(files', reading'))
      BY <2>2, <3>2
    <3> QED BY <1>1, <1>2, <2>2, <2>3, <3>1, <3>2, <3>3, FinishFiles
  <2> QED BY <2>4, <2>5
<1>10. CASE get_empty_fd(p) # {} /\ Made(fresh, Hold, Tot, r)
  <2> DEFINE u == Plus(Tot, r.ino)
  <2>1. /\ r.err = "ok" /\ Good(r.m, Plus(Hold, r.ino), u)
        /\ Grown(fresh, r.m, r.ino) /\ r.m.inode[r.ino].mode = "file"
    BY <1>10 DEF Made
  <2>2. Good(m, Hold, u) /\ SameTree(r.m, m) /\ m.inode = r.m.inode /\ FilesAre(m, Plus(Use, f))
    <3> HIDE DEF u
    <3> QED BY <1>2, <1>3, <1>5, <1>6, <2>1, VnodeSet
  <2>3. ~isdir
    BY <2>1, <2>2
  <2>4. Kernel(m) /\ files' = [files EXCEPT ![p][Min(get_empty_fd(p))] = f]
    BY <1>1, <1>10, <2>1, <2>3
  <2> HIDE DEF m
  <2>5. /\ Users(files', reading') = Plus(Use, f) /\ Absent' /\ ProcTypes'
    BY <1>1, <1>3, <1>10, <2>4, OpenSucceeds
  <2>6. Ends(r.m, Plus(Hold, r.ino), u)
    BY <1>2, <1>3, <2>1, EndsGrown DEF Tot
  <2> HIDE DEF u
  <2>7. Ends(m, Hold, u)
    BY <2>2, <2>6, EndsSame
  <2>8. Ends(m, Holders(cwd', power', leaked'), u)
    BY <1>1, <2>7 DEF Hold
  <2>9. FilesAre(m, Users(files', reading'))
    BY <2>2, <2>5
  <2> QED BY <1>2, <2>4, <2>5, <2>8, <2>9, Finish
<1> QED BY <1>4, <1>7, <1>8, <1>9, <1>10

-----------------------------------------------------------------------------
(* Working directories, fork, exit and shutdown.                           *)

\* The holders of vnodes without p, and with p in the directory i.
Without(p) == Holders([cwd EXCEPT ![p] = NULL], power, leaked)

LEMMA WorkerMoves ==
  ASSUME NEW p \in Proc, cwd \in [Proc -> Inode \cup {NULL}], leaked \in Count(Inode)
  PROVE  /\ Without(p) \in Count(Inode)
         /\ cwd[p] \in Inode => Hold = Plus(Without(p), cwd[p])
         /\ \A i \in Inode : Holders([cwd EXCEPT ![p] = i], power, leaked) = Plus(Without(p), i)
<1> DEFINE w == [cwd EXCEPT ![p] = NULL]
<1>1. ASSUME NEW x, NEW i \in Inode, Comes(w, x, p, i)
      PROVE  Holders(x, power, leaked) = Plus(Without(p), i)
  <2>1. Without(p) = Holders(w, power, leaked)
    BY DEF Without
  <2> HIDE DEF w
  <2> QED BY ONLY leaked \in Count(Inode), p \in Proc, i \in Inode, <1>1, <2>1, WorkerAdded
<1>2. ASSUME cwd[p] \in Inode PROVE Hold = Plus(Without(p), cwd[p])
  <2>1. Comes(w, cwd, p, cwd[p])
    BY DEF Comes
  <2> HIDE DEF w
  <2> QED BY <1>1, <1>2, <2>1 DEF Hold
<1>3. ASSUME NEW i \in Inode
      PROVE  Holders([cwd EXCEPT ![p] = i], power, leaked) = Plus(Without(p), i)
  <2> DEFINE x == [cwd EXCEPT ![p] = i]
  <2>1. Comes(w, x, p, i)
    BY DEF Comes
  <2> HIDE DEF x, w
  <2>2. Holders(x, power, leaked) = Plus(Without(p), i)
    BY <1>1, <2>1
  <2> QED BY <2>2 DEF x
<1>4. Without(p) \in Count(Inode)
  BY HoldersCount DEF Without
<1> QED BY <1>2, <1>3, <1>4

LEMMA DoChdir ==
  ASSUME IInv, NEW p \in Proc, NEW path \in Path, do_chdir(p, path), RecordLosses
  PROVE  IInv' /\ Kept
<1> DEFINE r == open_namev(fs, p, path, FALSE)
           stays == vput(r.m, r.ino)
           moves == vput(r.m, cwd[p])
<1>1. /\ Running(p) /\ UNCHANGED <<files, reading, power, leaked>>
      /\ IF r.err = "ok" /\ r.m.inode[r.ino].mode = "dir"
         THEN Kernel(moves) /\ cwd' = [cwd EXCEPT ![p] = r.ino]
         ELSE Kernel(IF r.err = "ok" THEN stays ELSE r.m) /\ UNCHANGED cwd
  BY DEF do_chdir
<1>2. /\ Ready /\ Up /\ FilesAre(fs, Use) /\ Good(fs, Hold, Tot) /\ Parents(fs)
      /\ Hold \in Count(Inode) /\ Tot \in Count(Inode) /\ fs.crash = NoCrash
      /\ power = "on" /\ ~orphan /\ cwd[p] \in Inode /\ cwd[p] # NULL
      /\ cwd \in [Proc -> Inode \cup {NULL}] /\ leaked \in Count(Inode)
      /\ SameTree(fs, fs)
  BY <1>1, AtCall, AtUp
<1>3. Walked(fs, Hold, Tot, r)
  <2>1. \A i \in Inode : Hold[i] >= Hold[i]
    BY <1>2 DEF Count
  <2> QED BY <1>1, <1>2, <2>1, OpenNamev
<1> HIDE DEF r
<1>4. SameTree(fs, r.m) /\ r.m.file = fs.file /\ r.ino \in Inode
  BY <1>3 DEF Walked, IsAnswer
<1>5. CASE r.err # "ok"
  <2>1. Kernel(r.m) /\ UNCHANGED cwd
    BY <1>1, <1>5
  <2>2. Good(r.m, Hold, Tot)
    BY <1>3, <1>5 DEF Walked
  <2>3. Freed(fs, r.m) /\ FilesAre(r.m, Use)
    BY <1>2, <1>4, SameTreeFacts, SameFiles
  <2> QED BY <1>1, <1>2, <2>1, <2>2, <2>3, FinishFreed
<1>6. CASE r.err = "ok" /\ r.m.inode[r.ino].mode # "dir"
  <2>1. Kernel(stays) /\ UNCHANGED cwd
    BY <1>1, <1>6
  <2>2. Good(r.m, Plus(Hold, r.ino), Tot)
    BY <1>3, <1>6 DEF Walked
  <2>3. Good(stays, Hold, Tot) /\ Freed(r.m, stays) /\ stays.file = r.m.file
    <3>1. stays = vput(r.m, r.ino)
      OBVIOUS
    <3> HIDE DEF stays
    <3> QED BY ONLY <1>2, <1>4, <2>2, <3>1, PutOne
  <2> HIDE DEF stays
  <2>4. Freed(fs, stays) /\ FilesAre(stays, Use)
    BY <1>2, <1>4, <2>3, SameTreeFacts, FreedTwice, SameFiles
  <2> QED BY <1>1, <1>2, <2>1, <2>3, <2>4, FinishFreed
<1>7. CASE r.err = "ok" /\ r.m.inode[r.ino].mode = "dir"
  <2> DEFINE c == cwd[p]
             h == Plus(Without(p), r.ino)
  <2>1. Kernel(moves) /\ cwd' = [cwd EXCEPT ![p] = r.ino]
    BY <1>1, <1>7
  <2>2. /\ Without(p) \in Count(Inode) /\ Hold = Plus(Without(p), c)
        /\ Holders(cwd', power', leaked') = h
    BY <1>1, <1>2, <1>4, <2>1, WorkerMoves
  <2>3. h \in Count(Inode) /\ Plus(Hold, r.ino) = Plus(h, c)
    BY <1>2, <1>4, <2>2, Counting
  <2>4. Good(r.m, Plus(h, c), Tot)
    BY <1>3, <1>7, <2>3 DEF Walked
  <2>5. Good(moves, h, Tot) /\ Freed(r.m, moves) /\ moves.file = r.m.file
    <3>1. moves = vput(r.m, c) /\ c \in Inode
      BY <1>2
    <3> HIDE DEF moves, h, c
    <3> QED BY ONLY <2>3, <2>4, <3>1, PutOne
  <2> HIDE DEF moves, h
  <2>6. Freed(fs, moves) /\ FilesAre(moves, Users(files', reading'))
    <3>1. Freed(fs, moves) /\ FilesAre(moves, Use)
      BY <1>2, <1>4, <2>5, SameTreeFacts, FreedTwice, SameFiles
    <3> QED BY <1>1, <3>1 DEF Use
  <2>7. Ends(moves, Holders(cwd', power', leaked'), Tot)
    BY <1>2, <2>2, <2>5, <2>6, EndsFreed DEF Tot
  <2>8. ProcTypes'
    <3>1. cwd' \in [Proc -> Inode \cup {NULL}]
      BY <1>2, <1>4, <2>1
    <3> QED BY <1>1, <1>2, <3>1 DEF ProcTypes, Ready, TypeOK
  <2>9. Absent'
    <3>1. Absent /\ \A q \in Proc : cwd'[q] = NULL => cwd[q] = NULL
      BY <1>1, <1>2, <1>4, <2>1, AtCall, Basics
    <3> QED BY <1>1, <3>1 DEF Absent
  <2> QED BY <1>2, <2>1, <2>6, <2>7, <2>8, <2>9, Finish
<1> QED BY <1>5, <1>6, <1>7

\* What a loop reaches, one round after the other.
Closed(S, N) == 0 \in S /\ \A k \in 0 .. N - 1 : k \in S => k + 1 \in S

LEMMA Reached ==
  ASSUME NEW N \in Nat, NEW S, Closed(S, N)
  PROVE  \A k \in 0 .. N : k \in S
<1> DEFINE T == (0 .. N) \ S
<1> SUFFICES ASSUME T # {} PROVE FALSE
  OBVIOUS
<1>1. T \in SUBSET Nat
  OBVIOUS
<1>2. PICK n \in T : \A k \in T : n <= k
  <2> HIDE DEF T
  <2> QED BY <1>1, LeastNumber
<1>3. n # 0
  BY <1>2 DEF Closed
<1>4. n - 1 \in 0 .. N - 1 /\ n - 1 \notin T /\ (n - 1) + 1 = n
  BY <1>2, <1>3
<1>5. n - 1 \in S
  BY <1>4
<1>6. (n - 1) + 1 \in S
  BY <1>4, <1>5 DEF Closed
<1> QED BY <1>2, <1>4, <1>6

\* The rounds of the loops of do_fork and of proc_cleanup over a descriptor table.
Turn(copies, m, x) == IF x = NULL THEN m ELSE IF copies THEN fref(m, x) ELSE fput(m, x)
Turns(copies, table, f, n) ==
  [k \in 0 .. n |-> IF k = 0 THEN fs ELSE Turn(copies, f[k - 1], table[k - 1])]
HasTurns(copies, table, n) == \E f : f = Turns(copies, table, f, n)

LEMMA TurnsExist ==
  ASSUME NEW copies, NEW table, NEW N \in Nat
  PROVE  HasTurns(copies, table, N)
<1> DEFINE S == {n \in 0 .. N : HasTurns(copies, table, n)}
<1>1. 0 \in S
  <2> DEFINE f == [k \in 0 .. 0 |-> fs]
  <2>1. f = Turns(copies, table, f, 0)
    BY DEF Turns
  <2> QED BY <2>1 DEF HasTurns
<1>2. ASSUME NEW j \in 0 .. N - 1, j \in S PROVE j + 1 \in S
  <2> DEFINE n == j + 1
  <2>1. PICK g : g = Turns(copies, table, g, j)
    BY <1>2 DEF HasTurns
  <2> DEFINE l == [k \in 0 .. n |-> IF k = n THEN Turn(copies, g[j], table[j]) ELSE g[k]]
  <2>2. \A k \in 0 .. j : g[k] = IF k = 0 THEN fs ELSE Turn(copies, g[k - 1], table[k - 1])
    BY ONLY <2>1 DEF Turns
  <2>3. ASSUME NEW k \in 0 .. n
        PROVE  l[k] = IF k = 0 THEN fs ELSE Turn(copies, l[k - 1], table[k - 1])
    <3>1. CASE k = n
      BY <3>1
    <3>2. CASE k # n /\ k # 0
      <4>1. k \in 0 .. j /\ k - 1 \in 0 .. j /\ k - 1 # n /\ k - 1 \in 0 .. n
        BY <3>2
      <4> QED BY <2>2, <3>2, <4>1
    <3>3. CASE k = 0
      <4>1. 0 \in 0 .. j /\ 0 # n
        OBVIOUS
      <4> QED BY <2>2, <3>3, <4>1
    <3> QED BY <3>1, <3>2, <3>3
  <2>4. l = Turns(copies, table, l, n)
    BY <2>3 DEF Turns
  <2>5. HasTurns(copies, table, n)
    BY <2>4 DEF HasTurns
  <2> QED BY <2>5
<1>3. Closed(S, N)
  <2> HIDE DEF S
  <2> QED BY <1>1, <1>2 DEF Closed
<1>4. N \in S
  <2> HIDE DEF S
  <2> QED BY <1>3, Reached
<1> QED BY <1>4

LEMMA CopyRounds ==
  ASSUME NEW p
  PROVE  \E a : a = Turns(TRUE, files[p], a, NFILES) /\ CopyFiles(p) = a[NFILES]
<1> DEFINE Loop(f) == [n \in 0 .. NFILES |->
             IF n = 0 THEN fs
             ELSE IF files[p][n - 1] = NULL THEN f[n - 1] ELSE fref(f[n - 1], files[p][n - 1])]
           a == CHOOSE f : f = Loop(f)
<1>1. \A f : Loop(f) = Turns(TRUE, files[p], f, NFILES)
  BY DEF Turns, Turn
<1>2. CopyFiles(p) = a[NFILES]
  BY DEF CopyFiles
<1>3. HasTurns(TRUE, files[p], NFILES)
  BY TurnsExist, FilesAssumption
<1>4. \E f : f = Loop(f)
  <2>1. PICK f : f = Turns(TRUE, files[p], f, NFILES)
    BY <1>3 DEF HasTurns
  <2> HIDE DEF Loop
  <2> QED BY <1>1, <2>1
<1> HIDE DEF Loop
<1>5. a = Loop(a)
  BY <1>4
<1> QED BY <1>1, <1>2, <1>5

LEMMA CloseRounds ==
  ASSUME NEW p
  PROVE  \E a : a = Turns(FALSE, files[p], a, NFILES) /\ CloseFiles(p) = a[NFILES]
<1> DEFINE Loop(f) == [n \in 0 .. NFILES |->
             IF n = 0 THEN fs
             ELSE IF files[p][n - 1] = NULL THEN f[n - 1] ELSE fput(f[n - 1], files[p][n - 1])]
           a == CHOOSE f : f = Loop(f)
<1>1. \A f : Loop(f) = Turns(FALSE, files[p], f, NFILES)
  BY DEF Turns, Turn
<1>2. CloseFiles(p) = a[NFILES]
  BY DEF CloseFiles
<1>3. HasTurns(FALSE, files[p], NFILES)
  BY TurnsExist, FilesAssumption
<1>4. \E f : f = Loop(f)
  <2>1. PICK f : f = Turns(FALSE, files[p], f, NFILES)
    BY <1>3 DEF HasTurns
  <2> HIDE DEF Loop
  <2> QED BY <1>1, <2>1
<1> HIDE DEF Loop
<1>5. a = Loop(a)
  BY <1>4
<1> QED BY <1>1, <1>2, <1>5

\* Descriptor tables half way through the loops.
ClosedBefore(p, k) ==
  [files EXCEPT ![p] = [fd \in Fd |-> IF fd < k THEN NULL ELSE files[p][fd]]]
CopiedBefore(p, q, k) ==
  [files EXCEPT ![q] = [fd \in Fd |-> IF fd < k THEN files[p][fd] ELSE NULL]]

LEMMA TablesClosed ==
  ASSUME NEW p \in Proc, files \in [Proc -> [Fd -> FileId \cup {NULL}]]
  PROVE  /\ ClosedBefore(p, 0) = files
         /\ ClosedBefore(p, NFILES) = [files EXCEPT ![p] = NoFiles]
         /\ \A k \in Fd : files[p][k] = NULL => ClosedBefore(p, k + 1) = ClosedBefore(p, k)
         /\ \A k \in Fd : files[p][k] # NULL =>
              Gains(ClosedBefore(p, k + 1), ClosedBefore(p, k), p, k, files[p][k])
<1>0. NFILES \in Nat \ {0}
  BY FilesAssumption
<1> DEFINE row(k) == [fd \in Fd |-> IF fd < k THEN NULL ELSE files[p][fd]]
<1>1. \A k : ClosedBefore(p, k) = [files EXCEPT ![p] = row(k)]
  BY DEF ClosedBefore
<1>2. row(0) = files[p]
  <2>1. \A fd \in Fd : ~(fd < 0)
    BY DEF Fd
  <2>2. files[p] = [fd \in Fd |-> files[p][fd]]
    OBVIOUS
  <2> QED BY <2>1, <2>2
<1>3. row(NFILES) = NoFiles
  BY <1>0 DEF Fd, NoFiles
<1>4. ASSUME NEW k \in Fd
      PROVE  /\ row(k)[k] = files[p][k] /\ row(k + 1)[k] = NULL
             /\ \A fd \in Fd : fd # k => row(k + 1)[fd] = row(k)[fd]
  BY <1>0 DEF Fd
<1>5. ASSUME NEW k \in Fd, files[p][k] = NULL PROVE row(k + 1) = row(k)
  <2>1. \A fd \in Fd : row(k + 1)[fd] = row(k)[fd]
    <3> HIDE DEF row
    <3> QED BY <1>4, <1>5
  <2>2. row(k + 1) \in [Fd -> FileId \cup {NULL}] /\ row(k) \in [Fd -> FileId \cup {NULL}]
    OBVIOUS
  <2> HIDE DEF row
  <2> QED BY <2>1, <2>2
<1> HIDE DEF row
<1>6. ClosedBefore(p, 0) = files
  BY <1>1, <1>2
<1>7. ASSUME NEW k \in Fd, files[p][k] # NULL
      PROVE  Gains(ClosedBefore(p, k + 1), ClosedBefore(p, k), p, k, files[p][k])
  <2>1. /\ \A q \in Proc : q # p => ClosedBefore(p, k)[q] = ClosedBefore(p, k + 1)[q]
        /\ ClosedBefore(p, k)[p] = row(k) /\ ClosedBefore(p, k + 1)[p] = row(k + 1)
    BY <1>1
  <2> QED BY <1>4, <2>1 DEF Gains, OtherFds
<1> QED BY <1>1, <1>3, <1>5, <1>6, <1>7

LEMMA TablesCopied ==
  ASSUME NEW p \in Proc, NEW q \in Proc, p # q,
         files \in [Proc -> [Fd -> FileId \cup {NULL}]], \A fd \in Fd : files[q][fd] = NULL
  PROVE  /\ CopiedBefore(p, q, 0) = files
         /\ CopiedBefore(p, q, NFILES) = [files EXCEPT ![q] = files[p]]
         /\ \A k : CopiedBefore(p, q, k)[p] = files[p]
         /\ \A k \in Fd : files[p][k] = NULL => CopiedBefore(p, q, k + 1) = CopiedBefore(p, q, k)
         /\ \A k \in Fd : files[p][k] # NULL =>
              Gains(CopiedBefore(p, q, k), CopiedBefore(p, q, k + 1), q, k, files[p][k])
<1>0. NFILES \in Nat \ {0}
  BY FilesAssumption
<1> DEFINE row(k) == [fd \in Fd |-> IF fd < k THEN files[p][fd] ELSE NULL]
<1>1. \A k : CopiedBefore(p, q, k) = [files EXCEPT ![q] = row(k)]
  BY DEF CopiedBefore
<1>2. row(0) = files[q]
  <2>1. \A fd \in Fd : ~(fd < 0)
    BY DEF Fd
  <2>2. files[q] = [fd \in Fd |-> NULL]
    OBVIOUS
  <2> QED BY <2>1, <2>2
<1>3. row(NFILES) = files[p]
  <2>1. \A fd \in Fd : fd < NFILES
    BY <1>0 DEF Fd
  <2>2. files[p] = [fd \in Fd |-> files[p][fd]]
    OBVIOUS
  <2> QED BY <2>1, <2>2
<1>4. ASSUME NEW k \in Fd
      PROVE  /\ row(k + 1)[k] = files[p][k] /\ row(k)[k] = NULL
             /\ \A fd \in Fd : fd # k => row(k + 1)[fd] = row(k)[fd]
  BY <1>0 DEF Fd
<1>5. ASSUME NEW k \in Fd, files[p][k] = NULL PROVE row(k + 1) = row(k)
  <2>1. \A fd \in Fd : row(k + 1)[fd] = row(k)[fd]
    <3> HIDE DEF row
    <3> QED BY <1>4, <1>5
  <2>2. row(k + 1) \in [Fd -> FileId \cup {NULL}] /\ row(k) \in [Fd -> FileId \cup {NULL}]
    OBVIOUS
  <2> HIDE DEF row
  <2> QED BY <2>1, <2>2
<1> HIDE DEF row
<1>6. CopiedBefore(p, q, 0) = files
  BY <1>1, <1>2
<1>7. ASSUME NEW k \in Fd, files[p][k] # NULL
      PROVE  Gains(CopiedBefore(p, q, k), CopiedBefore(p, q, k + 1), q, k, files[p][k])
  <2>1. /\ \A r \in Proc : r # q => CopiedBefore(p, q, k + 1)[r] = CopiedBefore(p, q, k)[r]
        /\ CopiedBefore(p, q, k)[q] = row(k) /\ CopiedBefore(p, q, k + 1)[q] = row(k + 1)
    BY <1>1
  <2> QED BY <1>4, <2>1 DEF Gains, OtherFds
<1> QED BY <1>1, <1>3, <1>5, <1>6, <1>7

\* What proc_cleanup has closed before it drops the directory.
LEMMA FilesClosed ==
  ASSUME IInv, NEW p \in Proc, Running(p), NEW m, m = CloseFiles(p)
  PROVE  /\ Good(m, Hold, Tot) /\ Freed(fs, m)
         /\ FilesAre(m, Users([files EXCEPT ![p] = NoFiles], reading))
<1>1. /\ files \in [Proc -> [Fd -> FileId \cup {NULL}]]
      /\ Good(fs, Hold, Tot) /\ FilesAre(fs, Use) /\ SameTree(fs, fs)
  BY AtCall
<1>2. NFILES \in Nat \ {0}
  BY FilesAssumption
<1>3. PICK a : a = Turns(FALSE, files[p], a, NFILES) /\ m = a[NFILES]
  BY CloseRounds
<1> DEFINE g(k) == Users(ClosedBefore(p, k), reading)
           S == {k \in 0 .. NFILES : /\ Good(a[k], Hold, Tot) /\ Freed(fs, a[k])
                                     /\ FilesAre(a[k], g(k))}
<1>4. \A k \in 0 .. NFILES :
        a[k] = IF k = 0 THEN fs ELSE Turn(FALSE, a[k - 1], files[p][k - 1])
  BY ONLY <1>3 DEF Turns
<1>5. 0 \in S
  <2>1. a[0] = fs /\ g(0) = Use
    <3>1. a[0] = fs
      <4>1. 0 \in 0 .. NFILES
        BY <1>2
      <4> QED BY ONLY <1>4, <4>1
    <3>2. ClosedBefore(p, 0) = files
      BY <1>1, TablesClosed
    <3> QED BY <3>1, <3>2 DEF Use
  <2>2. Freed(fs, fs)
    BY <1>1, SameTreeFacts
  <2> HIDE DEF g
  <2> QED BY <1>1, <1>2, <2>1, <2>2
<1>6. ASSUME NEW k \in 0 .. NFILES - 1, k \in S PROVE k + 1 \in S
  <2> DEFINE x == files[p][k]
  <2>1. k \in Fd /\ k + 1 \in 0 .. NFILES /\ (k + 1) - 1 = k /\ k + 1 # 0
    BY <1>2 DEF Fd
  <2>2. a[k + 1] = Turn(FALSE, a[k], x)
    BY <1>4, <2>1
  <2>3. Good(a[k], Hold, Tot) /\ Freed(fs, a[k]) /\ FilesAre(a[k], g(k))
    BY <1>6
  <2>4. CASE x = NULL
    <3>1. a[k + 1] = a[k] /\ g(k + 1) = g(k)
      BY <1>1, <2>1, <2>2, <2>4, TablesClosed DEF Turn
    <3> HIDE DEF g
    <3> QED BY <2>1, <2>3, <3>1
  <2>5. CASE x # NULL
    <3>1. x \in FileId
      BY <1>1, <2>1, <2>5
    <3>2. g(k) = Plus(g(k + 1), x) /\ g(k + 1) \in Count(FileId)
      <4>1. Gains(ClosedBefore(p, k + 1), ClosedBefore(p, k), p, k, x)
        BY <1>1, <2>1, <2>5, TablesClosed
      <4> HIDE DEF x
      <4>2. g(k) = Plus(g(k + 1), x)
        BY <2>1, <3>1, <4>1, DescriptorAdded
      <4> QED BY <4>2, UsersCount
    <3>3. a[k + 1] = fput(a[k], x)
      BY <2>2, <2>5 DEF Turn
    <3> HIDE DEF g, x
    <3>4. Good(a[k + 1], Hold, Tot) /\ FilesAre(a[k + 1], g(k + 1)) /\ Freed(a[k], a[k + 1])
      BY <2>3, <3>1, <3>2, <3>3, Fput
    <3>5. Freed(fs, a[k + 1])
      BY <2>3, <3>4, FreedTwice
    <3> QED BY <2>1, <3>4, <3>5
  <2> QED BY <2>4, <2>5
<1>7. Closed(S, NFILES)
  <2> HIDE DEF S
  <2> QED BY <1>5, <1>6 DEF Closed
<1>8. NFILES \in S
  <2> HIDE DEF S
  <2> QED BY <1>2, <1>7, Reached
<1>9. ClosedBefore(p, NFILES) = [files EXCEPT ![p] = NoFiles]
  BY <1>1, TablesClosed
<1> QED BY <1>3, <1>8, <1>9

\* What do_fork has counted for the child.
LEMMA FilesCopied ==
  ASSUME IInv, NEW p \in Proc, Running(p), NEW q \in Proc, cwd[q] = NULL,
         NEW m, m = CopyFiles(p)
  PROVE  /\ Good(m, Hold, Tot) /\ SameTree(fs, m)
         /\ FilesAre(m, Users([files EXCEPT ![q] = files[p]], reading))
<1>1. /\ files \in [Proc -> [Fd -> FileId \cup {NULL}]] /\ cwd[p] # NULL
      /\ Good(fs, Hold, Tot) /\ FilesAre(fs, Use) /\ SameTree(fs, fs) /\ Absent
      /\ leaked \in Count(Inode)
  BY AtCall
<1>2. NFILES \in Nat \ {0} /\ p # q /\ \A fd \in Fd : files[q][fd] = NULL
  BY <1>1, FilesAssumption DEF Absent
<1>3. PICK a : a = Turns(TRUE, files[p], a, NFILES) /\ m = a[NFILES]
  BY CopyRounds
<1> DEFINE g(k) == Users(CopiedBefore(p, q, k), reading)
           S == {k \in 0 .. NFILES : /\ Good(a[k], Hold, Tot) /\ SameTree(fs, a[k])
                                     /\ FilesAre(a[k], g(k))}
<1>4. \A k \in 0 .. NFILES :
        a[k] = IF k = 0 THEN fs ELSE Turn(TRUE, a[k - 1], files[p][k - 1])
  BY ONLY <1>3 DEF Turns
<1>5. 0 \in S
  <2>1. a[0] = fs /\ g(0) = Use
    <3>1. a[0] = fs
      <4>1. 0 \in 0 .. NFILES
        BY <1>2
      <4> QED BY ONLY <1>4, <4>1
    <3>2. CopiedBefore(p, q, 0) = files
      BY <1>1, <1>2, TablesCopied
    <3> QED BY <3>1, <3>2 DEF Use
  <2> HIDE DEF g
  <2> QED BY <1>1, <1>2, <2>1
<1>6. ASSUME NEW k \in 0 .. NFILES - 1, k \in S PROVE k + 1 \in S
  <2> DEFINE x == files[p][k]
  <2>1. k \in Fd /\ k + 1 \in 0 .. NFILES /\ (k + 1) - 1 = k /\ k + 1 # 0
    BY <1>2 DEF Fd
  <2>2. a[k + 1] = Turn(TRUE, a[k], x)
    BY <1>4, <2>1
  <2>3. Good(a[k], Hold, Tot) /\ SameTree(fs, a[k]) /\ FilesAre(a[k], g(k))
    BY <1>6
  <2>4. CASE x = NULL
    <3>1. CopiedBefore(p, q, k + 1) = CopiedBefore(p, q, k)
      BY <1>1, <1>2, <2>1, <2>4, TablesCopied
    <3>2. a[k + 1] = a[k] /\ g(k + 1) = g(k)
      BY <2>2, <2>4, <3>1 DEF Turn
    <3> HIDE DEF g
    <3> QED BY <2>1, <2>3, <3>2
  <2>5. CASE x # NULL
    <3>1. x \in FileId
      BY <1>1, <2>1, <2>5
    <3>2. g(k + 1) = Plus(g(k), x) /\ g(k) \in Count(FileId) /\ g(k)[x] > 0
      <4>1. /\ Gains(CopiedBefore(p, q, k), CopiedBefore(p, q, k + 1), q, k, x)
            /\ CopiedBefore(p, q, k)[p] = files[p]
        BY <1>1, <1>2, <2>1, <2>5, TablesCopied
      <4>2. CopiedBefore(p, q, k)[p][k] = x
        BY <4>1
      <4> HIDE DEF x
      <4>3. g(k + 1) = Plus(g(k), x)
        BY <2>1, <3>1, <4>1, DescriptorAdded
      <4> DEFINE c == CopiedBefore(p, q, k)
      <4>4. Users(c, reading)[x] > 0
        <5> HIDE DEF c
        <5>1. c[p][k] = x
          BY <4>2 DEF c
        <5> QED BY <1>1, <2>1, <3>1, <5>1, Counted
      <4> QED BY <4>3, <4>4, UsersCount
    <3>3. a[k + 1] = fref(a[k], x)
      BY <2>2, <2>5 DEF Turn
    <3> HIDE DEF g, x
    <3>4. Good(a[k + 1], Hold, Tot) /\ FilesAre(a[k + 1], g(k + 1)) /\ SameTree(a[k], a[k + 1])
      BY <2>3, <3>1, <3>2, <3>3, Fref
    <3>5. SameTree(fs, a[k + 1])
      BY <2>3, <3>4, SameTreeFacts
    <3> QED BY <2>1, <3>4, <3>5
  <2> QED BY <2>4, <2>5
<1>7. Closed(S, NFILES)
  <2> HIDE DEF S
  <2> QED BY <1>5, <1>6 DEF Closed
<1>8. NFILES \in S
  <2> HIDE DEF S
  <2> QED BY <1>2, <1>7, Reached
<1>9. CopiedBefore(p, q, NFILES) = [files EXCEPT ![q] = files[p]]
  BY <1>1, <1>2, TablesCopied
<1> QED BY <1>3, <1>8, <1>9

LEMMA DoFork ==
  ASSUME IInv, NEW p \in Proc, NEW q \in Proc, do_fork(p, q), RecordLosses
  PROVE  IInv' /\ Kept
<1> DEFINE m == CopyFiles(p)
           c == cwd[p]
           n == vref(m, c)
<1>1. /\ Running(p) /\ cwd[q] = NULL /\ Kernel(n)
      /\ files' = [files EXCEPT ![q] = files[p]] /\ cwd' = [cwd EXCEPT ![q] = c]
      /\ UNCHANGED <<reading, power, leaked>>
  BY DEF do_fork
<1>2. /\ Ready /\ Up /\ fs.crash = NoCrash /\ power = "on" /\ ~orphan /\ c \in Inode
      /\ cwd \in [Proc -> Inode \cup {NULL}] /\ leaked \in Count(Inode) /\ Absent
      /\ files \in [Proc -> [Fd -> FileId \cup {NULL}]] /\ Hold \in Count(Inode)
      /\ reading \in [Proc -> FileId \cup {NULL}]
  BY <1>1, AtCall, AtUp
<1>3. /\ Good(m, Hold, Tot) /\ SameTree(fs, m)
      /\ FilesAre(m, Users([files EXCEPT ![q] = files[p]], reading))
  BY <1>1, FilesCopied
<1> HIDE DEF m
<1>4. Hold[c] > 0
  BY <1>2, Counted DEF Hold
<1>5. Good(n, Plus(Hold, c), Tot) /\ SameTree(m, n) /\ n.file = m.file
  <2>1. m.inode[c].mode # "free" /\ vref(m, c) = vget(m, c)
    BY <1>2, <1>3, <1>4, InUse
  <2> QED BY <1>2, <1>3, <2>1, Get
<1> HIDE DEF n
<1>6. Holders(cwd', power', leaked') = Plus(Hold, c)
  <2>1. Comes(cwd, cwd', q, c)
    BY <1>1, <1>2 DEF Comes
  <2> HIDE DEF c
  <2>2. Holders(cwd', power, leaked) = Plus(Holders(cwd, power, leaked), c)
    BY <1>2, <2>1, WorkerAdded
  <2> QED BY <1>1, <2>2 DEF Hold
<1>7. Ends(n, Holders(cwd', power', leaked'), Tot)
  <2>1. Freed(fs, n)
    BY <1>3, <1>5, SameTreeFacts
  <2> QED BY <1>2, <1>5, <1>6, <2>1, EndsFreed DEF Tot
<1>8. FilesAre(n, Users(files', reading'))
  BY <1>1, <1>3, <1>5, SameFiles
<1>9. ProcTypes'
  <2>1. /\ cwd' \in [Proc -> Inode \cup {NULL}]
        /\ files' \in [Proc -> [Fd -> FileId \cup {NULL}]]
    BY ONLY p \in Proc, q \in Proc, <1>1, <1>2
  <2> QED BY <1>1, <1>2, <2>1 DEF ProcTypes, Ready, TypeOK
<1>10. Absent'
  <2>1. ASSUME NEW r \in Proc, cwd'[r] = NULL
        PROVE  cwd[r] = NULL /\ files'[r] = files[r]
    BY <1>1, <1>2, <2>1, Basics
  <2> QED BY <1>1, <1>2, <2>1 DEF Absent
<1> QED BY <1>1, <1>2, <1>7, <1>8, <1>9, <1>10, Finish

LEMMA DoExit ==
  ASSUME IInv, NEW p \in Proc, do_exit(p), RecordLosses
  PROVE  IInv' /\ Kept
<1> DEFINE m == CloseFiles(p)
           c == cwd[p]
           n == vput(m, c)
<1>1. /\ Running(p) /\ Kernel(n)
      /\ files' = [files EXCEPT ![p] = NoFiles] /\ cwd' = [cwd EXCEPT ![p] = NULL]
      /\ UNCHANGED <<reading, power, leaked>>
  BY DEF do_exit
<1>2. /\ Ready /\ Up /\ fs.crash = NoCrash /\ power = "on" /\ ~orphan /\ c \in Inode
      /\ cwd \in [Proc -> Inode \cup {NULL}] /\ leaked \in Count(Inode) /\ Absent
      /\ files \in [Proc -> [Fd -> FileId \cup {NULL}]] /\ Hold \in Count(Inode)
      /\ reading \in [Proc -> FileId \cup {NULL}] /\ reading[p] = NULL
  BY <1>1, AtCall, AtUp
<1>3. /\ Good(m, Hold, Tot) /\ Freed(fs, m)
      /\ FilesAre(m, Users([files EXCEPT ![p] = NoFiles], reading))
  BY <1>1, FilesClosed
<1> HIDE DEF m
<1>4. /\ Without(p) \in Count(Inode) /\ Hold = Plus(Without(p), c)
      /\ Holders(cwd', power', leaked') = Without(p)
  BY <1>1, <1>2, WorkerMoves DEF Without
<1>5. Good(n, Without(p), Tot) /\ Freed(m, n) /\ n.file = m.file
  <2>1. n = vput(m, c) /\ Good(m, Plus(Without(p), c), Tot)
    BY <1>3, <1>4
  <2> HIDE DEF n, c
  <2> QED BY ONLY <1>2, <1>4, <2>1, PutOne
<1> HIDE DEF n
<1>6. Ends(n, Holders(cwd', power', leaked'), Tot)
  <2>1. Freed(fs, n)
    BY <1>3, <1>5, FreedTwice
  <2> QED BY <1>2, <1>4, <1>5, <2>1, EndsFreed DEF Tot
<1>7. FilesAre(n, Users(files', reading'))
  BY <1>1, <1>3, <1>5, SameFiles
<1>8. ProcTypes'
  <2>1. /\ cwd' \in [Proc -> Inode \cup {NULL}]
        /\ files' \in [Proc -> [Fd -> FileId \cup {NULL}]]
    BY ONLY p \in Proc, <1>1, <1>2 DEF NoFiles
  <2> QED BY <1>1, <1>2, <2>1 DEF ProcTypes, Ready, TypeOK
<1>9. Absent'
  <2>1. ASSUME NEW r \in Proc, cwd'[r] = NULL
        PROVE  reading'[r] = NULL /\ \A fd \in Fd : files'[r][fd] = NULL
    <3>1. CASE r = p
      BY <1>1, <1>2, <3>1 DEF NoFiles
    <3>2. CASE r # p
      <4>1. cwd[r] = NULL /\ files'[r] = files[r]
        BY <1>1, <1>2, <2>1, <3>2
      <4> QED BY <1>1, <1>2, <4>1 DEF Absent
    <3> QED BY <3>1, <3>2
  <2> QED BY <2>1 DEF Absent
<1> QED BY <1>1, <1>2, <1>6, <1>7, <1>8, <1>9, Finish

\* When no process is there, only the file system and do_link have references.
LEMMA NobodyHolds ==
  ASSUME IInv, Up, \A p \in Proc : cwd[p] = NULL
  PROVE  /\ \A i \in Inode : fs.vref[i] = (IF i = Root THEN 1 ELSE 0) + leaked[i]
         /\ \A i \in Inode : leaked[i] \in Nat
         /\ Hold = Plus(Holders(cwd, "off", leaked), Root)
         /\ Holders(cwd, "off", leaked) \in Count(Inode)
<1>1. /\ Good(fs, Hold, Tot) /\ FilesAre(fs, Use) /\ leaked \in Count(Inode) /\ power = "on"
      /\ Absent
  BY AtUp
<1>2. \A i \in Inode : leaked[i] \in Nat
  BY <1>1 DEF Count
<1>3. \A i : Workers(cwd, i) = {} \/ i = NULL
  BY DEF Workers
<1>4. ASSUME NEW i \in Inode
      PROVE  /\ Hold[i] = (IF i = Root THEN 1 ELSE 0) + leaked[i]
             /\ Holders(cwd, "off", leaked)[i] = leaked[i]
  <2>1. Cardinality(Workers(cwd, i)) = 0
    BY <1>3, Basics, FS_EmptySet
  <2>2. Hold[i] = Cardinality(Workers(cwd, i)) + (IF i = Root /\ power = "on" THEN 1 ELSE 0)
                    + leaked[i]
    BY <1>1, HoldersCount DEF Hold
  <2>3. Holders(cwd, "off", leaked)[i] = Cardinality(Workers(cwd, i))
          + (IF i = Root /\ "off" = "on" THEN 1 ELSE 0) + leaked[i]
    BY <1>1, HoldersCount
  <2> QED BY <1>1, <1>2, <2>1, <2>2, <2>3
<1>5. ASSUME NEW i \in Inode PROVE fs.vref[i] = (IF i = Root THEN 1 ELSE 0) + leaked[i]
  <2>1. ASSUME NEW f \in FileId PROVE fs.file[f].vnode = NULL
    <3>1. Descriptors(files, f) = {} /\ Readers(reading, f) = {}
      <4>1. f # NULL
        BY Basics
      <4> QED BY <1>1, <4>1 DEF Absent, Descriptors, Readers
    <3>2. Use[f] = 0
      <4>1. /\ Use[f] = Cardinality(Descriptors(files, f)) + Cardinality(Readers(reading, f))
        BY UsersCount DEF Use
      <4> QED BY <3>1, <4>1, FS_EmptySet
    <3> QED BY <1>1, <3>2 DEF FilesAre
  <2>2. Opened(fs, i) = {}
    BY <2>1, Basics DEF Opened
  <2>3. fs.vref[i] = Cardinality(Opened(fs, i)) + Hold[i]
    BY <1>1, InUse
  <2> QED BY <1>2, <1>4, <2>2, <2>3, FS_EmptySet
<1>6. Holders(cwd, "off", leaked) \in Count(Inode) /\ Hold \in Count(Inode)
  BY <1>1, HoldersCount DEF Hold
<1>7. Hold = Plus(Holders(cwd, "off", leaked), Root)
  <2> DEFINE g == Holders(cwd, "off", leaked)
  <2>1. \A i \in Inode : Hold[i] = g[i] + (IF i = Root THEN 1 ELSE 0)
    BY <1>2, <1>4
  <2> HIDE DEF g
  <2>2. g \in Count(Inode)
    BY <1>6 DEF g
  <2>3. Hold = Plus(g, Root)
    BY <1>6, <2>1, <2>2 DEF Count, Plus
  <2> QED BY <2>3 DEF g
<1> QED BY <1>2, <1>5, <1>6, <1>7

LEMMA DoShutdown ==
  ASSUME IInv, vfs_shutdown, RecordLosses
  PROVE  IInv' /\ Kept
<1> DEFINE n == vput(fs, Root)
           m == Crash(fs, "vfs_shutdown")
           h == Holders(cwd, "off", leaked)
<1>1. /\ Up /\ \A p \in Proc : cwd[p] = NULL
      /\ Kernel(IF vfs_is_in_use(fs) THEN m ELSE n)
      /\ power' = IF fs'.crash = NoCrash THEN "off" ELSE power
      /\ UNCHANGED <<files, cwd, reading, leaked>>
  BY DEF vfs_shutdown
<1>2. /\ Ready /\ fs.crash = NoCrash /\ power = "on" /\ ~orphan /\ fs \in FSState
      /\ FilesAre(fs, Use) /\ Good(fs, Hold, Tot)
  BY <1>1, AtUp
<1>3. CASE vfs_is_in_use(fs)
  <2>1. m.crash = "vfs_shutdown" /\ Kernel(m)
    BY <1>1, <1>2, <1>3 DEF Crash, FSState
  <2>2. UNCHANGED power
    <3>1. fs'.crash = "vfs_shutdown"
      BY <1>2, <2>1 DEF Kernel, NoCrash, FSState
    <3> QED BY <1>1, <3>1 DEF NoCrash
  <2> HIDE DEF m
  <2>3. PICK i \in Inode : fs.vref[i] > 0 /\ (i # Root \/ fs.vref[i] > 1)
    BY <1>3, Basics DEF vfs_is_in_use, vnode_inuse
  <2>4. leaked[i] > 0
    BY <1>1, <2>3, NobodyHolds
  <2> QED BY <1>1, <2>1, <2>2, <2>3, <2>4, FinishCrashed
<1>4. CASE ~vfs_is_in_use(fs)
  <2>1. Kernel(n)
    BY <1>1, <1>4
  <2>2. Hold = Plus(h, Root) /\ h \in Count(Inode) /\ Root \in Inode
    BY <1>1, NobodyHolds, Basics
  <2>3. Good(n, h, Tot) /\ Freed(fs, n) /\ n.file = fs.file
    <3>1. n = vput(fs, Root) /\ Good(fs, Plus(h, Root), Tot)
      BY <1>2, <2>2
    <3> HIDE DEF n, h
    <3> QED BY ONLY <2>2, <3>1, PutOne
  <2>4. power' = "off"
    <3>1. n.crash = NoCrash
      BY <2>3 DEF Good
    <3> HIDE DEF n
    <3> QED BY <1>1, <2>1, <3>1 DEF Kernel
  <2> HIDE DEF n
  <2>5. Ends(n, Holders(cwd', power', leaked'), Tot)
    <3>1. Ends(n, h, Tot)
      BY <1>2, <2>3, EndsFreed DEF Tot
    <3> QED BY <1>1, <2>4, <3>1
  <2>6. FilesAre(n, Users(files', reading'))
    BY <1>1, <1>2, <2>3, SameFiles DEF Use
  <2>7. ProcTypes' /\ Absent'
    BY <1>1, <1>2, <2>4 DEF ProcTypes, Ready, TypeOK, Absent
  <2> QED BY <1>2, <2>1, <2>5, <2>6, <2>7, Finish
<1> QED BY <1>3, <1>4

LEMMA StaysAsItIs ==
  ASSUME IInv, UNCHANGED vars
  PROVE  IInv' /\ Kept
<1>1. IInv'
  <2>1. /\ fs' = fs /\ files' = files /\ cwd' = cwd /\ reading' = reading /\ power' = power
        /\ leaked' = leaked /\ lost' = lost /\ orphan' = orphan
    BY DEF vars
  <2> QED BY <2>1 DEF IInv, TypeOK, Absent, OnlyKnownCrashes
<1>2. Kept
  BY DEF vars, Kept
<1> QED BY <1>1, <1>2

-----------------------------------------------------------------------------
(* The file system after ramfs_mount.                                      *)

Mounted ==
  [inode |-> ramfs_mount.inode, dirent |-> ramfs_mount.dirent,
   vref |-> vref(ramfs_mount, Root).vref, vlen |-> ramfs_mount.vlen,
   crash |-> NoCrash, file |-> [f \in FileId |-> FreeFile]]

LEMMA RootEntries ==
  /\ DirentsOf(Root, Root) \in [Slot -> Entry]
  /\ DirentsOf(Root, Root)[1] = [name |-> ".", ino |-> Root]
  /\ DirentsOf(Root, Root)[2] = [name |-> "..", ino |-> Root]
  /\ \A s \in Slot \ {1, 2} : DirentsOf(Root, Root)[s] = FreeSlot
  /\ FreeSlot \in Entry /\ FreeSlot.name = NoName /\ FreeSlot.ino = Root
  /\ NoEntries \in [Slot -> Entry]
<1>1. /\ DirentsOf(Root, Root)[1] = [name |-> ".", ino |-> Root]
      /\ DirentsOf(Root, Root)[2] = [name |-> "..", ino |-> Root]
      /\ \A s \in Slot \ {1, 2} : DirentsOf(Root, Root)[s] = FreeSlot
  BY Basics DEF DirentsOf
<1>2. FreeSlot \in Entry /\ FreeSlot.name = NoName /\ FreeSlot.ino = Root
  BY Basics DEF FreeSlot, Entry
<1>3. [name |-> ".", ino |-> Root] \in Entry /\ [name |-> "..", ino |-> Root] \in Entry
  <2>1. "." \in Dots /\ ".." \in Dots
    BY DEF Dots
  <2> QED BY <2>1, Basics DEF Entry
<1>4. NoEntries \in [Slot -> Entry]
  BY <1>2 DEF NoEntries
<1>5. \A s \in Slot : DirentsOf(Root, Root)[s] \in Entry
  BY <1>1, <1>2, <1>3
<1>6. DirentsOf(Root, Root) \in [Slot -> Entry]
  <2>1. DirentsOf(Root, Root) = [s \in Slot |-> DirentsOf(Root, Root)[s]]
    BY DEF DirentsOf
  <2> QED BY <1>5, <2>1
<1> QED BY <1>1, <1>2, <1>4, <1>6

LEMMA MountedFacts ==
  ASSUME NEW m, m = Mounted
  PROVE  /\ m \in FSState /\ m.crash = NoCrash
         /\ \A f \in FileId : m.file[f].vnode = NULL /\ m.file[f].ref = 0
         /\ \A i \in Inode :
              /\ m.vref[i] = IF i = Root THEN 2 ELSE 0
              /\ m.inode[i].mode = IF i = Root THEN "dir" ELSE "free"
              /\ m.inode[i].links = IF i = Root THEN 2 ELSE 0
              /\ m.inode[i].size = IF i = Root THEN 2 * DIRENT_SIZE ELSE 0
              /\ m.dirent[i] = IF i = Root THEN DirentsOf(Root, Root) ELSE NoEntries
<1> DEFINE rootrec == [mode |-> "dir", links |-> 2, size |-> 2 * DIRENT_SIZE]
<1>1. /\ ramfs_mount.inode = [i \in Inode |-> IF i = Root THEN rootrec ELSE FreeInode]
      /\ ramfs_mount.dirent = [i \in Inode |-> IF i = Root THEN DirentsOf(Root, Root) ELSE NoEntries]
      /\ ramfs_mount.vref = [i \in Inode |-> IF i = Root THEN 1 ELSE 0]
      /\ ramfs_mount.vlen = [i \in Inode |-> IF i = Root THEN 2 * DIRENT_SIZE ELSE 0]
  BY DEF ramfs_mount
<1>2. vref(ramfs_mount, Root).vref = [i \in Inode |-> IF i = Root THEN 2 ELSE 0]
  <2>1. vref(ramfs_mount, Root) = [ramfs_mount EXCEPT !.vref[Root] = @ + 1]
    BY <1>1, Basics DEF vref
  <2>2. vref(ramfs_mount, Root).vref = [ramfs_mount.vref EXCEPT ![Root] = @ + 1]
    BY <2>1 DEF ramfs_mount
  <2> QED BY <1>1, <2>2, Basics
<1>3. /\ m.inode = ramfs_mount.inode /\ m.dirent = ramfs_mount.dirent
      /\ m.vref = [i \in Inode |-> IF i = Root THEN 2 ELSE 0]
      /\ m.vlen = ramfs_mount.vlen /\ m.crash = NoCrash
      /\ m.file = [f \in FileId |-> FreeFile]
      /\ m = [inode |-> m.inode, dirent |-> m.dirent, vref |-> m.vref, vlen |-> m.vlen,
              crash |-> m.crash, file |-> m.file]
  BY <1>2 DEF Mounted
<1>4. DIRENT_SIZE \in Nat /\ 2 * DIRENT_SIZE \in Nat
  BY Sizes
<1>5. rootrec \in InodeRec /\ FreeInode \in InodeRec
  BY <1>4 DEF InodeRec, FreeInode
<1>6. m.inode \in Inodes
  BY <1>1, <1>3, <1>5 DEF Inodes
<1>7. m.dirent \in Dirents
  BY <1>1, <1>3, RootEntries DEF Dirents
<1>8. m.vref \in Numbers /\ m.vlen \in Numbers
  BY <1>1, <1>3, <1>4 DEF Numbers
<1>9. m.file \in OpenFiles /\ \A f \in FileId : m.file[f].vnode = NULL /\ m.file[f].ref = 0
  BY <1>3, FreeFileIs DEF OpenFiles
<1>10. m.crash \in Stops
  BY <1>3 DEF Stops
<1>11. m \in FSState
  BY <1>3, <1>6, <1>7, <1>8, <1>9, <1>10 DEF FSState
<1>12. ASSUME NEW i \in Inode
       PROVE  /\ m.vref[i] = IF i = Root THEN 2 ELSE 0
              /\ m.inode[i].mode = IF i = Root THEN "dir" ELSE "free"
              /\ m.inode[i].links = IF i = Root THEN 2 ELSE 0
              /\ m.inode[i].size = IF i = Root THEN 2 * DIRENT_SIZE ELSE 0
              /\ m.dirent[i] = IF i = Root THEN DirentsOf(Root, Root) ELSE NoEntries
  BY <1>1, <1>3 DEF FreeInode
<1> QED BY <1>3, <1>9, <1>11, <1>12

LEMMA InitGood ==
  ASSUME Init
  PROVE  /\ Good(fs, Hold, Tot) /\ Parents(fs) /\ FilesAre(fs, Use) /\ fs \in FSState
         /\ fs.crash = NoCrash
<1>1. /\ files = [p \in Proc |-> NoFiles] /\ reading = [p \in Proc |-> NULL]
      /\ cwd = [p \in Proc |-> IF p = InitProc THEN Root ELSE NULL] /\ power = "on"
      /\ leaked = [i \in Inode |-> 0] /\ lost = [i \in Inode |-> 0] /\ fs = Mounted
  BY DEF Init, Mounted
<1> DEFINE m == fs
<1>2. /\ m \in FSState /\ m.crash = NoCrash
      /\ \A f \in FileId : m.file[f].vnode = NULL /\ m.file[f].ref = 0
  BY <1>1, MountedFacts
<1>3. \A i \in Inode :
        /\ m.vref[i] = IF i = Root THEN 2 ELSE 0
        /\ m.inode[i].mode = IF i = Root THEN "dir" ELSE "free"
        /\ m.inode[i].links = IF i = Root THEN 2 ELSE 0
        /\ m.inode[i].size = IF i = Root THEN 2 * DIRENT_SIZE ELSE 0
        /\ m.dirent[i] = IF i = Root THEN DirentsOf(Root, Root) ELSE NoEntries
  BY <1>1, MountedFacts
<1>4. ASSUME NEW q \in Inode, NEW s \in Slot
      PROVE  m.dirent[q][s].name \in Dots \cup {NoName}
  <2>1. "." \in Dots /\ ".." \in Dots
    BY DEF Dots
  <2>2. NoEntries[s] = FreeSlot
    BY DEF NoEntries
  <2>3. CASE q = Root
    <3>1. m.dirent[q][s] = DirentsOf(Root, Root)[s]
      BY <1>3, <2>3
    <3>2. CASE s = 1
      BY <2>1, <3>1, <3>2, RootEntries
    <3>3. CASE s = 2
      BY <2>1, <3>1, <3>3, RootEntries
    <3>4. CASE s \notin {1, 2}
      BY <3>1, <3>4, RootEntries
    <3> QED BY <3>2, <3>3, <3>4
  <2>4. CASE q # Root
    BY <1>3, <2>2, <2>4, RootEntries
  <2> QED BY <2>3, <2>4
<1>5. \A q \in Inode, s \in Slot : \A i : ~Named(m.dirent[q][s], i)
  BY <1>4 DEF Named
<1> HIDE DEF m
<1>6. \A i \in Inode : Entries(m, i) = 0
  <2>1. \A i \in Inode : Names(m, Inode, i) = {}
    BY <1>5, PairOf DEF Names
  <2> QED BY <2>1, EntriesAreCounted
<1>7. Tot = [i \in Inode |-> 0]
  <2>1. \A i \in Inode : Entries(m, i) + lost[i] = 0
    BY <1>1, <1>6
  <2> QED BY <2>1 DEF Tot, Total, m
<1>8. leaked \in Count(Inode) /\ Tot \in Count(Inode)
  BY <1>1, <1>7 DEF Count
<1>9. Hold \in Count(Inode) /\ \A i \in Inode : Hold[i] = IF i = Root THEN 2 ELSE 0
  <2>1. ASSUME NEW i \in Inode
        PROVE  Cardinality(Workers(cwd, i)) = IF i = Root THEN 1 ELSE 0
    <3>1. i # NULL
      BY Basics
    <3>2. Workers(cwd, i) = IF i = Root THEN {InitProc} ELSE {}
      BY <1>1, <3>1, FilesAssumption DEF Workers
    <3> QED BY <3>2, FS_Singleton, FS_EmptySet
  <2> QED BY <1>1, <1>8, <2>1, HoldersCount DEF Hold
<1>10. RefsAre(m, Hold)
  <2>1. \A i \in Inode : Opened(m, i) = {}
    BY <1>2, Basics DEF Opened, m
  <2> QED BY <1>3, <1>9, <2>1, FS_EmptySet DEF RefsAre, m
<1>11. LinksAre(m, Tot)
  BY <1>3, <1>7 DEF LinksAre, InCore, IsRoot, m
<1>12. NamesAre(m, Tot) /\ OneName(m)
  BY <1>5 DEF NamesAre, OneName
<1>13. Unlinked(m) /\ Plain(m) /\ Lengths(m)
  BY <1>3 DEF Unlinked, Plain, Lengths, NoEntries, m
<1>14. Dotted(m) /\ Parents(m)
  <2>1. \A i \in Inode : m.inode[i].mode = "dir" => i = Root /\ m.dirent[i] = DirentsOf(Root, Root)
    BY <1>3 DEF m
  <2>2. /\ DirentsOf(Root, Root)[2].name = ".." /\ DirentsOf(Root, Root)[2].ino = Root
        /\ \A s \in Slot \ {1, 2} : DirentsOf(Root, Root)[s].name \notin Dots
    BY RootEntries, Basics
  <2> QED BY <2>1, <2>2, RootEntries DEF Dotted, Parents
<1>15. Sized(m)
  <2>1. Used(m, Root) = {1, 2}
    <3>1. m.dirent[Root] = DirentsOf(Root, Root)
      BY <1>3, Basics DEF m
    <3>2. "." # NoName /\ ".." # NoName
      BY Zenon, Basics DEF Dots
    <3> QED BY <3>1, <3>2, RootEntries, Basics DEF Used
  <2>2. Cardinality({1, 2}) = 2
    <3>1. IsFiniteSet({1}) /\ Cardinality({1}) = 1
      BY FS_Singleton
    <3>2. {1, 2} = {1} \cup {2} /\ 2 \notin {1}
      OBVIOUS
    <3>3. Cardinality({1, 2}) = Cardinality({1}) + 1
      BY ONLY <3>1, <3>2, OneMore
    <3> QED BY <3>1, <3>3
  <2> QED BY <1>3, <2>1, <2>2 DEF Sized, m
<1>16. FilesAre(m, Use)
  <2>1. ASSUME NEW f \in FileId PROVE Use[f] = 0
    <3>1. Descriptors(files, f) = {} /\ Readers(reading, f) = {}
      <4>1. f # NULL
        BY Basics
      <4> QED BY <1>1, <4>1 DEF NoFiles, Descriptors, Readers
    <3>2. Use[f] = Cardinality(Descriptors(files, f)) + Cardinality(Readers(reading, f))
      BY UsersCount DEF Use
    <3> QED BY <3>1, <3>2, FS_EmptySet
  <2> QED BY <1>2, <2>1 DEF FilesAre, m
<1> QED BY <1>2, <1>8, <1>9, <1>10, <1>11, <1>12, <1>13, <1>14, <1>15, <1>16 DEF Good, m

LEMMA InitIInv == Init => IInv
<1> SUFFICES ASSUME Init PROVE IInv
  OBVIOUS
<1>1. /\ Good(fs, Hold, Tot) /\ Parents(fs) /\ FilesAre(fs, Use) /\ fs \in FSState
      /\ fs.crash = NoCrash
  BY InitGood
<1>2. [fs EXCEPT !.crash = NoCrash] = fs
  BY <1>1 DEF FSState
<1>3. /\ files = [p \in Proc |-> NoFiles] /\ reading = [p \in Proc |-> NULL]
      /\ cwd = [p \in Proc |-> IF p = InitProc THEN Root ELSE NULL] /\ power = "on"
      /\ leaked = [i \in Inode |-> 0] /\ lost = [i \in Inode |-> 0] /\ orphan = FALSE
  BY DEF Init
<1>4. TypeOK
  <2>1. /\ files \in [Proc -> [Fd -> FileId \cup {NULL}]]
        /\ cwd \in [Proc -> Inode \cup {NULL}] /\ reading \in [Proc -> FileId \cup {NULL}]
        /\ power \in {"on", "off"}
        /\ leaked \in [Inode -> Nat] /\ lost \in [Inode -> Nat]
    BY <1>3, Basics DEF NoFiles
  <2> QED BY <1>1, <2>1, TypesOfFs DEF TypeOK
<1>5. Absent
  BY <1>3 DEF Absent, NoFiles
<1>6. OnlyKnownCrashes
  BY <1>1 DEF OnlyKnownCrashes, NoCrash
<1> QED BY <1>1, <1>2, <1>3, <1>4, <1>5, <1>6 DEF IInv, Hold, Tot, Use

-----------------------------------------------------------------------------
(* Every step keeps the inductive invariant.                               *)

LEMMA CallOnDescriptor ==
  ASSUME IInv, NEW p \in Proc, NEW fd \in Fd, OnDescriptor(p, fd), RecordLosses
  PROVE  IInv' /\ Kept
<1>1. CASE do_close(p, fd)
  BY <1>1, DoClose
<1>2. CASE do_dup(p, fd)
  BY <1>2, DoDup
<1>3. CASE do_getdent(p, fd)
  BY <1>3, DoGetdent
<1>4. CASE \E nfd \in Fd : do_dup2(p, fd, nfd)
  BY <1>4, DoDup2
<1>5. CASE \E n \in 1 .. PAGE_SIZE : do_read(p, fd, n)
  BY <1>5, DoRead
<1>6. CASE \E n \in 1 .. PAGE_SIZE : do_write(p, fd, n)
  BY <1>6, DoWrite
<1>7. CASE \E offset \in -1 .. MaxPos, whence \in {"SEEK_SET", "SEEK_CUR", "SEEK_END"} :
             do_lseek(p, fd, offset, whence)
  BY <1>7, DoLseek
<1> QED BY <1>1, <1>2, <1>3, <1>4, <1>5, <1>6, <1>7 DEF OnDescriptor

LEMMA CallOnPath ==
  ASSUME IInv, NEW p \in Proc, NEW path \in Path, OnPath(p, path), RecordLosses
  PROVE  IInv' /\ Kept
<1>1. CASE \E oflags \in OFlags : do_open(p, path, oflags)
  BY <1>1, DoOpen
<1>2. CASE do_mkdir(p, path)
  BY <1>2, DoMkdir
<1>3. CASE do_mknod(p, path)
  BY <1>3, DoMknod
<1>4. CASE do_rmdir(p, path)
  BY <1>4, DoRmdir
<1>5. CASE do_unlink(p, path)
  BY <1>5, DoUnlink
<1>6. CASE do_chdir(p, path)
  BY <1>6, DoChdir
<1>7. CASE do_stat(p, path)
  BY <1>7, Stat
<1>8. CASE \E to \in Path : do_link(p, path, to)
  BY <1>8, DoLink
<1> QED BY <1>1, <1>2, <1>3, <1>4, <1>5, <1>6, <1>7, <1>8 DEF OnPath

LEMMA Call ==
  ASSUME IInv, NEW p \in Proc, SystemCall(p), RecordLosses
  PROVE  IInv' /\ Kept
<1>1. CASE \E fd \in Fd : OnDescriptor(p, fd)
  BY <1>1, CallOnDescriptor
<1>2. CASE \E path \in Path : OnPath(p, path)
  BY <1>2, CallOnPath
<1>3. CASE \E n \in 0 .. 1 : do_read_Continues(p, n)
  BY <1>3, DoReadContinues
<1>4. CASE \E q \in Proc : do_fork(p, q)
  BY <1>4, DoFork
<1>5. CASE BeyondTable(p)
  BY <1>5, DoBeyondTable
<1>6. CASE do_exit(p)
  BY <1>6, DoExit
<1> QED BY <1>1, <1>2, <1>3, <1>4, <1>5, <1>6 DEF SystemCall

LEMMA NextIInv ==
  ASSUME IInv, [Next]_vars
  PROVE  IInv' /\ Kept
<1>1. CASE RecordLosses /\ \E p \in Proc : SystemCall(p)
  BY <1>1, Call
<1>2. CASE RecordLosses /\ vfs_shutdown
  BY <1>2, DoShutdown
<1>3. CASE UNCHANGED vars
  BY <1>3, StaysAsItIs
<1> QED BY <1>1, <1>2, <1>3 DEF Next, Stopped

THEOREM InductiveInvariant == Spec => []IInv
<1>1. Init => IInv
  BY InitIInv
<1>2. IInv /\ [Next]_vars => IInv'
  BY NextIInv
<1> QED BY <1>1, <1>2, PTL DEF Spec

-----------------------------------------------------------------------------
(* The properties.                                                         *)

\* The invariant with the file system as it is, crashed or not.
LEMMA Uncrashed ==
  ASSUME IInv
  PROVE  /\ fs \in FSState /\ Hold \in Count(Inode) /\ leaked \in Count(Inode)
         /\ lost \in Count(Inode)
         /\ RefsAre(fs, Hold) /\ LinksAre(fs, Tot) /\ Dotted(fs) /\ OneName(fs)
<1> DEFINE m == [fs EXCEPT !.crash = NoCrash]
<1>1. fs \in FSState /\ Good(m, Hold, Tot) /\ leaked \in Count(Inode) /\ lost \in Count(Inode)
  BY DEF IInv, Hold, Tot, TypeOK, Count
<1>2. m.inode = fs.inode /\ m.dirent = fs.dirent /\ m.vref = fs.vref /\ m.file = fs.file
  BY <1>1 DEF FSState
<1> HIDE DEF m
<1>3. Hold \in Count(Inode) /\ RefsAre(m, Hold) /\ LinksAre(m, Tot) /\ Dotted(m) /\ OneName(m)
  BY <1>1 DEF Good
<1>4. RefsAre(fs, Hold)
  BY <1>2, <1>3 DEF RefsAre, Opened
<1>5. LinksAre(fs, Tot)
  BY <1>2, <1>3 DEF LinksAre, InCore
<1>6. Dotted(fs) /\ OneName(fs)
  BY <1>2, <1>3 DEF Dotted, OneName
<1> QED BY <1>1, <1>3, <1>4, <1>5, <1>6

\* Type correctness and the counts of open files: fref and fput are called as
\* often as descriptors and blocked readers come and go, through open, dup, dup2,
\* close, fork, exit and read (file.c, vfs_syscall.c, fork.c, proc.c).
THEOREM FileRefsInvariant == Spec => []FileRefs
<1>1. IInv => FileRefs
  <2> SUFFICES ASSUME IInv PROVE FileRefs
    OBVIOUS
  <2>1. TypeOK /\ FilesAre(fs, Users(files, reading))
    BY DEF IInv
  <2>2. ASSUME NEW f \in FileId
        PROVE  /\ fs.file[f].ref = Cardinality({e \in Proc \X Fd : files[e[1]][e[2]] = f})
                                     + Cardinality({p \in Proc : reading[p] = f})
               /\ (fs.file[f].ref = 0) <=> (fs.file[f].vnode = NULL)
    BY <2>1 DEF FilesAre, Users, Descriptors, Readers
  <2> QED BY <2>1, <2>2 DEF FileRefs
<1> QED BY <1>1, InductiveInvariant, PTL

\* No path through a system call, an error path included, keeps or drops a
\* reference to a vnode too many (vget, vref and vput in vnode.c, namev.c, open.c
\* and vfs_syscall.c), but for those that do_link is known to lose.
THEOREM VnodeRefsInvariant == Spec => []VnodeRefs
<1>1. IInv => VnodeRefs
  <2> SUFFICES ASSUME IInv, NEW i \in Inode
               PROVE  fs.vref[i] = Cardinality({f \in FileId : fs.file[f].vnode = i})
                        + Cardinality({p \in Proc : cwd[p] = i})
                        + One(i = Root /\ power = "on") + leaked[i]
    BY DEF VnodeRefs
  <2> DEFINE o == Cardinality(Opened(fs, i))
             w == Cardinality(Workers(cwd, i))
             r == IF i = Root /\ power = "on" THEN 1 ELSE 0
  <2>1. fs.vref[i] = o + Hold[i]
    BY Uncrashed DEF RefsAre
  <2>2. Hold[i] = w + r + leaked[i] /\ w \in Nat /\ leaked[i] \in Nat
    BY Uncrashed, HoldersCount DEF Hold
  <2>3. o \in Nat
    <3>1. Opened(fs, i) \in SUBSET FileId
      BY DEF Opened
    <3> QED BY <3>1, Basics, FS_Subset, FS_CardinalityType
  <2>4. r = One(i = Root /\ power = "on")
    BY DEF One
  <2>5. /\ o = Cardinality({f \in FileId : fs.file[f].vnode = i})
        /\ w = Cardinality({p \in Proc : cwd[p] = i})
    BY DEF Opened, Workers
  <2>6. r \in Nat
    OBVIOUS
  <2> HIDE DEF o, w, r
  <2>7. fs.vref[i] = o + w + r + leaked[i]
    BY ONLY <2>1, <2>2, <2>3, <2>6
  <2> QED BY <2>4, <2>5, <2>7
<1> QED BY <1>1, InductiveInvariant, PTL

\* rf_linkcount is the number of names, plus one for the vnode in core, plus the
\* names that went with a directory (ramfs_link, ramfs_unlink, ramfs_rmdir,
\* ramfs_delete_vnode in ramfs.c).
THEOREM LinkCountsInvariant == Spec => []LinkCounts
<1>1. IInv => LinkCounts
  <2> SUFFICES ASSUME IInv, NEW i \in Inode
               PROVE  fs.inode[i].links = LinksFrom(fs, Inode, i) + One(fs.vref[i] > 0)
                                            + One(i = Root) + lost[i]
    BY DEF LinkCounts
  <2>1. fs.inode[i].links = Tot[i] + InCore(fs, i) + IsRoot(i)
    BY Uncrashed DEF LinksAre
  <2>2. Tot[i] = LinksFrom(fs, Inode, i) + lost[i] /\ lost[i] \in Nat
    BY Uncrashed DEF Tot, Total, Entries, Count
  <2>3. LinksFrom(fs, Inode, i) \in Nat
    BY NamesAreCounted
  <2>4. InCore(fs, i) = One(fs.vref[i] > 0) /\ IsRoot(i) = One(i = Root)
    BY DEF InCore, IsRoot, One
  <2>5. InCore(fs, i) \in Nat /\ IsRoot(i) \in Nat
    BY DEF InCore, IsRoot
  <2> QED BY <2>1, <2>2, <2>3, <2>4, <2>5
<1> QED BY <1>1, InductiveInvariant, PTL

\* A directory has one name, and its ".." is the directory with that name
\* (ramfs_mkdir in ramfs.c; do_link in vfs_syscall.c takes no directory).
THEOREM ParentLinksInvariant == Spec => []ParentLinks
<1>1. IInv => ParentLinks
  <2> SUFFICES ASSUME IInv, NEW d \in Inode, NEW q \in Inode, NEW s \in Slot,
                      fs.dirent[q][s].name \notin Dots \cup {NoName},
                      fs.dirent[q][s].ino = d, fs.inode[d].mode = "dir"
               PROVE  InoOf(fs, d, "..") = q /\ LinksFrom(fs, Inode, d) = 1
    BY DEF ParentLinks
  <2>1. Dotted(fs) /\ OneName(fs) /\ Named(fs.dirent[q][s], d)
    BY Uncrashed DEF Named
  <2>2. /\ fs.dirent[d][2].ino = q
        /\ \A r \in Inode, u \in Slot : Named(fs.dirent[r][u], d) => r = q /\ u = s
    BY <2>1 DEF OneName
  <2>3. InoOf(fs, d, "..") = q
    BY <2>1, <2>2, ParentIs
  <2>4. Names(fs, Inode, d) = {<<q, s>>}
    <3>1. <<q, s>> \in Names(fs, Inode, d)
      BY <2>1 DEF Names
    <3>2. ASSUME NEW e \in Names(fs, Inode, d) PROVE e = <<q, s>>
      <4>1. e \in Inode \X Slot /\ Named(fs.dirent[e[1]][e[2]], d)
        BY DEF Names
      <4>2. e[1] \in Inode /\ e[2] \in Slot /\ e = <<e[1], e[2]>>
        BY <4>1, PairOf
      <4>3. e[1] = q /\ e[2] = s
        BY <2>2, <4>1, <4>2
      <4> QED BY <4>2, <4>3
    <3> QED BY <3>1, <3>2
  <2>5. LinksFrom(fs, Inode, d) = 1
    <3>1. LinksFrom(fs, Inode, d) = Cardinality(Names(fs, Inode, d))
      BY NamesAreCounted
    <3> QED BY <2>4, <3>1, FS_Singleton
  <2> QED BY <2>3, <2>5
<1> QED BY <1>1, InductiveInvariant, PTL

\* The assertions of vref, vput, fput, ramfs_read_vnode, ramfs_write and do_write
\* never fail, and that of vfs_shutdown only after do_link has lost a reference.
THEOREM OnlyKnownCrashesInvariant == Spec => []OnlyKnownCrashes
<1>1. IInv => OnlyKnownCrashes
  BY DEF IInv
<1> QED BY <1>1, InductiveInvariant, PTL

\* An inode whose vnode somebody holds is neither freed nor used for another file.
THEOREM HeldInodesAreKept == Spec => HeldInodeIsKept
<1>1. IInv /\ [Next]_vars => [Kept]_vars
  BY NextIInv
<1>2. Spec => [][Kept]_vars
  BY <1>1, InductiveInvariant, PTL DEF Spec
<1>3. Kept <=> \A i \in Inode : (fs.vref[i] > 0 /\ fs'.vref[i] > 0)
                                   => fs'.inode[i].mode = fs.inode[i].mode
  BY DEF Kept
<1> QED BY <1>2, <1>3, PTL DEF HeldInodeIsKept
=============================================================================
