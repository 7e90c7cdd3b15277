--------------------------------- MODULE VM ---------------------------------
(***************************************************************************)
(* Virtual memory (kernel/vm/vmmap.c, mmap.c, brk.c, anon.c, shadow.c,     *)
(* pagefault.c, shadowd.c, proc/fork.c, api/access.c, api/elf32.c and the  *)
(* page tables of mm/pagetable.c): the areas of every process, the chains  *)
(* of shadow objects below them, the resident pages of the objects, and    *)
(* the translations in the page tables.                                    *)
(*                                                                         *)
(* Nothing in anonymous and shadow objects sleeps, so a system call or a   *)
(* page fault is one action.  Areas over files are left out: the only file *)
(* system that can map them, s5fs, is a binary library (libs5fs.a), and    *)
(* the areas of a program hold what _elf32_load maps as if it were         *)
(* anonymous.  Addresses are page numbers; memory never runs out.          *)
(***************************************************************************)
EXTENDS Integers, FiniteSets, SequencesExt

CONSTANTS
  Proc,            \* processes
  LOW, HIGH,       \* page numbers of USER_MEM_LOW and USER_MEM_HIGH
  PT_ENTRY_COUNT,  \* pages under one page table
  Obj,             \* mmobj_t structures: a bound on their number
  Val,             \* what a page may hold; 0 in a fresh one
  Sizes,           \* pages that calls ask for
  Fixed,           \* pages that mmap is asked for with MAP_FIXED: a bound
  MaxAreas,        \* areas of a process: a bound
  Prots,           \* "r" and "rw", PROT_READ without and with PROT_WRITE
  Image,           \* the areas that _elf32_load makes for a program
  Brks,            \* the starting breaks of programs
  SHADOWD,         \* whether shadowd is built in
  NULL

Page == LOW .. HIGH - 1
Num  == 0 .. HIGH - LOW - 1      \* numbers of pages in an object

ASSUME VMAssumption ==
  /\ PT_ENTRY_COUNT \in Nat \ {0, 1} /\ {LOW, HIGH} \subseteq Nat
  /\ 0 < LOW /\ LOW < HIGH /\ LOW % PT_ENTRY_COUNT = 0 /\ HIGH % PT_ENTRY_COUNT = 0
  /\ 0 \in Val /\ SHADOWD \in BOOLEAN
  /\ NULL \notin Val \cup Obj /\ NULL \notin Brks /\ Sizes \subseteq Nat \ {0} /\ Fixed \subseteq Page /\ MaxAreas \in Nat
  /\ Prots \subseteq {"r", "rw"}
  /\ "freed" \notin Obj \cup {NULL} /\ IsFiniteSet(Obj) /\ IsFiniteSet(Proc)
  /\ \A b \in Brks : b.page \in Page /\ b.aligned \in BOOLEAN
  (* The areas of a program are inside user memory and apart: a program of *)
  (* overlapping segments is refused, and there is memory for a program.   *)
  /\ Image # <<>> /\ 2 * Len(Image) <= Cardinality(Obj)
  /\ Image \in Seq([start : Page, end : LOW .. HIGH, prot : Prots])
  /\ \A k \in DOMAIN Image : Image[k].start < Image[k].end
  /\ \A j, k \in DOMAIN Image :
       j # k => Image[j].end <= Image[k].start \/ Image[k].end <= Image[j].start

VARIABLES
  s,        \* the state: see the record in Init
  shrunk    \* a heap has become smaller, now or before

vars == <<s, shrunk>>

NoCrash == "none"
Crash(m, why) == [m EXCEPT !.crash = IF @ = NoCrash THEN why ELSE @]

-----------------------------------------------------------------------------
(* Objects.  m.obj[o].page[n] is what the resident page n of o holds, or   *)
(* NULL; every resident page counts as a reference, as every area and      *)
(* every shadow object above does.                                         *)

FreeObj    == [kind |-> "free", ref |-> 0, shadowed |-> NULL, page |-> [n \in Num |-> NULL]]
FreeObjs(m) == {o \in Obj : m.obj[o].kind = "free"}
NewObj(m)   == CHOOSE o \in FreeObjs(m) : TRUE
Resident(m, o) == {n \in Num : m.obj[o].page[n] # NULL}

anon_create(m)        == [m EXCEPT !.obj[NewObj(m)] = [FreeObj EXCEPT !.kind = "anon", !.ref = 1]]
shadow_create(m, low) == [m EXCEPT !.obj[NewObj(m)] =
                            [FreeObj EXCEPT !.kind = "shadow", !.ref = 1, !.shadowed = low]]
ref(m, o) == [m EXCEPT !.obj[o].ref = @ + 1]

mmobj_bottom_obj(m, o) ==
  LET bottom[x \in Obj] == IF m.obj[x].shadowed = NULL THEN x ELSE bottom[m.obj[x].shadowed]
  IN  bottom[o]

(* A translation of page i to page n of object o; w when it allows writes. *)
NoPte      == [o |-> NULL, n |-> 0, w |-> FALSE]
Dangling   == [o |-> "freed", n |-> 0, w |-> TRUE]      \* to a frame that was given back

(* pframe_free of pages N of o: the translations in the private areas over *)
(* the same bottom object go; others are left to memory that was given     *)
(* back.                                                                   *)
pframe_remove_from_pts(m, o, N, p, i) ==
  LET b == mmobj_bottom_obj(m, o) IN
  \E k \in DOMAIN m.areas[p] : LET a == m.areas[p][k] IN
    /\ ~a.shared /\ a.start <= i /\ i < a.end
    /\ i - a.start + a.off \in N /\ mmobj_bottom_obj(m, a.obj) = b

pframe_free(m, o, N) ==
  LET after(p, i, t) == IF t = NoPte \/ pframe_remove_from_pts(m, o, N, p, i) THEN NoPte
                        ELSE IF t.o = o /\ t.n \in N THEN Dangling ELSE t
  IN  [m EXCEPT !.obj[o].page = [n \in Num |-> IF n \in N THEN NULL ELSE m.obj[o].page[n]],
                !.obj[o].ref = @ - Cardinality(N),
                !.pte = IF N = {} THEN @
                        ELSE [p \in Proc |-> [i \in Page |-> after(p, i, m.pte[p][i])]]]

(* anon_put and shadow_put: an object goes when only its own pages are     *)
(* left to refer to it, and a shadow object then puts the one below.       *)
PutOne(m, o) ==
  LET empty == pframe_free(m, o, Resident(m, o)) IN
  IF m.obj[o].ref - 1 # Cardinality(Resident(m, o))
  THEN [m |-> [m EXCEPT !.obj[o].ref = @ - 1], o |-> NULL]
  ELSE [m |-> [empty EXCEPT !.obj[o] = FreeObj], o |-> m.obj[o].shadowed]

put(m, o) ==
  LET after[k \in 0 .. Cardinality(Obj)] ==
        IF k = 0 THEN [m |-> m, o |-> o]
        ELSE IF after[k - 1].o = NULL THEN after[k - 1]
        ELSE PutOne(after[k - 1].m, after[k - 1].o)
  IN  after[Cardinality(Obj)].m

(* The first object of the chain that has the page, or the bottom one.     *)
Stops(m, o, n) == m.obj[o].page[n] # NULL \/ m.obj[o].shadowed = NULL
Holder(m, o, n) ==
  LET holder[x \in Obj] == IF Stops(m, x, n) THEN x ELSE holder[m.obj[x].shadowed]
  IN  holder[o]

Resolve(m, o, n) == LET v == m.obj[Holder(m, o, n)].page[n] IN IF v = NULL THEN 0 ELSE v

AddPage(m, o, n, v) ==
  IF m.obj[o].page[n] # NULL THEN m
  ELSE [m EXCEPT !.obj[o].page[n] = v, !.obj[o].ref = @ + 1]

(* lookuppage for reading: anon_fillpage zeroes a new page at the bottom.  *)
LookupRead(m, o, n) ==
  LET h == Holder(m, o, n) IN [m |-> AddPage(m, h, n, 0), o |-> h]

\* Seeded fault: the page of a shadow object is zeroed and not copied from below.
LookupWrite_NotCopied(m, o, n) ==
  LET below == LookupRead(m, m.obj[o].shadowed, n).m IN
  IF m.obj[o].kind = "anon" \/ m.obj[o].page[n] # NULL THEN LookupRead(m, o, n)
  ELSE [m |-> AddPage(below, o, n, 0), o |-> o]

(* lookuppage for writing: shadow_fillpage copies the page from below.     *)
LookupWrite(m, o, n) ==
  LET below == LookupRead(m, m.obj[o].shadowed, n).m IN
  IF m.obj[o].kind = "anon" \/ m.obj[o].page[n] # NULL THEN LookupRead(m, o, n)
  ELSE [m |-> AddPage(below, o, n, Resolve(m, o, n)), o |-> o]

-----------------------------------------------------------------------------
(* Areas and page tables. *)

vmmap_lookup(m, p, i) ==
  LET K == {k \in DOMAIN m.areas[p] : m.areas[p][k].start <= i /\ i < m.areas[p][k].end}
  IN  IF K = {} THEN 0 ELSE Min(K)

InRange(lo, hi) == LOW <= lo /\ lo < hi /\ hi <= HIGH

vmmap_is_range_empty(areas, lo, hi) ==
  \A k \in DOMAIN areas : areas[k].start >= hi \/ areas[k].end <= lo

vmmap_insert(areas, a) ==
  InsertAt(areas, 1 + Cardinality({k \in DOMAIN areas : areas[k].start <= a.start}), a)

(* vmmap_find_range from the top: the page, 0 when there is no room, -1    *)
(* when the subtraction wraps around and the range is refused.             *)
vmmap_find_range(areas, npages) ==
  LET last == Len(areas)
      below(k) == areas[k].start - npages
      K == {k \in DOMAIN areas :
              below(k) < 0 \/ (below(k) >= LOW /\ vmmap_is_range_empty(areas, below(k), areas[k].start))}
  IN  IF last > 0 /\ areas[last].end + npages <= HIGH THEN HIGH - npages
      ELSE IF K = {} THEN 0 ELSE Max({-1, below(Max(K))})

(* What unmapping lo .. hi - 1 leaves of an area.                          *)
Pieces(a, lo, hi) ==
  IF a.start >= hi \/ a.end <= lo THEN <<a>>
  ELSE (IF a.start < lo THEN <<[a EXCEPT !.end = lo]>> ELSE <<>>)
       \o (IF a.end > hi THEN <<[a EXCEPT !.start = hi, !.off = @ + hi - a.start]>> ELSE <<>>)

(* The list that is left, and what becomes of the objects of a list when   *)
(* left[k] areas remain of its area k: one that is cut in two has one more *)
(* user.                                                                   *)
Remaining(areas, lo, hi) ==
  LET l[k \in 0 .. Len(areas)] == IF k = 0 THEN <<>> ELSE l[k - 1] \o Pieces(areas[k], lo, hi)
  IN  l[Len(areas)]

Walked(m, areas, left) ==
  LET after[k \in 0 .. Len(areas)] ==
        IF k = 0 THEN m
        ELSE CASE left[k] = 0 -> put(after[k - 1], areas[k].obj)
               [] left[k] = 1 -> after[k - 1]
               [] left[k] = 2 -> ref(after[k - 1], areas[k].obj)
  IN  after[Len(areas)]

vmmap_remove(m, p, lo, hi) ==
  LET areas == m.areas[p]
      left  == [k \in DOMAIN areas |-> Len(Pieces(areas[k], lo, hi))]
  IN  [Walked(m, areas, left) EXCEPT !.areas[p] = Remaining(areas, lo, hi)]

PutAll(m, areas) == Walked(m, areas, [k \in DOMAIN areas |-> 0])

vmmap_destroy(m, p) == PutAll([m EXCEPT !.areas[p] = <<>>], m.areas[p])

(* pt_unmap_range clears whole ends of the first and the last page table.  *)
Table(i) == i \div PT_ENTRY_COUNT
Index(i) == i % PT_ENTRY_COUNT
Cleared(lo, hi) ==
  {i \in Page : \/ Index(lo) # 0 /\ Table(i) = Table(lo) /\ i >= lo
                \/ Index(hi) # 0 /\ Table(i) = Table(hi) /\ i < hi
                \/ Table(lo + PT_ENTRY_COUNT - 1) <= Table(i) /\ Table(i) < Table(hi)}

pt_unmap_range(m, p, lo, hi) ==
  [m EXCEPT !.pte[p] = [i \in Page |-> IF i \in Cleared(lo, hi) THEN NoPte ELSE @[i]]]

(* An area over a new anonymous object, below a shadow object if private.  *)
NewObjs(shared) == IF shared THEN 1 ELSE 2
vmmap_map(m, p, lo, hi, shared, prot) ==
  LET a == NewObj(m)
      x == IF shared THEN anon_create(m) ELSE shadow_create(anon_create(m), a)
      o == IF shared THEN a ELSE NewObj(anon_create(m))
  IN  [x EXCEPT !.areas[p] = vmmap_insert(@,
         [start |-> lo, end |-> hi, off |-> 0, shared |-> shared, prot |-> prot, obj |-> o])]
-----------------------------------------------------------------------------
(* System calls of p, and its loads and stores.                            *)

NoObjects ==
  [areas |-> [p \in Proc |-> <<>>], obj |-> [o \in Obj |-> FreeObj],
   pte |-> [p \in Proc |-> [i \in Page |-> NoPte]], heap |-> [p \in Proc |-> NULL], crash |-> NoCrash]

Up       == s.crash = NoCrash
Alive(p) == s.heap[p] # NULL
Runs(p)  == Up /\ Alive(p)
Step(m)  == s' = IF m.crash = NoCrash THEN m ELSE [NoObjects EXCEPT !.crash = m.crash]
Area(p, i)   == s.areas[p][vmmap_lookup(s, p, i)]
Areas        == UNION {{<<p, k>> : k \in DOMAIN s.areas[p]} : p \in Proc}
Has(p, i)    == vmmap_lookup(s, p, i) # 0
PageNum(p, i) == i - Area(p, i).start + Area(p, i).off

(* The result of vmmap_map is not looked at: without room, the new area    *)
(* that is used next was never assigned.                                   *)
do_mmap(p, addr, npages, shared, prot) ==
  LET found == vmmap_find_range(s.areas[p], npages)
      lo    == IF addr = NULL THEN found ELSE addr
      hi    == lo + npages
      room  == IF addr = NULL THEN s ELSE vmmap_remove(s, p, lo, hi)
  IN  /\ Runs(p) /\ Cardinality(FreeObjs(s)) >= NewObjs(shared) /\ Len(s.areas[p]) < MaxAreas
      /\ Step(CASE addr = NULL /\ found = 0  -> Crash(s, "do_mmap")
                [] addr = NULL /\ found = -1 -> Crash(s, "vmmap_is_range_empty")
                [] addr # NULL /\ hi > HIGH  -> Crash(s, "vmmap_map")
                [] OTHER -> pt_unmap_range(vmmap_map(room, p, lo, hi, shared, prot), p, lo, hi))
      /\ UNCHANGED shrunk

\* Seeded fault: the translations of the pages stay.
do_munmap_KeepsTranslations(p, lo, npages) ==
  /\ Runs(p) /\ lo + npages <= HIGH
  /\ Step(vmmap_remove(s, p, lo, lo + npages)) /\ UNCHANGED shrunk

do_munmap(p, lo, npages) ==
  /\ Runs(p) /\ lo + npages <= HIGH
  /\ Step(pt_unmap_range(vmmap_remove(s, p, lo, lo + npages), p, lo, lo + npages))
  /\ UNCHANGED shrunk

(* The break moves to somewhere in page end - 1, or to its end.  The heap  *)
(* is the area around the starting break, and that has to be there.        *)
do_brk(p, end) ==
  LET b == s.heap[p]
      k == vmmap_lookup(s, p, b.page)
      a == s.areas[p][k]
      grows == a.end < end
  IN  /\ Runs(p) /\ end >= b.page + (IF b.aligned THEN 0 ELSE 1)
      /\ IF k = 0 THEN Step(Crash(s, "do_brk")) /\ UNCHANGED shrunk
         ELSE IF grows /\ ~InRange(a.end, end)
              THEN Step(Crash(s, "vmmap_is_range_empty")) /\ UNCHANGED shrunk
         ELSE /\ grows => vmmap_is_range_empty(s.areas[p], a.end, end)
              /\ Step([s EXCEPT !.areas[p][k].end = end])
              /\ shrunk' = (shrunk \/ end < a.end)

Exit(m, p) == [vmmap_destroy(m, p) EXCEPT !.pte[p] = [i \in Page |-> NoPte], !.heap[p] = NULL]

do_exit(p) == Runs(p) /\ Step(Exit(s, p)) /\ UNCHANGED shrunk

(* The processor faults when there is no translation that allows the       *)
(* access; a process that may not have it is killed.                       *)
handle_pagefault(p, i, write) ==
  LET n == PageNum(p, i)
      a == Area(p, i)
      l == IF write THEN LookupWrite(s, a.obj, n) ELSE LookupRead(s, a.obj, n)
  IN  /\ Runs(p) /\ (s.pte[p][i] = NoPte \/ (write /\ ~s.pte[p][i].w))
      /\ IF ~Has(p, i) \/ (write /\ a.prot = "r") THEN Step(Exit(s, p))
         ELSE Step([l.m EXCEPT !.pte[p][i] = [o |-> l.o, n |-> n, w |-> write]])
      /\ UNCHANGED shrunk

UserStore(p, i, v) ==
  LET t == s.pte[p][i] IN
  /\ Runs(p) /\ t.w
  /\ IF t = Dangling THEN Step(Crash(s, "store to freed memory"))
     ELSE Step([s EXCEPT !.obj[t.o].page[t.n] = v])
  /\ UNCHANGED shrunk

(* copy_to_user and copy_from_user, with range_perm, vmmap_write and       *)
(* vmmap_read.                                                             *)
range_perm(p, i, j) == \A k \in i .. j : k < HIGH /\ Has(p, k) /\ Area(p, k).prot = "rw"

CopyOut(m, p, i, v) ==
  LET k == vmmap_lookup(m, p, i)
      a == m.areas[p][k]
      n == i - a.start + a.off
      l == LookupWrite(m, a.obj, n)
  IN  [l.m EXCEPT !.obj[l.o].page[n] = v]

copy_to_user(p, i, v) ==
  /\ Runs(p) /\ range_perm(p, i, i)
  /\ Step(CopyOut(s, p, i, v)) /\ UNCHANGED shrunk

(* All bytes are copied from the first frame on, whatever lies behind it.  *)
copy_to_user_TwoPages(p, i) ==
  /\ Runs(p) /\ range_perm(p, i, i + 1)
  /\ Step(Crash(s, "copy beyond the frame")) /\ UNCHANGED shrunk

copy_from_user(p, i) ==
  /\ Runs(p) /\ Has(p, i)
  /\ Step(LookupRead(s, Area(p, i).obj, PageNum(p, i)).m) /\ UNCHANGED shrunk

\* Seeded fault: the object below does not count the child's shadow object.
Cloned_NotReferenced(x, p, q, k) ==
  LET o == x.areas[p][k].obj
      c == shadow_create(x, o)
  IN  IF x.areas[p][k].shared THEN ref(x, o)
      ELSE [shadow_create(c, o) EXCEPT !.areas[q][k].obj = NewObj(x), !.areas[p][k].obj = NewObj(c)]

\* Seeded fault: the parent goes on writing into the object that the child shadows.
Cloned_ParentNotShadowed(x, p, q, k) ==
  LET o == x.areas[p][k].obj IN
  IF x.areas[p][k].shared THEN ref(x, o)
  ELSE [shadow_create(ref(x, o), o) EXCEPT !.areas[q][k].obj = NewObj(x)]

(* Area k of the parent in vmmap_clone and under two new shadow objects.    *)
Cloned(x, p, q, k) ==
  LET o == x.areas[p][k].obj
      c == shadow_create(ref(x, o), o)
  IN  IF x.areas[p][k].shared THEN ref(x, o)
      ELSE [shadow_create(c, o) EXCEPT !.areas[q][k].obj = NewObj(x), !.areas[p][k].obj = NewObj(c)]

vmmap_clone(m, p, q) ==
  LET after[k \in 0 .. Len(m.areas[p])] ==
        IF k = 0 THEN [m EXCEPT !.areas[q] = m.areas[p]] ELSE Cloned(after[k - 1], p, q, k)
  IN  after[Len(m.areas[p])]

do_fork(p, q) ==
  LET K == DOMAIN s.areas[p] IN
  /\ Runs(p) /\ ~Alive(q)
  /\ Cardinality(FreeObjs(s)) >= 2 * Cardinality({k \in K : ~s.areas[p][k].shared})
  /\ Step(IF \E k \in K : s.areas[p][k].start = s.areas[p][k].end THEN Crash(s, "vmmap_insert")
          ELSE [pt_unmap_range(vmmap_clone(s, p, q), p, LOW, HIGH) EXCEPT !.heap[q] = s.heap[p]])
  /\ UNCHANGED shrunk

(* The segments of the program, mapped into the new, empty map.            *)
_elf32_map_progsegs(m, p) ==
  LET after[k \in 0 .. Len(Image)] ==
        IF k = 0 THEN [m EXCEPT !.areas[p] = <<>>]
        ELSE vmmap_map(after[k - 1], p, Image[k].start, Image[k].end, FALSE, Image[k].prot)
  IN  after[Len(Image)]

(* The arguments go to the last page of the first area, the stack.         *)
_elf32_load_args(m, p, v) == CopyOut(m, p, Image[1].end - 1, v)

(* The new map is complete before the old one goes.                        *)
_elf32_load(m, p, b, v) ==
  LET new == _elf32_load_args(_elf32_map_progsegs(m, p), p, v)
  IN  [pt_unmap_range(PutAll(new, m.areas[p]), p, LOW, HIGH) EXCEPT !.heap[p] = b]

do_execve(p, b, v) ==
  /\ Runs(p) /\ Cardinality(FreeObjs(s)) >= 2 * Len(Image)
  /\ Step(_elf32_load(s, p, b, v)) /\ UNCHANGED shrunk

-----------------------------------------------------------------------------
(* shadowd: it moves the pages of an object with one parent to that parent *)
(* and takes the object out of the chain.                                  *)

(* Pages that dest has already are freed, the others move, and so do the   *)
(* translations that lead to them.                                         *)
pframe_migrate(m, o, dest) ==
  LET twice  == {n \in Resident(m, o) : m.obj[dest].page[n] # NULL}
      once   == Resident(m, o) \ twice
      x      == pframe_free(m, o, twice)
      to(t)  == IF t.o = o /\ t.n \in once THEN [t EXCEPT !.o = dest] ELSE t
      up     == [n \in Num |-> IF n \in once THEN m.obj[o].page[n] ELSE m.obj[dest].page[n]]
  IN  [x EXCEPT !.obj[dest].page = up, !.obj[dest].ref = @ + Cardinality(once),
                !.obj[o].page = FreeObj.page, !.obj[o].ref = @ - Cardinality(once),
                !.pte = [p \in Proc |-> [i \in Page |-> to(x.pte[p][i])]]]

Parents(m, o) == m.obj[o].ref - Cardinality(Resident(m, o))

(* One round below an area: x.o is under x.last.                           *)
CollapseOne(x) ==
  LET low   == x.m.obj[x.o].shadowed
      moved == pframe_migrate(x.m, x.o, x.last)
      above == ref([moved EXCEPT !.obj[x.last].shadowed = low], low)
  IN  CASE Parents(x.m, x.o) = 1 -> [x EXCEPT !.m = put(above, x.o), !.o = low]
        [] Parents(x.m, x.o) = 2 -> [x EXCEPT !.last = x.o, !.o = low]
        [] OTHER -> [x EXCEPT !.m = Crash(x.m, "shadowd"), !.o = NULL]

Collapse(m, top) ==
  LET after[k \in 0 .. Cardinality(Obj)] ==
        IF k = 0 THEN [m |-> m, last |-> top, o |-> m.obj[top].shadowed]
        ELSE LET x == after[k - 1] IN
             IF x.o = NULL THEN x ELSE IF x.m.obj[x.o].shadowed = NULL THEN x ELSE CollapseOne(x)
  IN  after[Cardinality(Obj)].m

shadowd ==
  LET tops == SetToSeq({s.areas[e[1]][e[2]].obj : e \in Areas})
      after[k \in 0 .. Len(tops)] ==
        IF k = 0 THEN s
        ELSE IF after[k - 1].crash = NoCrash THEN Collapse(after[k - 1], tops[k]) ELSE after[k - 1]
  IN  /\ Up /\ SHADOWD
      /\ Step(after[Len(tops)])
      /\ UNCHANGED shrunk

-----------------------------------------------------------------------------
Init ==
  /\ s \in {_elf32_load(NoObjects, p, b, 0) : p \in Proc, b \in Brks}
  /\ shrunk = FALSE

Memory(p) ==
  \/ \E i \in Page, v \in Val \ {0} : UserStore(p, i, v) \/ copy_to_user(p, i, v)
  \/ \E i \in Page, write \in BOOLEAN : handle_pagefault(p, i, write)
  \/ \E i \in Page : copy_to_user_TwoPages(p, i) \/ copy_from_user(p, i)

AddressSpace(p) ==
  \/ \E addr \in Fixed \cup {NULL}, n \in Sizes, shared \in BOOLEAN, prot \in Prots :
       do_mmap(p, addr, n, shared, prot)
  \/ \E i \in Page, n \in Sizes : do_munmap(p, i, n)
  \/ \E end \in LOW .. HIGH + 1 : do_brk(p, end)
  \/ \E q \in Proc : do_fork(p, q)
  \/ \E b \in Brks, v \in Val : do_execve(p, b, v)
  \/ do_exit(p)

Stopped == (~Up \/ \A p \in Proc : ~Alive(p)) /\ UNCHANGED vars

Next == (\E p \in Proc : Memory(p) \/ AddressSpace(p)) \/ shadowd \/ Stopped

Spec == Init /\ [][Next]_vars
-----------------------------------------------------------------------------
(* What must hold. *)

(* The state has its types, and the kernel stops only for these reasons:   *)
(* mmap without room or beyond the end, the wrap-around in                 *)
(* vmmap_find_range, brk after its area was unmapped, a copy over the end  *)
(* of a page, shadowd below a split area; and, only after a heap shrank,   *)
(* fork and stores.                                                        *)
TypeOK ==
  /\ s.crash \in {NoCrash, "do_mmap", "vmmap_map", "vmmap_is_range_empty", "do_brk", "vmmap_insert",
                  "copy beyond the frame", "store to freed memory", "shadowd"}
  /\ s.crash \in {"vmmap_insert", "store to freed memory"} => shrunk
  /\ s.obj \in [Obj -> [kind : {"free", "anon", "shadow"}, ref : Nat, shadowed : Obj \cup {NULL},
                        page : [Num -> Val \cup {NULL}]]]
  /\ s.pte \in [Proc -> [Page -> [o : Obj \cup {NULL, "freed"}, n : Num, w : BOOLEAN]]]
  /\ s.heap \in [Proc -> Brks \cup {NULL}]
  /\ shrunk \in BOOLEAN

AreaSet(p) == {s.areas[p][k] : k \in DOMAIN s.areas[p]}
AreasOf(o) == {e \in Areas : s.areas[e[1]][e[2]].obj = o}

(* The areas of an address space are in the order of their pages, inside   *)
(* user memory and apart; only a break that moved down to the start of its *)
(* area leaves an empty one.                                               *)
AreasInOrder ==
  \A p \in Proc : \A k \in DOMAIN s.areas[p] :
    LET a == s.areas[p][k] IN
    /\ LOW <= a.start /\ a.end <= HIGH /\ (a.start < a.end \/ (shrunk /\ a.start = a.end))
    /\ k + 1 \in DOMAIN s.areas[p] => a.end <= s.areas[p][k + 1].start

(* mmo_refcount is the number of areas over the object, of shadow objects  *)
(* over it, and of its resident pages, through maps, unmaps, splits, forks *)
(* and exits; an object without the first two is free.                     *)
RefCounts ==
  \A o \in Obj :
    LET above == Cardinality(AreasOf(o)) + Cardinality({h \in Obj : s.obj[h].shadowed = o}) IN
    /\ s.obj[o].ref = above + Cardinality(Resident(s, o))
    /\ (s.obj[o].kind = "free") <=> (above = 0)

(* The object that a private area writes into is that process's own: it is *)
(* under no other object and under no area of another process, and what it *)
(* shadows is never written again (copy on write).                         *)
PrivateTop ==
  \A p \in Proc : \A a \in AreaSet(p) : ~a.shared =>
    /\ s.obj[a.obj].kind = "shadow"
    /\ \A h \in Obj : s.obj[h].shadowed # a.obj
    /\ \A e \in AreasOf(a.obj) : e[1] = p

(* The address spaces, in all three respects.                              *)
AddressSpaces == TypeOK /\ AreasInOrder /\ PrivateTop

(* Unless a heap has shrunk, a translation belongs to an area, and leads   *)
(* to a resident page of an object in its chain; one that allows writes    *)
(* leads to the very page that vmmap_write would find, in an area that may *)
(* be written.                                                             *)
Translations ==
  \A p \in Proc, i \in Page :
    LET t == s.pte[p][i] IN
    (t # NoPte /\ ~shrunk) =>
      /\ Has(p, i) /\ t # Dangling /\ t.n = PageNum(p, i)
      /\ s.obj[t.o].page[t.n] # NULL
      /\ mmobj_bottom_obj(s, t.o) = mmobj_bottom_obj(s, Area(p, i).obj)
      /\ t.w => Area(p, i).prot = "rw" /\ t.o = Area(p, i).obj

(* What a page of a process holds, and the pages that are one memory.      *)
At(p, i)   == {a \in AreaSet(p) : a.start <= i /\ i < a.end}
NumIn(a, i) == i - a.start + a.off
View(p) == [i \in Page |->
  LET A == At(p, i) IN IF A = {} THEN NULL ELSE LET a == CHOOSE a \in A : TRUE IN Resolve(s, a.obj, NumIn(a, i))]
Same(p) == [i \in Page |->
  LET A == At(p, i)
      a == CHOOSE a \in A : TRUE
  IN  IF A = {} THEN {}
      ELSE IF ~a.shared THEN {<<p, i>>}
      ELSE {e \in Proc \X Page :
              \E b \in At(e[1], e[2]) : b.obj = a.obj /\ NumIn(b, e[2]) = NumIn(a, i)}]

InProgram(i) == \E k \in DOMAIN Image : Image[k].start <= i /\ i < Image[k].end

Abs == INSTANCE AbsMem WITH
  Zero <- 0, Unmapped <- NULL,
  Program <- [i \in Page |-> IF InProgram(i) THEN 0 ELSE NULL], Args <- Image[1].end - 1,
  mem <- [p \in Proc |-> View(p)], same <- [p \in Proc |-> Same(p)]

(* What each call has to do with the memory of the processes.              *)
Places(npages)   == {lo .. lo + npages - 1 : lo \in {i \in Page : i + npages <= HIGH}}
SharedPages(p)   == {i \in Page : Has(p, i) /\ Area(p, i).shared}
Allowed(p, i, write) == Has(p, i) /\ (write => Area(p, i).prot = "rw")
HeapArea(p)      == Area(p, s.heap[p].page)

MemoryDone(p) ==
  \/ \E i \in Page, v \in Val \ {0} :
       (UserStore(p, i, v) \/ copy_to_user(p, i, v)) /\ Abs!Store(p, i, v)
  \/ \E i \in Page, write \in BOOLEAN :
       /\ handle_pagefault(p, i, write)
       /\ IF Allowed(p, i, write) THEN Abs!Unseen ELSE Abs!Exit(p)
  \/ \E i \in Page : copy_from_user(p, i) /\ Abs!Unseen

AddressSpaceDone(p) ==
  \/ \E addr \in Fixed \cup {NULL}, n \in Sizes, shared \in BOOLEAN, prot \in Prots :
       /\ do_mmap(p, addr, n, shared, prot)
       /\ IF addr = NULL THEN \E I \in Places(n) : Abs!MapAnywhere(p, I)
          ELSE Abs!Map(p, addr .. addr + n - 1)
  \/ \E i \in Page, n \in Sizes : do_munmap(p, i, n) /\ Abs!Unmap(p, i .. i + n - 1)
  \/ \E end \in LOW .. HIGH + 1 :
       /\ do_brk(p, end)
       /\ IF end < HeapArea(p).end THEN Abs!Unmap(p, end .. HeapArea(p).end - 1)
          ELSE Abs!Grow(p, HeapArea(p).end .. end - 1)
  \/ \E q \in Proc : do_fork(p, q) /\ Abs!Fork(p, q, SharedPages(p))
  \/ \E b \in Brks, v \in Val : do_execve(p, b, v) /\ Abs!Exec(p, v)
  \/ do_exit(p) /\ Abs!Exit(p)

(* Page by page, each call does to the memory of the processes what AbsMem *)
(* says of this call, until a heap has shrunk: a store is seen by those    *)
(* who share the page and by nobody else, mmap and exec give the contents  *)
(* they should, munmap and exit take nothing but their own, fork gives the *)
(* child what the parent has, and a fault, a copy to the kernel and        *)
(* shadowd change nothing that a process can see.                          *)
ImplementsMem ==
  /\ Abs!Init
  /\ [][~shrunk =>
         \/ ~Up' /\ Abs!Halt
         \/ Up' /\ \E p \in Proc : MemoryDone(p) \/ AddressSpaceDone(p)
         \/ Up' /\ shadowd /\ Abs!Unseen]_vars
=============================================================================
