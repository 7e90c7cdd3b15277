-------------------------------- MODULE Kmem --------------------------------
(***************************************************************************)
(* The kernel's memory: the buddy allocator of pages (kernel/mm/page.c)    *)
(* and, on top of it, the slab allocators and kmalloc (kernel/mm/slab.c).  *)
(*                                                                         *)
(* The operations are functions on one record m:                           *)
(*   free[o]    pg_freelist[o]: the first pages of the free blocks of 2^o  *)
(*   bit[o]     pg_map[o]: the indices whose bit is set                    *)
(*   freecount  page_freecount                                             *)
(*   sa         the slab allocators, sa[1] the one of slab_allocator_t;    *)
(*              a new one goes to the head of slab_allocators, so the      *)
(*              list is this sequence backwards                            *)
(*   crash      the assertion that has stopped the kernel, or NoCrash      *)
(* Pages are numbered from pg_baseaddr, sizes are in words.  None of these *)
(* operations sleeps or runs at interrupt level, so none is interrupted.   *)
(* SHADOWD is 0 in Config.mk, so a failed allocation is not tried again.   *)
(***************************************************************************)
EXTENDS Integers, FiniteSets, SequencesExt

CONSTANTS
  PAGE_NSIZES,
  PAGE_SIZE,
  NPAGES,          \* whole pages from start to the group's own records
  SLAB_MAX_ORDER,
  SLAB, BUFCTL, ALLOCATOR, REDZONE, POINTER,   \* sizes of the C types
  KMALLOC_SIZE_MIN_ORDER, KMALLOC_SIZE_MAX_ORDER,
  Npages,          \* what callers of page_alloc_n ask for
  Sizes,           \* what callers of slab_allocator_create ask for
  KSizes,          \* what callers of kmalloc ask for
  MaxAllocators,   \* bound: how many allocators exist at most
  MaxHeld,         \* bound: how many blocks and objects callers have at most
  NULL

ASSUME KmemAssumption ==
  /\ {PAGE_NSIZES, PAGE_SIZE, SLAB, BUFCTL, ALLOCATOR, MaxAllocators, MaxHeld} \subseteq Nat \ {0}
  /\ {NPAGES, SLAB_MAX_ORDER, REDZONE, POINTER} \subseteq Nat
  /\ KMALLOC_SIZE_MIN_ORDER \in Nat
  /\ KMALLOC_SIZE_MAX_ORDER \in KMALLOC_SIZE_MIN_ORDER .. 30

VARIABLES
  m,
  blocks,   \* the blocks that callers of page_alloc_n have
  objs      \* the objects that callers of slab_obj_alloc and kmalloc have

vars == <<m, blocks, objs>>

Top   == PAGE_NSIZES - 1
Order == 0 .. Top
NoCrash == "none"
Crash(s, why) == [s EXCEPT !.crash = IF @ = NoCrash THEN why ELSE @]
Without(q, x) == SelectSeq(q, LAMBDA y : y # x)
Flip(S, i)    == IF i \in S THEN S \ {i} ELSE S \cup {i}

-----------------------------------------------------------------------------
(* Pages. *)

(* The pages past the last block of the largest size are in no list, and   *)
(* are counted.                                                            *)
Usable == NPAGES - (NPAGES % (2^Top))

(* _pagegroup_create and page_add_range, for the one range there is. *)
page_add_range ==
  [free      |-> [o \in Order |-> IF o < Top THEN <<>>
                    ELSE [k \in 1 .. Usable \div 2^Top |-> Usable - k * 2^Top]],
   bit       |-> [o \in 1 .. Top |-> {}],
   freecount |-> NPAGES,
   sa        |-> <<>>,
   crash     |-> NoCrash]

(* The bit of a block tells whether just one of its two halves is free.    *)
flip_bit(s, o, a) ==
  IF o > Top THEN s ELSE [s EXCEPT !.bit[o] = Flip(@, a \div 2^o)]

RECURSIVE page_join(_, _, _)

\* Seeded fault: the block that two buddies make is not entered in the bits.
page_join_NoFlip(s, o, a) ==
  LET buddy == IF (a \div 2^o) % 2 = 1 THEN a - 2^o ELSE a + 2^o
      both  == IF a < buddy THEN a ELSE buddy
  IN  IF o = Top \/ a \div 2^(o + 1) \in s.bit[o + 1] THEN s
      ELSE page_join([s EXCEPT !.free[o] = Without(Without(@, a), buddy),
                               !.free[o + 1] = <<both>> \o @], o + 1, both)

(* __page_join *)
page_join(s, o, a) ==
  LET buddy == IF (a \div 2^o) % 2 = 1 THEN a - 2^o ELSE a + 2^o
      both  == IF a < buddy THEN a ELSE buddy
  IN  IF o = Top \/ a \div 2^(o + 1) \in s.bit[o + 1] THEN s
      ELSE page_join(flip_bit([s EXCEPT !.free[o] = Without(Without(@, a), buddy),
                                        !.free[o + 1] = <<both>> \o @], o + 2, both),
                     o + 1, both)

OrderOf(npages) == CHOOSE o \in Order : 2^o >= npages /\ \A n \in Order : 2^n >= npages => o <= n

(* page_free_n, with _page_free_order *)
page_free_n(s, a, npages) ==
  LET o == OrderOf(npages) IN
  page_join(flip_bit([s EXCEPT !.free[o] = <<a>> \o @, !.freecount = @ + 2^o], o + 1, a), o, a)

(* __page_split *)
page_split1(s, o) ==
  LET target == Head(s.free[o])
      t == flip_bit([s EXCEPT !.free[o] = Tail(@),
                              !.free[o - 1] = <<target + 2^(o - 1), target>> \o @], o + 1, target)
  IN  IF target \div 2^o \in s.bit[o] THEN Crash(t, "__page_split") ELSE t

EmptySlabs(a) == SelectSeq(a.slabs, LAMBDA b : b.inuse = 0)

\* Seeded fault: a slab that is not full is taken for an empty one.
slab_allocators_reclaim_NotFull(s) ==
  LET Empty(a) == SelectSeq(a.slabs, LAMBDA b : b.inuse < a.nobjs)
      FreeAll(t, i) == FoldLeft(LAMBDA u, b : page_free_n(u, b.addr, 2^s.sa[i].order),
                                t, Empty(s.sa[i]))
      freed == FoldLeft(FreeAll, s, [k \in 1 .. Len(s.sa) |-> Len(s.sa) + 1 - k])
  IN  [freed EXCEPT !.sa = [i \in DOMAIN @ |->
         [@[i] EXCEPT !.slabs = SelectSeq(@, LAMBDA b : b.inuse = s.sa[i].nobjs)]]]

(* slab_allocators_reclaim, for target 0: every slab without objects goes, *)
(* from the newest allocator to the oldest.                                *)
slab_allocators_reclaim(s) ==
  LET FreeAll(t, i) == FoldLeft(LAMBDA u, b : page_free_n(u, b.addr, 2^s.sa[i].order),
                                t, EmptySlabs(s.sa[i]))
      freed == FoldLeft(FreeAll, s, [k \in 1 .. Len(s.sa) |-> Len(s.sa) + 1 - k])
  IN  [freed EXCEPT !.sa = [i \in DOMAIN @ |->
         [@[i] EXCEPT !.slabs = SelectSeq(@, LAMBDA b : b.inuse > 0)]]]

(* _page_split: the smallest larger block is split down to the size asked  *)
(* for.  With none, memory is reclaimed for the next caller.               *)
page_split(s, o) ==
  LET larger == {n \in o + 1 .. Top : s.free[n] # <<>>}
      n == CHOOSE k \in larger : \A l \in larger : k <= l
  IN  IF larger = {} THEN slab_allocators_reclaim(s)
      ELSE FoldLeft(page_split1, s, [k \in 1 .. n - o |-> n + 1 - k])

(* page_alloc_n, with _page_alloc_order *)
FirstBlock(s, o) ==
  [s |-> flip_bit([s EXCEPT !.free[o] = Tail(@), !.freecount = @ - 2^o], o + 1, Head(s.free[o])),
   r |-> Head(s.free[o])]

page_alloc_n(s, npages) ==
  LET o == OrderOf(npages) IN
  IF s.free[o] # <<>> THEN FirstBlock(s, o)
  ELSE IF \A n \in o + 1 .. Top : s.free[n] = <<>> THEN [s |-> page_split(s, o), r |-> NULL]
  ELSE FirstBlock(page_split(s, o), o)

-----------------------------------------------------------------------------
(* Slabs. *)

slab_size(objsize, nobjs) == nobjs * (objsize + BUFCTL) + SLAB

\* Seeded fault: the room for the slab structure is forgotten.
slab_nobjs_NoSlab(objsize, o) == (PAGE_SIZE * 2^o) \div (objsize + BUFCTL)

slab_nobjs(objsize, o) == (PAGE_SIZE * 2^o - SLAB) \div (objsize + BUFCTL)

slab_waste(objsize, o) == PAGE_SIZE * 2^o - slab_size(objsize, slab_nobjs(objsize, o))

(* _calc_slab_size: the first order with the least waste. *)
calc_slab_size(objsize) ==
  LET fits  == {o \in Order : PAGE_SIZE * 2^o >= slab_size(objsize, 1)}
      min   == CHOOSE o \in fits : \A n \in fits : o <= n
      tried == {min} \cup (min + 1 .. SLAB_MAX_ORDER - 1)
  IN  CHOOSE o \in tried : \A n \in tried :
        \/ slab_waste(objsize, o) < slab_waste(objsize, n)
        \/ slab_waste(objsize, o) = slab_waste(objsize, n) /\ o <= n

(* _allocator_init; obj is the memory of the slab_allocator itself. *)
allocator_init(s, size, obj) ==
  LET objsize == size + 2 * REDZONE
      o == calc_slab_size(objsize)
  IN  [s EXCEPT !.sa = Append(@, [obj |-> obj, objsize |-> objsize, order |-> o,
                                  nobjs |-> slab_nobjs(objsize, o), slabs |-> <<>>])]

(* _slab_allocator_grow *)
WithSlab(p, i) ==
  IF p.r = NULL THEN p
  ELSE [p EXCEPT !.s.sa[i].slabs =
          <<[addr |-> p.r, inuse |-> 0, free |-> [k \in 1 .. p.s.sa[i].nobjs |-> k - 1]]>> \o @]

slab_allocator_grow(s, i) == WithSlab(page_alloc_n(s, 2^s.sa[i].order), i)

(* slab_obj_alloc: an object is its allocator, its slab and its index.     *)
Room(s, i) == {k \in DOMAIN s.sa[i].slabs : s.sa[i].slabs[k].inuse < s.sa[i].nobjs}

FirstObject(s, i) ==
  LET k == CHOOSE j \in Room(s, i) : \A l \in Room(s, i) : j <= l
      b == s.sa[i].slabs[k]
  IN  [s |-> [s EXCEPT !.sa[i].slabs[k] = [b EXCEPT !.free = Tail(@), !.inuse = @ + 1]],
       r |-> [sa |-> i, addr |-> b.addr, idx |-> Head(b.free)]]

IfGrown(p, i) == IF p.r = NULL THEN p ELSE FirstObject(p.s, i)

slab_obj_alloc(s, i) ==
  IF Room(s, i) # {} THEN FirstObject(s, i) ELSE IfGrown(slab_allocator_grow(s, i), i)

(* slab_obj_free *)
slab_obj_free(s, obj) ==
  LET Freed(b) == IF b.addr # obj.addr THEN b
                  ELSE [b EXCEPT !.free = <<obj.idx>> \o @, !.inuse = @ - 1]
      IsFree == \E k \in DOMAIN s.sa[obj.sa].slabs :
                  LET b == s.sa[obj.sa].slabs[k] IN b.addr = obj.addr /\ Contains(b.free, obj.idx)
  IN  IF IsFree THEN Crash(s, "INVALID FREE")
      ELSE [s EXCEPT !.sa[obj.sa].slabs = [k \in DOMAIN @ |-> Freed(@[k])]]

InitIn(p, size) == IF p.r = NULL THEN p.s ELSE allocator_init(p.s, size, p.r)

slab_allocator_create(s, size) == InitIn(slab_obj_alloc(s, 1), size)

(* slab_init: kmalloc's allocators come right after the first one.         *)
slab_init(s) ==
  FoldLeft(LAMBDA t, o : slab_allocator_create(t, 2^o), allocator_init(s, ALLOCATOR, NULL),
           [k \in 1 .. KMALLOC_SIZE_MAX_ORDER - KMALLOC_SIZE_MIN_ORDER + 1
              |-> KMALLOC_SIZE_MIN_ORDER + k - 1])

(* The allocator kmalloc takes, which it notes in front of the object.     *)
Bucket(size) ==
  LET fits == {o \in KMALLOC_SIZE_MIN_ORDER .. KMALLOC_SIZE_MAX_ORDER : 2^o >= size + POINTER}
  IN  2 + (CHOOSE o \in fits : \A n \in fits : o <= n) - KMALLOC_SIZE_MIN_ORDER

-----------------------------------------------------------------------------
(* What the rest of the kernel does with memory. *)

Running == m.crash = NoCrash
MayAsk == Running /\ Cardinality(blocks) + Cardinality(objs) < MaxHeld

(* Frames of pages, page tables and kernel stacks. *)
AllocPages(npages) ==
  /\ MayAsk
  /\ \E p \in {page_alloc_n(m, npages)} :
       /\ m' = p.s
       /\ blocks' = IF p.r = NULL THEN blocks ELSE blocks \cup {[addr |-> p.r, npages |-> npages]}
  /\ UNCHANGED objs

FreePages(b) ==
  /\ Running
  /\ m' = page_free_n(m, b.addr, b.npages)
  /\ blocks' = blocks \ {b}
  /\ UNCHANGED objs

AllocObject(i) ==
  /\ MayAsk
  /\ \E p \in {slab_obj_alloc(m, i)} :
       /\ m' = p.s
       /\ objs' = IF p.r = NULL THEN objs ELSE objs \cup {p.r}
  /\ UNCHANGED blocks

kmalloc(size) == AllocObject(Bucket(size))

(* slab_obj_free, and kfree, which finds the allocator in the object.      *)
FreeObject(obj) ==
  /\ Running
  /\ m' = slab_obj_free(m, obj)
  /\ objs' = objs \ {obj}
  /\ UNCHANGED blocks

CreateAllocator(size) ==
  /\ Running
  /\ Len(m.sa) < MaxAllocators
  /\ m' = slab_allocator_create(m, size)
  /\ UNCHANGED <<blocks, objs>>

Created == {i \in DOMAIN m.sa : i > 2 + KMALLOC_SIZE_MAX_ORDER - KMALLOC_SIZE_MIN_ORDER}

Init ==
  /\ m = slab_init(page_add_range)
  /\ blocks = {}
  /\ objs = {}

Next ==
  \/ \E n \in Npages : AllocPages(n)
  \/ \E b \in blocks : FreePages(b)
  \/ \E size \in KSizes : kmalloc(size)
  \/ \E i \in Created : AllocObject(i)
  \/ \E obj \in objs : FreeObject(obj)
  \/ \E size \in Sizes : CreateAllocator(size)

Spec == Init /\ [][Next]_vars

-----------------------------------------------------------------------------
(* Properties. *)

Pages(a, o) == a .. a + 2^o - 1
Slabs == UNION {{[addr |-> m.sa[i].slabs[k].addr, sa |-> i] : k \in DOMAIN m.sa[i].slabs} : i \in DOMAIN m.sa}
FreeBlocks == UNION {{[addr |-> m.free[o][k], order |-> o] : k \in DOMAIN m.free[o]} : o \in Order}

(* How often page g is in a free list, with a caller, or part of a slab.   *)
Uses(g) ==
  Cardinality({f \in FreeBlocks : g \in Pages(f.addr, f.order)})
  + Cardinality({b \in blocks : g \in Pages(b.addr, OrderOf(b.npages))})
  + Cardinality({b \in Slabs : g \in Pages(b.addr, m.sa[b.sa].order)})

FreePagesNow == {g \in 0 .. Usable - 1 : \E f \in FreeBlocks : g \in Pages(f.addr, f.order)}

(* Every page the group can hand out is in one place at any time: a free   *)
(* list, a caller's block or a slab.  page_freecount counts the free ones  *)
(* and, always, the pages at the end of the range that no list has.        *)
PagesAccounted ==
  /\ \A g \in 0 .. Usable - 1 : Uses(g) = 1
  /\ \A o \in Order : Len(m.free[o]) = Cardinality(ToSet(m.free[o]))
  /\ m.freecount = Cardinality(FreePagesNow) + NPAGES - Usable

(* The bit of a block is set when just one of its halves is free, which is *)
(* what __page_split asserts and __page_join relies on, and two free       *)
(* halves never stay apart; every page is in one place.                    *)
BuddyBits ==
  /\ PagesAccounted
  /\ m.crash # "__page_split"
  /\ \A o \in 1 .. Top, i \in 0 .. Usable - 1 :
       LET Free(a) == Contains(m.free[o - 1], a)
           lo == i * 2^o
       IN  lo < Usable =>
             /\ (i \in m.bit[o]) <=> (Free(lo) # Free(lo + 2^(o - 1)))
             /\ ~ (Free(lo) /\ Free(lo + 2^(o - 1)))

(* The objects of a slab are those in its list and those in use, each in   *)
(* one place, and s_inuse counts the latter: a slab that an object of a    *)
(* caller lies in, or a slab_allocator, is still there, and no object is   *)
(* freed twice.                                                            *)
SlabObjects ==
  LET InUse == objs \cup ({m.sa[i].obj : i \in DOMAIN m.sa} \ {NULL}) IN
  /\ m.crash # "INVALID FREE"
  /\ \A obj \in InUse : [addr |-> obj.addr, sa |-> obj.sa] \in Slabs
  /\ \A i \in DOMAIN m.sa : \A k \in DOMAIN m.sa[i].slabs :
       LET b == m.sa[i].slabs[k]
           used == {obj.idx : obj \in {x \in InUse : x.sa = i /\ x.addr = b.addr}}
       IN  /\ b.inuse = Cardinality(used)
           /\ Len(b.free) = Cardinality(ToSet(b.free))
           /\ used \cap ToSet(b.free) = {}
           /\ used \cup ToSet(b.free) = 0 .. m.sa[i].nobjs - 1

-----------------------------------------------------------------------------
(* The promise. *)

Words(lo, n) == [lo |-> lo, hi |-> lo + n]
ObjStart(i, addr, idx) == PAGE_SIZE * addr + idx * (m.sa[i].objsize + BUFCTL)

BlockPiece(b) == Words(PAGE_SIZE * b.addr, PAGE_SIZE * 2^OrderOf(b.npages))
ObjPiece(obj) == Words(ObjStart(obj.sa, obj.addr, obj.idx), m.sa[obj.sa].objsize)
BufctlPiece(b, idx) == Words(ObjStart(b.sa, b.addr, idx) + m.sa[b.sa].objsize, BUFCTL)
SlabPiece(b) == Words(ObjStart(b.sa, b.addr, m.sa[b.sa].nobjs), SLAB)

Records ==
  {ObjPiece(obj) : obj \in {m.sa[i].obj : i \in DOMAIN m.sa} \ {NULL}}
    \cup {SlabPiece(b) : b \in Slabs}
    \cup UNION {{BufctlPiece(b, idx) : idx \in 0 .. m.sa[b.sa].nobjs - 1} : b \in Slabs}

Heap == INSTANCE AbsHeap WITH
  Size  <- PAGE_SIZE * Usable,
  given <- {BlockPiece(b) : b \in blocks} \cup {ObjPiece(obj) : obj \in objs},
  own   <- Records

(* What page_alloc_n, slab_obj_alloc and kmalloc hand out overlaps nothing *)
(* in use: no block, no object, and none of the allocators' own records,   *)
(* the slab structures and buffer controls between the objects included.   *)
ImplementsHeap == Heap!Spec
=============================================================================
