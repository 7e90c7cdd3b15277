---------------------------- MODULE MemoryProofs ----------------------------
(***************************************************************************)
(* That address spaces are in order and apart, that an object counts those *)
(* who refer to it, and that no translation outlives its area or its page: *)
(* for every number of processes, objects, pages and values.               *)
(*                                                                         *)
(* The parts of the invariant are stated of a state m, and of the numbers  *)
(* u of users of its objects, so that they can be followed through the     *)
(* loops of one action, where a local variable may have a reference that   *)
(* no area has yet.  A loop is a recursive function on the number of its   *)
(* rounds: ...Ran lemmas say that every round was reached, by well-founded *)
(* induction on that number.                                               *)
(***************************************************************************)
EXTENDS VM, FiniteSetTheorems, SequenceTheorems, WellFoundedInduction, TLAPS

-----------------------------------------------------------------------------
(* What the proofs say about objects, apart from the rest of the state: b  *)
(* is a value of s.obj.                                                    *)

ObjRec == [kind : {"free", "anon", "shadow"}, ref : Nat, shadowed : Obj \cup {NULL},
           page : [Num -> Val \cup {NULL}]]
Objs == [Obj -> ObjRec]

Shadowers(b, o) == {h \in Obj : b[h].shadowed = o}
Pages(b, o)     == {n \in Num : b[o].page[n] # NULL}

Kinds(b) == \A o \in Obj :
  /\ b[o].kind = "anon" => b[o].shadowed = NULL
  /\ b[o].kind = "shadow" => b[o].shadowed \in Obj
  /\ b[o].kind = "free" => b[o] = FreeObj

\* u[o] is the number of areas, and of local variables, that refer to o.
Counts(b, u) == \A o \in Obj :
  b[o].ref = u[o] + Cardinality(Shadowers(b, o)) + Cardinality(Pages(b, o))
Live(b, u) == \A o \in Obj : b[o].kind = "free" <=> (u[o] = 0 /\ Shadowers(b, o) = {})

\* No object is below itself.
Grounded(b) == \A S \in SUBSET Obj : S # {} => \E x \in S : b[x].shadowed \notin S

Objects(b, u) == b \in Objs /\ Kinds(b) /\ Counts(b, u) /\ Live(b, u) /\ Grounded(b)

\* The chain from o down: what is in every set with o and with what its members shadow.
Down(b, S)  == \A x \in S : b[x].shadowed \in S \cup {NULL}
Below(b, o) == {x \in Obj : \A S \in SUBSET Obj : (o \in S /\ Down(b, S)) => x \in S}

-----------------------------------------------------------------------------
(* Chains.                                                                 *)

LEMMA Constants ==
  /\ NULL \notin Obj /\ NULL \notin Val /\ 0 \in Val /\ "freed" \notin Obj /\ NULL # "freed"
  /\ LOW \in Nat /\ HIGH \in Nat /\ 0 < LOW /\ LOW < HIGH
  /\ IsFiniteSet(Obj) /\ IsFiniteSet(Proc)
BY VMAssumption

LEMMA ShadowedType == ASSUME NEW b \in Objs, NEW o \in Obj PROVE b[o].shadowed \in Obj \cup {NULL}
BY DEF Objs, ObjRec

LEMMA BelowSelf == ASSUME NEW b, NEW o \in Obj PROVE o \in Below(b, o)
BY DEF Below

LEMMA BelowDown ==
  ASSUME NEW b \in Objs, NEW o \in Obj, NEW x \in Below(b, o), b[x].shadowed # NULL
  PROVE  b[x].shadowed \in Below(b, o)
<1>1. x \in Obj /\ b[x].shadowed \in Obj
  BY ShadowedType DEF Below
<1>2. ASSUME NEW S \in SUBSET Obj, o \in S, Down(b, S) PROVE b[x].shadowed \in S
  <2>1. x \in S
    BY <1>2 DEF Below
  <2> QED BY <1>2, <2>1 DEF Down
<1> QED BY <1>1, <1>2 DEF Below

LEMMA BelowLeast ==
  ASSUME NEW b, NEW o, NEW S \in SUBSET Obj, o \in S, Down(b, S), NEW x \in Below(b, o)
  PROVE  x \in S
BY DEF Below

LEMMA BelowTrans ==
  ASSUME NEW b \in Objs, NEW o \in Obj, NEW x \in Below(b, o), NEW y \in Below(b, x)
  PROVE  y \in Below(b, o)
<1> DEFINE S == Below(b, o)
<1>1. S \in SUBSET Obj /\ x \in S
  BY DEF Below
<1>2. Down(b, S)
  <2> HIDE DEF S
  <2> SUFFICES ASSUME NEW z \in S, b[z].shadowed # NULL PROVE b[z].shadowed \in S
    BY DEF Down
  <2> QED BY BelowDown DEF S
<1> HIDE DEF S
<1>3. y \in S
  BY <1>1, <1>2, BelowLeast
<1> QED BY <1>3 DEF S

LEMMA BelowStep ==
  ASSUME NEW b \in Objs, NEW o \in Obj, NEW x \in Below(b, o), x # o
  PROVE  b[o].shadowed \in Obj /\ x \in Below(b, b[o].shadowed)
<1> DEFINE low == b[o].shadowed
           S == IF low = NULL THEN {o} ELSE {o} \cup Below(b, low)
<1>1. low \in Obj \cup {NULL}
  BY ShadowedType
<1>2. S \in SUBSET Obj /\ o \in S
  BY DEF Below
<1>3. Down(b, S)
  <2> SUFFICES ASSUME NEW z \in S, b[z].shadowed # NULL PROVE b[z].shadowed \in S
    BY DEF Down
  <2>1. CASE z = o
    BY <1>1, <2>1, BelowSelf
  <2>2. CASE z # o
    <3>1. low \in Obj /\ z \in Below(b, low)
      BY <1>1, <2>2
    <3> QED BY <3>1, BelowDown
  <2> QED BY <2>1, <2>2
<1>4. x \in S
  <2> HIDE DEF S
  <2> QED BY <1>2, <1>3, BelowLeast
<1> QED BY <1>1, <1>4

LEMMA BelowShadowed ==
  ASSUME NEW b \in Objs, NEW o \in Obj, b[o].shadowed \in Obj
  PROVE  b[o].shadowed \in Below(b, o)
BY BelowSelf, BelowDown, Constants

LEMMA NoCycle ==
  ASSUME NEW b \in Objs, Grounded(b), NEW x \in Obj, NEW y \in Obj,
         x \in Below(b, y), y \in Below(b, x)
  PROVE  x = y
<1> SUFFICES ASSUME x # y PROVE FALSE
  OBVIOUS
<1> DEFINE S == {z \in Obj : x \in Below(b, z) /\ y \in Below(b, z)}
<1>1. S \in SUBSET Obj /\ x \in S
  BY BelowSelf
<1>2. ASSUME NEW z \in S PROVE b[z].shadowed \in S
  <2> DEFINE low == b[z].shadowed
  <2>1. low \in Obj
    BY BelowStep
  <2>2. z # x => x \in Below(b, low)
    BY BelowStep
  <2>3. z # y => y \in Below(b, low)
    BY BelowStep
  <2>4. z = x => x \in Below(b, low)
    BY <2>1, <2>3, BelowTrans
  <2>5. z = y => y \in Below(b, low)
    BY <2>1, <2>2, BelowTrans
  <2> QED BY <2>1, <2>2, <2>3, <2>4, <2>5
<1> QED BY <1>1, <1>2 DEF Grounded

\* A walk down the chain that ends at the first object of St.
WalkTo(b, St, f) == f = [x \in Obj |-> IF x \in St THEN x ELSE f[b[x].shadowed]]

LEMMA WalkExists ==
  ASSUME NEW b \in Objs, Grounded(b), NEW St \in SUBSET Obj,
         \A x \in Obj : b[x].shadowed = NULL => x \in St
  PROVE  \E f : WalkTo(b, St, f)
<1> DEFINE First(x, h) == h \in Below(b, x) /\ h \in St /\ \A y \in Below(b, x) : y \in St => y \in Below(b, h)
           Sel(x) == CHOOSE h : First(x, h)
<1>1. ASSUME NEW x \in St PROVE Sel(x) = x
  <2>1. First(x, x)
    BY BelowSelf
  <2>2. ASSUME NEW h, First(x, h) PROVE h = x
    <3>1. h \in Obj /\ h \in Below(b, x) /\ x \in Below(b, h)
      BY <2>2, BelowSelf DEF Below
    <3> QED BY <3>1, NoCycle
  <2> HIDE DEF First
  <2> QED BY <2>1, <2>2
<1>2. ASSUME NEW x \in Obj, x \notin St
      PROVE  Sel(x) = Sel(b[x].shadowed) /\ b[x].shadowed \in Obj
  <2> DEFINE low == b[x].shadowed
  <2>1. low \in Obj /\ low \in Below(b, x)
    BY <1>2, ShadowedType, BelowShadowed
  <2>2. \A y : y \in Below(b, x) /\ y # x => y \in Below(b, low)
    BY BelowStep
  <2>3. \A y : y \in Below(b, low) => y \in Below(b, x)
    BY <2>1, BelowTrans
  <2>4. \A h : First(x, h) <=> First(low, h)
    BY <1>2, <2>2, <2>3
  <2> HIDE DEF First
  <2>5. Sel(x) = Sel(low)
    BY <2>4
  <2> QED BY <2>1, <2>5
<1> HIDE DEF Sel
<1> DEFINE f == [x \in Obj |-> Sel(x)]
<1>3. ASSUME NEW x \in Obj PROVE f[x] = IF x \in St THEN x ELSE f[b[x].shadowed]
  BY <1>1, <1>2
<1>4. f = [x \in Obj |-> IF x \in St THEN x ELSE f[b[x].shadowed]]
  BY <1>3
<1> HIDE DEF f
<1> QED BY <1>4 DEF WalkTo

LEMMA WalkStops ==
  ASSUME NEW b \in Objs, Grounded(b), NEW St \in SUBSET Obj,
         \A x \in Obj : b[x].shadowed = NULL => x \in St,
         NEW f, WalkTo(b, St, f), NEW o \in Obj
  PROVE  f[o] \in Below(b, o) /\ f[o] \in St /\ (o \in St => f[o] = o)
<1>1. \A x \in Obj : f[x] = IF x \in St THEN x ELSE f[b[x].shadowed]
  BY DEF WalkTo
<1> DEFINE T == {x \in Obj : ~(f[x] \in Below(b, x) /\ f[x] \in St)}
<1>2. ASSUME T # {} PROVE FALSE
  <2>1. PICK x \in T : b[x].shadowed \notin T
    BY <1>2 DEF Grounded
  <2>2. x \in Obj /\ x \notin St
    BY <1>1, <2>1, BelowSelf
  <2>3. b[x].shadowed \in Obj
    BY <2>2, ShadowedType
  <2>4. f[x] = f[b[x].shadowed] /\ f[x] \in Below(b, b[x].shadowed) /\ f[x] \in St
    BY <1>1, <2>1, <2>2, <2>3
  <2>5. f[x] \in Below(b, x)
    BY <2>2, <2>3, <2>4, BelowTrans, BelowShadowed
  <2> QED BY <2>1, <2>4, <2>5
<1> QED BY <1>1, <1>2

-----------------------------------------------------------------------------
(* What happens to objects.                                                *)

LEMMA FiniteParts ==
  ASSUME NEW b, NEW o
  PROVE  /\ IsFiniteSet(Shadowers(b, o)) /\ Cardinality(Shadowers(b, o)) \in Nat
         /\ IsFiniteSet(Pages(b, o)) /\ Cardinality(Pages(b, o)) \in Nat
         /\ (Cardinality(Shadowers(b, o)) = 0 <=> Shadowers(b, o) = {})
<1>1. IsFiniteSet(Obj) /\ IsFiniteSet(Num)
  BY Constants, FS_Interval DEF Num
<1>2. Shadowers(b, o) \in SUBSET Obj /\ Pages(b, o) \in SUBSET Num
  BY DEF Shadowers, Pages
<1>3. IsFiniteSet(Shadowers(b, o)) /\ IsFiniteSet(Pages(b, o))
  BY <1>1, <1>2, FS_Subset
<1> QED BY <1>3, FS_CardinalityType, FS_EmptySet

LEMMA NumFinite ==
  ASSUME NEW N \in SUBSET Num
  PROVE  IsFiniteSet(N) /\ Cardinality(N) \in Nat
<1>1. 0 \in Int /\ HIGH - LOW - 1 \in Int
  BY Constants
<1>2. IsFiniteSet(Num)
  BY <1>1, FS_Interval DEF Num
<1> QED BY <1>2, FS_Subset, FS_CardinalityType

LEMMA RefWith ==
  ASSUME NEW r \in ObjRec, NEW k \in Nat, NEW q, q = [r EXCEPT !.ref = k]
  PROVE  q \in ObjRec /\ q.kind = r.kind /\ q.shadowed = r.shadowed /\ q.page = r.page /\ q.ref = k
BY DEF ObjRec

IsWith(q, r, g, k) == q = [r EXCEPT !.page = g, !.ref = k]

LEMMA PageRefWith ==
  ASSUME NEW r \in ObjRec, NEW k \in Nat, NEW g \in [Num -> Val \cup {NULL}],
         NEW q, IsWith(q, r, g, k)
  PROVE  q \in ObjRec /\ q.kind = r.kind /\ q.shadowed = r.shadowed /\ q.page = g /\ q.ref = k
BY DEF ObjRec, IsWith

LEMMA FreeObjType == FreeObj \in ObjRec /\ \A b, o : b[o] = FreeObj => Pages(b, o) = {}
<1>1. FreeObj.page \in [Num -> Val \cup {NULL}] /\ FreeObj.kind = "free" /\ FreeObj.ref = 0
      /\ FreeObj.shadowed = NULL /\ FreeObj = [kind |-> "free", ref |-> 0, shadowed |-> NULL, page |-> FreeObj.page]
  BY DEF FreeObj
<1>2. FreeObj \in ObjRec
  BY <1>1 DEF ObjRec
<1>3. \A n \in Num : FreeObj.page[n] = NULL
  BY DEF FreeObj
<1> QED BY <1>2, <1>3 DEF Pages

\* The chains stay as they are, and the counts of c fit v.
KeepsChains(b, c, v) ==
  /\ \A z \in Obj : c[z].kind = b[z].kind /\ c[z].shadowed = b[z].shadowed
  /\ \A z \in Obj : b[z].kind = "free" => c[z] = b[z] /\ v[z] = 0
  /\ \A z \in Obj : b[z].kind # "free" => (v[z] # 0 \/ Shadowers(b, z) # {})
  /\ \A z \in Obj : c[z].ref = v[z] + Cardinality(Shadowers(b, z)) + Cardinality(Pages(c, z))

LEMMA SameChains ==
  ASSUME NEW b, NEW u, Objects(b, u), NEW c \in Objs, NEW v, KeepsChains(b, c, v)
  PROVE  Objects(c, v)
<1>1. b \in Objs /\ Kinds(b) /\ Live(b, u) /\ Grounded(b)
  BY DEF Objects
<1>2. \A z : Shadowers(c, z) = Shadowers(b, z)
  BY DEF Shadowers, KeepsChains
<1>3. Kinds(c)
  BY <1>1 DEF Kinds, KeepsChains
<1>4. Counts(c, v)
  BY <1>2 DEF Counts, KeepsChains
<1>5. Live(c, v)
  BY <1>1, <1>2 DEF Live, KeepsChains
<1>6. Grounded(c)
  BY <1>1 DEF Grounded, KeepsChains
<1> QED BY <1>3, <1>4, <1>5, <1>6 DEF Objects

\* A free object becomes object o, over l or over nothing.
LEMMA Created ==
  ASSUME NEW b, NEW u \in [Obj -> Nat], Objects(b, u), NEW o \in Obj, b[o].kind = "free",
         NEW c \in Objs, \A z \in Obj : z # o => c[z] = b[z],
         NEW l \in Obj \cup {NULL}, c[o].shadowed = l, c[o].ref = 1, Pages(c, o) = {},
         c[o].kind = (IF l = NULL THEN "anon" ELSE "shadow"),
         NEW v \in [Obj -> Nat], v[o] = 1, l # NULL => u[l] > 0 /\ v[l] = u[l] - 1,
         \A z \in Obj : z # o /\ z # l => v[z] = u[z]
  PROVE  Objects(c, v)
<1>1. b \in Objs /\ Kinds(b) /\ Counts(b, u) /\ Live(b, u) /\ Grounded(b)
  BY DEF Objects
<1>2. u[o] = 0 /\ Shadowers(b, o) = {} /\ b[o].shadowed = NULL /\ l # o
  BY <1>1, Constants DEF Live, Kinds, FreeObj
<1>3. /\ \A z \in Obj : z # l => Shadowers(c, z) = Shadowers(b, z)
      /\ l # NULL => Shadowers(c, l) = Shadowers(b, l) \cup {o} /\ o \notin Shadowers(b, l)
  <2>1. \A h \in Obj : h # o => c[h].shadowed = b[h].shadowed
    OBVIOUS
  <2> QED BY <1>2, <2>1, Constants DEF Shadowers
<1>4. Kinds(c)
  BY <1>1, Constants DEF Kinds
<1>5. Counts(c, v)
  <2> SUFFICES ASSUME NEW z \in Obj
               PROVE  c[z].ref = v[z] + Cardinality(Shadowers(c, z)) + Cardinality(Pages(c, z))
    BY DEF Counts
  <2>1. CASE z = o
    <3>1. Shadowers(c, z) = {} /\ Pages(c, z) = {}
      BY <1>2, <1>3, <2>1
    <3>2. Cardinality(Shadowers(c, z)) = 0 /\ Cardinality(Pages(c, z)) = 0
      BY <3>1, FS_EmptySet
    <3> QED BY <2>1, <3>2
  <2>2. CASE z # o /\ z # l
    <3>1. c[z].ref = u[z] + Cardinality(Shadowers(b, z)) + Cardinality(Pages(b, z))
      BY <1>1, <2>2 DEF Counts
    <3>2. Pages(c, z) = Pages(b, z)
      BY <2>2 DEF Pages
    <3> QED BY <1>3, <2>2, <3>1, <3>2
  <2>3. CASE z = l
    <3>1. c[z].ref = u[z] + Cardinality(Shadowers(b, z)) + Cardinality(Pages(b, z))
      BY <1>1, <1>2, <2>3 DEF Counts
    <3>2. Pages(c, z) = Pages(b, z)
      BY <1>2, <2>3 DEF Pages
    <3>3. Cardinality(Shadowers(c, z)) = Cardinality(Shadowers(b, z)) + 1
      BY <1>3, <2>3, FS_AddElement, FiniteParts, Constants
    <3> QED BY <2>3, <3>1, <3>2, <3>3, Constants, FiniteParts
  <2> QED BY <2>1, <2>2, <2>3
<1>6. Live(c, v)
  <2> SUFFICES ASSUME NEW z \in Obj
               PROVE  c[z].kind = "free" <=> (v[z] = 0 /\ Shadowers(c, z) = {})
    BY DEF Live
  <2>1. CASE z = o
    BY <2>1
  <2>2. CASE z # o /\ z # l
    BY <1>1, <1>3, <2>2 DEF Live
  <2>3. CASE z = l
    <3>1. b[z].kind # "free" /\ c[z] = b[z]
      BY <1>1, <1>2, <2>3, Constants DEF Live
    <3> QED BY <1>3, <2>3, <3>1, Constants
  <2> QED BY <2>1, <2>2, <2>3
<1>7. Grounded(c)
  <2> SUFFICES ASSUME NEW S \in SUBSET Obj, S # {} PROVE \E x \in S : c[x].shadowed \notin S
    BY DEF Grounded
  <2> DEFINE T == S \ {o}
  <2>1. CASE T = {}
    BY <1>2, <2>1
  <2>2. CASE T # {}
    <3>1. PICK x \in T : b[x].shadowed \notin T
      BY <1>1, <2>2 DEF Grounded
    <3>2. c[x].shadowed = b[x].shadowed /\ b[x].shadowed # o
      BY <1>2, <3>1 DEF Shadowers
    <3> QED BY <3>1, <3>2
  <2> QED BY <2>1, <2>2
<1> QED BY <1>4, <1>5, <1>6, <1>7 DEF Objects

\* The last user of o goes, and o with it; there is a new reference to what it shadows.
LEMMA LastUserGone ==
  ASSUME NEW b, NEW u \in [Obj -> Nat], Objects(b, u), NEW o \in Obj, u[o] > 0,
         b[o].ref - 1 = Cardinality(Pages(b, o)),
         NEW c \in Objs, c[o] = FreeObj, \A z \in Obj : z # o => c[z] = b[z],
         NEW v, v = [z \in Obj |-> IF z = o THEN 0 ELSE IF z = b[o].shadowed THEN u[z] + 1 ELSE u[z]]
  PROVE  Objects(c, v) /\ Shadowers(b, o) = {} /\ u[o] = 1
<1> DEFINE l == b[o].shadowed
<1>1. b \in Objs /\ Kinds(b) /\ Counts(b, u) /\ Live(b, u) /\ Grounded(b)
  BY DEF Objects
<1>2. u[o] = 1 /\ Cardinality(Shadowers(b, o)) = 0 /\ Shadowers(b, o) = {}
  BY <1>1, FiniteParts DEF Counts
<1>3. l \in Obj \cup {NULL} /\ l # o
  BY <1>1, <1>2, ShadowedType, Constants DEF Shadowers
<1>4. /\ \A z \in Obj : z # l => Shadowers(c, z) = Shadowers(b, z)
      /\ l # NULL => Shadowers(c, l) = Shadowers(b, l) \ {o} /\ o \in Shadowers(b, l)
  <2>1. \A h \in Obj : h # o => c[h].shadowed = b[h].shadowed
    OBVIOUS
  <2> QED BY <1>2, <1>3, <2>1, Constants DEF Shadowers, FreeObj
<1>5. Kinds(c)
  BY <1>1, Constants DEF Kinds, FreeObj
<1>6. Counts(c, v)
  <2> SUFFICES ASSUME NEW z \in Obj
               PROVE  c[z].ref = v[z] + Cardinality(Shadowers(c, z)) + Cardinality(Pages(c, z))
    BY DEF Counts
  <2>1. CASE z = o
    <3>1. Shadowers(c, z) = {} /\ Pages(c, z) = {}
      BY <1>2, <1>3, <1>4, <2>1, FreeObjType
    <3> QED BY <2>1, <3>1, FS_EmptySet DEF FreeObj
  <2>2. CASE z # o /\ z # l
    <3>1. c[z].ref = u[z] + Cardinality(Shadowers(b, z)) + Cardinality(Pages(b, z))
      BY <1>1, <2>2 DEF Counts
    <3>2. Pages(c, z) = Pages(b, z)
      BY <2>2 DEF Pages
    <3> QED BY <1>4, <2>2, <3>1, <3>2
  <2>3. CASE z = l
    <3>1. c[z].ref = u[z] + Cardinality(Shadowers(b, z)) + Cardinality(Pages(b, z))
      BY <1>1, <1>3, <2>3 DEF Counts
    <3>2. Pages(c, z) = Pages(b, z)
      BY <1>3, <2>3 DEF Pages
    <3>3. Cardinality(Shadowers(c, z)) = Cardinality(Shadowers(b, z)) - 1
      BY <1>4, <2>3, FS_RemoveElement, FiniteParts, Constants
    <3> QED BY <1>3, <2>3, <3>1, <3>2, <3>3, FiniteParts
  <2> QED BY <2>1, <2>2, <2>3
<1>7. Live(c, v)
  <2> SUFFICES ASSUME NEW z \in Obj
               PROVE  c[z].kind = "free" <=> (v[z] = 0 /\ Shadowers(c, z) = {})
    BY DEF Live
  <2>1. CASE z = o
    BY <1>2, <1>3, <1>4, <2>1 DEF FreeObj
  <2>2. CASE z # o /\ z # l
    BY <1>1, <1>4, <2>2 DEF Live
  <2>3. CASE z = l
    <3>1. b[z].kind # "free" /\ c[z] = b[z] /\ v[z] = u[z] + 1
      BY <1>1, <1>3, <1>4, <2>3, Constants DEF Live
    <3> QED BY <3>1
  <2> QED BY <2>1, <2>2, <2>3
<1>8. Grounded(c)
  <2> SUFFICES ASSUME NEW S \in SUBSET Obj, S # {} PROVE \E x \in S : c[x].shadowed \notin S
    BY DEF Grounded
  <2>1. PICK x \in S : b[x].shadowed \notin S
    BY <1>1 DEF Grounded
  <2> QED BY <2>1, Constants DEF FreeObj
<1> QED BY <1>2, <1>5, <1>6, <1>7, <1>8 DEF Objects

\* Object t, over o, is put over what o shadows.
LEMMA Relinked ==
  ASSUME NEW b, NEW u \in [Obj -> Nat], Objects(b, u), NEW t \in Obj, NEW o \in Obj, NEW w \in Obj,
         b[t].shadowed = o, b[o].shadowed = w, NEW c \in Objs, c[t].shadowed = w,
         c[w].ref = b[w].ref + 1, \A z \in Obj : c[z].kind = b[z].kind /\ c[z].page = b[z].page,
         \A z \in Obj : z # t => c[z].shadowed = b[z].shadowed,
         \A z \in Obj : z # w => c[z].ref = b[z].ref,
         NEW v, v = [z \in Obj |-> IF z = o THEN u[z] + 1 ELSE u[z]]
  PROVE  Objects(c, v) /\ w # o /\ w # t /\ t # o
<1>1. b \in Objs /\ Kinds(b) /\ Counts(b, u) /\ Live(b, u) /\ Grounded(b)
  BY DEF Objects
<1>2. w # o /\ t # o
  <2>1. \A x \in Obj : b[x].shadowed # x
    <3> SUFFICES ASSUME NEW x \in Obj, b[x].shadowed = x PROVE FALSE
      OBVIOUS
    <3>1. {x} \in SUBSET Obj /\ {x} # {}
      OBVIOUS
    <3> QED BY <1>1, <3>1 DEF Grounded
  <2> QED BY <2>1
<1>3. w # t
  <2> SUFFICES ASSUME w = t PROVE FALSE
    OBVIOUS
  <2>1. {t, o} \in SUBSET Obj /\ {t, o} # {}
    OBVIOUS
  <2> QED BY <1>1, <2>1 DEF Grounded
<1>4. /\ \A z \in Obj : z # o /\ z # w => Shadowers(c, z) = Shadowers(b, z)
      /\ Shadowers(c, o) = Shadowers(b, o) \ {t} /\ t \in Shadowers(b, o)
      /\ Shadowers(c, w) = Shadowers(b, w) \cup {t} /\ t \notin Shadowers(b, w)
  BY <1>2 DEF Shadowers
<1>5. \A z \in Obj : Pages(c, z) = Pages(b, z)
  BY DEF Pages
<1>6. \A z \in Obj : b[z].ref = u[z] + Cardinality(Shadowers(b, z)) + Cardinality(Pages(b, z))
  BY <1>1 DEF Counts
<1>7. b[t].kind = "shadow" /\ b[o].kind = "shadow"
  <2>1. \A x \in Obj : b[x].kind \in {"free", "anon", "shadow"}
    BY <1>1 DEF Objs, ObjRec
  <2>2. ASSUME NEW x \in Obj, b[x].shadowed \in Obj PROVE b[x].kind = "shadow"
    <3>1. b[x].shadowed # NULL
      BY <2>2, Constants
    <3>2. b[x].kind # "anon"
      BY <1>1, <3>1 DEF Kinds
    <3>3. b[x].kind # "free"
      BY <1>1, <3>1 DEF Kinds, FreeObj
    <3> QED BY <2>1, <3>2, <3>3
  <2> QED BY <2>2
<1>8. Kinds(c)
  <2> SUFFICES ASSUME NEW z \in Obj
               PROVE  /\ c[z].kind = "anon" => c[z].shadowed = NULL
                      /\ c[z].kind = "shadow" => c[z].shadowed \in Obj
                      /\ c[z].kind = "free" => c[z] = FreeObj
    BY DEF Kinds
  <2>1. c[z].kind = "free" => c[z] = FreeObj
    <3> SUFFICES ASSUME b[z].kind = "free" PROVE c[z] = FreeObj
      OBVIOUS
    <3>1. z # t /\ z # w
      <4>1. b[w].kind # "free"
        BY <1>1, <1>4 DEF Live, Shadowers
      <4> QED BY <1>7, <4>1
    <3>2. b[z] = FreeObj
      BY <1>1 DEF Kinds
    <3>3. c[z] \in ObjRec /\ b[z] \in ObjRec
      BY <1>1 DEF Objs
    <3>4. c[z].kind = b[z].kind /\ c[z].ref = b[z].ref /\ c[z].shadowed = b[z].shadowed /\ c[z].page = b[z].page
      BY <3>1
    <3> QED BY <3>2, <3>3, <3>4 DEF ObjRec
  <2> QED BY <1>1, <1>7, <2>1 DEF Kinds
<1>9. Counts(c, v)
  <2> SUFFICES ASSUME NEW z \in Obj
               PROVE  c[z].ref = v[z] + Cardinality(Shadowers(c, z)) + Cardinality(Pages(c, z))
    BY DEF Counts
  <2>1. CASE z = o
    <3>1. Cardinality(Shadowers(c, z)) = Cardinality(Shadowers(b, z)) - 1
      BY <1>4, <2>1, FS_RemoveElement, FiniteParts
    <3> QED BY <1>2, <1>5, <1>6, <2>1, <3>1, FiniteParts
  <2>2. CASE z # o /\ z # w
    BY <1>4, <1>5, <1>6, <2>2
  <2>3. CASE z = w
    <3>1. Cardinality(Shadowers(c, z)) = Cardinality(Shadowers(b, z)) + 1
      BY <1>4, <2>3, FS_AddElement, FiniteParts
    <3> QED BY <1>2, <1>5, <1>6, <2>3, <3>1, FiniteParts
  <2> QED BY <2>1, <2>2, <2>3
<1>10. Live(c, v)
  <2> SUFFICES ASSUME NEW z \in Obj
               PROVE  c[z].kind = "free" <=> (v[z] = 0 /\ Shadowers(c, z) = {})
    BY DEF Live
  <2>1. CASE z = o
    BY <1>7, <2>1
  <2>2. CASE z # o /\ z # w
    BY <1>1, <1>4, <2>2 DEF Live
  <2>3. CASE z = w
    <3>1. b[z].kind # "free"
      BY <1>1, <1>4, <2>3 DEF Live, Shadowers
    <3> QED BY <1>4, <2>3, <3>1
  <2> QED BY <2>1, <2>2, <2>3
<1>11. Grounded(c)
  <2> SUFFICES ASSUME NEW S \in SUBSET Obj, S # {}, \A x \in S : c[x].shadowed \in S PROVE FALSE
    BY DEF Grounded
  <2>1. CASE t \notin S
    BY <1>1, <2>1 DEF Grounded
  <2>2. CASE t \in S
    <3> DEFINE T == S \cup {o}
    <3>1. T \in SUBSET Obj /\ T # {}
      OBVIOUS
    <3>2. \A x \in T : b[x].shadowed \in T
      BY <2>2
    <3> QED BY <1>1, <3>1, <3>2 DEF Grounded
  <2> QED BY <2>1, <2>2
<1> QED BY <1>2, <1>3, <1>8, <1>9, <1>10, <1>11 DEF Objects

-----------------------------------------------------------------------------
(* Loops.  One round of each, from x in round k; c holds what it works on. *)

Turn(loop, c, x, k) ==
  IF loop = "put" THEN IF x.o = NULL THEN x ELSE PutOne(x.m, x.o)
  ELSE IF loop = "pieces" THEN x \o Pieces(c.areas[k], c.lo, c.hi)
  ELSE IF loop = "walk" THEN CASE c.left[k] = 0 -> put(x, c.areas[k].obj)
                               [] c.left[k] = 1 -> x
                               [] c.left[k] = 2 -> ref(x, c.areas[k].obj)
  ELSE IF loop = "clone" THEN Cloned(x, c.p, c.q, k)
  ELSE IF loop = "segments"
       THEN vmmap_map(x, c.p, Image[k].start, Image[k].end, FALSE, Image[k].prot)
  ELSE IF loop = "collapse"
       THEN IF x.o = NULL THEN x ELSE IF x.m.obj[x.o].shadowed = NULL THEN x ELSE CollapseOne(x)
  ELSE IF x.crash = NoCrash THEN Collapse(x, c.tops[k]) ELSE x

Rounds(loop, c, x, f, n) == [k \in 0 .. n |-> IF k = 0 THEN x ELSE Turn(loop, c, f[k - 1], k)]
HasRounds(loop, c, x, n) == \E f : f = Rounds(loop, c, x, f, n)

\* What a loop reaches, one round after the other.
Closed(S, N) == 0 \in S /\ \A k \in 0 .. N - 1 : k \in S => k + 1 \in S

LEMMA Least ==
  ASSUME NEW T \in SUBSET Nat, T # {}
  PROVE  \E n \in T : \A k \in T : n <= k
<1> DEFINE R == {ss \in Nat \X Nat : ss[1] < ss[2]}
<1>1. IsWellFoundedOn(R, Nat)
  BY NatLessThanWellFounded DEF OpToRel
<1>2. \A x, y \in Nat : x < y => <<x, y>> \in R
  OBVIOUS
<1> HIDE DEF R
<1>3. PICK x \in T : \A y \in T : ~(<<y, x>> \in R)
  BY <1>1, WFMin
<1>4. ASSUME NEW y \in T PROVE x <= y
  <2>1. x \in Nat /\ y \in Nat /\ ~(y < x)
    BY <1>2, <1>3
  <2> QED BY <2>1
<1> QED BY <1>4

LEMMA Reached ==
  ASSUME NEW N \in Nat, NEW S, Closed(S, N)
  PROVE  \A k \in 0 .. N : k \in S
<1> DEFINE T == (0 .. N) \ S
<1> SUFFICES ASSUME T # {} PROVE FALSE
  OBVIOUS
<1>1. T \in SUBSET Nat
  OBVIOUS
<1>2. PICK n \in T : \A k \in T : n <= k
  <2> HIDE DEF T
  <2> QED BY <1>1, Least
<1>3. n # 0
  BY <1>2 DEF Closed
<1>4. n - 1 \in 0 .. N - 1 /\ n - 1 \notin T /\ (n - 1) + 1 = n
  BY <1>2, <1>3
<1>5. n - 1 \in S
  BY <1>4
<1>6. (n - 1) + 1 \in S
  BY <1>4, <1>5 DEF Closed
<1> QED BY <1>2, <1>4, <1>6

LEMMA RoundsExist ==
  ASSUME NEW loop, NEW c, NEW x, NEW N \in Nat
  PROVE  HasRounds(loop, c, x, N)
<1> DEFINE S == {n \in 0 .. N : HasRounds(loop, c, x, n)}
<1>1. 0 \in S
  <2> DEFINE f == [k \in 0 .. 0 |-> x]
  <2>1. f = Rounds(loop, c, x, f, 0)
    BY DEF Rounds
  <2> QED BY <2>1 DEF HasRounds
<1>2. ASSUME NEW j \in 0 .. N - 1, j \in S PROVE j + 1 \in S
  <2> DEFINE n == j + 1
  <2>1. PICK g : g = Rounds(loop, c, x, g, j)
    BY <1>2 DEF HasRounds
  <2> DEFINE l == [k \in 0 .. n |-> IF k = n THEN Turn(loop, c, g[j], n) ELSE g[k]]
  <2>2. \A k \in 0 .. j : g[k] = IF k = 0 THEN x ELSE Turn(loop, c, g[k - 1], k)
    BY ONLY <2>1 DEF Rounds
  <2>3. ASSUME NEW k \in 0 .. n
        PROVE  l[k] = IF k = 0 THEN x ELSE Turn(loop, c, l[k - 1], k)
    <3>1. CASE k = n
      BY <3>1
    <3>2. CASE k # n /\ k # 0
      <4>1. k \in 0 .. j /\ k - 1 \in 0 .. j /\ k - 1 # n /\ k - 1 \in 0 .. n
        BY <3>2
      <4> QED BY <2>2, <3>2, <4>1
    <3>3. CASE k = 0
      <4>1. 0 \in 0 .. j /\ 0 # n
        OBVIOUS
      <4> QED BY <2>2, <3>3, <4>1
    <3> QED BY <3>1, <3>2, <3>3
  <2>4. l = Rounds(loop, c, x, l, n)
    BY <2>3 DEF Rounds
  <2>5. HasRounds(loop, c, x, n)
    BY <2>4 DEF HasRounds
  <2> QED BY <2>5
<1>3. Closed(S, N)
  <2> HIDE DEF S
  <2> QED BY <1>1, <1>2 DEF Closed
<1>4. N \in S
  <2> HIDE DEF S
  <2> QED BY <1>3, Reached
<1> QED BY <1>4

\* The rounds of a loop, and that it has them.
Ran(loop, c, x, a, n) == a[0] = x /\ \A k \in 1 .. n : a[k] = Turn(loop, c, a[k - 1], k)

LEMMA RoundsRan ==
  ASSUME NEW loop, NEW c, NEW x, NEW n \in Nat, NEW a, a = Rounds(loop, c, x, a, n)
  PROVE  Ran(loop, c, x, a, n)
BY DEF Rounds, Ran

LEMMA PutRan ==
  ASSUME NEW m, NEW o
  PROVE  \E a : Ran("put", <<>>, [m |-> m, o |-> o], a, Cardinality(Obj)) /\ put(m, o) = a[Cardinality(Obj)].m
<1> DEFINE Loop(f) == [k \in 0 .. Cardinality(Obj) |->
             IF k = 0 THEN [m |-> m, o |-> o]
             ELSE IF f[k - 1].o = NULL THEN f[k - 1]
             ELSE PutOne(f[k - 1].m, f[k - 1].o)]
           a == CHOOSE f : f = Loop(f)
           x == [m |-> m, o |-> o]
<1>1. \A f : Loop(f) = Rounds("put", <<>>, x, f, Cardinality(Obj))
  BY DEF Rounds, Turn
<1>2. put(m, o) = a[Cardinality(Obj)].m
  BY DEF put
<1>3. Cardinality(Obj) \in Nat
  BY Constants, FS_CardinalityType
<1> HIDE DEF Loop, x
<1>4. HasRounds("put", <<>>, x, Cardinality(Obj))
  BY <1>3, RoundsExist
<1>5. \E f : f = Loop(f)
  BY <1>1, <1>4 DEF HasRounds
<1>6. a = Loop(a)
  BY <1>5
<1>7. Ran("put", <<>>, x, a, Cardinality(Obj))
  BY <1>1, <1>3, <1>6, RoundsRan
<1> QED BY <1>2, <1>7 DEF x

LEMMA RemainingRan ==
  ASSUME NEW areas, Len(areas) \in Nat, NEW lo, NEW hi
  PROVE  \E a : /\ Ran("pieces", [areas |-> areas, lo |-> lo, hi |-> hi], <<>>, a, Len(areas))
                /\ Remaining(areas, lo, hi) = a[Len(areas)]
<1> DEFINE Loop(f) == [k \in 0 .. Len(areas) |-> IF k = 0 THEN <<>> ELSE f[k - 1] \o Pieces(areas[k], lo, hi)]
           a == CHOOSE f : f = Loop(f)
           c == [areas |-> areas, lo |-> lo, hi |-> hi]
<1>1. \A f : Loop(f) = Rounds("pieces", c, <<>>, f, Len(areas))
  BY DEF Rounds, Turn
<1>2. Remaining(areas, lo, hi) = a[Len(areas)]
  BY DEF Remaining
<1> HIDE DEF Loop, c
<1>4. HasRounds("pieces", c, <<>>, Len(areas))
  BY RoundsExist
<1>5. \E f : f = Loop(f)
  BY <1>1, <1>4 DEF HasRounds
<1>6. a = Loop(a)
  BY <1>5
<1>7. Ran("pieces", c, <<>>, a, Len(areas))
  BY <1>1, <1>6, RoundsRan
<1> QED BY <1>2, <1>7 DEF c

LEMMA WalkedRan ==
  ASSUME NEW m, NEW areas, Len(areas) \in Nat, NEW left
  PROVE  \E a : /\ Ran("walk", [areas |-> areas, left |-> left], m, a, Len(areas))
                /\ Walked(m, areas, left) = a[Len(areas)]
<1> DEFINE Loop(f) == [k \in 0 .. Len(areas) |->
             IF k = 0 THEN m
             ELSE CASE left[k] = 0 -> put(f[k - 1], areas[k].obj)
                    [] left[k] = 1 -> f[k - 1]
                    [] left[k] = 2 -> ref(f[k - 1], areas[k].obj)]
           a == CHOOSE f : f = Loop(f)
           c == [areas |-> areas, left |-> left]
<1>1. \A f : Loop(f) = Rounds("walk", c, m, f, Len(areas))
  <2>1. \A y, k : Turn("walk", c, y, k) = CASE left[k] = 0 -> put(y, areas[k].obj)
                                          [] left[k] = 1 -> y
                                          [] left[k] = 2 -> ref(y, areas[k].obj)
    BY DEF Turn
  <2> QED BY <2>1 DEF Rounds
<1>2. Walked(m, areas, left) = a[Len(areas)]
  BY DEF Walked
<1> HIDE DEF Loop, c
<1>4. HasRounds("walk", c, m, Len(areas))
  BY RoundsExist
<1>5. \E f : f = Loop(f)
  BY <1>1, <1>4 DEF HasRounds
<1>6. a = Loop(a)
  BY <1>5
<1>7. Ran("walk", c, m, a, Len(areas))
  BY <1>1, <1>6, RoundsRan
<1> QED BY <1>2, <1>7 DEF c

LEMMA CloneRan ==
  ASSUME NEW m, NEW p, NEW q, Len(m.areas[p]) \in Nat
  PROVE  \E a : /\ Ran("clone", [p |-> p, q |-> q], [m EXCEPT !.areas[q] = m.areas[p]], a, Len(m.areas[p]))
                /\ vmmap_clone(m, p, q) = a[Len(m.areas[p])]
<1> DEFINE n == Len(m.areas[p])
           x == [m EXCEPT !.areas[q] = m.areas[p]]
           Loop(f) == [k \in 0 .. n |-> IF k = 0 THEN x ELSE Cloned(f[k - 1], p, q, k)]
           a == CHOOSE f : f = Loop(f)
           c == [p |-> p, q |-> q]
<1>1. \A f : Loop(f) = Rounds("clone", c, x, f, n)
  <2>1. \A y, k : Turn("clone", c, y, k) = Cloned(y, p, q, k)
    BY DEF Turn
  <2> QED BY <2>1 DEF Rounds
<1>2. vmmap_clone(m, p, q) = a[n]
  BY DEF vmmap_clone
<1> HIDE DEF Loop, c, x
<1>4. HasRounds("clone", c, x, n)
  BY RoundsExist
<1>5. \E f : f = Loop(f)
  BY <1>1, <1>4 DEF HasRounds
<1>6. a = Loop(a)
  BY <1>5
<1>7. Ran("clone", c, x, a, n)
  BY <1>1, <1>6, RoundsRan
<1> QED BY <1>2, <1>7 DEF c, x

LEMMA SegmentsRan ==
  ASSUME NEW m, NEW p
  PROVE  \E a : /\ Ran("segments", [p |-> p], [m EXCEPT !.areas[p] = <<>>], a, Len(Image))
                /\ _elf32_map_progsegs(m, p) = a[Len(Image)]
<1> DEFINE x == [m EXCEPT !.areas[p] = <<>>]
           Loop(f) == [k \in 0 .. Len(Image) |-> IF k = 0 THEN x
             ELSE vmmap_map(f[k - 1], p, Image[k].start, Image[k].end, FALSE, Image[k].prot)]
           a == CHOOSE f : f = Loop(f)
           c == [p |-> p]
<1>1. \A f : Loop(f) = Rounds("segments", c, x, f, Len(Image))
  <2>1. \A y, k : Turn("segments", c, y, k) = vmmap_map(y, p, Image[k].start, Image[k].end, FALSE, Image[k].prot)
    BY DEF Turn
  <2> QED BY <2>1 DEF Rounds
<1>2. _elf32_map_progsegs(m, p) = a[Len(Image)]
  BY DEF _elf32_map_progsegs
<1>3. Len(Image) \in Nat
  BY VMAssumption, LenProperties
<1> HIDE DEF Loop, c, x
<1>4. HasRounds("segments", c, x, Len(Image))
  BY <1>3, RoundsExist
<1>5. \E f : f = Loop(f)
  BY <1>1, <1>4 DEF HasRounds
<1>6. a = Loop(a)
  BY <1>5
<1>7. Ran("segments", c, x, a, Len(Image))
  BY <1>1, <1>3, <1>6, RoundsRan
<1> QED BY <1>2, <1>7 DEF c, x

LEMMA CollapseRan ==
  ASSUME NEW m, NEW top
  PROVE  \E a : /\ Ran("collapse", <<>>, [m |-> m, last |-> top, o |-> m.obj[top].shadowed], a, Cardinality(Obj))
                /\ Collapse(m, top) = a[Cardinality(Obj)].m
<1> DEFINE x == [m |-> m, last |-> top, o |-> m.obj[top].shadowed]
           Loop(f) == [k \in 0 .. Cardinality(Obj) |->
             IF k = 0 THEN x
             ELSE LET y == f[k - 1] IN
                  IF y.o = NULL THEN y ELSE IF y.m.obj[y.o].shadowed = NULL THEN y ELSE CollapseOne(y)]
           a == CHOOSE f : f = Loop(f)
<1>1. \A f : Loop(f) = Rounds("collapse", <<>>, x, f, Cardinality(Obj))
  <2>1. \A y, k : Turn("collapse", <<>>, y, k) =
          IF y.o = NULL THEN y ELSE IF y.m.obj[y.o].shadowed = NULL THEN y ELSE CollapseOne(y)
    BY DEF Turn
  <2> QED BY <2>1 DEF Rounds
<1>2. Collapse(m, top) = a[Cardinality(Obj)].m
  BY DEF Collapse
<1>3. Cardinality(Obj) \in Nat
  BY Constants, FS_CardinalityType
<1> HIDE DEF Loop, x
<1>4. HasRounds("collapse", <<>>, x, Cardinality(Obj))
  BY <1>3, RoundsExist
<1>5. \E f : f = Loop(f)
  BY <1>1, <1>4 DEF HasRounds
<1>6. a = Loop(a)
  BY <1>5
<1>7. Ran("collapse", <<>>, x, a, Cardinality(Obj))
  BY <1>1, <1>3, <1>6, RoundsRan
<1> QED BY <1>2, <1>7 DEF x

-----------------------------------------------------------------------------
(* The state while a call is under way, and what put does to it.           *)

AreaRec == [start : LOW .. HIGH, end : LOW .. HIGH, off : Nat, shared : BOOLEAN, prot : Prots, obj : Obj]
Pte     == [o : Obj \cup {NULL, "freed"}, n : Num, w : BOOLEAN]
Crashes == {NoCrash, "do_mmap", "vmmap_map", "vmmap_is_range_empty", "do_brk", "vmmap_insert",
            "copy beyond the frame", "store to freed memory", "shadowd"}
State   == [areas : [Proc -> Seq(AreaRec)], obj : Objs, pte : [Proc -> [Page -> Pte]],
            heap : [Proc -> Brks \cup {NULL}], crash : Crashes]

\* Every translation leads to a resident page, or is marked as one to freed memory.
Leads(b, t) == t.o \in Obj /\ b[t.o].page[t.n] # NULL
Ptes(m) == \A p \in Proc, i \in Page :
  m.pte[p][i] = NoPte \/ m.pte[p][i] = Dangling \/ Leads(m.obj, m.pte[p][i])

\* From m to x objects were freed, translations were lost, and reference counts changed.
Frees(m, x) ==
  /\ x.areas = m.areas /\ x.heap = m.heap /\ x.crash = m.crash
  /\ \A o \in Obj : x.obj[o].kind = "free" \/
       (x.obj[o].kind = m.obj[o].kind /\ x.obj[o].shadowed = m.obj[o].shadowed
        /\ x.obj[o].page = m.obj[o].page)
  /\ \A o \in Obj : m.obj[o].kind = "free" => x.obj[o].kind = "free"
  /\ \A p \in Proc, i \in Page : \/ x.pte[p][i] = m.pte[p][i]
                                 \/ x.pte[p][i] = NoPte
                                 \/ /\ x.pte[p][i] = Dangling /\ m.pte[p][i].o \in Obj
                                    /\ x.obj[m.pte[p][i].o].kind = "free"

LEMMA StateParts ==
  ASSUME NEW m \in State
  PROVE  /\ m.areas \in [Proc -> Seq(AreaRec)] /\ m.obj \in Objs
         /\ m.pte \in [Proc -> [Page -> Pte]] /\ m.heap \in [Proc -> Brks \cup {NULL}]
         /\ m.crash \in Crashes
         /\ \A o \in Obj : /\ m.obj[o] \in ObjRec /\ m.obj[o].ref \in Nat
                           /\ m.obj[o].shadowed \in Obj \cup {NULL}
                           /\ m.obj[o].page \in [Num -> Val \cup {NULL}]
BY DEF State, Objs, ObjRec

LEMMA WithObj ==
  ASSUME NEW m \in State, NEW c \in Objs, NEW x, x = [m EXCEPT !.obj = c]
  PROVE  /\ x \in State /\ x.obj = c /\ x.areas = m.areas /\ x.pte = m.pte
         /\ x.heap = m.heap /\ x.crash = m.crash
BY DEF State

IsNow(x, m, c, t) == x = [m EXCEPT !.obj = c, !.pte = t]

LEMMA WithObjPte ==
  ASSUME NEW m \in State, NEW c \in Objs, NEW t \in [Proc -> [Page -> Pte]],
         NEW x, IsNow(x, m, c, t)
  PROVE  /\ x \in State /\ x.obj = c /\ x.areas = m.areas /\ x.pte = t
         /\ x.heap = m.heap /\ x.crash = m.crash
BY DEF State, IsNow

LEMMA PteTypes == NoPte \in Pte /\ Dangling \in Pte /\ NoPte # Dangling
  /\ NoPte.o \notin Obj /\ Dangling.o \notin Obj /\ ~NoPte.w
<1>1. 0 \in Num
  BY Constants DEF Num
<1> QED BY <1>1, Constants DEF NoPte, Dangling, Pte

LEMMA FreesRefl == ASSUME NEW m PROVE Frees(m, m)
BY DEF Frees

LEMMA FreesTrans ==
  ASSUME NEW m \in State, NEW x \in State, NEW y \in State, Frees(m, x), Frees(x, y)
  PROVE  Frees(m, y)
<1>1. y.areas = m.areas /\ y.heap = m.heap /\ y.crash = m.crash
  BY DEF Frees
<1>2. \A o \in Obj : y.obj[o].kind = "free" \/
       (y.obj[o].kind = m.obj[o].kind /\ y.obj[o].shadowed = m.obj[o].shadowed
        /\ y.obj[o].page = m.obj[o].page)
  BY DEF Frees
<1>3. \A o \in Obj : m.obj[o].kind = "free" => y.obj[o].kind = "free"
  BY DEF Frees
<1>4. ASSUME NEW p \in Proc, NEW i \in Page
      PROVE  \/ y.pte[p][i] = m.pte[p][i]
             \/ y.pte[p][i] = NoPte
             \/ /\ y.pte[p][i] = Dangling /\ m.pte[p][i].o \in Obj
                /\ y.obj[m.pte[p][i].o].kind = "free"
  <2>1. \/ y.pte[p][i] = x.pte[p][i]
        \/ y.pte[p][i] = NoPte
        \/ /\ y.pte[p][i] = Dangling /\ x.pte[p][i].o \in Obj
           /\ y.obj[x.pte[p][i].o].kind = "free"
    BY DEF Frees
  <2>2. \/ x.pte[p][i] = m.pte[p][i]
        \/ x.pte[p][i] = NoPte
        \/ /\ x.pte[p][i] = Dangling /\ m.pte[p][i].o \in Obj
           /\ y.obj[m.pte[p][i].o].kind = "free"
    BY DEF Frees
  <2>3. NoPte.o \notin Obj /\ Dangling.o \notin Obj
    BY PteTypes
  <2> QED BY <2>1, <2>2, <2>3
<1> QED BY <1>1, <1>2, <1>3, <1>4 DEF Frees

\* pframe_free: what becomes of a translation.
Unmaps(m, x, o, N) ==
  \A p \in Proc, i \in Page :
    \/ x.pte[p][i] = m.pte[p][i] /\ (m.pte[p][i] = NoPte \/ ~(m.pte[p][i].o = o /\ m.pte[p][i].n \in N))
    \/ x.pte[p][i] = NoPte
    \/ /\ x.pte[p][i] = Dangling /\ m.pte[p][i].o = o /\ m.pte[p][i].n \in N
       /\ ~pframe_remove_from_pts(m, o, N, p, i)

PagesFreed(m, x, o, N) ==
  /\ x \in State /\ x.areas = m.areas /\ x.heap = m.heap /\ x.crash = m.crash
  /\ \A z \in Obj : z # o => x.obj[z] = m.obj[z]
  /\ x.obj[o].kind = m.obj[o].kind /\ x.obj[o].shadowed = m.obj[o].shadowed
  /\ x.obj[o].page = [n \in Num |-> IF n \in N THEN NULL ELSE m.obj[o].page[n]]
  /\ x.obj[o].ref = m.obj[o].ref - Cardinality(N)
  /\ Unmaps(m, x, o, N)

LEMMA PageFree ==
  ASSUME NEW m \in State, NEW o \in Obj, NEW N \in SUBSET Num, Cardinality(N) <= m.obj[o].ref
  PROVE  PagesFreed(m, pframe_free(m, o, N), o, N)
<1> DEFINE x == pframe_free(m, o, N)
<1> DEFINE g == [n \in Num |-> IF n \in N THEN NULL ELSE m.obj[o].page[n]]
           k == Cardinality(N)
           after(p, i, t) == IF t = NoPte \/ pframe_remove_from_pts(m, o, N, p, i) THEN NoPte
                             ELSE IF t.o = o /\ t.n \in N THEN Dangling ELSE t
           table == IF N = {} THEN m.pte ELSE [p \in Proc |-> [i \in Page |-> after(p, i, m.pte[p][i])]]
<1>0. PICK to : to = table
  OBVIOUS
<1>1. m.obj \in Objs /\ m.obj[o] \in ObjRec /\ m.obj[o].ref \in Nat /\ m.pte \in [Proc -> [Page -> Pte]]
      /\ m.obj[o].page \in [Num -> Val \cup {NULL}]
  BY StateParts
<1>2. k \in Nat
  BY NumFinite
<1>3. g \in [Num -> Val \cup {NULL}]
  BY <1>1
<1>4. to \in [Proc -> [Page -> Pte]]
  BY <1>0, <1>1, PteTypes
<1>5. PICK r : r = [m.obj[o] EXCEPT !.page = g, !.ref = m.obj[o].ref - k]
  OBVIOUS
<1>6. r \in ObjRec /\ r.kind = m.obj[o].kind /\ r.shadowed = m.obj[o].shadowed /\ r.page = g
      /\ r.ref = m.obj[o].ref - k
  <2>1. PICK y : y = m.obj[o].ref - k
    OBVIOUS
  <2>2. y \in Nat
    BY <1>1, <1>2, <2>1
  <2>3. IsWith(r, m.obj[o], g, y)
    BY <1>5, <2>1 DEF IsWith
  <2> HIDE DEF g, k
  <2> QED BY <1>1, <1>3, <2>1, <2>2, <2>3, PageRefWith
<1>7. PICK c : c = [m.obj EXCEPT ![o] = r]
  OBVIOUS
<1>8. c \in Objs /\ c[o] = r /\ \A z \in Obj : z # o => c[z] = m.obj[z]
  BY <1>1, <1>6, <1>7 DEF Objs
<1>9. x = [m EXCEPT !.obj = c, !.pte = to]
  BY <1>0, <1>1, <1>5, <1>7 DEF pframe_free, State, Objs, ObjRec
<1>10. /\ x \in State /\ x.obj = c /\ x.areas = m.areas /\ x.pte = to
       /\ x.heap = m.heap /\ x.crash = m.crash
  <2>1. c \in Objs
    BY <1>8
  <2>2. PICK y : y = x
    OBVIOUS
  <2>3. IsNow(y, m, c, to)
    BY <1>9, <2>2 DEF IsNow
  <2>4. /\ y \in State /\ y.obj = c /\ y.areas = m.areas /\ y.pte = to
        /\ y.heap = m.heap /\ y.crash = m.crash
    BY <1>4, <2>1, <2>3, WithObjPte
  <2> HIDE DEF x
  <2> QED BY <2>2, <2>4
<1>11. ASSUME NEW p \in Proc, NEW i \in Page
       PROVE  \/ to[p][i] = m.pte[p][i] /\ (m.pte[p][i] = NoPte \/ ~(m.pte[p][i].o = o /\ m.pte[p][i].n \in N))
              \/ to[p][i] = NoPte
              \/ /\ to[p][i] = Dangling /\ m.pte[p][i].o = o /\ m.pte[p][i].n \in N
                 /\ ~pframe_remove_from_pts(m, o, N, p, i)
  BY <1>0
<1>12. Unmaps(m, x, o, N)
  BY <1>10, <1>11 DEF Unmaps
<1>13. x.obj[o].page = [n \in Num |-> IF n \in N THEN NULL ELSE m.obj[o].page[n]]
       /\ x.obj[o].ref = m.obj[o].ref - Cardinality(N)
  BY <1>6, <1>8, <1>10
<1> HIDE DEF x
<1> QED BY <1>6, <1>8, <1>10, <1>12, <1>13 DEF PagesFreed, x

\* The users once a reference to o was given up and one to z was taken over.
Moved(u, o, z) == [x \in Obj |-> IF x = o THEN u[x] - 1 ELSE IF x = z THEN u[x] + 1 ELSE u[x]]

LEMMA PutOneStep ==
  ASSUME NEW m \in State, Ptes(m), NEW u \in [Obj -> Nat], Objects(m.obj, u), NEW o \in Obj, u[o] > 0,
         NEW r, r = PutOne(m, o)
  PROVE  /\ r.m \in State /\ Ptes(r.m) /\ Frees(m, r.m) /\ r.o \in Obj \cup {NULL} /\ r.o # o
         /\ Moved(u, o, r.o) \in [Obj -> Nat] /\ Objects(r.m.obj, Moved(u, o, r.o))
         /\ r.o # NULL => FreeObjs(r.m) = FreeObjs(m) \cup {o} /\ o \notin FreeObjs(m)
<1> DEFINE N == Pages(m.obj, o)
           v == Moved(u, o, r.o)
<1>1. N \in SUBSET Num /\ Resident(m, o) = N /\ Cardinality(N) \in Nat
  BY FiniteParts DEF Pages, Resident
<1>2. m.obj \in Objs /\ m.obj[o] \in ObjRec /\ m.obj[o].ref \in Nat /\ m.obj[o].shadowed \in Obj \cup {NULL}
      /\ m.pte \in [Proc -> [Page -> Pte]]
  BY StateParts
<1>3. m.obj[o].ref = u[o] + Cardinality(Shadowers(m.obj, o)) + Cardinality(N)
      /\ Cardinality(Shadowers(m.obj, o)) \in Nat /\ m.obj[o].kind # "free"
  BY FiniteParts DEF Objects, Counts, Live
<1>4. CASE m.obj[o].ref - 1 # Cardinality(N)
  <2>1. r.o = NULL /\ r.m = [m EXCEPT !.obj[o].ref = @ - 1]
    BY <1>1, <1>4 DEF PutOne
  <2>2. PICK q : q = [m.obj[o] EXCEPT !.ref = m.obj[o].ref - 1]
    OBVIOUS
  <2>3. q \in ObjRec /\ q.ref = m.obj[o].ref - 1 /\ q.kind = m.obj[o].kind
        /\ q.shadowed = m.obj[o].shadowed /\ q.page = m.obj[o].page
    <3>1. m.obj[o].ref - 1 \in Nat
      BY <1>1, <1>2, <1>3
    <3> QED BY <1>2, <2>2, <3>1, RefWith
  <2>4. PICK c : c = [m.obj EXCEPT ![o] = q]
    OBVIOUS
  <2>5. c \in Objs /\ c[o] = q /\ \A z \in Obj : z # o => c[z] = m.obj[z]
    BY <1>2, <2>3, <2>4 DEF Objs
  <2>6. r.m = [m EXCEPT !.obj = c]
    BY <1>2, <2>1, <2>2, <2>4 DEF State, Objs, ObjRec
  <2>7. /\ r.m \in State /\ r.m.obj = c /\ r.m.areas = m.areas /\ r.m.pte = m.pte
        /\ r.m.heap = m.heap /\ r.m.crash = m.crash
    BY <2>5, <2>6, WithObj
  <2>8. v \in [Obj -> Nat] /\ v[o] = u[o] - 1 /\ \A z \in Obj : z # o => v[z] = u[z]
    BY <2>1, Constants DEF Moved
  <2>9. \A z \in Obj : Pages(c, z) = Pages(m.obj, z)
    BY <2>3, <2>5 DEF Pages
  <2>10. Objects(c, v)
    <3>1. \A z \in Obj : c[z].kind = m.obj[z].kind /\ c[z].shadowed = m.obj[z].shadowed
      BY <2>3, <2>5
    <3>2. \A z \in Obj : m.obj[z].kind = "free" => c[z] = m.obj[z] /\ v[z] = 0
      BY <1>3, <2>5, <2>8 DEF Objects, Live
    <3>3. \A z \in Obj : m.obj[z].kind # "free" => (v[z] # 0 \/ Shadowers(m.obj, z) # {})
      <4>1. v[o] # 0 \/ Shadowers(m.obj, o) # {}
        BY <1>1, <1>3, <1>4, <2>8, FiniteParts
      <4> QED BY <2>8, <4>1 DEF Objects, Live
    <3>4. \A z \in Obj : c[z].ref = v[z] + Cardinality(Shadowers(m.obj, z)) + Cardinality(Pages(c, z))
      <4>1. c[o].ref = v[o] + Cardinality(Shadowers(m.obj, o)) + Cardinality(Pages(c, o))
        BY <1>1, <1>3, <2>3, <2>5, <2>8, <2>9
      <4> QED BY <2>5, <2>8, <2>9, <4>1 DEF Objects, Counts
    <3>5. KeepsChains(m.obj, c, v)
      BY <3>1, <3>2, <3>3, <3>4 DEF KeepsChains
    <3> QED BY <2>5, <3>5, SameChains
  <2>11. Ptes(r.m)
    <3>1. \A z \in Obj : c[z].page = m.obj[z].page
      BY <2>3, <2>5
    <3>2. \A t : Leads(m.obj, t) => Leads(c, t)
      BY <3>1 DEF Leads
    <3> QED BY <2>7, <3>2 DEF Ptes
  <2>12. Frees(m, r.m)
    BY <2>3, <2>5, <2>7 DEF Frees
  <2> QED BY <2>1, <2>7, <2>8, <2>10, <2>11, <2>12, Constants
<1>5. CASE m.obj[o].ref - 1 = Cardinality(N)
  <2>1. PICK x : x = pframe_free(m, o, N)
    OBVIOUS
  <2>2. r.o = m.obj[o].shadowed /\ r.m = [x EXCEPT !.obj[o] = FreeObj]
    BY <1>1, <1>5, <2>1 DEF PutOne
  <2>3. /\ x \in State /\ x.areas = m.areas /\ x.heap = m.heap /\ x.crash = m.crash
        /\ \A z \in Obj : z # o => x.obj[z] = m.obj[z]
        /\ Unmaps(m, x, o, N)
    <3>1. Cardinality(N) <= m.obj[o].ref
      BY <1>1, <1>2, <1>5
    <3>2. PagesFreed(m, x, o, N)
      BY <1>1, <2>1, <3>1, PageFree
    <3> QED BY <3>2 DEF PagesFreed
  <2>4. PICK c : c = [x.obj EXCEPT ![o] = FreeObj]
    OBVIOUS
  <2>5. c \in Objs /\ c[o] = FreeObj /\ \A z \in Obj : z # o => c[z] = m.obj[z]
    <3>1. x.obj \in Objs
      BY <2>3, StateParts
    <3> QED BY <2>3, <2>4, <3>1, FreeObjType DEF Objs
  <2>6. r.m = [x EXCEPT !.obj = c]
    BY <2>2, <2>3, <2>4 DEF State, Objs
  <2>7. /\ r.m \in State /\ r.m.obj = c /\ r.m.areas = m.areas /\ r.m.pte = x.pte
        /\ r.m.heap = m.heap /\ r.m.crash = m.crash
    BY <2>3, <2>5, <2>6, WithObj
  <2>8. PICK w : w = [z \in Obj |-> IF z = o THEN 0 ELSE IF z = m.obj[o].shadowed THEN u[z] + 1 ELSE u[z]]
    OBVIOUS
  <2>9. Objects(c, w) /\ Shadowers(m.obj, o) = {} /\ u[o] = 1
    BY <1>5, <2>5, <2>8, LastUserGone
  <2>10. r.o # o /\ r.o \in Obj \cup {NULL}
    BY <1>2, <2>2, <2>9 DEF Shadowers
  <2>11. v = w /\ v \in [Obj -> Nat]
    BY <2>2, <2>8, <2>9 DEF Moved
  <2>12. FreeObj.kind = "free"
    BY DEF FreeObj
  <2>13. FreeObjs(r.m) = FreeObjs(m) \cup {o} /\ o \notin FreeObjs(m)
    BY <1>3, <2>5, <2>7, <2>12 DEF FreeObjs
  <2>14. ASSUME NEW p \in Proc, NEW i \in Page
         PROVE  /\ \/ x.pte[p][i] = m.pte[p][i]
                   \/ x.pte[p][i] = NoPte
                   \/ x.pte[p][i] = Dangling /\ m.pte[p][i].o = o
                /\ x.pte[p][i] = NoPte \/ x.pte[p][i] = Dangling \/ Leads(c, x.pte[p][i])
    <3>1. \/ x.pte[p][i] = m.pte[p][i] /\ (m.pte[p][i] = NoPte \/ ~(m.pte[p][i].o = o /\ m.pte[p][i].n \in N))
          \/ x.pte[p][i] = NoPte
          \/ x.pte[p][i] = Dangling /\ m.pte[p][i].o = o /\ m.pte[p][i].n \in N
      BY <2>3 DEF Unmaps
    <3>2. m.pte[p][i] = NoPte \/ m.pte[p][i] = Dangling \/ Leads(m.obj, m.pte[p][i])
      BY DEF Ptes
    <3>3. m.pte[p][i].n \in Num
      BY <1>2 DEF Pte
    <3>4. CASE x.pte[p][i] = m.pte[p][i] /\ Leads(m.obj, m.pte[p][i]) /\ m.pte[p][i] # NoPte
      <4>1. m.pte[p][i].o # o
        BY <3>1, <3>3, <3>4, PteTypes DEF Leads, Pages
      <4> QED BY <2>5, <3>4, <4>1 DEF Leads
    <3> HIDE DEF N
    <3> QED BY <3>1, <3>2, <3>4
  <2>15. Ptes(r.m)
    BY <2>7, <2>14 DEF Ptes
  <2>16. Frees(m, r.m)
    <3>1. \A z \in Obj : c[z].kind = "free" \/ (c[z].kind = m.obj[z].kind
             /\ c[z].shadowed = m.obj[z].shadowed /\ c[z].page = m.obj[z].page)
      BY <2>5, <2>12
    <3>2. \A z \in Obj : m.obj[z].kind = "free" => c[z].kind = "free"
      BY <2>5, <2>12
    <3>3. ASSUME NEW p \in Proc, NEW i \in Page
          PROVE  \/ x.pte[p][i] = m.pte[p][i]
                 \/ x.pte[p][i] = NoPte
                 \/ /\ x.pte[p][i] = Dangling /\ m.pte[p][i].o \in Obj
                    /\ c[m.pte[p][i].o].kind = "free"
      BY <2>5, <2>12, <2>14
    <3> QED BY <2>7, <3>1, <3>2, <3>3 DEF Frees
  <2> HIDE DEF N
  <2> QED BY <2>7, <2>9, <2>10, <2>11, <2>13, <2>15, <2>16
<1> QED BY <1>4, <1>5


-----------------------------------------------------------------------------
(* put, one object after the other.                                        *)

Plus(w, o) == [x \in Obj |-> IF x = o THEN w[x] + 1 ELSE w[x]]

LEMMA PlusType ==
  ASSUME NEW w \in [Obj -> Nat], NEW o
  PROVE  /\ Plus(w, o) \in [Obj -> Nat]
         /\ \A z \in Obj : Plus(w, o)[z] = IF z = o THEN w[z] + 1 ELSE w[z]
         /\ o \notin Obj => Plus(w, o) = w
BY DEF Plus

\* Of y.m there is a reference to y.o to be put, and everything else is counted by w.
Putting(m, w, k, y) ==
  /\ y.m \in State /\ Ptes(y.m) /\ Frees(m, y.m) /\ y.o \in Obj \cup {NULL}
  /\ Objects(y.m.obj, Plus(w, y.o))
  /\ y.o # NULL => Cardinality(FreeObjs(y.m)) >= k

LEMMA FreeObjsFinite ==
  ASSUME NEW m
  PROVE  IsFiniteSet(FreeObjs(m)) /\ Cardinality(FreeObjs(m)) \in Nat
<1>1. FreeObjs(m) \in SUBSET Obj
  BY DEF FreeObjs
<1> QED BY <1>1, Constants, FS_Subset, FS_CardinalityType

LEMMA PuttingOne ==
  ASSUME NEW m \in State, NEW w \in [Obj -> Nat], NEW k \in Nat, NEW y, Putting(m, w, k, y), y.o # NULL,
         NEW r, r = PutOne(y.m, y.o)
  PROVE  Putting(m, w, k + 1, r)
<1>1. y.m \in State /\ Ptes(y.m) /\ Frees(m, y.m) /\ y.o \in Obj /\ Objects(y.m.obj, Plus(w, y.o))
      /\ Cardinality(FreeObjs(y.m)) >= k
  BY DEF Putting
<1>2. PICK u : u = Plus(w, y.o)
  OBVIOUS
<1>3. u \in [Obj -> Nat] /\ u[y.o] = w[y.o] + 1 /\ \A z \in Obj : z # y.o => u[z] = w[z]
  BY <1>1, <1>2, PlusType
<1>4. /\ r.m \in State /\ Ptes(r.m) /\ Frees(y.m, r.m) /\ r.o \in Obj \cup {NULL} /\ r.o # y.o
      /\ Objects(r.m.obj, Moved(u, y.o, r.o))
      /\ r.o # NULL => FreeObjs(r.m) = FreeObjs(y.m) \cup {y.o} /\ y.o \notin FreeObjs(y.m)
  <2>1. u[y.o] > 0
    BY <1>1, <1>3
  <2>2. PICK n, o : n = y.m /\ o = y.o
    OBVIOUS
  <2>3. Objects(n.obj, u) /\ r = PutOne(n, o)
    BY <1>1, <1>2, <2>2
  <2> QED BY <1>1, <1>3, <2>1, <2>2, <2>3, PutOneStep
<1>5. Moved(u, y.o, r.o) = Plus(w, r.o)
  <2>1. \A z \in Obj : (IF z = y.o THEN u[z] - 1 ELSE IF z = r.o THEN u[z] + 1 ELSE u[z])
                       = (IF z = r.o THEN w[z] + 1 ELSE w[z])
    BY <1>1, <1>3, <1>4
  <2> QED BY <2>1 DEF Moved, Plus
<1>6. r.o # NULL => Cardinality(FreeObjs(r.m)) >= k + 1
  <2>1. SUFFICES ASSUME r.o # NULL PROVE Cardinality(FreeObjs(r.m)) >= k + 1
    OBVIOUS
  <2>2. PICK F : F = FreeObjs(y.m)
    OBVIOUS
  <2>3. IsFiniteSet(F) /\ Cardinality(F) \in Nat /\ Cardinality(F) >= k
    BY <1>1, <2>2, FreeObjsFinite
  <2>4. Cardinality(F \cup {y.o}) = Cardinality(F) + 1
    BY <1>4, <2>1, <2>2, <2>3, FS_AddElement
  <2>5. FreeObjs(r.m) = F \cup {y.o}
    BY <1>4, <2>1, <2>2
  <2>6. Cardinality(FreeObjs(r.m)) = Cardinality(F) + 1
    BY <2>4, <2>5
  <2> QED BY <2>3, <2>6
<1>7. Frees(m, r.m)
  BY <1>1, <1>4, FreesTrans
<1> QED BY <1>4, <1>5, <1>6, <1>7 DEF Putting

LEMMA PutStep ==
  ASSUME NEW m \in State, Ptes(m), NEW w \in [Obj -> Nat], NEW o \in Obj, Objects(m.obj, Plus(w, o)),
         NEW x, x = put(m, o)
  PROVE  x \in State /\ Ptes(x) /\ Frees(m, x) /\ Objects(x.obj, w)
<1> DEFINE N == Cardinality(Obj)
           y0 == [m |-> m, o |-> o]
<1>1. N \in Nat /\ IsFiniteSet(Obj)
  BY Constants, FS_CardinalityType
<1>2. PICK a : Ran("put", <<>>, y0, a, N) /\ x = a[N].m
  BY PutRan
<1>3. Putting(m, w, 0, y0)
  <2>1. PICK y : y = y0
    OBVIOUS
  <2>2. y.m = m /\ y.o = o
    BY <2>1
  <2>3. Cardinality(FreeObjs(m)) >= 0
    BY FreeObjsFinite
  <2>4. Putting(m, w, 0, y)
    BY <2>2, <2>3, FreesRefl DEF Putting
  <2> QED BY <2>1, <2>4
<1>4. a[0] = y0 /\ \A k \in 1 .. N : a[k] = IF a[k - 1].o = NULL THEN a[k - 1] ELSE PutOne(a[k - 1].m, a[k - 1].o)
  BY <1>2 DEF Ran, Turn
<1> DEFINE S == {k \in 0 .. N : Putting(m, w, k, a[k])}
<1> HIDE DEF y0
<1>5. Closed(S, N)
  <2>1. 0 \in S
    BY <1>1, <1>3, <1>4
  <2>2. ASSUME NEW k \in 0 .. N - 1, k \in S PROVE k + 1 \in S
    <3>1. k \in Nat /\ k + 1 \in 1 .. N /\ (k + 1) - 1 = k /\ k + 1 \in 0 .. N
      BY <1>1
    <3>2. a[k + 1] = IF a[k].o = NULL THEN a[k] ELSE PutOne(a[k].m, a[k].o)
      BY <1>4, <3>1
    <3>3. CASE a[k].o = NULL
      BY <2>2, <3>1, <3>2, <3>3 DEF Putting
    <3>4. CASE a[k].o # NULL
      <4>1. PICK y, r : y = a[k] /\ r = a[k + 1]
        OBVIOUS
      <4>2. Putting(m, w, k + 1, r)
        BY <2>2, <3>1, <3>2, <3>4, <4>1, PuttingOne
      <4> QED BY <3>1, <4>1, <4>2
    <3> QED BY <3>3, <3>4
  <2> HIDE DEF S
  <2> QED BY <2>1, <2>2 DEF Closed
<1>6. Putting(m, w, N, a[N])
  <2>1. N \in S
    <3> HIDE DEF S
    <3> QED BY <1>1, <1>5, Reached
  <2> QED BY <2>1
<1>7. a[N].o = NULL
  <2> SUFFICES ASSUME a[N].o # NULL PROVE FALSE
    OBVIOUS
  <2>1. PICK y : y = a[N]
    OBVIOUS
  <2>2. y.o \in Obj /\ Objects(y.m.obj, Plus(w, y.o)) /\ Cardinality(FreeObjs(y.m)) >= N
    BY <1>6, <2>1 DEF Putting
  <2>3. y.m.obj[y.o].kind # "free"
    <3>1. Plus(w, y.o)[y.o] # 0
      BY <2>2, PlusType
    <3> QED BY <2>2, <3>1 DEF Objects, Live
  <2>4. PICK F : F = FreeObjs(y.m)
    OBVIOUS
  <2>5. F \in SUBSET (Obj \ {y.o})
    BY <2>3, <2>4 DEF FreeObjs
  <2>6. IsFiniteSet(Obj \ {y.o}) /\ Cardinality(Obj \ {y.o}) = N - 1
    BY <1>1, <2>2, FS_RemoveElement
  <2>7. Cardinality(F) <= N - 1 /\ Cardinality(F) \in Nat
    BY <2>4, <2>5, <2>6, FS_Subset, FreeObjsFinite
  <2> QED BY <1>1, <2>2, <2>4, <2>7
<1>8. Plus(w, NULL) = w
  BY PlusType, Constants
<1> QED BY <1>2, <1>6, <1>7, <1>8 DEF Putting

-----------------------------------------------------------------------------
(* How many areas refer to an object.                                      *)

Lists == Seq(AreaRec)

In(l) == [o \in Obj |-> Cardinality({k \in DOMAIN l : l[k].obj = o})]
Users(areas, o) ==
  {e \in UNION {{<<p, k>> : k \in DOMAIN areas[p]} : p \in Proc} : areas[e[1]][e[2]].obj = o}
U(areas) == [o \in Obj |-> Cardinality(Users(areas, o))]

LEMMA SameSize ==
  ASSUME NEW S, NEW T, IsFiniteSet(S), NEW f \in [S -> T],
         \A x, y \in S : f[x] = f[y] => x = y, \A y \in T : \E x \in S : f[x] = y
  PROVE  IsFiniteSet(T) /\ Cardinality(T) = Cardinality(S)
<1>1. f \in Bijection(S, T)
  BY DEF Bijection, Injection, Surjection, IsInjective
<1>2. ExistsBijection(S, T)
  BY <1>1 DEF ExistsBijection
<1> QED BY <1>2, FS_Bijection

LEMMA ListFinite ==
  ASSUME NEW l \in Lists, NEW o
  PROVE  /\ IsFiniteSet({k \in DOMAIN l : l[k].obj = o}) /\ IsFiniteSet(DOMAIN l)
         /\ Cardinality({k \in DOMAIN l : l[k].obj = o}) \in Nat
<1>1. DOMAIN l = 1 .. Len(l) /\ Len(l) \in Nat
  BY LenProperties DEF Lists
<1>2. IsFiniteSet(DOMAIN l)
  <2>1. 1 \in Int /\ Len(l) \in Int
    BY <1>1
  <2> QED BY <1>1, <2>1, FS_Interval
<1>3. {k \in DOMAIN l : l[k].obj = o} \in SUBSET DOMAIN l
  OBVIOUS
<1> QED BY <1>2, <1>3, FS_Subset, FS_CardinalityType

LEMMA InType == ASSUME NEW l \in Lists PROVE In(l) \in [Obj -> Nat]
BY ListFinite DEF In

LEMMA InEmpty == <<>> \in Lists /\ \A o \in Obj : In(<<>>)[o] = 0
<1>1. <<>> \in Lists /\ DOMAIN <<>> = {}
  BY EmptySeq DEF Lists
<1>2. \A o \in Obj : {k \in DOMAIN <<>> : <<>>[k].obj = o} = {}
  BY <1>1
<1> QED BY <1>1, <1>2, FS_EmptySet DEF In

LEMMA InOne ==
  ASSUME NEW a \in AreaRec
  PROVE  <<a>> \in Lists /\ \A o \in Obj : In(<<a>>)[o] = IF o = a.obj THEN 1 ELSE 0
<1>1. <<a>> \in Lists /\ DOMAIN <<a>> = {1} /\ <<a>>[1] = a
  BY DEF Lists
<1>2. ASSUME NEW o \in Obj PROVE In(<<a>>)[o] = IF o = a.obj THEN 1 ELSE 0
  <2>1. {k \in DOMAIN <<a>> : <<a>>[k].obj = o} = IF o = a.obj THEN {1} ELSE {}
    BY <1>1
  <2>2. In(<<a>>)[o] = Cardinality({k \in DOMAIN <<a>> : <<a>>[k].obj = o})
    BY DEF In
  <2> QED BY <2>1, <2>2, FS_EmptySet, FS_Singleton
<1> QED BY <1>1, <1>2

LEMMA InConcat ==
  ASSUME NEW l \in Lists, NEW r \in Lists
  PROVE  l \o r \in Lists /\ \A o \in Obj : In(l \o r)[o] = In(l)[o] + In(r)[o]
<1>1. PICK t : t = l \o r
  OBVIOUS
<1>2. /\ t \in Lists /\ Len(t) = Len(l) + Len(r) /\ DOMAIN t = 1 .. Len(t)
      /\ DOMAIN l = 1 .. Len(l) /\ DOMAIN r = 1 .. Len(r) /\ Len(l) \in Nat /\ Len(r) \in Nat
      /\ \A k \in 1 .. Len(l) + Len(r) : t[k] = IF k <= Len(l) THEN l[k] ELSE r[k - Len(l)]
  <2>1. \A w \in Lists : Len(w) \in Nat /\ DOMAIN w = 1 .. Len(w)
    BY LenProperties DEF Lists
  <2>2. t \in Lists /\ Len(t) = Len(l) + Len(r)
        /\ \A k \in 1 .. Len(l) + Len(r) : t[k] = IF k <= Len(l) THEN l[k] ELSE r[k - Len(l)]
    BY <1>1, ConcatProperties DEF Lists
  <2> QED BY <2>1, <2>2
<1>3. ASSUME NEW o \in Obj PROVE In(t)[o] = In(l)[o] + In(r)[o]
  <2> DEFINE A == {k \in DOMAIN l : l[k].obj = o}
             B == {k \in DOMAIN r : r[k].obj = o}
             C == {k \in DOMAIN t : t[k].obj = o}
             D == C \ A
             f == [k \in B |-> k + Len(l)]
  <2>1. \A k \in DOMAIN l : k \in DOMAIN t /\ t[k] = l[k]
    BY <1>2
  <2>2. \A k \in DOMAIN r : k + Len(l) \in DOMAIN t /\ t[k + Len(l)] = r[k] /\ k + Len(l) \notin DOMAIN l
    BY <1>2
  <2>3. \A k \in DOMAIN t : k \notin DOMAIN l => k - Len(l) \in DOMAIN r /\ t[k] = r[k - Len(l)]
                                                  /\ (k - Len(l)) + Len(l) = k
    BY <1>2
  <2>4. IsFiniteSet(A) /\ IsFiniteSet(B) /\ IsFiniteSet(C) /\ Cardinality(A) \in Nat /\ Cardinality(B) \in Nat
        /\ Cardinality(C) \in Nat
    BY <1>2, ListFinite
  <2>5. Cardinality(D) = Cardinality(B)
    <3>1. f \in [B -> D]
      <4> SUFFICES ASSUME NEW k \in B PROVE k + Len(l) \in D
        OBVIOUS
      <4> QED BY <2>2
    <3>2. \A j, k \in B : f[j] = f[k] => j = k
      BY <1>2
    <3>3. ASSUME NEW y \in D PROVE \E x \in B : f[x] = y
      <4>1. y \notin DOMAIN l
        BY <2>1
      <4>2. y - Len(l) \in B
        BY <2>3, <4>1
      <4> QED BY <2>3, <4>1, <4>2
    <3> HIDE DEF f, B, D
    <3> QED BY <2>4, <3>1, <3>2, <3>3, SameSize
  <2>6. C \cap A = A
    BY <2>1
  <2>7. Cardinality(D) = Cardinality(C) - Cardinality(A)
    <3> HIDE DEF A, C
    <3> QED BY <2>4, <2>6, FS_Difference
  <2>8. Cardinality(C) = Cardinality(A) + Cardinality(B)
    <3> HIDE DEF A, B, C, D
    <3> QED BY <2>4, <2>5, <2>7
  <2> QED BY <2>8 DEF In
<1> QED BY <1>1, <1>2, <1>3

\* Element k of a list gets another object.
Replaced(r, l, k, a) == r = [l EXCEPT ![k] = a]

LEMMA InReplaced ==
  ASSUME NEW l \in Lists, NEW k \in DOMAIN l, NEW a \in AreaRec, NEW r, Replaced(r, l, k, a),
         a.obj # l[k].obj
  PROVE  /\ r \in Lists /\ DOMAIN r = DOMAIN l
         /\ \A o \in Obj : o # a.obj /\ o # l[k].obj => In(r)[o] = In(l)[o]
         /\ In(r)[a.obj] = In(l)[a.obj] + 1 /\ In(r)[l[k].obj] = In(l)[l[k].obj] - 1
<1>1. DOMAIN l = 1 .. Len(l) /\ \A j \in DOMAIN l : l[j] \in AreaRec
  BY LenProperties DEF Lists
<1>2. r \in Lists /\ Len(r) = Len(l) /\ DOMAIN r = DOMAIN l /\ r[k] = a /\ \A j \in DOMAIN l : j # k => r[j] = l[j]
  <2>1. r \in Lists /\ Len(r) = Len(l)
    BY <1>1, ExceptSeq DEF Lists, Replaced
  <2>2. DOMAIN r = DOMAIN l /\ r[k] = a /\ \A j \in DOMAIN l : j # k => r[j] = l[j]
    BY <1>1 DEF Lists, Replaced
  <2> QED BY <2>1, <2>2
<1> DEFINE K(w, o) == {j \in DOMAIN w : w[j].obj = o}
           q == l[k].obj
<1>3. \A o \in Obj : In(r)[o] = Cardinality(K(r, o)) /\ In(l)[o] = Cardinality(K(l, o))
  BY DEF In
<1>4. a.obj \in Obj /\ q \in Obj
  BY <1>1 DEF AreaRec
<1>5. \A o \in Obj : o # a.obj /\ o # q => K(r, o) = K(l, o)
  BY <1>2
<1>6. K(r, a.obj) = K(l, a.obj) \cup {k} /\ k \notin K(l, a.obj)
  BY <1>2
<1>7. K(r, q) = K(l, q) \ {k} /\ k \in K(l, q)
  BY <1>2
<1>8. \A o : IsFiniteSet(K(l, o)) /\ Cardinality(K(l, o)) \in Nat
  BY ListFinite
<1> HIDE DEF K
<1>9. Cardinality(K(r, a.obj)) = Cardinality(K(l, a.obj)) + 1
  BY <1>6, <1>8, FS_AddElement
<1>10. Cardinality(K(r, q)) = Cardinality(K(l, q)) - 1
  <2>1. PICK A, B : A = K(l, q) /\ B = K(r, q)
    OBVIOUS
  <2>2. IsFiniteSet(A) /\ k \in A /\ B = A \ {k}
    BY <1>7, <1>8, <2>1
  <2>3. Cardinality(B) = Cardinality(A) - 1
    BY <2>2, FS_RemoveElement
  <2> QED BY <2>1, <2>3
<1>11. \A o \in Obj : o # a.obj /\ o # q => In(r)[o] = In(l)[o]
  BY <1>3, <1>5
<1>12. In(r)[a.obj] = In(l)[a.obj] + 1
  BY <1>3, <1>4, <1>9
<1>13. In(r)[q] = In(l)[q] - 1
  BY <1>3, <1>4, <1>10
<1> QED BY <1>2, <1>11, <1>12, <1>13

LEMMA UsersFinite ==
  ASSUME NEW areas \in [Proc -> Lists], NEW o
  PROVE  IsFiniteSet(Users(areas, o)) /\ Cardinality(Users(areas, o)) \in Nat
<1> DEFINE n(p) == Len(areas[p])
           R == {<<p, k>> : p \in Proc, k \in Nat}
<1>1. \A p \in Proc : DOMAIN areas[p] = 1 .. n(p) /\ n(p) \in Nat /\ IsFiniteSet(DOMAIN areas[p])
  <2> SUFFICES ASSUME NEW p \in Proc PROVE DOMAIN areas[p] = 1 .. n(p) /\ n(p) \in Nat /\ IsFiniteSet(DOMAIN areas[p])
    OBVIOUS
  <2>1. areas[p] \in Lists
    OBVIOUS
  <2> QED BY <2>1, ListFinite, LenProperties DEF Lists
<1>2. \A p \in Proc : IsFiniteSet({p} \X DOMAIN areas[p])
  BY <1>1, FS_Singleton, FS_Product
<1>3. \A p \in Proc : {<<p, k>> : k \in DOMAIN areas[p]} = {p} \X DOMAIN areas[p]
  OBVIOUS
<1> DEFINE T == {{p} \X DOMAIN areas[p] : p \in Proc}
           f == [p \in Proc |-> {p} \X DOMAIN areas[p]]
<1>4. IsFiniteSet(T)
  <2>1. f \in Surjection(Proc, T)
    BY DEF Surjection
  <2> HIDE DEF f, T
  <2> QED BY <2>1, Constants, FS_Surjection
<1>5. \A t \in T : IsFiniteSet(t)
  BY <1>2
<1>6. IsFiniteSet(UNION T)
  <2> HIDE DEF T
  <2> QED BY <1>4, <1>5, FS_UNION
<1>7. Users(areas, o) \in SUBSET UNION T
  BY <1>3 DEF Users
<1> HIDE DEF T
<1> QED BY <1>6, <1>7, FS_Subset, FS_CardinalityType

LEMMA UType == ASSUME NEW areas \in [Proc -> Lists] PROVE U(areas) \in [Obj -> Nat]
BY UsersFinite DEF U

LEMMA UPositive ==
  ASSUME NEW areas \in [Proc -> Lists], NEW p \in Proc, NEW k \in DOMAIN areas[p], areas[p][k].obj \in Obj
  PROVE  U(areas)[areas[p][k].obj] > 0
<1> DEFINE o == areas[p][k].obj
<1>1. <<p, k>> \in Users(areas, o)
  BY DEF Users
<1>2. Users(areas, o) # {}
  BY <1>1
<1>3. Cardinality(Users(areas, o)) # 0 /\ Cardinality(Users(areas, o)) \in Nat
  BY <1>2, UsersFinite, FS_EmptySet
<1> QED BY <1>3 DEF U

\* The list of one process is replaced.
AreasTo(after, areas, p, l) == after = [areas EXCEPT ![p] = l]

LEMMA UTo ==
  ASSUME NEW areas \in [Proc -> Lists], NEW p \in Proc, NEW l \in Lists,
         NEW after, AreasTo(after, areas, p, l)
  PROVE  /\ after \in [Proc -> Lists] /\ after[p] = l /\ \A q \in Proc : q # p => after[q] = areas[q]
         /\ \A o \in Obj : U(after)[o] = U(areas)[o] - In(areas[p])[o] + In(l)[o]
<1>1. after \in [Proc -> Lists] /\ after[p] = l /\ \A q \in Proc : q # p => after[q] = areas[q]
  BY DEF AreasTo
<1>2. ASSUME NEW o \in Obj PROVE U(after)[o] = U(areas)[o] - In(areas[p])[o] + In(l)[o]
  <2> DEFINE K(w) == {k \in DOMAIN w : w[k].obj = o}
             Mine(w) == {<<p, k>> : k \in K(w)}
             Rest == Users(areas, o) \ Mine(areas[p])
  <2>1. ASSUME NEW w \in Lists
        PROVE  IsFiniteSet(Mine(w)) /\ Cardinality(Mine(w)) = Cardinality(K(w)) /\ Cardinality(K(w)) \in Nat
    <3> DEFINE f == [k \in K(w) |-> <<p, k>>]
    <3>1. IsFiniteSet(K(w)) /\ Cardinality(K(w)) \in Nat
      BY ListFinite
    <3>2. f \in [K(w) -> Mine(w)] /\ (\A j, k \in K(w) : f[j] = f[k] => j = k)
          /\ \A y \in Mine(w) : \E x \in K(w) : f[x] = y
      OBVIOUS
    <3> HIDE DEF f, K, Mine
    <3> QED BY <3>1, <3>2, SameSize
  <2>2. Mine(areas[p]) \subseteq Users(areas, o) /\ Mine(l) \subseteq Users(after, o)
    BY <1>1 DEF Users
  <2>3. Rest = Users(after, o) \ Mine(l)
    BY <1>1 DEF Users
  <2>4. areas[p] \in Lists /\ IsFiniteSet(Users(areas, o)) /\ IsFiniteSet(Users(after, o))
        /\ Cardinality(Users(areas, o)) \in Nat /\ Cardinality(Users(after, o)) \in Nat
    BY <1>1, UsersFinite
  <2>5. U(after)[o] = Cardinality(Users(after, o)) /\ U(areas)[o] = Cardinality(Users(areas, o))
        /\ In(areas[p])[o] = Cardinality(K(areas[p])) /\ In(l)[o] = Cardinality(K(l))
    BY DEF U, In
  <2>6. Users(areas, o) \cap Mine(areas[p]) = Mine(areas[p]) /\ Users(after, o) \cap Mine(l) = Mine(l)
    BY <2>2
  <2> HIDE DEF K, Mine
  <2>7. ASSUME NEW S, NEW T, IsFiniteSet(S), S \cap T = T
        PROVE  Cardinality(S \ T) = Cardinality(S) - Cardinality(T)
    <3>1. Cardinality(S \ T) = Cardinality(S) - Cardinality(S \cap T)
      BY <2>7, FS_Difference
    <3> QED BY <2>7, <3>1
  <2>8. Cardinality(Rest) = Cardinality(Users(areas, o)) - Cardinality(Mine(areas[p]))
    BY <2>4, <2>6, <2>7
  <2>9. Cardinality(Rest) = Cardinality(Users(after, o)) - Cardinality(Mine(l))
    BY <2>3, <2>4, <2>6, <2>7
  <2> HIDE DEF Rest
  <2> QED BY <2>1, <2>4, <2>5, <2>8, <2>9
<1> QED BY <1>1, <1>2

LEMMA UReplaced ==
  ASSUME NEW areas \in [Proc -> Lists], NEW p \in Proc, NEW l \in Lists,
         NEW after, after = [areas EXCEPT ![p] = l]
  PROVE  /\ after \in [Proc -> Lists] /\ after[p] = l /\ \A q \in Proc : q # p => after[q] = areas[q]
         /\ \A o \in Obj : U(after)[o] = U(areas)[o] - In(areas[p])[o] + In(l)[o]
<1>1. AreasTo(after, areas, p, l)
  BY DEF AreasTo
<1> QED BY <1>1, UTo

-----------------------------------------------------------------------------
(* Walks over the areas of a process.                                      *)

\* Reference counts change, and nothing else.
SameObjs(m, x) ==
  /\ x.areas = m.areas /\ x.pte = m.pte /\ x.heap = m.heap /\ x.crash = m.crash
  /\ \A z \in Obj : /\ x.obj[z].kind = m.obj[z].kind /\ x.obj[z].shadowed = m.obj[z].shadowed
                    /\ x.obj[z].page = m.obj[z].page

LEMMA RefStep ==
  ASSUME NEW m \in State, Ptes(m), NEW u \in [Obj -> Nat], NEW o \in Obj, Objects(m.obj, u),
         m.obj[o].kind # "free", NEW x, x = ref(m, o)
  PROVE  x \in State /\ Ptes(x) /\ Frees(m, x) /\ Objects(x.obj, Plus(u, o)) /\ SameObjs(m, x)
<1>1. m.obj \in Objs /\ m.obj[o] \in ObjRec /\ m.obj[o].ref \in Nat
  BY StateParts
<1>2. PICK k : k = m.obj[o].ref + 1
  OBVIOUS
<1>3. PICK q : q = [m.obj[o] EXCEPT !.ref = k]
  OBVIOUS
<1>4. q \in ObjRec /\ q.ref = k /\ q.kind = m.obj[o].kind /\ q.shadowed = m.obj[o].shadowed
      /\ q.page = m.obj[o].page
  <2>1. k \in Nat
    BY <1>1, <1>2
  <2>2. PICK r : r = m.obj[o]
    OBVIOUS
  <2>3. q = [r EXCEPT !.ref = k] /\ r \in ObjRec
    BY <1>1, <1>3, <2>2
  <2> QED BY <2>1, <2>2, <2>3, RefWith
<1>5. PICK c : c = [m.obj EXCEPT ![o] = q]
  OBVIOUS
<1>6. c \in Objs /\ c[o] = q /\ \A z \in Obj : z # o => c[z] = m.obj[z]
  BY <1>1, <1>4, <1>5 DEF Objs
<1>7. x = [m EXCEPT !.obj = c]
  BY <1>1, <1>2, <1>3, <1>5 DEF ref, State, Objs, ObjRec
<1>8. x \in State /\ x.obj = c /\ x.areas = m.areas /\ x.pte = m.pte /\ x.heap = m.heap /\ x.crash = m.crash
  BY <1>6, <1>7, WithObj
<1>9. Plus(u, o)[o] = u[o] + 1 /\ \A z \in Obj : z # o => Plus(u, o)[z] = u[z]
  BY PlusType
<1>10. \A z \in Obj : Pages(c, z) = Pages(m.obj, z)
  BY <1>4, <1>6 DEF Pages
<1>11. KeepsChains(m.obj, c, Plus(u, o))
  <2>1. \A z \in Obj : m.obj[z].ref = u[z] + Cardinality(Shadowers(m.obj, z)) + Cardinality(Pages(m.obj, z))
    BY DEF Objects, Counts
  <2>2. c[o].ref = Plus(u, o)[o] + Cardinality(Shadowers(m.obj, o)) + Cardinality(Pages(c, o))
    BY <1>2, <1>4, <1>6, <1>9, <1>10, <2>1, FiniteParts
  <2>3. \A z \in Obj : c[z].ref = Plus(u, o)[z] + Cardinality(Shadowers(m.obj, z)) + Cardinality(Pages(c, z))
    BY <1>6, <1>9, <1>10, <2>1, <2>2
  <2>4. \A z \in Obj : c[z].kind = m.obj[z].kind /\ c[z].shadowed = m.obj[z].shadowed
    BY <1>4, <1>6
  <2>5. \A z \in Obj : m.obj[z].kind = "free" => c[z] = m.obj[z] /\ Plus(u, o)[z] = 0
    BY <1>6, <1>9 DEF Objects, Live
  <2>6. Plus(u, o)[o] # 0
    BY <1>9
  <2>7. \A z \in Obj : m.obj[z].kind # "free" => (Plus(u, o)[z] # 0 \/ Shadowers(m.obj, z) # {})
    BY <1>9, <2>6 DEF Objects, Live
  <2> QED BY <2>3, <2>4, <2>5, <2>7 DEF KeepsChains
<1>12. Objects(c, Plus(u, o))
  BY <1>6, <1>11, SameChains
<1>13. Ptes(x)
  <2>1. \A t : Leads(m.obj, t) => Leads(c, t)
    BY <1>4, <1>6 DEF Leads
  <2> QED BY <1>8, <2>1 DEF Ptes
<1>14. Frees(m, x)
  BY <1>4, <1>6, <1>8 DEF Frees
<1>15. SameObjs(m, x)
  BY <1>4, <1>6, <1>8 DEF SameObjs
<1> QED BY <1>8, <1>12, <1>13, <1>14, <1>15

LEMMA ListParts ==
  ASSUME NEW l \in Lists
  PROVE  Len(l) \in Nat /\ DOMAIN l = 1 .. Len(l)
         /\ \A k \in DOMAIN l : l[k] \in AreaRec /\ l[k].obj \in Obj
<1>1. Len(l) \in Nat /\ DOMAIN l = 1 .. Len(l) /\ \A k \in DOMAIN l : l[k] \in AreaRec
  BY LenProperties DEF Lists
<1> QED BY <1>1 DEF AreaRec

\* v[k] counts the users after round k.
Counted(v, areas, left) == \A k \in 1 .. Len(areas) :
  LET o == areas[k].obj IN
  /\ left[k] \in {0, 1, 2}
  /\ left[k] = 0 => v[k - 1] = Plus(v[k], o)
  /\ left[k] = 1 => v[k] = v[k - 1]
  /\ left[k] = 2 => v[k] = Plus(v[k - 1], o) /\ v[k - 1][o] > 0

Walking(m, v, k, y) == y \in State /\ Ptes(y) /\ Frees(m, y) /\ Objects(y.obj, v[k])

LEMMA WalkStep ==
  ASSUME NEW m \in State, Ptes(m), NEW areas \in Lists, NEW left,
         NEW v \in [0 .. Len(areas) -> [Obj -> Nat]], Counted(v, areas, left), Objects(m.obj, v[0]),
         NEW x, x = Walked(m, areas, left)
  PROVE  x \in State /\ Ptes(x) /\ Frees(m, x) /\ Objects(x.obj, v[Len(areas)])
<1> DEFINE n == Len(areas)
           S == {k \in 0 .. n : TRUE}
<1>1. n \in Nat /\ DOMAIN areas = 1 .. n /\ \A k \in 1 .. n : areas[k].obj \in Obj
  BY ListParts
<1>2. PICK a : Ran("walk", [areas |-> areas, left |-> left], m, a, n) /\ x = a[n]
  BY <1>1, WalkedRan
<1>3. a[0] = m /\ \A k \in 1 .. n : a[k] = CASE left[k] = 0 -> put(a[k - 1], areas[k].obj)
                                             [] left[k] = 1 -> a[k - 1]
                                             [] left[k] = 2 -> ref(a[k - 1], areas[k].obj)
  BY <1>2 DEF Ran, Turn
<1> DEFINE T == {k \in 0 .. n : Walking(m, v, k, a[k])}
<1>4. Closed(T, n)
  <2>1. 0 \in T
    BY <1>1, <1>3, FreesRefl DEF Walking
  <2>2. ASSUME NEW j \in 0 .. n - 1, j \in T PROVE j + 1 \in T
    <3>1. PICK k : k = j + 1
      OBVIOUS
    <3>2. k \in 1 .. n /\ k - 1 = j /\ k \in 0 .. n
      BY <1>1, <3>1
    <3>3. PICK y, z, o : y = a[j] /\ z = a[k] /\ o = areas[k].obj
      OBVIOUS
    <3>4. y \in State /\ Ptes(y) /\ Frees(m, y) /\ Objects(y.obj, v[j]) /\ o \in Obj
          /\ v[j] \in [Obj -> Nat] /\ v[k] \in [Obj -> Nat]
      BY <1>1, <2>2, <3>2, <3>3 DEF Walking
    <3>5. /\ left[k] \in {0, 1, 2}
          /\ left[k] = 0 => v[j] = Plus(v[k], o)
          /\ left[k] = 1 => v[k] = v[j]
          /\ left[k] = 2 => v[k] = Plus(v[j], o) /\ v[j][o] > 0
      BY <3>2, <3>3 DEF Counted
    <3>6. CASE left[k] = 0
      <4>1. z = put(y, o)
        BY <1>3, <3>2, <3>3, <3>6
      <4>2. Objects(y.obj, Plus(v[k], o))
        BY <3>4, <3>5, <3>6
      <4>3. z \in State /\ Ptes(z) /\ Frees(y, z) /\ Objects(z.obj, v[k])
        BY <3>4, <4>1, <4>2, PutStep
      <4>4. Walking(m, v, k, z)
        BY <3>4, <4>3, FreesTrans DEF Walking
      <4> QED BY <3>1, <3>2, <3>3, <4>4
    <3>7. CASE left[k] = 1
      <4>1. z = y
        BY <1>3, <3>2, <3>3, <3>7
      <4>2. Walking(m, v, k, z)
        BY <3>4, <3>5, <3>7, <4>1 DEF Walking
      <4> QED BY <3>1, <3>2, <3>3, <4>2
    <3>8. CASE left[k] = 2
      <4>1. z = ref(y, o)
        BY <1>3, <3>2, <3>3, <3>8
      <4>2. y.obj[o].kind # "free"
        BY <3>4, <3>5, <3>8 DEF Objects, Live
      <4>3. z \in State /\ Ptes(z) /\ Frees(y, z) /\ Objects(z.obj, v[k])
        BY <3>4, <3>5, <3>8, <4>1, <4>2, RefStep
      <4>4. Walking(m, v, k, z)
        BY <3>4, <4>3, FreesTrans DEF Walking
      <4> QED BY <3>1, <3>2, <3>3, <4>4
    <3> QED BY <3>5, <3>6, <3>7, <3>8
  <2> HIDE DEF T
  <2> QED BY <2>1, <2>2 DEF Closed
<1>5. n \in T
  <2> HIDE DEF T
  <2> QED BY <1>1, <1>4, Reached
<1> QED BY <1>2, <1>5 DEF Walking

Suffix(l, k) == SubSeq(l, k + 1, Len(l))

LEMMA SuffixCounts ==
  ASSUME NEW l \in Lists
  PROVE  /\ \A k \in 0 .. Len(l) : Suffix(l, k) \in Lists /\ In(Suffix(l, k)) \in [Obj -> Nat]
         /\ In(Suffix(l, 0)) = In(l) /\ \A o \in Obj : In(Suffix(l, Len(l)))[o] = 0
         /\ \A k \in 1 .. Len(l), o \in Obj : In(Suffix(l, k - 1))[o]
              = In(Suffix(l, k))[o] + (IF o = l[k].obj THEN 1 ELSE 0)
<1>1. Len(l) \in Nat /\ DOMAIN l = 1 .. Len(l) /\ \A k \in DOMAIN l : l[k] \in AreaRec
  BY ListParts
<1>2. ASSUME NEW k \in 0 .. Len(l) PROVE Suffix(l, k) \in Lists
  <2>1. k + 1 \in Int /\ Len(l) \in Int /\ \A i \in k + 1 .. Len(l) : l[i] \in AreaRec
    BY <1>1
  <2>2. SubSeq(l, k + 1, Len(l)) \in Seq(AreaRec)
    <3>1. PICK j, n : j = k + 1 /\ n = Len(l)
      OBVIOUS
    <3>2. SubSeq(l, j, n) \in Seq(AreaRec)
      BY <2>1, <3>1, SubSeqProperties
    <3> QED BY <3>1, <3>2
  <2> QED BY <2>2 DEF Suffix, Lists
<1>3. Suffix(l, 0) = l
  <2>1. SubSeq(l, 1, Len(l)) = l
    BY SubSeqFull DEF Lists
  <2> QED BY <2>1 DEF Suffix
<1>4. Suffix(l, Len(l)) = <<>>
  <2>1. PICK j, n : j = Len(l) + 1 /\ n = Len(l)
    OBVIOUS
  <2>2. j \in Int /\ n \in Int /\ n < j
    BY <1>1, <2>1
  <2>3. SubSeq(l, j, n) = <<>>
    BY <2>2, SubSeqEmpty
  <2> QED BY <2>1, <2>3 DEF Suffix
<1>5. ASSUME NEW k \in 1 .. Len(l), NEW o \in Obj
      PROVE  In(Suffix(l, k - 1))[o] = In(Suffix(l, k))[o] + (IF o = l[k].obj THEN 1 ELSE 0)
  <2>1. SubSeq(l, k, Len(l)) = <<l[k]>> \o SubSeq(l, k + 1, Len(l))
    <3>1. Len(l) \in k .. Len(l)
      BY <1>1
    <3> QED BY <3>1, SubSeqRecursiveFirst DEF Lists
  <2>2. (k - 1) + 1 = k /\ k \in 0 .. Len(l) /\ l[k] \in AreaRec
    BY <1>1
  <2>3. Suffix(l, k - 1) = <<l[k]>> \o Suffix(l, k)
    BY <2>1, <2>2 DEF Suffix
  <2>4. PICK f, t : f = <<l[k]>> /\ t = Suffix(l, k)
    OBVIOUS
  <2>5. f \in Lists /\ t \in Lists /\ In(f)[o] = IF o = l[k].obj THEN 1 ELSE 0
    BY <1>2, <2>2, <2>4, InOne
  <2>6. In(f \o t)[o] = In(f)[o] + In(t)[o]
    BY <2>5, InConcat
  <2>7. In(f)[o] \in Nat /\ In(t)[o] \in Nat
    BY <2>5, InType
  <2>8. In(Suffix(l, k - 1))[o] = In(f \o t)[o]
    BY <2>3, <2>4
  <2> QED BY <2>4, <2>5, <2>6, <2>7, <2>8
<1>6. \A k \in 0 .. Len(l) : In(Suffix(l, k)) \in [Obj -> Nat]
  BY <1>2, InType
<1>7. \A o \in Obj : In(Suffix(l, Len(l)))[o] = 0
  BY <1>4, InEmpty
<1> QED BY <1>2, <1>3, <1>5, <1>6, <1>7

\* Every area of a list that is given up is put.
LEMMA PutAllStep ==
  ASSUME NEW m \in State, Ptes(m), NEW areas \in Lists, NEW w \in [Obj -> Nat],
         NEW u, u = [o \in Obj |-> w[o] + In(areas)[o]], Objects(m.obj, u), NEW x, x = PutAll(m, areas)
  PROVE  x \in State /\ Ptes(x) /\ Frees(m, x) /\ Objects(x.obj, w)
<1> DEFINE n == Len(areas)
<1>1. PICK left : left = [k \in DOMAIN areas |-> 0]
  OBVIOUS
<1>2. PICK v : v = [k \in 0 .. n |-> [o \in Obj |-> w[o] + In(Suffix(areas, k))[o]]]
  OBVIOUS
<1>3. n \in Nat /\ DOMAIN areas = 1 .. n /\ \A k \in 1 .. n : areas[k].obj \in Obj
  BY ListParts
<1>4. \A k \in 0 .. n : In(Suffix(areas, k)) \in [Obj -> Nat]
  BY SuffixCounts
<1>5. v \in [0 .. n -> [Obj -> Nat]]
  BY <1>2, <1>4
<1>6. Counted(v, areas, left)
  <2> SUFFICES ASSUME NEW k \in 1 .. n PROVE left[k] = 0 /\ v[k - 1] = Plus(v[k], areas[k].obj)
    BY DEF Counted
  <2>1. k \in 0 .. n /\ k - 1 \in 0 .. n /\ left[k] = 0
    BY <1>1, <1>3
  <2>2. \A o \in Obj : v[k - 1][o] = IF o = areas[k].obj THEN v[k][o] + 1 ELSE v[k][o]
    <3> SUFFICES ASSUME NEW o \in Obj PROVE v[k - 1][o] = IF o = areas[k].obj THEN v[k][o] + 1 ELSE v[k][o]
      OBVIOUS
    <3>1. v[k - 1][o] = w[o] + In(Suffix(areas, k - 1))[o] /\ v[k][o] = w[o] + In(Suffix(areas, k))[o]
      BY <1>2, <2>1
    <3>2. In(Suffix(areas, k - 1))[o] = In(Suffix(areas, k))[o] + (IF o = areas[k].obj THEN 1 ELSE 0)
      BY SuffixCounts
    <3>3. In(Suffix(areas, k))[o] \in Nat /\ w[o] \in Nat
      BY <1>4, <2>1
    <3> QED BY <3>1, <3>2, <3>3
  <2>3. v[k - 1] \in [Obj -> Nat]
    BY <1>5, <2>1
  <2>4. v[k - 1] = Plus(v[k], areas[k].obj)
    BY <2>2, <2>3 DEF Plus
  <2> QED BY <2>1, <2>4
<1>7. v[0] = u /\ v[n] = w
  <2>1. 0 \in 0 .. n /\ n \in 0 .. n
    BY <1>3
  <2>2. v[0] = u
    BY <1>2, <2>1, SuffixCounts
  <2>3. \A o \in Obj : v[n][o] = w[o]
    BY <1>2, <2>1, SuffixCounts
  <2>4. v[n] \in [Obj -> Nat]
    BY <1>5, <2>1
  <2>5. v[n] = w
    BY <2>3, <2>4
  <2> QED BY <2>2, <2>5
<1>8. x = Walked(m, areas, left)
  BY <1>1 DEF PutAll
<1> QED BY <1>5, <1>6, <1>7, <1>8, WalkStep

-----------------------------------------------------------------------------
(* Lists of areas.                                                         *)

Ordered(l) == \A j, k \in DOMAIN l : j < k => l[j].end <= l[k].start
Outside(e, lo, hi) == e.end <= lo \/ hi <= e.start
Covers(e, i) == e.start <= i /\ i < e.end

\* e is what is left of a, and has the same pages of the object.
IsPart(e, a) ==
  /\ e.obj = a.obj /\ e.shared = a.shared /\ e.prot = a.prot /\ a.start <= e.start /\ e.end <= a.end
  /\ e.off - e.start = a.off - a.start /\ (e = a \/ e.start < e.end)

LEMMA AreaParts ==
  ASSUME NEW a \in AreaRec
  PROVE  a.start \in LOW .. HIGH /\ a.end \in LOW .. HIGH /\ a.off \in Nat /\ a.shared \in BOOLEAN
         /\ a.prot \in Prots /\ a.obj \in Obj /\ a.start \in Int /\ a.end \in Int
BY Constants DEF AreaRec

LEMMA ConcatParts ==
  ASSUME NEW l \in Lists, NEW r \in Lists, NEW t, t = l \o r
  PROVE  /\ t \in Lists /\ Len(t) = Len(l) + Len(r)
         /\ \A k \in DOMAIN t : \/ k \in DOMAIN l /\ t[k] = l[k]
                                \/ k - Len(l) \in DOMAIN r /\ t[k] = r[k - Len(l)] /\ k > Len(l)
         /\ \A k \in DOMAIN l : k \in DOMAIN t /\ t[k] = l[k]
         /\ \A k \in DOMAIN r : k + Len(l) \in DOMAIN t /\ t[k + Len(l)] = r[k]
<1>1. \A w \in Lists : Len(w) \in Nat /\ DOMAIN w = 1 .. Len(w)
  BY ListParts
<1>2. t \in Lists /\ Len(t) = Len(l) + Len(r)
      /\ \A k \in 1 .. Len(l) + Len(r) : t[k] = IF k <= Len(l) THEN l[k] ELSE r[k - Len(l)]
  BY ConcatProperties DEF Lists
<1> QED BY <1>1, <1>2

LEMMA ConcatOrdered ==
  ASSUME NEW l \in Lists, NEW r \in Lists, NEW t, t = l \o r, Ordered(l), Ordered(r),
         \A j \in DOMAIN l, k \in DOMAIN r : l[j].end <= r[k].start
  PROVE  Ordered(t)
<1>1. \A w \in Lists : Len(w) \in Nat /\ DOMAIN w = 1 .. Len(w)
  BY ListParts
<1>2. t \in Lists /\ Len(t) = Len(l) + Len(r)
  BY ConcatParts
<1>3. \A k \in DOMAIN t : \/ k \in DOMAIN l /\ t[k] = l[k]
                          \/ k - Len(l) \in DOMAIN r /\ t[k] = r[k - Len(l)] /\ k > Len(l)
  BY ConcatParts
<1> SUFFICES ASSUME NEW j \in DOMAIN t, NEW k \in DOMAIN t, j < k PROVE t[j].end <= t[k].start
  BY DEF Ordered
<1>4. CASE k \in DOMAIN l /\ t[k] = l[k]
  <2>1. j \in DOMAIN l /\ t[j] = l[j]
    BY <1>1, <1>2, <1>3, <1>4
  <2> QED BY <1>4, <2>1 DEF Ordered
<1>5. CASE k - Len(l) \in DOMAIN r /\ t[k] = r[k - Len(l)] /\ j \in DOMAIN l /\ t[j] = l[j]
  BY <1>5
<1>6. CASE /\ k - Len(l) \in DOMAIN r /\ t[k] = r[k - Len(l)]
           /\ j - Len(l) \in DOMAIN r /\ t[j] = r[j - Len(l)]
  <2>1. j - Len(l) < k - Len(l)
    BY <1>1, <1>2
  <2> QED BY <1>6, <2>1 DEF Ordered
<1> QED BY <1>3, <1>4, <1>5, <1>6

LEMMA OrderedOne == ASSUME NEW a \in AreaRec PROVE Ordered(<<a>>) /\ Ordered(<<>>)
BY DEF Ordered

PieceFacts(P, a, lo, hi) ==
  /\ P \in Lists /\ Len(P) \in {0, 1, 2} /\ Ordered(P)
  /\ \A k \in DOMAIN P : IsPart(P[k], a) /\ Outside(P[k], lo, hi)
  /\ \A i \in Int : Covers(a, i) /\ ~(lo <= i /\ i < hi) => \E k \in DOMAIN P : Covers(P[k], i)
  /\ \A o \in Obj : In(P)[o] = IF o = a.obj THEN Len(P) ELSE 0

LEMMA OnePiece ==
  ASSUME NEW a \in AreaRec, NEW e \in AreaRec, IsPart(e, a), NEW lo \in Int, NEW hi \in Int, Outside(e, lo, hi),
         \A i \in Int : Covers(a, i) /\ ~(lo <= i /\ i < hi) => Covers(e, i)
  PROVE  PieceFacts(<<e>>, a, lo, hi)
<1>1. PICK P : P = <<e>>
  OBVIOUS
<1>2. P \in Lists /\ Len(P) = 1 /\ DOMAIN P = {1} /\ P[1] = e
  BY <1>1, InOne
<1>3. Ordered(P)
  BY <1>2 DEF Ordered
<1>4. \A o \in Obj : In(P)[o] = IF o = a.obj THEN 1 ELSE 0
  BY <1>1, InOne DEF IsPart
<1>5. PieceFacts(P, a, lo, hi)
  BY <1>2, <1>3, <1>4 DEF PieceFacts
<1> QED BY <1>1, <1>5

\* What is left below lo, and from hi on.
Low(a, lo)  == [a EXCEPT !.end = lo]
High(a, hi) == [a EXCEPT !.start = hi, !.off = @ + hi - a.start]

LEMMA LowPart ==
  ASSUME NEW a \in AreaRec, NEW lo \in LOW .. HIGH, a.start < lo, lo <= a.end, NEW e, e = Low(a, lo)
  PROVE  /\ e \in AreaRec /\ IsPart(e, a) /\ e.start = a.start /\ e.end = lo
<1>1. e \in AreaRec /\ e.start = a.start /\ e.end = lo /\ e.off = a.off /\ e.obj = a.obj
      /\ e.shared = a.shared /\ e.prot = a.prot
  BY DEF Low, AreaRec
<1> QED BY <1>1, AreaParts DEF IsPart

LEMMA HighPart ==
  ASSUME NEW a \in AreaRec, NEW hi \in LOW .. HIGH, a.start <= hi, hi < a.end, NEW e, e = High(a, hi)
  PROVE  e \in AreaRec /\ IsPart(e, a) /\ e.start = hi /\ e.end = a.end
<1>1. a.off + hi - a.start \in Nat
  BY AreaParts, Constants
<1>2. PICK d : d = a.off + hi - a.start
  OBVIOUS
<1>3. e = [a EXCEPT !.start = hi, !.off = d]
  BY <1>2 DEF High, AreaRec
<1>4. e \in AreaRec /\ e.start = hi /\ e.end = a.end /\ e.off = d /\ e.obj = a.obj
      /\ e.shared = a.shared /\ e.prot = a.prot
  BY <1>1, <1>2, <1>3 DEF AreaRec
<1>5. e.off - e.start = a.off - a.start
  BY <1>2, <1>4, AreaParts, Constants
<1> QED BY <1>4, <1>5, AreaParts, Constants DEF IsPart

LEMMA PiecesStep ==
  ASSUME NEW a \in AreaRec, a.start <= a.end, NEW lo \in LOW .. HIGH, NEW hi \in LOW .. HIGH, lo < hi
  PROVE  PieceFacts(Pieces(a, lo, hi), a, lo, hi)
<1>0. lo \in Int /\ hi \in Int /\ a.start \in Int /\ a.end \in Int
  BY AreaParts, Constants
<1>1. CASE a.start >= hi \/ a.end <= lo
  <2>1. Pieces(a, lo, hi) = <<a>>
    BY <1>1 DEF Pieces
  <2>2. IsPart(a, a) /\ Outside(a, lo, hi)
    BY <1>0, <1>1 DEF IsPart, Outside
  <2>3. PieceFacts(<<a>>, a, lo, hi)
    BY <1>0, <2>2, OnePiece
  <2> QED BY <2>1, <2>3
<1>2. CASE ~(a.start >= hi \/ a.end <= lo)
  <2>1. PICK d, e : d = Low(a, lo) /\ e = High(a, hi)
    OBVIOUS
  <2>2. Pieces(a, lo, hi) = (IF a.start < lo THEN <<d>> ELSE <<>>) \o (IF a.end > hi THEN <<e>> ELSE <<>>)
    BY <1>2, <2>1 DEF Pieces, Low, High
  <2>3. a.start < lo => /\ d \in AreaRec /\ IsPart(d, a) /\ d.start = a.start /\ d.end = lo
                        /\ <<d>> \in Lists
    BY <1>0, <1>2, <2>1, LowPart, InOne
  <2>4. a.end > hi => /\ e \in AreaRec /\ IsPart(e, a) /\ e.start = hi /\ e.end = a.end
                      /\ <<e>> \in Lists
    BY <1>0, <1>2, <2>1, HighPart, InOne
  <2>5. CASE ~(a.start < lo) /\ ~(a.end > hi)
    <3>1. Pieces(a, lo, hi) = <<>>
      <4>1. Pieces(a, lo, hi) = <<>> \o <<>>
        BY <2>2, <2>5
      <4> QED BY <4>1, InEmpty, ConcatEmptySeq DEF Lists
    <3>2. \A i \in Int : Covers(a, i) => lo <= i /\ i < hi
      BY <1>0, <2>5 DEF Covers
    <3>3. PICK P : P = <<>>
      OBVIOUS
    <3>4. P \in Lists /\ Len(P) = 0 /\ DOMAIN P = {} /\ \A o \in Obj : In(P)[o] = 0
      BY <3>3, InEmpty
    <3>5. PieceFacts(P, a, lo, hi)
      BY <3>2, <3>4 DEF PieceFacts, Ordered
    <3> QED BY <3>1, <3>3, <3>5
  <2>6. CASE a.start < lo /\ ~(a.end > hi)
    <3>1. Pieces(a, lo, hi) = <<d>>
      <4>1. Pieces(a, lo, hi) = <<d>> \o <<>>
        BY <2>2, <2>6
      <4> QED BY <2>3, <2>6, <4>1, ConcatEmptySeq DEF Lists
    <3>2. Outside(d, lo, hi) /\ \A i \in Int : Covers(a, i) /\ ~(lo <= i /\ i < hi) => Covers(d, i)
      BY <1>0, <2>3, <2>6 DEF Outside, Covers
    <3>3. PieceFacts(<<d>>, a, lo, hi)
      BY <1>0, <2>3, <2>6, <3>2, OnePiece
    <3> QED BY <3>1, <3>3
  <2>7. CASE ~(a.start < lo) /\ a.end > hi
    <3>1. Pieces(a, lo, hi) = <<e>>
      <4>1. Pieces(a, lo, hi) = <<>> \o <<e>>
        BY <2>2, <2>7
      <4> QED BY <2>4, <2>7, <4>1, ConcatEmptySeq DEF Lists
    <3>2. Outside(e, lo, hi) /\ \A i \in Int : Covers(a, i) /\ ~(lo <= i /\ i < hi) => Covers(e, i)
      BY <1>0, <2>4, <2>7 DEF Outside, Covers
    <3>3. PieceFacts(<<e>>, a, lo, hi)
      BY <1>0, <2>4, <2>7, <3>2, OnePiece
    <3> QED BY <3>1, <3>3
  <2>8. CASE a.start < lo /\ a.end > hi
    <3>1. PICK P, f, g : P = Pieces(a, lo, hi) /\ f = <<d>> /\ g = <<e>>
      OBVIOUS
    <3>2. P = f \o g /\ f \in Lists /\ g \in Lists /\ DOMAIN f = {1} /\ DOMAIN g = {1} /\ f[1] = d /\ g[1] = e
          /\ Len(f) = 1 /\ Len(g) = 1
      BY <2>2, <2>3, <2>4, <2>8, <3>1
    <3>3. P \in Lists /\ Len(P) = 2 /\ DOMAIN P = 1 .. 2 /\ P[1] = d /\ P[2] = e
      <4>0. P = f \o g /\ f \in Lists /\ g \in Lists
        BY <3>2
      <4>1. /\ P \in Lists /\ Len(P) = Len(f) + Len(g)
            /\ \A k \in DOMAIN f : P[k] = f[k]
            /\ \A k \in DOMAIN g : P[k + Len(f)] = g[k]
        <5>1. P \in Lists /\ Len(P) = Len(f) + Len(g)
          BY <4>0, ConcatParts
        <5>2. \A k \in DOMAIN f : P[k] = f[k]
          BY <4>0, ConcatParts
        <5>3. \A k \in DOMAIN g : P[k + Len(f)] = g[k]
          BY <4>0, ConcatParts
        <5> QED BY <5>1, <5>2, <5>3
      <4>2. Len(P) = 2 /\ P[1] = d
        BY <3>2, <4>1
      <4>3. P[2] = e
        <5>1. P[1 + Len(f)] = e /\ 1 + Len(f) = 2
          BY <3>2, <4>1
        <5> QED BY <5>1
      <4>4. DOMAIN P = 1 .. 2
        BY <4>1, <4>2, ListParts
      <4> QED BY <4>1, <4>2, <4>3, <4>4
    <3>4. Ordered(P)
      <4>1. d.end <= e.start
        BY <1>0, <2>3, <2>4, <2>8
      <4> QED BY <3>3, <4>1 DEF Ordered
    <3>5. Outside(d, lo, hi) /\ Outside(e, lo, hi)
          /\ \A i \in Int : Covers(a, i) /\ ~(lo <= i /\ i < hi) => (Covers(d, i) \/ Covers(e, i))
      BY <1>0, <2>3, <2>4, <2>8 DEF Outside, Covers
    <3>6. \A o \in Obj : In(P)[o] = IF o = a.obj THEN 2 ELSE 0
      <4> SUFFICES ASSUME NEW o \in Obj PROVE In(P)[o] = IF o = a.obj THEN 2 ELSE 0
        OBVIOUS
      <4>1. In(f)[o] = (IF o = a.obj THEN 1 ELSE 0) /\ In(g)[o] = (IF o = a.obj THEN 1 ELSE 0)
        BY <2>3, <2>4, <2>8, <3>1, InOne DEF IsPart
      <4>2. In(P)[o] = In(f)[o] + In(g)[o]
        <5>1. In(f \o g)[o] = In(f)[o] + In(g)[o]
          BY <3>2, InConcat
        <5> QED BY <3>2, <5>1
      <4> QED BY <4>1, <4>2
    <3>7. \A k \in DOMAIN P : IsPart(P[k], a) /\ Outside(P[k], lo, hi)
      BY <2>3, <2>4, <2>8, <3>3, <3>5
    <3>8. \A i \in Int : Covers(a, i) /\ ~(lo <= i /\ i < hi) => \E k \in DOMAIN P : Covers(P[k], i)
      BY <3>3, <3>5
    <3>9. PieceFacts(P, a, lo, hi)
      BY <3>3, <3>4, <3>6, <3>7, <3>8 DEF PieceFacts
    <3> QED BY <3>1, <3>9
  <2> QED BY <2>5, <2>6, <2>7, <2>8
<1> QED BY <1>1, <1>2

\* What is left of the first k areas of l.
Left(R, l, k, lo, hi) ==
  /\ R \in Lists /\ Ordered(R)
  /\ \A e \in DOMAIN R : Outside(R[e], lo, hi) /\ \E j \in 1 .. k : IsPart(R[e], l[j])
  /\ \A j \in 1 .. k, i \in Int : Covers(l[j], i) /\ ~(lo <= i /\ i < hi) =>
       \E e \in DOMAIN R : Covers(R[e], i) /\ IsPart(R[e], l[j])

WellFormed(l) == l \in Lists /\ Ordered(l) /\ \A k \in DOMAIN l : l[k].start <= l[k].end

IsConcat(t, l, r) == t = l \o r

LEMMA LeftOne ==
  ASSUME NEW l, WellFormed(l), NEW lo \in LOW .. HIGH, NEW hi \in LOW .. HIGH, lo < hi,
         NEW k \in 1 .. Len(l), NEW R, Left(R, l, k - 1, lo, hi),
         NEW t, IsConcat(t, R, Pieces(l[k], lo, hi))
  PROVE  /\ Left(t, l, k, lo, hi) /\ Len(Pieces(l[k], lo, hi)) \in {0, 1, 2}
         /\ \A o \in Obj : In(t)[o] = In(R)[o]
              + (IF o = l[k].obj THEN Len(Pieces(l[k], lo, hi)) ELSE 0)
<1>1. PICK P, a : P = Pieces(a, lo, hi) /\ a = l[k]
  OBVIOUS
<1>2. /\ l \in Lists /\ Ordered(l) /\ DOMAIN l = 1 .. Len(l) /\ Len(l) \in Nat
      /\ \A j \in DOMAIN l : l[j] \in AreaRec /\ l[j].start <= l[j].end
  BY ListParts DEF WellFormed
<1>3. a \in AreaRec /\ a.start <= a.end /\ k \in DOMAIN l
  BY <1>1, <1>2
<1>4. PieceFacts(P, a, lo, hi)
  BY <1>1, <1>3, PiecesStep
<1>5. P \in Lists /\ Len(P) \in {0, 1, 2} /\ Ordered(P)
      /\ \A j \in DOMAIN P : IsPart(P[j], a) /\ Outside(P[j], lo, hi)
  BY <1>4 DEF PieceFacts
<1>6. R \in Lists /\ Ordered(R) /\ \A e \in DOMAIN R : Outside(R[e], lo, hi) /\ \E j \in 1 .. k - 1 : IsPart(R[e], l[j])
  BY DEF Left
<1>7. t = R \o P /\ R \in Lists /\ P \in Lists
  BY <1>1, <1>5, <1>6 DEF IsConcat
<1>8. \A j \in DOMAIN t : \/ j \in DOMAIN R /\ t[j] = R[j]
                          \/ j - Len(R) \in DOMAIN P /\ t[j] = P[j - Len(R)] /\ j > Len(R)
  BY <1>7, ConcatParts
<1>9. t \in Lists /\ Len(t) = Len(R) + Len(P)
  BY <1>7, ConcatParts
<1>10. \A j \in DOMAIN R : j \in DOMAIN t /\ t[j] = R[j]
  BY <1>7, ConcatParts
<1>11. \A j \in DOMAIN P : j + Len(R) \in DOMAIN t /\ t[j + Len(R)] = P[j]
  BY <1>7, ConcatParts
<1>12. ASSUME NEW i \in DOMAIN R, NEW j \in DOMAIN P PROVE R[i].end <= P[j].start
  <2>1. PICK h \in 1 .. k - 1 : IsPart(R[i], l[h])
    BY <1>6
  <2>2. l[h].end <= a.start
    <3>1. h \in DOMAIN l /\ h < k
      BY <1>2
    <3> QED BY <1>1, <1>2, <1>3, <3>1 DEF Ordered
  <2>3. R[i].end <= l[h].end /\ a.start <= P[j].start
    BY <1>5, <2>1 DEF IsPart
  <2>4. R[i] \in AreaRec /\ P[j] \in AreaRec /\ l[h] \in AreaRec
    BY <1>2, <1>5, <1>6, ListParts
  <2>5. R[i].end \in Int /\ P[j].start \in Int /\ l[h].end \in Int /\ a.start \in Int
    BY <1>3, <2>4, AreaParts
  <2> QED BY <2>2, <2>3, <2>5
<1>13. Ordered(t)
  BY <1>5, <1>6, <1>7, <1>12, ConcatOrdered
<1>14. ASSUME NEW e \in DOMAIN t PROVE Outside(t[e], lo, hi) /\ \E j \in 1 .. k : IsPart(t[e], l[j])
  <2>1. CASE e \in DOMAIN R /\ t[e] = R[e]
    BY <1>2, <1>6, <2>1
  <2>2. CASE e - Len(R) \in DOMAIN P /\ t[e] = P[e - Len(R)]
    <3>1. k \in 1 .. k
      BY <1>2
    <3> QED BY <1>1, <1>5, <2>2, <3>1
  <2> QED BY <1>8, <2>1, <2>2
<1>15. ASSUME NEW j \in 1 .. k, NEW i \in Int, Covers(l[j], i), ~(lo <= i /\ i < hi)
       PROVE  \E e \in DOMAIN t : Covers(t[e], i) /\ IsPart(t[e], l[j])
  <2>1. CASE j = k
    <3>1. PICK h \in DOMAIN P : Covers(P[h], i)
      BY <1>1, <1>4, <1>15, <2>1 DEF PieceFacts
    <3> QED BY <1>1, <1>5, <1>11, <2>1, <3>1
  <2>2. CASE j # k
    <3>1. j \in 1 .. k - 1
      BY <1>2, <2>2
    <3>2. PICK e \in DOMAIN R : Covers(R[e], i) /\ IsPart(R[e], l[j])
      BY <1>15, <3>1 DEF Left
    <3> QED BY <1>10, <3>2
  <2> QED BY <2>1, <2>2
<1>16. \A o \in Obj : In(t)[o] = In(R)[o] + (IF o = a.obj THEN Len(P) ELSE 0)
  <2>1. \A o \in Obj : In(t)[o] = In(R)[o] + In(P)[o]
    BY <1>5, <1>6, <1>7, InConcat
  <2> QED BY <1>4, <2>1 DEF PieceFacts
<1>17. Left(t, l, k, lo, hi)
  BY <1>9, <1>13, <1>14, <1>15 DEF Left
<1> QED BY <1>1, <1>5, <1>16, <1>17

LEMMA RemainingStep ==
  ASSUME NEW l, WellFormed(l), NEW lo \in LOW .. HIGH, NEW hi \in LOW .. HIGH, lo < hi
  PROVE  \E R : /\ R[Len(l)] = Remaining(l, lo, hi) /\ R[0] = <<>>
                /\ \A k \in 0 .. Len(l) : Left(R[k], l, k, lo, hi)
                /\ \A k \in 1 .. Len(l) : Len(Pieces(l[k], lo, hi)) \in {0, 1, 2}
                /\ \A k \in 1 .. Len(l), o \in Obj : In(R[k])[o] = In(R[k - 1])[o]
                     + (IF o = l[k].obj THEN Len(Pieces(l[k], lo, hi)) ELSE 0)
<1> DEFINE n == Len(l)
<1>1. n \in Nat /\ l \in Lists
  BY ListParts DEF WellFormed
<1>2. PICK R : /\ Ran("pieces", [areas |-> l, lo |-> lo, hi |-> hi], <<>>, R, n)
               /\ Remaining(l, lo, hi) = R[n]
  BY <1>1, RemainingRan
<1>3. R[0] = <<>> /\ \A k \in 1 .. n : R[k] = R[k - 1] \o Pieces(l[k], lo, hi)
  BY <1>2 DEF Ran, Turn
<1>4. Left(R[0], l, 0, lo, hi)
  <2>1. PICK t : t = R[0]
    OBVIOUS
  <2>2. t \in Lists /\ DOMAIN t = {}
    BY <1>3, <2>1, InEmpty
  <2> QED BY <2>1, <2>2 DEF Left, Ordered
<1> DEFINE T == {k \in 0 .. n : Left(R[k], l, k, lo, hi)}
<1>5. ASSUME NEW k \in 1 .. n, Left(R[k - 1], l, k - 1, lo, hi)
      PROVE  /\ Left(R[k], l, k, lo, hi) /\ Len(Pieces(l[k], lo, hi)) \in {0, 1, 2}
             /\ \A o \in Obj : In(R[k])[o] = In(R[k - 1])[o]
                  + (IF o = l[k].obj THEN Len(Pieces(l[k], lo, hi)) ELSE 0)
  <2>1. PICK r, t : r = R[k - 1] /\ t = R[k]
    OBVIOUS
  <2>2. IsConcat(t, r, Pieces(l[k], lo, hi)) /\ Left(r, l, k - 1, lo, hi)
    BY <1>3, <1>5, <2>1 DEF IsConcat
  <2>3. /\ Left(t, l, k, lo, hi) /\ Len(Pieces(l[k], lo, hi)) \in {0, 1, 2}
        /\ \A o \in Obj : In(t)[o] = In(r)[o] + (IF o = l[k].obj THEN Len(Pieces(l[k], lo, hi)) ELSE 0)
    <3>1. Left(t, l, k, lo, hi)
      BY <2>2, LeftOne
    <3>2. Len(Pieces(l[k], lo, hi)) \in {0, 1, 2}
      BY <2>2, LeftOne
    <3>3. ASSUME NEW o \in Obj
          PROVE  In(t)[o] = In(r)[o] + (IF o = l[k].obj THEN Len(Pieces(l[k], lo, hi)) ELSE 0)
      BY <2>2, LeftOne
    <3> QED BY <3>1, <3>2, <3>3
  <2> QED BY <2>1, <2>3
<1>6. Closed(T, n)
  <2>1. 0 \in T
    BY <1>1, <1>4
  <2>2. ASSUME NEW j \in 0 .. n - 1, j \in T PROVE j + 1 \in T
    <3>1. j + 1 \in 1 .. n /\ (j + 1) - 1 = j /\ j + 1 \in 0 .. n
      BY <1>1
    <3>2. Left(R[j + 1], l, j + 1, lo, hi)
      BY <1>5, <2>2, <3>1
    <3> QED BY <3>1, <3>2
  <2> HIDE DEF T
  <2> QED BY <2>1, <2>2 DEF Closed
<1>7. \A k \in 0 .. n : Left(R[k], l, k, lo, hi)
  <2>1. \A k \in 0 .. n : k \in T
    <3> HIDE DEF T
    <3> QED BY <1>1, <1>6, Reached
  <2> QED BY <2>1
<1>8. \A k \in 1 .. n : k - 1 \in 0 .. n
  BY <1>1
<1>9. \A k \in 1 .. n : Left(R[k - 1], l, k - 1, lo, hi)
  BY <1>7, <1>8
<1>10. \A k \in 1 .. n : Len(Pieces(l[k], lo, hi)) \in {0, 1, 2}
  BY <1>5, <1>9
<1>11. \A k \in 1 .. n, o \in Obj : In(R[k])[o] = In(R[k - 1])[o]
                     + (IF o = l[k].obj THEN Len(Pieces(l[k], lo, hi)) ELSE 0)
  BY <1>5, <1>9
<1> QED BY <1>2, <1>3, <1>7, <1>10, <1>11

-----------------------------------------------------------------------------
(* vmmap_remove.                                                           *)

AreasNow(x, m, p, l) == x = [m EXCEPT !.areas[p] = l]

LEMMA WithAreas ==
  ASSUME NEW m \in State, NEW p \in Proc, NEW l \in Lists, NEW x, AreasNow(x, m, p, l)
  PROVE  /\ x \in State /\ x.areas = [m.areas EXCEPT ![p] = l] /\ x.obj = m.obj /\ x.pte = m.pte
         /\ x.heap = m.heap /\ x.crash = m.crash
BY DEF State, Lists, AreasNow

\* Frees, whatever became of the areas.
Loses(m, x) ==
  /\ x.heap = m.heap /\ x.crash = m.crash
  /\ \A o \in Obj : x.obj[o].kind = "free" \/
       (x.obj[o].kind = m.obj[o].kind /\ x.obj[o].shadowed = m.obj[o].shadowed
        /\ x.obj[o].page = m.obj[o].page)
  /\ \A o \in Obj : m.obj[o].kind = "free" => x.obj[o].kind = "free"
  /\ \A p \in Proc, i \in Page : \/ x.pte[p][i] = m.pte[p][i]
                                 \/ x.pte[p][i] = NoPte
                                 \/ /\ x.pte[p][i] = Dangling /\ m.pte[p][i].o \in Obj
                                    /\ x.obj[m.pte[p][i].o].kind = "free"

LEMMA FreesLoses ==
  ASSUME NEW m, NEW y, Frees(m, y), NEW x, x.obj = y.obj, x.pte = y.pte, x.heap = y.heap, x.crash = y.crash
  PROVE  Loses(m, x)
BY DEF Frees, Loses

LEMMA RemoveStep ==
  ASSUME NEW m \in State, Ptes(m), Objects(m.obj, U(m.areas)), NEW p \in Proc, WellFormed(m.areas[p]),
         NEW lo \in LOW .. HIGH, NEW hi \in LOW .. HIGH, lo < hi, NEW x, x = vmmap_remove(m, p, lo, hi)
  PROVE  /\ x \in State /\ Ptes(x) /\ Loses(m, x) /\ Objects(x.obj, U(x.areas))
         /\ Left(x.areas[p], m.areas[p], Len(m.areas[p]), lo, hi)
         /\ \A q \in Proc : q # p => x.areas[q] = m.areas[q]
<1>1. PICK l : l = m.areas[p]
  OBVIOUS
<1> DEFINE n == Len(l)
<1>2. WellFormed(l) /\ l \in Lists /\ n \in Nat /\ DOMAIN l = 1 .. n /\ m.areas \in [Proc -> Lists]
  BY <1>1, ListParts, StateParts DEF WellFormed, Lists
<1>3. PICK R : /\ R[n] = Remaining(l, lo, hi) /\ R[0] = <<>>
               /\ \A k \in 0 .. n : Left(R[k], l, k, lo, hi)
               /\ \A k \in 1 .. n : Len(Pieces(l[k], lo, hi)) \in {0, 1, 2}
               /\ \A k \in 1 .. n, o \in Obj : In(R[k])[o] = In(R[k - 1])[o]
                    + (IF o = l[k].obj THEN Len(Pieces(l[k], lo, hi)) ELSE 0)
  BY <1>2, RemainingStep
<1>4. \A k \in 0 .. n : R[k] \in Lists /\ In(R[k]) \in [Obj -> Nat] /\ In(Suffix(l, k)) \in [Obj -> Nat]
  BY <1>2, <1>3, InType, SuffixCounts DEF Left
<1>5. PICK none : none = [m.areas EXCEPT ![p] = <<>>]
  OBVIOUS
<1>6. none \in [Proc -> Lists] /\ U(none) \in [Obj -> Nat] /\ U(m.areas) \in [Obj -> Nat]
      /\ \A o \in Obj : U(none)[o] = U(m.areas)[o] - In(l)[o]
  <2>1. none \in [Proc -> Lists] /\ \A o \in Obj : U(none)[o] = U(m.areas)[o] - In(l)[o] + In(<<>>)[o]
    BY <1>1, <1>2, <1>5, UReplaced, InEmpty
  <2>2. U(none) \in [Obj -> Nat] /\ U(m.areas) \in [Obj -> Nat] /\ In(l) \in [Obj -> Nat]
    BY <1>2, <2>1, UType, InType
  <2>3. ASSUME NEW o \in Obj PROVE U(none)[o] = U(m.areas)[o] - In(l)[o]
    <3>1. U(none)[o] = U(m.areas)[o] - In(l)[o] + 0
      BY <2>1, InEmpty
    <3>2. U(m.areas)[o] \in Nat /\ In(l)[o] \in Nat
      BY <2>2
    <3> QED BY <3>1, <3>2
  <2> QED BY <2>1, <2>2, <2>3
<1>7. PICK v : v = [k \in 0 .. n |-> [o \in Obj |-> U(none)[o] + In(R[k])[o] + In(Suffix(l, k))[o]]]
  OBVIOUS
<1>8. PICK left : left = [k \in DOMAIN l |-> Len(Pieces(l[k], lo, hi))]
  OBVIOUS
<1>9. v \in [0 .. n -> [Obj -> Nat]]
  BY <1>4, <1>6, <1>7
<1>10. Counted(v, l, left)
  <2> SUFFICES ASSUME NEW k \in 1 .. n
               PROVE  /\ left[k] \in {0, 1, 2}
                      /\ left[k] = 0 => v[k - 1] = Plus(v[k], l[k].obj)
                      /\ left[k] = 1 => v[k] = v[k - 1]
                      /\ left[k] = 2 => v[k] = Plus(v[k - 1], l[k].obj) /\ v[k - 1][l[k].obj] > 0
    BY DEF Counted
  <2>1. k \in 0 .. n /\ k - 1 \in 0 .. n /\ left[k] = Len(Pieces(l[k], lo, hi)) /\ left[k] \in {0, 1, 2}
        /\ l[k].obj \in Obj
    BY <1>2, <1>3, <1>8, ListParts
  <2>2. ASSUME NEW o \in Obj
        PROVE  /\ v[k][o] \in Nat /\ v[k - 1][o] \in Nat
               /\ v[k][o] = v[k - 1][o] + (IF o = l[k].obj THEN left[k] - 1 ELSE 0)
               /\ o = l[k].obj => v[k - 1][o] > 0
    <3>1. v[k][o] = U(none)[o] + In(R[k])[o] + In(Suffix(l, k))[o]
      BY <1>7, <2>1
    <3>2. v[k - 1][o] = U(none)[o] + In(R[k - 1])[o] + In(Suffix(l, k - 1))[o]
      BY <1>7, <2>1
    <3>3. In(Suffix(l, k - 1))[o] = In(Suffix(l, k))[o] + (IF o = l[k].obj THEN 1 ELSE 0)
      BY <1>2, SuffixCounts
    <3>4. In(R[k])[o] = In(R[k - 1])[o] + (IF o = l[k].obj THEN left[k] ELSE 0)
      BY <1>3, <2>1
    <3>5. U(none)[o] \in Nat /\ In(R[k])[o] \in Nat /\ In(R[k - 1])[o] \in Nat /\ In(Suffix(l, k))[o] \in Nat
          /\ In(Suffix(l, k - 1))[o] \in Nat
      BY <1>4, <1>6, <2>1
    <3>6. PICK a, b, c, d, e : a = U(none)[o] /\ b = In(R[k])[o] /\ c = In(R[k - 1])[o]
                               /\ d = In(Suffix(l, k))[o] /\ e = In(Suffix(l, k - 1))[o]
      OBVIOUS
    <3>7. a \in Nat /\ b \in Nat /\ c \in Nat /\ d \in Nat /\ e \in Nat
          /\ v[k][o] = a + b + d /\ v[k - 1][o] = a + c + e
      BY <3>1, <3>2, <3>5, <3>6
    <3>8. CASE o = l[k].obj
      <4>1. b = c + left[k] /\ e = d + 1
        BY <3>3, <3>4, <3>6, <3>8
      <4> QED BY <2>1, <3>7, <3>8, <4>1
    <3>9. CASE o # l[k].obj
      <4>1. b = c + 0 /\ e = d + 0
        BY <3>3, <3>4, <3>6, <3>9
      <4>2. v[k][o] = v[k - 1][o] /\ v[k][o] \in Nat
        BY <3>7, <4>1
      <4> QED BY <3>9, <4>2
    <3> QED BY <3>8, <3>9
  <2>3. v[k] \in [Obj -> Nat] /\ v[k - 1] \in [Obj -> Nat]
    BY <1>9, <2>1
  <2>4. left[k] = 0 => v[k - 1] = Plus(v[k], l[k].obj)
    <3> SUFFICES ASSUME left[k] = 0 PROVE v[k - 1] = Plus(v[k], l[k].obj)
      OBVIOUS
    <3>1. \A o \in Obj : v[k - 1][o] = IF o = l[k].obj THEN v[k][o] + 1 ELSE v[k][o]
      BY <2>2
    <3> QED BY <2>3, <3>1 DEF Plus
  <2>5. left[k] = 1 => v[k] = v[k - 1]
    <3> SUFFICES ASSUME left[k] = 1 PROVE v[k] = v[k - 1]
      OBVIOUS
    <3>1. \A o \in Obj : v[k][o] = v[k - 1][o]
      BY <2>2
    <3> QED BY <2>3, <3>1
  <2>6. left[k] = 2 => v[k] = Plus(v[k - 1], l[k].obj)
    <3> SUFFICES ASSUME left[k] = 2 PROVE v[k] = Plus(v[k - 1], l[k].obj)
      OBVIOUS
    <3>1. \A o \in Obj : v[k][o] = IF o = l[k].obj THEN v[k - 1][o] + 1 ELSE v[k - 1][o]
      BY <2>2
    <3> QED BY <2>3, <3>1 DEF Plus
  <2> QED BY <2>1, <2>2, <2>4, <2>5, <2>6
<1>11. v[0] = U(m.areas)
  <2>1. 0 \in 0 .. n
    BY <1>2
  <2>2. \A o \in Obj : v[0][o] = U(m.areas)[o]
    <3> SUFFICES ASSUME NEW o \in Obj PROVE v[0][o] = U(m.areas)[o]
      OBVIOUS
    <3>1. v[0][o] = U(none)[o] + In(<<>>)[o] + In(l)[o]
      BY <1>2, <1>3, <1>7, <2>1, SuffixCounts
    <3>2. In(l) \in [Obj -> Nat]
      BY <1>2, InType
    <3> QED BY <1>6, <3>1, <3>2, InEmpty
  <2>3. v[0] \in [Obj -> Nat]
    BY <1>9, <2>1
  <2> QED BY <1>6, <2>2, <2>3
<1>12. PICK y : y = Walked(m, l, left)
  OBVIOUS
<1>13. y \in State /\ Ptes(y) /\ Frees(m, y) /\ Objects(y.obj, v[n])
  BY <1>2, <1>9, <1>10, <1>11, <1>12, WalkStep
<1>14. PICK r : r = R[n]
  OBVIOUS
<1>15. n \in 0 .. n /\ r \in Lists /\ Left(r, l, n, lo, hi)
  BY <1>2, <1>3, <1>4, <1>14
<1>16. AreasNow(x, y, p, r)
  BY <1>1, <1>3, <1>8, <1>12, <1>14 DEF vmmap_remove, AreasNow
<1>17. /\ x \in State /\ x.areas = [y.areas EXCEPT ![p] = r] /\ x.obj = y.obj /\ x.pte = y.pte
       /\ x.heap = y.heap /\ x.crash = y.crash
  BY <1>13, <1>15, <1>16, WithAreas
<1>18. x.areas = [m.areas EXCEPT ![p] = r]
  BY <1>13, <1>17 DEF Frees
<1>19. /\ x.areas[p] = r /\ \A q \in Proc : q # p => x.areas[q] = m.areas[q]
       /\ \A o \in Obj : U(x.areas)[o] = U(m.areas)[o] - In(l)[o] + In(r)[o]
  BY <1>1, <1>2, <1>15, <1>18, UReplaced
<1>20. v[n] = U(x.areas)
  <2>1. U(x.areas) \in [Obj -> Nat] /\ v[n] \in [Obj -> Nat]
    BY <1>2, <1>9, <1>15, <1>17, <1>18, UType
  <2>2. \A o \in Obj : v[n][o] = U(x.areas)[o]
    <3> SUFFICES ASSUME NEW o \in Obj PROVE v[n][o] = U(x.areas)[o]
      OBVIOUS
    <3>1. v[n][o] = U(none)[o] + In(r)[o] + In(Suffix(l, n))[o]
      BY <1>7, <1>14, <1>15
    <3>2. In(Suffix(l, n))[o] = 0
      BY <1>2, SuffixCounts
    <3>3. U(none)[o] \in Nat /\ In(r)[o] \in Nat /\ U(none)[o] = U(m.areas)[o] - In(l)[o]
      BY <1>6, <1>15, InType
    <3> QED BY <1>19, <3>1, <3>2, <3>3
  <2> QED BY <2>1, <2>2
<1>21. Ptes(x)
  BY <1>13, <1>17 DEF Ptes
<1>22. Loses(m, x)
  BY <1>13, <1>17, FreesLoses
<1> QED BY <1>1, <1>13, <1>15, <1>17, <1>19, <1>20, <1>21, <1>22

-----------------------------------------------------------------------------
(* Looking up, finding room, inserting.                                    *)

LEMMA MinOf ==
  ASSUME NEW T \in SUBSET Nat, T # {}
  PROVE  Min(T) \in T /\ \A k \in T : Min(T) <= k
<1>1. \E n \in T : \A k \in T : n <= k
  BY Least
<1> QED BY <1>1 DEF Min

LEMMA MaxOf ==
  ASSUME NEW n \in Nat, NEW T \in SUBSET (1 .. n), T # {}
  PROVE  Max(T) \in T /\ \A k \in T : Max(T) >= k
<1> DEFINE D == {d \in Nat : n - d \in T}
<1>1. D \in SUBSET Nat
  OBVIOUS
<1>2. \A k \in T : n - k \in D /\ n - (n - k) = k
  OBVIOUS
<1>3. PICK d \in D : \A e \in D : d <= e
  <2>1. D # {}
    BY <1>2
  <2> HIDE DEF D
  <2> QED BY <1>1, <2>1, Least
<1>4. n - d \in T /\ \A k \in T : n - d >= k
  BY <1>2, <1>3
<1>5. \E x \in T : \A k \in T : x >= k
  BY <1>4
<1> QED BY <1>5 DEF Max

LEMMA Lookup ==
  ASSUME NEW m \in State, NEW p \in Proc, NEW i \in Int, WellFormed(m.areas[p]),
         NEW k, k = vmmap_lookup(m, p, i)
  PROVE  /\ k = 0 <=> \A j \in DOMAIN m.areas[p] : ~Covers(m.areas[p][j], i)
         /\ k # 0 => k \in DOMAIN m.areas[p] /\ Covers(m.areas[p][k], i)
         /\ \A j \in DOMAIN m.areas[p] : Covers(m.areas[p][j], i) => k = j
<1>1. PICK l : l = m.areas[p]
  OBVIOUS
<1>2. /\ l \in Lists /\ Ordered(l) /\ DOMAIN l = 1 .. Len(l) /\ Len(l) \in Nat
      /\ \A j \in DOMAIN l : l[j] \in AreaRec
  BY <1>1, ListParts DEF WellFormed
<1> DEFINE K == {j \in DOMAIN l : Covers(l[j], i)}
<1>3. k = IF K = {} THEN 0 ELSE Min(K)
  BY <1>1 DEF vmmap_lookup, Covers
<1>4. K \in SUBSET Nat /\ 0 \notin K
  BY <1>2
<1>5. K # {} => k \in K
  <2> HIDE DEF K
  <2> QED BY <1>3, <1>4, MinOf
<1>6. ASSUME NEW g \in DOMAIN l, NEW h \in DOMAIN l, Covers(l[g], i), Covers(l[h], i), g < h PROVE FALSE
  <2>1. l[g].end <= l[h].start
    BY <1>2, <1>6 DEF Ordered
  <2>2. l[g].end \in Int /\ l[h].start \in Int
    BY <1>2, AreaParts
  <2> QED BY <1>6, <2>1, <2>2 DEF Covers
<1>7. ASSUME NEW j \in DOMAIN l, Covers(l[j], i) PROVE k = j
  <2>1. k \in K /\ k \in DOMAIN l /\ Covers(l[k], i)
    BY <1>5, <1>7
  <2>2. k \in Nat /\ j \in Nat
    BY <1>2, <2>1
  <2> QED BY <1>6, <1>7, <2>1, <2>2
<1> QED BY <1>1, <1>3, <1>4, <1>5, <1>7

LEMMA EndsInOrder ==
  ASSUME NEW l, WellFormed(l), NEW j \in DOMAIN l, NEW k \in DOMAIN l, j < k
  PROVE  l[j].start <= l[k].start /\ l[j].end <= l[k].end
<1>1. l[j].end <= l[k].start /\ l[j].start <= l[j].end /\ l[k].start <= l[k].end
  BY DEF WellFormed, Ordered
<1>2. l[j] \in AreaRec /\ l[k] \in AreaRec
  BY ListParts DEF WellFormed
<1> QED BY <1>1, <1>2, AreaParts

LEMMA FindRange ==
  ASSUME NEW l, WellFormed(l), NEW n \in Nat \ {0}, NEW f, f = vmmap_find_range(l, n)
  PROVE  \/ f = 0 \/ f = -1
         \/ f \in Int /\ LOW <= f /\ f + n <= HIGH /\ vmmap_is_range_empty(l, f, f + n)
<1>1. /\ l \in Lists /\ Ordered(l) /\ DOMAIN l = 1 .. Len(l) /\ Len(l) \in Nat
      /\ \A j \in DOMAIN l : /\ l[j] \in AreaRec /\ l[j].start \in Int /\ l[j].end \in Int
                             /\ LOW <= l[j].start /\ l[j].start <= HIGH
                             /\ LOW <= l[j].end /\ l[j].end <= HIGH
  <2>1. l \in Lists /\ Ordered(l)
    BY DEF WellFormed
  <2>2. DOMAIN l = 1 .. Len(l) /\ Len(l) \in Nat /\ \A j \in DOMAIN l : l[j] \in AreaRec
    BY <2>1, ListParts
  <2> QED BY <2>1, <2>2, AreaParts, Constants
<1> DEFINE last == Len(l)
           below(k) == l[k].start - n
           K == {k \in DOMAIN l : below(k) < 0 \/ (below(k) >= LOW /\ vmmap_is_range_empty(l, below(k), l[k].start))}
<1>2. f = IF last > 0 /\ l[last].end + n <= HIGH THEN HIGH - n
          ELSE IF K = {} THEN 0 ELSE Max({-1, below(Max(K))})
  BY DEF vmmap_find_range
<1>3. CASE last > 0 /\ l[last].end + n <= HIGH
  <2>1. f = HIGH - n /\ f \in Int /\ f + n = HIGH /\ last \in DOMAIN l
    BY <1>1, <1>2, <1>3, Constants
  <2>2. LOW <= l[last].end /\ l[last].end \in Int /\ l[last].end <= f
    <3>1. PICK e : e = l[last].end
      OBVIOUS
    <3>2. LOW <= e /\ e \in Int /\ e + n <= HIGH
      BY <1>1, <1>3, <2>1, <3>1
    <3> QED BY <2>1, <3>1, <3>2, Constants
  <2>3. ASSUME NEW j \in DOMAIN l PROVE l[j].end <= f
    <3>1. CASE j = last
      BY <2>2, <3>1
    <3>2. CASE j # last
      <4>1. j < last
        BY <1>1, <3>2
      <4>2. l[j].end <= l[last].end
        BY <2>1, <4>1, EndsInOrder
      <4> QED BY <1>1, <2>1, <2>2, <4>2
    <3> QED BY <3>1, <3>2
  <2>4. vmmap_is_range_empty(l, f, f + n)
    BY <2>3 DEF vmmap_is_range_empty
  <2> QED BY <2>1, <2>2, <2>4, Constants
<1>4. CASE ~(last > 0 /\ l[last].end + n <= HIGH) /\ K # {}
  <2>1. K \in SUBSET (1 .. last)
    BY <1>1
  <2>2. PICK k : k = Max(K)
    OBVIOUS
  <2>3. k \in K
    <3> HIDE DEF K
    <3> QED BY <1>1, <1>4, <2>1, <2>2, MaxOf
  <2>4. PICK b : b = below(k)
    OBVIOUS
  <2>5. b \in Int /\ l[k].start = b + n /\ k \in DOMAIN l /\ l[k].start <= HIGH
        /\ (b < 0 \/ (b >= LOW /\ vmmap_is_range_empty(l, b, l[k].start)))
    BY <1>1, <2>3, <2>4
  <2>6. f = Max({-1, b})
    BY <1>2, <1>4, <2>2, <2>4
  <2>7. Max({-1, b}) = IF b < 0 THEN -1 ELSE b
    <3>1. \E x \in {-1, b} : \A y \in {-1, b} : x >= y
      BY <2>5
    <3>2. Max({-1, b}) \in {-1, b} /\ \A y \in {-1, b} : Max({-1, b}) >= y
      BY <3>1 DEF Max
    <3> QED BY <2>5, <3>2
  <2> QED BY <2>5, <2>6, <2>7
<1>5. CASE ~(last > 0 /\ l[last].end + n <= HIGH) /\ K = {}
  <2>1. f = 0
    BY <1>2, <1>5
  <2> QED BY <2>1
<1> QED BY <1>3, <1>4, <1>5

LEMMA PrefixSize ==
  ASSUME NEW n \in Nat, NEW K \in SUBSET (1 .. n), \A j, k \in 1 .. n : j < k /\ k \in K => j \in K
  PROVE  \E c \in 0 .. n : K = 1 .. c /\ Cardinality(K) = c
<1>1. \E c \in 0 .. n : K = 1 .. c
  <2> DEFINE T == (1 .. n) \ K
  <2>1. CASE T = {}
    <3>1. K = 1 .. n
      BY <2>1
    <3>2. n \in 0 .. n
      OBVIOUS
    <3> QED BY <3>1, <3>2
  <2>2. CASE T # {}
    <3>1. T \in SUBSET Nat
      OBVIOUS
    <3>2. PICK t \in T : \A k \in T : t <= k
      <4> HIDE DEF T
      <4> QED BY <2>2, <3>1, Least
    <3>3. t - 1 \in 0 .. n /\ t \in 1 .. n /\ t \notin K
      BY <3>2
    <3>4. \A j \in 1 .. t - 1 : j \in K
      BY <3>2, <3>3
    <3>5. \A j \in K : j \in 1 .. t - 1
      BY <3>3
    <3>6. K = 1 .. t - 1
      BY <3>4, <3>5
    <3> QED BY <3>3, <3>6
  <2> QED BY <2>1, <2>2
<1>2. PICK c \in 0 .. n : K = 1 .. c
  BY <1>1
<1>3. Cardinality(1 .. c) = c
  <2>1. 1 \in Int /\ c \in Int
    OBVIOUS
  <2>2. Cardinality(1 .. c) = IF 1 > c THEN 0 ELSE c - 1 + 1
    BY <2>1, FS_Interval
  <2> QED BY <2>2
<1> QED BY <1>2, <1>3

\* t is l with a in its place.
Inserted(t, l, a) ==
  /\ WellFormed(t)
  /\ \A e \in DOMAIN t : t[e] = a \/ \E k \in DOMAIN l : t[e] = l[k]
  /\ \A k \in DOMAIN l : \E e \in DOMAIN t : t[e] = l[k]
  /\ \E e \in DOMAIN t : t[e] = a
  /\ \A o \in Obj : In(t)[o] = In(l)[o] + (IF o = a.obj THEN 1 ELSE 0)

LEMMA InsertStep ==
  ASSUME NEW l, WellFormed(l), NEW a \in AreaRec, a.start < a.end, vmmap_is_range_empty(l, a.start, a.end),
         NEW t, t = vmmap_insert(l, a)
  PROVE  Inserted(t, l, a)
<1> DEFINE n == Len(l)
           K == {k \in DOMAIN l : l[k].start <= a.start}
<1>1. /\ l \in Lists /\ Ordered(l) /\ DOMAIN l = 1 .. n /\ n \in Nat
      /\ \A j \in DOMAIN l : l[j] \in AreaRec /\ l[j].start \in Int /\ l[j].end \in Int /\ l[j].start <= l[j].end
      /\ a.start \in Int /\ a.end \in Int
  <2>1. l \in Lists /\ Ordered(l) /\ \A j \in DOMAIN l : l[j].start <= l[j].end
    BY DEF WellFormed
  <2>2. DOMAIN l = 1 .. Len(l) /\ Len(l) \in Nat /\ \A j \in DOMAIN l : l[j] \in AreaRec
    BY <2>1, ListParts
  <2> QED BY <2>1, <2>2, AreaParts
<1>2. PICK c \in 0 .. n : K = 1 .. c /\ Cardinality(K) = c
  <2>1. K \in SUBSET (1 .. n)
    BY <1>1
  <2>2. ASSUME NEW j \in 1 .. n, NEW k \in 1 .. n, j < k, k \in K PROVE j \in K
    <3>1. l[j].start <= l[k].start
      BY <1>1, <2>2, EndsInOrder
    <3> QED BY <1>1, <2>2, <3>1
  <2> HIDE DEF K
  <2> QED BY <1>1, <2>1, <2>2, PrefixSize
<1>3. PICK f, r, one : f = SubSeq(l, 1, c) /\ r = SubSeq(l, c + 1, n) /\ one = <<a>>
  OBVIOUS
<1>4. t = (f \o one) \o r
  <2>1. t = InsertAt(l, 1 + c, a)
    BY <1>2 DEF vmmap_insert
  <2>2. (1 + c) - 1 = c /\ 1 + c = c + 1
    BY <1>1
  <2> QED BY <1>3, <2>1, <2>2 DEF InsertAt
<1>5. f \in Lists /\ DOMAIN f = 1 .. c /\ \A k \in 1 .. c : f[k] = l[k]
  <2>1. 1 \in Int /\ c \in Int /\ \A k \in 1 .. c : l[k] \in AreaRec
    BY <1>1
  <2>2. /\ f \in Seq(AreaRec) /\ Len(f) = IF 1 <= c THEN c - 1 + 1 ELSE 0
        /\ \A k \in 1 .. c - 1 + 1 : f[k] = l[1 + k - 1]
    BY <1>3, <2>1, SubSeqProperties
  <2>3. Len(f) = c /\ \A k \in 1 .. c : f[k] = l[k]
    BY <1>1, <2>2
  <2> QED BY <2>2, <2>3, ListParts DEF Lists
<1>6. r \in Lists /\ DOMAIN r = 1 .. n - c /\ \A k \in 1 .. n - c : r[k] = l[c + k]
  <2>1. PICK b : b = c + 1
    OBVIOUS
  <2>2. b \in Int /\ n \in Int /\ \A k \in b .. n : l[k] \in AreaRec
    BY <1>1, <2>1
  <2>3. r = SubSeq(l, b, n)
    BY <1>3, <2>1
  <2>4. /\ r \in Seq(AreaRec) /\ Len(r) = IF b <= n THEN n - b + 1 ELSE 0
        /\ \A k \in 1 .. n - b + 1 : r[k] = l[b + k - 1]
    BY <2>2, <2>3, SubSeqProperties
  <2>5. Len(r) = n - c /\ \A k \in 1 .. n - c : r[k] = l[c + k]
    <3>1. n - b + 1 = n - c /\ (b <= n <=> c < n) /\ \A k \in 1 .. n - c : b + k - 1 = c + k
      BY <1>1, <2>1
    <3>2. Len(r) = n - c
      BY <1>1, <2>4, <3>1
    <3>3. \A k \in 1 .. n - c : r[k] = l[b + k - 1]
      BY <2>4, <3>1
    <3> QED BY <3>1, <3>2, <3>3
  <2> QED BY <2>4, <2>5, ListParts DEF Lists
<1>7. l = f \o r
  <2>1. 1 \in 1 .. n + 1 /\ c \in 1 - 1 .. n /\ n \in c .. n
    BY <1>1
  <2>2. SubSeq(l, 1, c) \o SubSeq(l, c + 1, n) = SubSeq(l, 1, n)
    BY <1>1, <2>1, ConcatAdjacentSubSeq DEF Lists
  <2>3. SubSeq(l, 1, n) = l
    BY <1>1, SubSeqFull DEF Lists
  <2> QED BY <1>3, <2>2, <2>3
<1>8. one \in Lists /\ DOMAIN one = {1} /\ one[1] = a /\ \A o \in Obj : In(one)[o] = IF o = a.obj THEN 1 ELSE 0
  BY <1>3, InOne
<1>9. \A k \in 1 .. c : l[k].end <= a.start
  <2> SUFFICES ASSUME NEW k \in 1 .. c PROVE l[k].end <= a.start
    OBVIOUS
  <2>1. k \in K /\ k \in DOMAIN l /\ l[k].start <= a.start
    BY <1>2
  <2>2. l[k].start >= a.end \/ l[k].end <= a.start
    BY <2>1 DEF vmmap_is_range_empty
  <2> QED BY <1>1, <2>1, <2>2
<1>10. \A k \in c + 1 .. n : a.end <= l[k].start
  <2> SUFFICES ASSUME NEW k \in c + 1 .. n PROVE a.end <= l[k].start
    OBVIOUS
  <2>1. k \in DOMAIN l /\ k \notin 1 .. c
    BY <1>1
  <2>2. ~(l[k].start <= a.start)
    BY <1>2, <2>1
  <2>3. l[k].start >= a.end \/ l[k].end <= a.start
    BY <2>1 DEF vmmap_is_range_empty
  <2> QED BY <1>1, <2>1, <2>2, <2>3
<1>11. PICK g : g = f \o one
  OBVIOUS
<1>12. g = f \o one /\ f \in Lists /\ one \in Lists
  BY <1>5, <1>8, <1>11
<1>13. g \in Lists
  BY <1>12, ConcatParts
<1>14. t = g \o r /\ g \in Lists /\ r \in Lists
  BY <1>4, <1>6, <1>11, <1>13
<1>15. t \in Lists
  BY <1>14, ConcatParts
<1>16. \A e \in DOMAIN g : (e \in 1 .. c /\ g[e] = l[e]) \/ g[e] = a
  <2>1. \A e \in DOMAIN g : \/ e \in DOMAIN f /\ g[e] = f[e]
                            \/ e - Len(f) \in DOMAIN one /\ g[e] = one[e - Len(f)] /\ e > Len(f)
    BY <1>12, ConcatParts
  <2> QED BY <1>5, <1>8, <2>1
<1>17. (\A k \in 1 .. c : \E e \in DOMAIN g : g[e] = l[k]) /\ \E e \in DOMAIN g : g[e] = a
  <2>1. \A k \in DOMAIN f : k \in DOMAIN g /\ g[k] = f[k]
    BY <1>12, ConcatParts
  <2>2. \A k \in DOMAIN one : k + Len(f) \in DOMAIN g /\ g[k + Len(f)] = one[k]
    BY <1>12, ConcatParts
  <2> QED BY <1>5, <1>8, <2>1, <2>2
<1>18. \A e \in DOMAIN t : (\E h \in DOMAIN g : t[e] = g[h]) \/ \E h \in 1 .. n - c : t[e] = l[c + h]
  <2>1. \A e \in DOMAIN t : \/ e \in DOMAIN g /\ t[e] = g[e]
                            \/ e - Len(g) \in DOMAIN r /\ t[e] = r[e - Len(g)] /\ e > Len(g)
    BY <1>14, ConcatParts
  <2> SUFFICES ASSUME NEW e \in DOMAIN t, ~\E h \in DOMAIN g : t[e] = g[h]
               PROVE  \E h \in 1 .. n - c : t[e] = l[c + h]
    OBVIOUS
  <2>2. PICK h : h = e - Len(g)
    OBVIOUS
  <2>3. h \in DOMAIN r /\ t[e] = r[h]
    BY <2>1, <2>2
  <2> QED BY <1>6, <2>3
<1>19. (\A h \in DOMAIN g : \E e \in DOMAIN t : t[e] = g[h])
       /\ \A h \in 1 .. n - c : \E e \in DOMAIN t : t[e] = l[c + h]
  <2>1. \A k \in DOMAIN g : k \in DOMAIN t /\ t[k] = g[k]
    BY <1>14, ConcatParts
  <2>2. \A k \in DOMAIN r : k + Len(g) \in DOMAIN t /\ t[k + Len(g)] = r[k]
    BY <1>14, ConcatParts
  <2> QED BY <1>6, <2>1, <2>2
<1>20. \A e \in DOMAIN t : t[e] = a \/ \E k \in DOMAIN l : t[e] = l[k]
  <2> SUFFICES ASSUME NEW e \in DOMAIN t, t[e] # a PROVE \E k \in DOMAIN l : t[e] = l[k]
    OBVIOUS
  <2>1. CASE \E h \in DOMAIN g : t[e] = g[h]
    <3>1. PICK h \in DOMAIN g : t[e] = g[h]
      BY <2>1
    <3>2. h \in 1 .. c /\ g[h] = l[h]
      BY <1>16, <3>1
    <3>3. h \in DOMAIN l
      BY <1>1, <3>2
    <3> QED BY <3>1, <3>2, <3>3
  <2>2. CASE \E h \in 1 .. n - c : t[e] = l[c + h]
    <3>1. PICK h \in 1 .. n - c : t[e] = l[c + h]
      BY <2>2
    <3>2. c + h \in DOMAIN l
      BY <1>1
    <3> QED BY <3>1, <3>2
  <2> QED BY <1>18, <2>1, <2>2
<1>21. ASSUME NEW k \in DOMAIN l PROVE \E e \in DOMAIN t : t[e] = l[k]
  <2>1. CASE k \in 1 .. c
    BY <1>17, <1>19, <2>1
  <2>2. CASE k \notin 1 .. c
    <3>1. k - c \in 1 .. n - c /\ c + (k - c) = k
      BY <1>1, <2>2
    <3> QED BY <1>19, <3>1
  <2> QED BY <2>1, <2>2
<1>22. \E e \in DOMAIN t : t[e] = a
  BY <1>17, <1>19
<1>23. Ordered(t)
  <2>1. Ordered(f)
    <3>1. \A j, k \in 1 .. c : j < k => l[j].end <= l[k].start
      BY <1>1 DEF Ordered
    <3> QED BY <1>5, <3>1 DEF Ordered
  <2>2. Ordered(r)
    <3>1. \A j, k \in 1 .. n - c : j < k => c + j \in DOMAIN l /\ c + k \in DOMAIN l /\ c + j < c + k
      BY <1>1
    <3>2. \A j, k \in 1 .. n - c : j < k => l[c + j].end <= l[c + k].start
      BY <1>1, <3>1 DEF Ordered
    <3> QED BY <1>6, <3>2 DEF Ordered
  <2>3. Ordered(one)
    BY <1>8 DEF Ordered
  <2>4. \A j \in DOMAIN f, k \in DOMAIN one : f[j].end <= one[k].start
    BY <1>5, <1>8, <1>9
  <2>5. Ordered(g)
    BY <1>12, <2>1, <2>3, <2>4, ConcatOrdered
  <2>6. ASSUME NEW j \in DOMAIN g, NEW k \in DOMAIN r PROVE g[j].end <= r[k].start
    <3>1. k \in 1 .. n - c /\ r[k] = l[c + k] /\ c + k \in DOMAIN l /\ c + k \in c + 1 .. n
      BY <1>1, <1>6
    <3>2. CASE g[j] = a
      BY <1>10, <3>1, <3>2
    <3>3. CASE j \in 1 .. c /\ g[j] = l[j]
      <4>1. j \in DOMAIN l /\ j < c + k
        BY <1>1, <3>1, <3>3
      <4> QED BY <1>1, <3>1, <3>3, <4>1 DEF Ordered
    <3> QED BY <1>16, <3>2, <3>3
  <2> QED BY <1>14, <2>2, <2>5, <2>6, ConcatOrdered
<1>24. ASSUME NEW o \in Obj PROVE In(t)[o] = In(l)[o] + (IF o = a.obj THEN 1 ELSE 0)
  <2>1. In(g)[o] = In(f)[o] + In(one)[o]
    <3>1. In(f \o one)[o] = In(f)[o] + In(one)[o]
      BY <1>12, InConcat
    <3> QED BY <1>12, <3>1
  <2>2. In(t)[o] = In(g)[o] + In(r)[o]
    <3>1. In(g \o r)[o] = In(g)[o] + In(r)[o]
      BY <1>14, InConcat
    <3> QED BY <1>14, <3>1
  <2>3. In(l)[o] = In(f)[o] + In(r)[o]
    <3>1. In(f \o r)[o] = In(f)[o] + In(r)[o]
      BY <1>5, <1>6, InConcat
    <3> QED BY <1>7, <3>1
  <2>4. In(f)[o] \in Nat /\ In(r)[o] \in Nat /\ In(one)[o] = IF o = a.obj THEN 1 ELSE 0
    BY <1>5, <1>6, <1>8, InType
  <2> QED BY <2>1, <2>2, <2>3, <2>4
<1>25. WellFormed(t)
  BY <1>1, <1>15, <1>20, <1>23 DEF WellFormed
<1> QED BY <1>20, <1>21, <1>22, <1>24, <1>25 DEF Inserted

-----------------------------------------------------------------------------
(* New objects, and the areas over them.                                   *)

\* The users once there is an object o, with one user, that took a reference to z over.
Given(u, o, z) == [x \in Obj |-> IF x = o THEN 1 ELSE IF x = z THEN u[x] - 1 ELSE u[x]]

\* Objects that were not free, and everything else but the areas, are as they were.
Adds(m, x) ==
  /\ x.pte = m.pte /\ x.heap = m.heap /\ x.crash = m.crash
  /\ \A z \in Obj : m.obj[z].kind # "free" => x.obj[z] = m.obj[z]

\* Object o is new, over z or over nothing.
IsNew(m, x, o, z) ==
  /\ o \in Obj /\ m.obj[o].kind = "free" /\ x.areas = m.areas
  /\ \A h \in Obj : h # o => x.obj[h] = m.obj[h]
  /\ x.obj[o].kind = (IF z = NULL THEN "anon" ELSE "shadow") /\ x.obj[o].shadowed = z
  /\ \A n \in Num : x.obj[o].page[n] = NULL
  /\ FreeObjs(x) = FreeObjs(m) \ {o} /\ o \in FreeObjs(m)

Fresh(z) == [FreeObj EXCEPT !.kind = IF z = NULL THEN "anon" ELSE "shadow", !.ref = 1, !.shadowed = z]

LEMMA FreshType ==
  ASSUME NEW z \in Obj \cup {NULL}
  PROVE  /\ Fresh(z) \in ObjRec /\ Fresh(z).kind = (IF z = NULL THEN "anon" ELSE "shadow") /\ Fresh(z).ref = 1
         /\ Fresh(z).shadowed = z /\ \A n \in Num : Fresh(z).page[n] = NULL
         /\ [FreeObj EXCEPT !.kind = "anon", !.ref = 1] = Fresh(NULL)
<1>1. FreeObj \in ObjRec /\ FreeObj.page \in [Num -> Val \cup {NULL}]
  BY FreeObjType DEF ObjRec
<1>2. \A n \in Num : FreeObj.page[n] = NULL
  BY DEF FreeObj
<1>3. /\ Fresh(z).page = FreeObj.page /\ Fresh(z).ref = 1 /\ Fresh(z).shadowed = z
      /\ Fresh(z).kind = (IF z = NULL THEN "anon" ELSE "shadow")
  BY <1>1 DEF Fresh, ObjRec
<1>5. Fresh(z) \in ObjRec
  <2>1. PICK k, q : k = (IF z = NULL THEN "anon" ELSE "shadow") /\ q = Fresh(z)
    OBVIOUS
  <2>2. q = [FreeObj EXCEPT !.kind = k, !.ref = 1, !.shadowed = z]
    BY <2>1 DEF Fresh
  <2>3. k \in {"free", "anon", "shadow"} /\ z \in Obj \cup {NULL}
    BY <2>1
  <2>4. q \in ObjRec
    BY <1>1, <2>2, <2>3 DEF ObjRec
  <2> QED BY <2>1, <2>4
<1>6. [FreeObj EXCEPT !.kind = "anon", !.ref = 1] = Fresh(NULL)
  <2>1. PICK r, q : r = [FreeObj EXCEPT !.kind = "anon", !.ref = 1] /\ q = Fresh(NULL)
    OBVIOUS
  <2>2. q = [FreeObj EXCEPT !.kind = "anon", !.ref = 1, !.shadowed = NULL]
    BY <2>1 DEF Fresh
  <2>3. FreeObj.shadowed = NULL
    BY DEF FreeObj
  <2>4. r \in ObjRec /\ r.kind = "anon" /\ r.ref = 1 /\ r.shadowed = NULL /\ r.page = FreeObj.page
    BY <1>1, <2>1, <2>3 DEF ObjRec
  <2>5. q \in ObjRec /\ q.kind = "anon" /\ q.ref = 1 /\ q.shadowed = NULL /\ q.page = FreeObj.page
    BY <1>1, <2>2 DEF ObjRec
  <2>6. r = q
    BY <2>4, <2>5 DEF ObjRec
  <2> QED BY <2>1, <2>6
<1> QED BY <1>2, <1>3, <1>5, <1>6

LEMMA CreateStep ==
  ASSUME NEW m \in State, Ptes(m), NEW u \in [Obj -> Nat], Objects(m.obj, u), FreeObjs(m) # {},
         NEW z \in Obj \cup {NULL}, z # NULL => u[z] > 0,
         NEW x, x = IF z = NULL THEN anon_create(m) ELSE shadow_create(m, z), NEW o, o = NewObj(m)
  PROVE  /\ x \in State /\ Ptes(x) /\ Adds(m, x) /\ IsNew(m, x, o, z) /\ o # z
         /\ Given(u, o, z) \in [Obj -> Nat] /\ Objects(x.obj, Given(u, o, z))
<1>1. o \in FreeObjs(m)
  BY DEF NewObj
<1>2. o \in Obj /\ m.obj[o].kind = "free" /\ m.obj \in Objs /\ u[o] = 0 /\ o # z
  BY <1>1, StateParts, Constants DEF FreeObjs, Objects, Live
<1>3. PICK q : q = Fresh(z)
  OBVIOUS
<1>4. q \in ObjRec /\ q.kind = (IF z = NULL THEN "anon" ELSE "shadow") /\ q.ref = 1
      /\ q.shadowed = z /\ \A n \in Num : q.page[n] = NULL
  BY <1>3, FreshType
<1>5. PICK c : c = [m.obj EXCEPT ![o] = q]
  OBVIOUS
<1>6. c \in Objs /\ c[o] = q /\ \A h \in Obj : h # o => c[h] = m.obj[h]
  BY <1>2, <1>4, <1>5 DEF Objs
<1>7. x = [m EXCEPT !.obj = c]
  <2>1. CASE z = NULL
    <3>1. [FreeObj EXCEPT !.kind = "anon", !.ref = 1] = q
      BY <1>3, <2>1, FreshType
    <3> QED BY <1>2, <1>5, <2>1, <3>1 DEF anon_create, State, Objs
  <2>2. CASE z # NULL
    BY <1>2, <1>3, <1>5, <2>2 DEF shadow_create, Fresh, State, Objs
  <2> QED BY <2>1, <2>2
<1>8. x \in State /\ x.obj = c /\ x.areas = m.areas /\ x.pte = m.pte /\ x.heap = m.heap /\ x.crash = m.crash
  BY <1>6, <1>7, WithObj
<1>9. Adds(m, x)
  BY <1>2, <1>6, <1>8 DEF Adds
<1>10. IsNew(m, x, o, z)
  BY <1>1, <1>2, <1>4, <1>6, <1>8 DEF IsNew, FreeObjs
<1>11. PICK v : v = Given(u, o, z)
  OBVIOUS
<1>12. v \in [Obj -> Nat] /\ v[o] = 1 /\ (z # NULL => v[z] = u[z] - 1) /\ \A h \in Obj : h # o /\ h # z => v[h] = u[h]
  BY <1>2, <1>11, Constants DEF Given
<1>13. Objects(c, v)
  <2>1. Pages(c, o) = {}
    BY <1>4, <1>6 DEF Pages
  <2> QED BY <1>2, <1>4, <1>6, <1>12, <2>1, Created
<1>14. Ptes(x)
  <2>1. ASSUME NEW p \in Proc, NEW i \in Page, Leads(m.obj, m.pte[p][i]) PROVE Leads(c, m.pte[p][i])
    <3>1. m.pte[p][i].n \in Num
      BY StateParts DEF Pte
    <3>2. m.obj[o] = FreeObj
      BY <1>2 DEF Objects, Kinds
    <3>3. m.pte[p][i].o # o
      <4>1. \A n \in Num : FreeObj.page[n] = NULL
        BY DEF FreeObj
      <4> QED BY <2>1, <3>1, <3>2, <4>1 DEF Leads
    <3> QED BY <1>6, <2>1, <3>3 DEF Leads
  <2> QED BY <1>8, <2>1 DEF Ptes
<1> QED BY <1>2, <1>8, <1>9, <1>10, <1>11, <1>12, <1>13, <1>14

\* What vmmap_map adds: an area a over a new object.
Mapped(m, x, p, a) ==
  /\ Adds(m, x) /\ a.obj \in Obj /\ m.obj[a.obj].kind = "free"
  /\ x.obj[a.obj].kind = (IF a.shared THEN "anon" ELSE "shadow") /\ Shadowers(x.obj, a.obj) = {}
  /\ Inserted(x.areas[p], m.areas[p], a) /\ \A q \in Proc : q # p => x.areas[q] = m.areas[q]

LEMMA NewObjects ==
  ASSUME NEW m \in State, Ptes(m), NEW u \in [Obj -> Nat], Objects(m.obj, u), NEW shared \in BOOLEAN,
         Cardinality(FreeObjs(m)) >= NewObjs(shared),
         NEW a, a = NewObj(m),
         NEW x, x = IF shared THEN anon_create(m) ELSE shadow_create(anon_create(m), a),
         NEW o, o = IF shared THEN a ELSE NewObj(anon_create(m))
  PROVE  /\ x \in State /\ Ptes(x) /\ Adds(m, x) /\ x.areas = m.areas
         /\ o \in Obj /\ m.obj[o].kind = "free" /\ x.obj[o].kind = (IF shared THEN "anon" ELSE "shadow")
         /\ Shadowers(x.obj, o) = {} /\ Objects(x.obj, Plus(u, o))
         /\ Cardinality(FreeObjs(x)) >= Cardinality(FreeObjs(m)) - NewObjs(shared)
<1>2. m.areas \in [Proc -> Lists]
  BY StateParts DEF Lists
<1>3. PICK y : y = anon_create(m)
  OBVIOUS
<1>4. PICK F : F = FreeObjs(m)
  OBVIOUS
<1>5. IsFiniteSet(F) /\ Cardinality(F) \in Nat /\ Cardinality(F) >= NewObjs(shared) /\ F # {}
  <2>1. IsFiniteSet(F) /\ Cardinality(F) \in Nat /\ Cardinality(F) >= NewObjs(shared)
    BY <1>4, FreeObjsFinite
  <2>2. F = {} => Cardinality(F) = 0
    BY FS_EmptySet
  <2> QED BY <2>1, <2>2 DEF NewObjs
<1>6. /\ y \in State /\ Ptes(y) /\ Adds(m, y) /\ IsNew(m, y, a, NULL)
      /\ Objects(y.obj, Given(u, a, NULL))
  <2>1. y = IF NULL = NULL THEN anon_create(m) ELSE shadow_create(m, NULL)
    BY <1>3
  <2> QED BY <1>2, <1>4, <1>5, <2>1, CreateStep
<1>7. a \in Obj /\ a \in F /\ m.obj[a].kind = "free" /\ u[a] = 0 /\ Shadowers(m.obj, a) = {}
  BY <1>2, <1>4, <1>6 DEF IsNew, Objects, Live
<1>8. PICK v : v = Given(u, a, NULL)
  OBVIOUS
<1>9. v = Plus(u, a) /\ v \in [Obj -> Nat] /\ v[a] = 1
  <2>1. \A z \in Obj : (IF z = a THEN 1 ELSE IF z = NULL THEN u[z] - 1 ELSE u[z]) = IF z = a THEN u[z] + 1 ELSE u[z]
    BY <1>7, Constants
  <2>2. v = Plus(u, a)
    BY <1>8, <2>1 DEF Given, Plus
  <2> QED BY <1>2, <1>7, <2>2, PlusType
<1>10. FreeObjs(y) = F \ {a} /\ Cardinality(F \ {a}) = Cardinality(F) - 1 /\ IsFiniteSet(F \ {a})
  BY <1>4, <1>5, <1>6, <1>7, FS_RemoveElement DEF IsNew
<1>11. CASE shared
  <2>1. x = y /\ o = a
    BY <1>3, <1>11
  <2>2. Shadowers(y.obj, a) = {}
    <3>1. y.obj[a].shadowed = NULL /\ \A h \in Obj : h # a => y.obj[h].shadowed = m.obj[h].shadowed
      BY <1>6 DEF IsNew
    <3> QED BY <1>7, <3>1, Constants DEF Shadowers
  <2>3. y.obj[a].kind = "anon" /\ y.areas = m.areas
    BY <1>6 DEF IsNew
  <2>4. Cardinality(FreeObjs(y)) >= Cardinality(F) - 1
    BY <1>5, <1>10
  <2>5. Objects(y.obj, Plus(u, a))
    BY <1>6, <1>8, <1>9
  <2>6. NewObjs(shared) = 1
    BY <1>11 DEF NewObjs
  <2> QED BY <1>4, <1>6, <1>7, <1>11, <2>1, <2>2, <2>3, <2>4, <2>5, <2>6
<1>12. CASE ~shared
  <2>1. x = shadow_create(y, a) /\ o = NewObj(y)
    BY <1>3, <1>12
  <2>2. FreeObjs(y) # {}
    <3>1. NewObjs(shared) = 2
      BY <1>12 DEF NewObjs
    <3>2. Cardinality(FreeObjs(y)) >= 1
      BY <1>5, <1>10, <3>1
    <3> QED BY <3>2, FS_EmptySet
  <2>3. /\ x \in State /\ Ptes(x) /\ Adds(y, x) /\ IsNew(y, x, o, a) /\ o # a
        /\ Objects(x.obj, Given(v, o, a))
    <3>1. a # NULL /\ v[a] > 0 /\ Objects(y.obj, v)
      BY <1>6, <1>7, <1>8, <1>9, Constants
    <3>2. x = IF a = NULL THEN anon_create(y) ELSE shadow_create(y, a)
      BY <2>1, <3>1
    <3> QED BY <1>6, <1>7, <1>9, <2>1, <2>2, <3>1, <3>2, CreateStep
  <2>4. o \in Obj /\ y.obj[o].kind = "free" /\ m.obj[o].kind = "free" /\ x.areas = m.areas /\ y.obj[o] = m.obj[o]
    BY <1>6, <2>3 DEF IsNew
  <2>5. Given(v, o, a) = Plus(u, o)
    <3>1. u[o] = 0
      BY <1>2, <2>4 DEF Objects, Live
    <3>2. \A z \in Obj : v[z] = IF z = a THEN u[z] + 1 ELSE u[z]
      BY <1>2, <1>9, PlusType
    <3>3. \A z \in Obj : (IF z = o THEN 1 ELSE IF z = a THEN v[z] - 1 ELSE v[z]) = IF z = o THEN u[z] + 1 ELSE u[z]
      BY <1>2, <1>7, <2>3, <3>1, <3>2
    <3> QED BY <3>3 DEF Given, Plus
  <2>6. Adds(m, x)
    BY <1>6, <1>7, <2>3 DEF Adds, IsNew
  <2>7. Shadowers(x.obj, o) = {}
    <3>1. x.obj[o].shadowed = a /\ x.obj[a].shadowed = NULL
      BY <1>6, <1>7, <2>3 DEF IsNew
    <3>2. \A h \in Obj : h # o /\ h # a => x.obj[h].shadowed = m.obj[h].shadowed
      BY <1>6, <2>3 DEF IsNew
    <3>3. Shadowers(m.obj, o) = {}
      BY <2>4 DEF Objects, Live
    <3> QED BY <2>3, <2>4, <3>1, <3>2, <3>3, Constants DEF Shadowers
  <2>8. x.obj[o].kind = "shadow"
    BY <1>7, <2>3, Constants DEF IsNew
  <2>9. Cardinality(FreeObjs(x)) >= Cardinality(F) - 2
    <3>1. PICK E : E = F \ {a}
      OBVIOUS
    <3>2. FreeObjs(x) = E \ {o} /\ o \in E
      BY <1>10, <2>3, <3>1 DEF IsNew
    <3>3. Cardinality(E \ {o}) = Cardinality(E) - 1
      BY <1>10, <3>1, <3>2, FS_RemoveElement
    <3>4. Cardinality(E) = Cardinality(F) - 1
      BY <1>10, <3>1
    <3>5. Cardinality(FreeObjs(x)) = Cardinality(E) - 1
      BY <3>2, <3>3
    <3>6. PICK e, f : e = Cardinality(E) /\ f = Cardinality(F)
      OBVIOUS
    <3> QED BY <1>5, <3>4, <3>5, <3>6
  <2>10. NewObjs(shared) = 2
    BY <1>12 DEF NewObjs
  <2>11. Objects(x.obj, Plus(u, o))
    BY <2>3, <2>5
  <2> QED BY <1>4, <1>12, <2>3, <2>4, <2>6, <2>7, <2>8, <2>9, <2>10, <2>11
<1> QED BY <1>11, <1>12

LEMMA MapStep ==
  ASSUME NEW m \in State, Ptes(m), NEW u \in [Obj -> Nat], Objects(m.obj, u), NEW p \in Proc, WellFormed(m.areas[p]),
         NEW lo \in LOW .. HIGH, NEW hi \in LOW .. HIGH, lo < hi, vmmap_is_range_empty(m.areas[p], lo, hi),
         NEW shared \in BOOLEAN, NEW prot \in Prots, Cardinality(FreeObjs(m)) >= NewObjs(shared),
         NEW x, x = vmmap_map(m, p, lo, hi, shared, prot)
  PROVE  /\ x \in State /\ Ptes(x)
         /\ Cardinality(FreeObjs(x)) >= Cardinality(FreeObjs(m)) - NewObjs(shared)
         /\ \E a \in AreaRec : /\ Mapped(m, x, p, a) /\ Objects(x.obj, Plus(u, a.obj))
                               /\ U(x.areas) = Plus(U(m.areas), a.obj) /\ a.start = lo /\ a.end = hi /\ a.off = 0
                               /\ a.shared = shared /\ a.prot = prot
<1>1. PICK b : b = NewObj(m)
  OBVIOUS
<1>2. PICK y, o : /\ y = IF shared THEN anon_create(m) ELSE shadow_create(anon_create(m), b)
                  /\ o = IF shared THEN b ELSE NewObj(anon_create(m))
  OBVIOUS
<1>3. /\ y \in State /\ Ptes(y) /\ Adds(m, y) /\ y.areas = m.areas
      /\ o \in Obj /\ m.obj[o].kind = "free" /\ y.obj[o].kind = (IF shared THEN "anon" ELSE "shadow")
      /\ Shadowers(y.obj, o) = {} /\ Objects(y.obj, Plus(u, o))
      /\ Cardinality(FreeObjs(y)) >= Cardinality(FreeObjs(m)) - NewObjs(shared)
  BY <1>1, <1>2, NewObjects
<1>4. PICK a : a = [start |-> lo, end |-> hi, off |-> 0, shared |-> shared, prot |-> prot, obj |-> o]
  OBVIOUS
<1>5. a \in AreaRec /\ a.start = lo /\ a.end = hi /\ a.off = 0 /\ a.shared = shared /\ a.prot = prot /\ a.obj = o
  BY <1>3, <1>4 DEF AreaRec
<1>6. PICK t : t = vmmap_insert(m.areas[p], a)
  OBVIOUS
<1>7. Inserted(t, m.areas[p], a)
  BY <1>5, <1>6, InsertStep
<1>8. AreasNow(x, y, p, t)
  <2>1. vmmap_insert(y.areas[p], a) = t
    BY <1>3, <1>6
  <2> QED BY <1>1, <1>2, <1>4, <2>1 DEF vmmap_map, AreasNow
<1>9. t \in Lists /\ m.areas \in [Proc -> Lists]
  BY <1>7, StateParts DEF Inserted, WellFormed, Lists
<1>10. /\ x \in State /\ x.areas = [m.areas EXCEPT ![p] = t] /\ x.obj = y.obj /\ x.pte = y.pte
       /\ x.heap = y.heap /\ x.crash = y.crash
  BY <1>3, <1>8, <1>9, WithAreas
<1>11. /\ x.areas[p] = t /\ \A q \in Proc : q # p => x.areas[q] = m.areas[q]
       /\ \A z \in Obj : U(x.areas)[z] = U(m.areas)[z] - In(m.areas[p])[z] + In(t)[z]
       /\ x.areas \in [Proc -> Lists]
  BY <1>9, <1>10, UReplaced
<1>12. U(x.areas) = Plus(U(m.areas), o)
  <2>1. U(x.areas) \in [Obj -> Nat] /\ U(m.areas) \in [Obj -> Nat] /\ In(m.areas[p]) \in [Obj -> Nat]
    BY <1>9, <1>11, UType, InType
  <2>2. \A z \in Obj : In(t)[z] = In(m.areas[p])[z] + (IF z = o THEN 1 ELSE 0)
    BY <1>5, <1>7 DEF Inserted
  <2>3. \A z \in Obj : U(x.areas)[z] = IF z = o THEN U(m.areas)[z] + 1 ELSE U(m.areas)[z]
    <3> SUFFICES ASSUME NEW z \in Obj PROVE U(x.areas)[z] = IF z = o THEN U(m.areas)[z] + 1 ELSE U(m.areas)[z]
      OBVIOUS
    <3>1. PICK d, e : d = U(m.areas)[z] /\ e = In(m.areas[p])[z]
      OBVIOUS
    <3>2. d \in Nat /\ e \in Nat /\ U(x.areas)[z] = d - e + (e + (IF z = o THEN 1 ELSE 0))
      BY <1>11, <2>1, <2>2, <3>1
    <3> QED BY <3>1, <3>2
  <2> QED BY <2>1, <2>3 DEF Plus
<1>13. Ptes(x)
  BY <1>3, <1>10 DEF Ptes
<1>14. Adds(m, x)
  BY <1>3, <1>10 DEF Adds
<1>15. FreeObjs(x) = FreeObjs(y)
  BY <1>10 DEF FreeObjs
<1>17. Objects(x.obj, Plus(u, a.obj))
  BY <1>3, <1>5, <1>10
<1>16. Mapped(m, x, p, a)
  BY <1>3, <1>5, <1>7, <1>10, <1>11, <1>14 DEF Mapped
<1> QED BY <1>3, <1>5, <1>10, <1>12, <1>13, <1>15, <1>16, <1>17

-----------------------------------------------------------------------------
(* The inductive invariant.                                                *)

\* The list l of a process with heap h, when sh says that a heap has shrunk.
Tidy(l, h, sh) ==
  /\ WellFormed(l)
  /\ \A k \in DOMAIN l : /\ l[k].off <= l[k].start - LOW
                         /\ l[k].start < l[k].end \/ (sh /\ h # NULL /\ l[k].start = l[k].end /\ l[k].start = h.page)

\* Shared areas are over anonymous objects, private ones over shadow objects of their own.
TopOK(b, areas, p, a) ==
  IF a.shared THEN b[a.obj].kind = "anon"
  ELSE /\ b[a.obj].kind = "shadow" /\ Shadowers(b, a.obj) = {}
       /\ \A q \in Proc : \A j \in DOMAIN areas[q] : areas[q][j].obj = a.obj => q = p
Tops(b, areas) == \A p \in Proc : \A k \in DOMAIN areas[p] : TopOK(b, areas, p, areas[p][k])

\* Translation t of page i belongs to area a.
Belongs(b, a, i, t) ==
  /\ Covers(a, i) /\ t.n = i - a.start + a.off /\ t.o \in Below(b, a.obj)
  /\ t.w => a.prot = "rw" /\ t.o = a.obj
PteOK(b, l, i, t, sh) ==
  \/ t = NoPte
  \/ sh /\ t = Dangling
  \/ Leads(b, t) /\ (sh \/ \E k \in DOMAIN l : Belongs(b, l[k], i, t))
PtesOK(m, sh) == \A p \in Proc, i \in Page : PteOK(m.obj, m.areas[p], i, m.pte[p][i], sh)

Dead(m) == \A p \in Proc : m.heap[p] = NULL => m.areas[p] = <<>> /\ \A i \in Page : m.pte[p][i] = NoPte

Good(m, sh) ==
  /\ m \in State /\ Objects(m.obj, U(m.areas)) /\ \A p \in Proc : Tidy(m.areas[p], m.heap[p], sh)
  /\ Tops(m.obj, m.areas) /\ PtesOK(m, sh) /\ Dead(m)

IInv ==
  /\ Good(s, shrunk) /\ shrunk \in BOOLEAN
  /\ s.crash \in {"vmmap_insert", "store to freed memory"} => shrunk

-----------------------------------------------------------------------------
(* What stays when objects and translations are lost, and when some are    *)
(* new.                                                                    *)

LEMMA PtesOKPtes == ASSUME NEW m, NEW sh, PtesOK(m, sh) PROVE Ptes(m)
BY DEF PtesOK, PteOK, Ptes

LEMMA LiveBelow ==
  ASSUME NEW b, NEW u, Objects(b, u), NEW o \in Obj, b[o].kind # "free", NEW y \in Below(b, o)
  PROVE  y \in Obj /\ b[y].kind # "free"
<1> DEFINE S == {z \in Obj : b[z].kind # "free"}
<1>1. S \in SUBSET Obj /\ o \in S
  OBVIOUS
<1>2. Down(b, S)
  <2> SUFFICES ASSUME NEW x \in S PROVE b[x].shadowed \in S \cup {NULL}
    BY DEF Down
  <2>1. b[x].shadowed \in Obj \cup {NULL}
    BY ShadowedType DEF Objects
  <2>2. ASSUME b[x].shadowed \in Obj PROVE b[b[x].shadowed].kind # "free"
    <3>1. x \in Shadowers(b, b[x].shadowed)
      BY DEF Shadowers
    <3> QED BY <2>2, <3>1 DEF Objects, Live
  <2> QED BY <2>1, <2>2
<1> HIDE DEF S
<1>3. y \in S
  BY <1>1, <1>2, BelowLeast
<1> QED BY <1>3 DEF S

LEMMA SameBelow ==
  ASSUME NEW b \in Objs, NEW c \in Objs, NEW o \in Obj, \A y \in Below(c, o) : c[y].shadowed = b[y].shadowed
  PROVE  Below(b, o) = Below(c, o)
<1>1. \A y \in Below(b, o) : y \in Below(c, o)
  <2> SUFFICES ASSUME NEW y \in Below(b, o) PROVE y \in Below(c, o)
    OBVIOUS
  <2>1. PICK S : S = Below(c, o)
    OBVIOUS
  <2>2. S \in SUBSET Obj /\ o \in S
    BY <2>1, BelowSelf DEF Below
  <2>3. Down(b, S)
    <3> SUFFICES ASSUME NEW x \in S PROVE b[x].shadowed \in S \cup {NULL}
      BY DEF Down
    <3>1. c[x].shadowed = NULL \/ c[x].shadowed \in S
      BY <2>1, BelowDown
    <3> QED BY <2>1, <3>1
  <2> QED BY <2>1, <2>2, <2>3, BelowLeast
<1>2. \A y \in Below(c, o) : y \in Below(b, o)
  <2> SUFFICES ASSUME NEW y \in Below(c, o) PROVE y \in Below(b, o)
    OBVIOUS
  <2>1. PICK S : S = Below(b, o)
    OBVIOUS
  <2>2. S \in SUBSET Obj /\ o \in S
    BY <2>1, BelowSelf DEF Below
  <2>3. Down(c, S)
    <3> SUFFICES ASSUME NEW x \in S PROVE c[x].shadowed \in S \cup {NULL}
      BY DEF Down
    <3>1. b[x].shadowed = NULL \/ b[x].shadowed \in S
      BY <2>1, BelowDown
    <3> QED BY <1>1, <2>1, <3>1
  <2> QED BY <2>1, <2>2, <2>3, BelowLeast
<1> QED BY <1>1, <1>2

\* e shows the same pages of the same object as a.
Fits(e, a) == e.obj = a.obj /\ e.shared = a.shared /\ e.prot = a.prot /\ e.off - e.start = a.off - a.start

\* What area of p page i is in, it is in still.
Stays(m, x, p, i) == \A k \in DOMAIN m.areas[p] : Covers(m.areas[p][k], i) =>
  \E e \in DOMAIN x.areas[p] : Covers(x.areas[p][e], i) /\ Fits(x.areas[p][e], m.areas[p][k])

\* The areas, and maybe others, are users of the objects.
Counting(m, u) == u \in [Obj -> Nat] /\ Objects(m.obj, u) /\ \A o \in Obj : U(m.areas)[o] <= u[o]

LEMMA UserLive ==
  ASSUME NEW m \in State, NEW u, Counting(m, u), NEW p \in Proc, NEW k \in DOMAIN m.areas[p]
  PROVE  m.areas[p][k] \in AreaRec /\ m.areas[p][k].obj \in Obj /\ m.obj[m.areas[p][k].obj].kind # "free"
         /\ u[m.areas[p][k].obj] > 0
<1>1. m.areas \in [Proc -> Lists] /\ m.areas[p] \in Lists
  BY StateParts DEF Lists
<1>2. m.areas[p][k] \in AreaRec /\ m.areas[p][k].obj \in Obj
  BY <1>1, ListParts
<1>3. U(m.areas)[m.areas[p][k].obj] > 0 /\ U(m.areas) \in [Obj -> Nat]
  BY <1>1, <1>2, UPositive, UType
<1>4. u[m.areas[p][k].obj] > 0
  BY <1>2, <1>3 DEF Counting
<1> QED BY <1>2, <1>4 DEF Counting, Objects, Live

LEMMA BelongsOn ==
  ASSUME NEW m \in State, NEW x \in State, NEW p \in Proc, NEW i \in Page, NEW t,
         NEW k \in DOMAIN m.areas[p], Belongs(m.obj, m.areas[p][k], i, t), Stays(m, x, p, i),
         Below(m.obj, m.areas[p][k].obj) = Below(x.obj, m.areas[p][k].obj)
  PROVE  \E e \in DOMAIN x.areas[p] : Belongs(x.obj, x.areas[p][e], i, t)
<1>1. PICK e \in DOMAIN x.areas[p] : Covers(x.areas[p][e], i) /\ Fits(x.areas[p][e], m.areas[p][k])
  BY DEF Belongs, Stays
<1>2. m.areas[p] \in Lists /\ x.areas[p] \in Lists
  BY StateParts DEF Lists
<1>3. PICK a, d : a = m.areas[p][k] /\ d = x.areas[p][e]
  OBVIOUS
<1>4. a \in AreaRec /\ d \in AreaRec
  BY <1>1, <1>2, <1>3, ListParts
<1>5. i - d.start + d.off = i - a.start + a.off
  <2>1. i \in Int /\ d.start \in Int /\ d.off \in Int /\ a.start \in Int /\ a.off \in Int
    BY <1>4, AreaParts, Constants DEF Page
  <2>2. d.off - d.start = a.off - a.start
    BY <1>1, <1>3 DEF Fits
  <2> QED BY <2>1, <2>2
<1>6. Belongs(x.obj, d, i, t)
  BY <1>1, <1>3, <1>5 DEF Belongs, Fits
<1> QED BY <1>3, <1>6

LEMMA LosesBelow ==
  ASSUME NEW m \in State, NEW x \in State, Loses(m, x), NEW u, Objects(x.obj, u),
         NEW o \in Obj, x.obj[o].kind # "free"
  PROVE  Below(m.obj, o) = Below(x.obj, o)
<1>1. \A y \in Below(x.obj, o) : x.obj[y].shadowed = m.obj[y].shadowed
  BY LiveBelow DEF Loses
<1> QED BY <1>1, StateParts, SameBelow

LEMMA LosesPte ==
  ASSUME NEW m \in State, NEW x \in State, Loses(m, x), Ptes(x), NEW u, Counting(x, u), NEW sh,
         NEW p \in Proc, NEW i \in Page, Stays(m, x, p, i),
         PteOK(m.obj, m.areas[p], i, m.pte[p][i], sh)
  PROVE  PteOK(x.obj, x.areas[p], i, x.pte[p][i], sh)
<1>1. PICK t, v : t = m.pte[p][i] /\ v = x.pte[p][i]
  OBVIOUS
<1>2. v = t \/ v = NoPte \/ (v = Dangling /\ t.o \in Obj /\ x.obj[t.o].kind = "free")
  BY <1>1 DEF Loses
<1>3. v = NoPte \/ v = Dangling \/ Leads(x.obj, v)
  BY <1>1 DEF Ptes
<1>4. CASE sh \/ v = NoPte
  BY <1>1, <1>3, <1>4 DEF PteOK
<1>5. CASE ~sh /\ v # NoPte
  <2>1. Leads(m.obj, t) /\ \E k \in DOMAIN m.areas[p] : Belongs(m.obj, m.areas[p][k], i, t)
    BY <1>1, <1>2, <1>5, PteTypes DEF PteOK
  <2>2. PICK k \in DOMAIN m.areas[p] : Belongs(m.obj, m.areas[p][k], i, t)
    BY <2>1
  <2>3. PICK e \in DOMAIN x.areas[p] : Fits(x.areas[p][e], m.areas[p][k])
    BY <2>2 DEF Stays, Belongs
  <2>4. PICK o : o = m.areas[p][k].obj
    OBVIOUS
  <2>5. o \in Obj /\ x.obj[o].kind # "free"
    BY <2>3, <2>4, UserLive DEF Fits
  <2>6. Below(m.obj, o) = Below(x.obj, o)
    BY <2>5, LosesBelow DEF Counting
  <2>7. t.o \in Below(x.obj, o)
    BY <2>2, <2>4, <2>6 DEF Belongs
  <2>8. x.obj[t.o].kind # "free"
    BY <2>5, <2>7, LiveBelow DEF Counting
  <2>9. v = t
    BY <1>2, <1>5, <2>8
  <2>10. \E d \in DOMAIN x.areas[p] : Belongs(x.obj, x.areas[p][d], i, t)
    BY <2>2, <2>4, <2>6, BelongsOn
  <2>11. Leads(x.obj, t)
    BY <1>3, <2>1, <2>9, PteTypes DEF Leads
  <2> QED BY <1>1, <2>9, <2>10, <2>11 DEF PteOK
<1> QED BY <1>4, <1>5

LEMMA LosesShadowers ==
  ASSUME NEW m \in State, NEW x \in State, Loses(m, x), NEW u, Objects(x.obj, u), NEW o \in Obj,
         Shadowers(m.obj, o) = {}
  PROVE  Shadowers(x.obj, o) = {}
<1> SUFFICES ASSUME NEW h \in Obj, x.obj[h].shadowed = o PROVE FALSE
  BY DEF Shadowers
<1>1. x.obj[h].kind # "free"
  BY Constants DEF Objects, Kinds, FreeObj
<1>2. m.obj[h].shadowed = o
  BY <1>1 DEF Loses
<1> QED BY <1>2 DEF Shadowers

\* Every area of x shows what an area of the same process in m does.
Within(m, x) == \A p \in Proc : \A e \in DOMAIN x.areas[p] : \E k \in DOMAIN m.areas[p] :
  Fits(x.areas[p][e], m.areas[p][k])

LEMMA LosesTops ==
  ASSUME NEW m \in State, NEW x \in State, Loses(m, x), NEW u, Counting(x, u), Within(m, x),
         Tops(m.obj, m.areas)
  PROVE  Tops(x.obj, x.areas)
<1> SUFFICES ASSUME NEW p \in Proc, NEW e \in DOMAIN x.areas[p] PROVE TopOK(x.obj, x.areas, p, x.areas[p][e])
  BY DEF Tops
<1>1. PICK k \in DOMAIN m.areas[p] : Fits(x.areas[p][e], m.areas[p][k])
  BY DEF Within
<1>2. PICK a, d : a = m.areas[p][k] /\ d = x.areas[p][e]
  OBVIOUS
<1>3. d.obj = a.obj /\ d.shared = a.shared
  BY <1>1, <1>2 DEF Fits
<1>4. d.obj \in Obj /\ x.obj[d.obj].kind # "free"
  BY <1>2, UserLive
<1>5. x.obj[d.obj].kind = m.obj[d.obj].kind
  BY <1>4 DEF Loses
<1>6. TopOK(m.obj, m.areas, p, a)
  BY <1>2 DEF Tops
<1>7. CASE d.shared
  BY <1>2, <1>3, <1>5, <1>6, <1>7 DEF TopOK
<1>8. CASE ~d.shared
  <2>1. x.obj[d.obj].kind = "shadow" /\ Shadowers(m.obj, d.obj) = {}
    BY <1>3, <1>5, <1>6, <1>8 DEF TopOK
  <2>2. Shadowers(x.obj, d.obj) = {}
    BY <1>4, <2>1, LosesShadowers DEF Counting
  <2>3. ASSUME NEW q \in Proc, NEW j \in DOMAIN x.areas[q], x.areas[q][j].obj = d.obj PROVE q = p
    <3>1. PICK h \in DOMAIN m.areas[q] : Fits(x.areas[q][j], m.areas[q][h])
      BY DEF Within
    <3>2. m.areas[q][h].obj = a.obj
      BY <1>3, <2>3, <3>1 DEF Fits
    <3> QED BY <1>3, <1>6, <1>8, <3>2 DEF TopOK
  <2> QED BY <1>2, <1>8, <2>1, <2>2, <2>3 DEF TopOK
<1> QED BY <1>7, <1>8

\* Objects that were not free keep all but their reference counts.
Grows(m, x) ==
  /\ x.pte = m.pte /\ x.heap = m.heap /\ x.crash = m.crash
  /\ \A z \in Obj : m.obj[z].kind # "free" =>
       /\ x.obj[z].kind = m.obj[z].kind /\ x.obj[z].shadowed = m.obj[z].shadowed
       /\ x.obj[z].page = m.obj[z].page

LEMMA GrowsBelow ==
  ASSUME NEW m \in State, NEW x \in State, Grows(m, x), NEW u, Objects(m.obj, u),
         NEW o \in Obj, m.obj[o].kind # "free"
  PROVE  Below(m.obj, o) = Below(x.obj, o)
<1>1. \A y \in Below(m.obj, o) : m.obj[y].shadowed = x.obj[y].shadowed
  BY LiveBelow DEF Grows
<1> QED BY <1>1, StateParts, SameBelow

LEMMA GrowsPte ==
  ASSUME NEW m \in State, NEW x \in State, Grows(m, x), Ptes(x), NEW u, Counting(m, u), NEW sh,
         NEW p \in Proc, NEW i \in Page, Stays(m, x, p, i),
         PteOK(m.obj, m.areas[p], i, m.pte[p][i], sh)
  PROVE  PteOK(x.obj, x.areas[p], i, x.pte[p][i], sh)
<1>1. PICK t : t = m.pte[p][i] /\ t = x.pte[p][i]
  BY DEF Grows
<1>2. t = NoPte \/ t = Dangling \/ Leads(x.obj, t)
  BY <1>1 DEF Ptes
<1>3. CASE sh \/ t = NoPte
  BY <1>1, <1>2, <1>3 DEF PteOK
<1>4. CASE ~sh /\ t # NoPte
  <2>1. Leads(m.obj, t) /\ \E k \in DOMAIN m.areas[p] : Belongs(m.obj, m.areas[p][k], i, t)
    BY <1>1, <1>4 DEF PteOK
  <2>2. PICK k \in DOMAIN m.areas[p] : Belongs(m.obj, m.areas[p][k], i, t)
    BY <2>1
  <2>3. PICK o : o = m.areas[p][k].obj
    OBVIOUS
  <2>4. o \in Obj /\ m.obj[o].kind # "free"
    BY <2>3, UserLive
  <2>5. Below(m.obj, o) = Below(x.obj, o)
    BY <2>4, GrowsBelow DEF Counting
  <2>6. \E d \in DOMAIN x.areas[p] : Belongs(x.obj, x.areas[p][d], i, t)
    BY <2>2, <2>3, <2>5, BelongsOn
  <2>7. Leads(x.obj, t)
    BY <1>2, <2>1, PteTypes DEF Leads
  <2> QED BY <1>1, <2>6, <2>7 DEF PteOK
<1> QED BY <1>3, <1>4

LEMMA AddsBelow ==
  ASSUME NEW m \in State, NEW x \in State, Adds(m, x), NEW u, Objects(m.obj, u),
         NEW o \in Obj, m.obj[o].kind # "free"
  PROVE  Below(m.obj, o) = Below(x.obj, o)
<1>1. Grows(m, x)
  BY DEF Adds, Grows
<1> QED BY <1>1, GrowsBelow

LEMMA AddsPte ==
  ASSUME NEW m \in State, NEW x \in State, Adds(m, x), Ptes(x), NEW u, Counting(m, u), NEW sh,
         NEW p \in Proc, NEW i \in Page, Stays(m, x, p, i),
         PteOK(m.obj, m.areas[p], i, m.pte[p][i], sh)
  PROVE  PteOK(x.obj, x.areas[p], i, x.pte[p][i], sh)
<1>1. Grows(m, x)
  BY DEF Adds, Grows
<1> QED BY <1>1, GrowsPte

\* An object that keeps its users keeps what shadows it.
LEMMA AddsShadowers ==
  ASSUME NEW m \in State, NEW x \in State, Adds(m, x), NEW u \in [Obj -> Nat], NEW v \in [Obj -> Nat],
         Objects(m.obj, u), Objects(x.obj, v), NEW o \in Obj, m.obj[o].kind # "free", u[o] = v[o]
  PROVE  Shadowers(x.obj, o) = Shadowers(m.obj, o)
<1>1. x.obj[o] = m.obj[o]
  BY DEF Adds
<1>2. Pages(x.obj, o) = Pages(m.obj, o)
  BY <1>1 DEF Pages
<1>3. Cardinality(Shadowers(x.obj, o)) = Cardinality(Shadowers(m.obj, o))
  <2>1. m.obj[o].ref = u[o] + Cardinality(Shadowers(m.obj, o)) + Cardinality(Pages(m.obj, o))
    BY DEF Objects, Counts
  <2>2. x.obj[o].ref = v[o] + Cardinality(Shadowers(x.obj, o)) + Cardinality(Pages(x.obj, o))
    BY DEF Objects, Counts
  <2> QED BY <1>1, <1>2, <2>1, <2>2, FiniteParts
<1>4. Shadowers(m.obj, o) \in SUBSET Shadowers(x.obj, o)
  <2> SUFFICES ASSUME NEW h \in Obj, m.obj[h].shadowed = o PROVE x.obj[h].shadowed = o
    BY DEF Shadowers
  <2>1. m.obj[h].kind # "free"
    BY Constants DEF Objects, Kinds, FreeObj
  <2> QED BY <2>1 DEF Adds
<1> QED BY <1>3, <1>4, FS_Subset, FiniteParts

-----------------------------------------------------------------------------
(* From one state to the next: the invariant but for the translations of   *)
(* the pages in E, and with users u of the objects.                        *)

GoodBut(m, u, sh, E) ==
  /\ m \in State /\ Ptes(m) /\ Counting(m, u) /\ \A p \in Proc : Tidy(m.areas[p], m.heap[p], sh)
  /\ Tops(m.obj, m.areas)
  /\ \A p \in Proc, i \in Page : <<p, i>> \in E \/ PteOK(m.obj, m.areas[p], i, m.pte[p][i], sh)

LEMMA GoodParts ==
  ASSUME NEW m, NEW sh, Good(m, sh)
  PROVE  GoodBut(m, U(m.areas), sh, {}) /\ Dead(m)
<1>1. m \in State /\ Ptes(m) /\ U(m.areas) \in [Obj -> Nat]
  BY PtesOKPtes, StateParts, UType DEF Good, Lists
<1>2. Counting(m, U(m.areas))
  BY <1>1 DEF Good, Counting
<1> QED BY <1>1, <1>2 DEF Good, GoodBut, PtesOK

LEMMA LosesGood ==
  ASSUME NEW m, NEW u, NEW sh, NEW E, GoodBut(m, u, sh, E), NEW x \in State, Ptes(x), Loses(m, x),
         NEW v, Counting(x, v), Within(m, x), \A p \in Proc : Tidy(x.areas[p], x.heap[p], sh),
         NEW F, \A e \in E : e \in F, \A p \in Proc, i \in Page : <<p, i>> \in F \/ Stays(m, x, p, i)
  PROVE  GoodBut(x, v, sh, F)
<1>1. m \in State /\ Tops(m.obj, m.areas)
  BY DEF GoodBut
<1>2. Tops(x.obj, x.areas)
  BY <1>1, LosesTops
<1>3. ASSUME NEW p \in Proc, NEW i \in Page, <<p, i>> \notin F PROVE PteOK(x.obj, x.areas[p], i, x.pte[p][i], sh)
  <2>1. PteOK(m.obj, m.areas[p], i, m.pte[p][i], sh) /\ Stays(m, x, p, i)
    BY <1>3 DEF GoodBut
  <2> QED BY <1>1, <2>1, LosesPte
<1> QED BY <1>2, <1>3 DEF GoodBut

LEMMA AddsGood ==
  ASSUME NEW m, NEW u, NEW sh, NEW E, GoodBut(m, u, sh, E), NEW p \in Proc, NEW a \in AreaRec,
         a.start < a.end, a.off = 0, NEW x \in State, Ptes(x), Mapped(m, x, p, a),
         Objects(x.obj, Plus(u, a.obj)), U(x.areas) = Plus(U(m.areas), a.obj)
  PROVE  GoodBut(x, Plus(u, a.obj), sh, E)
<1>1. /\ m \in State /\ Tops(m.obj, m.areas) /\ Counting(m, u) /\ Adds(m, x) /\ a.obj \in Obj
      /\ m.obj[a.obj].kind = "free" /\ Inserted(x.areas[p], m.areas[p], a)
      /\ \A q \in Proc : q # p => x.areas[q] = m.areas[q]
  BY DEF GoodBut, Mapped
<1>2. PICK v : v = Plus(u, a.obj)
  OBVIOUS
<1>3. u \in [Obj -> Nat] /\ U(m.areas) \in [Obj -> Nat]
  BY <1>1, StateParts, UType DEF Counting, Lists
<1>4. /\ v \in [Obj -> Nat] /\ \A z \in Obj : v[z] = IF z = a.obj THEN u[z] + 1 ELSE u[z]
      /\ \A z \in Obj : U(x.areas)[z] = IF z = a.obj THEN U(m.areas)[z] + 1 ELSE U(m.areas)[z]
  BY <1>2, <1>3, PlusType
<1>5. Counting(x, v)
  <2>1. ASSUME NEW z \in Obj PROVE U(x.areas)[z] <= v[z]
    BY <1>1, <1>3, <1>4 DEF Counting
  <2> QED BY <1>2, <1>4, <2>1 DEF Counting
<1>6. \A q \in Proc : Tidy(x.areas[q], x.heap[q], sh)
  <2>1. x.heap = m.heap /\ \A q \in Proc : Tidy(m.areas[q], m.heap[q], sh)
    BY <1>1 DEF Adds, GoodBut
  <2>2. Tidy(x.areas[p], x.heap[p], sh)
    <3>1. WellFormed(x.areas[p])
      BY <1>1 DEF Inserted
    <3>2. ASSUME NEW k \in DOMAIN x.areas[p], NEW d, d = x.areas[p][k]
          PROVE  /\ d.off <= d.start - LOW
                 /\ d.start < d.end
                      \/ (sh /\ x.heap[p] # NULL /\ d.start = d.end /\ d.start = x.heap[p].page)
      <4>1. CASE d = a
        <5>1. a.start \in LOW .. HIGH
          BY AreaParts
        <5> QED BY <4>1, <5>1, Constants
      <4>2. CASE \E j \in DOMAIN m.areas[p] : d = m.areas[p][j]
        BY <2>1, <4>2 DEF Tidy
      <4> QED BY <1>1, <3>2, <4>1, <4>2 DEF Inserted
    <3> QED BY <3>1, <3>2 DEF Tidy
  <2>3. ASSUME NEW q \in Proc, q # p PROVE Tidy(x.areas[q], x.heap[q], sh)
    BY <1>1, <2>1, <2>3
  <2> QED BY <2>2, <2>3
<1>7. Tops(x.obj, x.areas)
  <2> SUFFICES ASSUME NEW q \in Proc, NEW k \in DOMAIN x.areas[q], NEW d, d = x.areas[q][k]
               PROVE  TopOK(x.obj, x.areas, q, d)
    BY DEF Tops
  <2>1. ASSUME NEW r \in Proc, NEW j \in DOMAIN x.areas[r]
        PROVE  (r = p /\ x.areas[r][j] = a) \/ \E h \in DOMAIN m.areas[r] : x.areas[r][j] = m.areas[r][h]
    BY <1>1 DEF Inserted
  <2>2. ASSUME NEW r \in Proc, NEW h \in DOMAIN m.areas[r]
        PROVE  m.areas[r][h].obj \in Obj /\ m.obj[m.areas[r][h].obj].kind # "free"
    BY <1>1, UserLive
  <2>3. CASE d = a
    <3>1. ASSUME NEW r \in Proc, NEW j \in DOMAIN x.areas[r], x.areas[r][j].obj = a.obj PROVE r = p
      BY <1>1, <2>1, <2>2, <3>1
    <3>2. \E e \in DOMAIN x.areas[p] : x.areas[p][e] = a
      BY <1>1 DEF Inserted
    <3>3. q = p
      BY <2>3, <3>1
    <3> QED BY <2>3, <3>1, <3>3 DEF TopOK, Mapped
  <2>4. CASE \E h \in DOMAIN m.areas[q] : d = m.areas[q][h]
    <3>1. PICK h \in DOMAIN m.areas[q] : d = m.areas[q][h]
      BY <2>4
    <3>2. d.obj \in Obj /\ m.obj[d.obj].kind # "free" /\ d.obj # a.obj /\ TopOK(m.obj, m.areas, q, d)
      BY <1>1, <2>2, <3>1 DEF Tops
    <3>3. x.obj[d.obj] = m.obj[d.obj] /\ v[d.obj] = u[d.obj]
      BY <1>1, <1>4, <3>2 DEF Adds
    <3>4. Shadowers(x.obj, d.obj) = Shadowers(m.obj, d.obj)
      <4>1. PICK z : z = d.obj
        OBVIOUS
      <4>2. z \in Obj /\ m.obj[z].kind # "free" /\ u[z] = v[z] /\ Objects(m.obj, u) /\ Objects(x.obj, v)
        BY <1>1, <1>5, <3>2, <3>3, <4>1 DEF Counting
      <4>3. Shadowers(x.obj, z) = Shadowers(m.obj, z)
        BY <1>1, <1>3, <1>4, <4>2, AddsShadowers
      <4> QED BY <4>1, <4>3
    <3>5. ASSUME NEW r \in Proc, NEW j \in DOMAIN x.areas[r], x.areas[r][j].obj = d.obj, ~d.shared PROVE r = q
      BY <2>1, <3>2, <3>5 DEF TopOK
    <3> QED BY <3>2, <3>3, <3>4, <3>5 DEF TopOK
  <2> QED BY <2>1, <2>3, <2>4
<1>8. ASSUME NEW q \in Proc, NEW i \in Page, <<q, i>> \notin E PROVE PteOK(x.obj, x.areas[q], i, x.pte[q][i], sh)
  <2>1. PteOK(m.obj, m.areas[q], i, m.pte[q][i], sh)
    BY <1>8 DEF GoodBut
  <2>2. Stays(m, x, q, i)
    <3>1. \A k \in DOMAIN m.areas[q] : \E e \in DOMAIN x.areas[q] : x.areas[q][e] = m.areas[q][k]
      BY <1>1 DEF Inserted
    <3> QED BY <3>1 DEF Stays, Fits
  <2> QED BY <1>1, <2>1, <2>2, AddsPte
<1> QED BY <1>2, <1>5, <1>6, <1>7, <1>8 DEF GoodBut

\* Translations are cleared, and perhaps a heap is set.
Wiped(m, x, E) ==
  /\ x \in State /\ x.obj = m.obj /\ x.areas = m.areas
  /\ \A p \in Proc, i \in Page : x.pte[p][i] = NoPte \/ (x.pte[p][i] = m.pte[p][i] /\ <<p, i>> \notin E)

LEMMA ClearGood ==
  ASSUME NEW m, NEW u, NEW sh, NEW E, GoodBut(m, u, sh, E), u = U(m.areas), NEW x, Wiped(m, x, E),
         \A p \in Proc : Tidy(x.areas[p], x.heap[p], sh), Dead(x)
  PROVE  Good(x, sh)
<1>1. ASSUME NEW p \in Proc, NEW i \in Page PROVE PteOK(x.obj, x.areas[p], i, x.pte[p][i], sh)
  BY DEF GoodBut, PteOK, Wiped
<1> QED BY <1>1 DEF Good, GoodBut, Counting, PtesOK, Wiped

LEMMA ClearStep ==
  ASSUME NEW m \in State, NEW p \in Proc, NEW lo, NEW hi, NEW x, x = pt_unmap_range(m, p, lo, hi)
  PROVE  /\ x \in State /\ x.obj = m.obj /\ x.areas = m.areas /\ x.heap = m.heap /\ x.crash = m.crash
         /\ \A q \in Proc, i \in Page :
              x.pte[q][i] = IF q = p /\ i \in Cleared(lo, hi) THEN NoPte ELSE m.pte[q][i]
<1>1. PICK C : C = Cleared(lo, hi)
  OBVIOUS
<1>2. PICK g : g = [i \in Page |-> IF i \in C THEN NoPte ELSE m.pte[p][i]]
  OBVIOUS
<1>3. g \in [Page -> Pte] /\ \A i \in Page : g[i] = IF i \in C THEN NoPte ELSE m.pte[p][i]
  BY <1>2, StateParts, PteTypes
<1>4. PICK t : t = [m.pte EXCEPT ![p] = g]
  OBVIOUS
<1>5. t \in [Proc -> [Page -> Pte]] /\ t[p] = g /\ \A q \in Proc : q # p => t[q] = m.pte[q]
  BY <1>3, <1>4, StateParts
<1>6. x = [m EXCEPT !.pte = t]
  BY <1>1, <1>2, <1>4, StateParts DEF pt_unmap_range, State
<1>7. x \in State /\ x.obj = m.obj /\ x.areas = m.areas /\ x.heap = m.heap /\ x.crash = m.crash /\ x.pte = t
  BY <1>5, <1>6 DEF State
<1> QED BY <1>1, <1>3, <1>5, <1>7

-----------------------------------------------------------------------------
(* pt_unmap_range clears the pages of the range, whatever else it clears.  *)

LEMMA Division ==
  ASSUME NEW n \in Nat
  PROVE  /\ Table(n) \in Nat /\ Index(n) \in Nat /\ Index(n) < PT_ENTRY_COUNT
         /\ n = PT_ENTRY_COUNT * Table(n) + Index(n)
<1>1. PT_ENTRY_COUNT \in Nat \ {0, 1}
  BY VMAssumption
<1> QED BY <1>1 DEF Table, Index

LEMMA Multiples ==
  ASSUME NEW c \in Nat \ {0}, NEW a \in Nat, NEW b \in Nat
  PROVE  (a < b => c * a + c <= c * b) /\ c * a \in Nat
<1>1. ASSUME a < b PROVE c * a + c <= c * b
  <2>1. PICK d \in Nat : b = a + 1 + d
    <3>1. b - a - 1 \in Nat /\ b = a + 1 + (b - a - 1)
      BY <1>1
    <3> QED BY <3>1
  <2>2. c * b = c * a + c + c * d /\ c * d \in Nat /\ c * a \in Nat
    BY <2>1
  <2> QED BY <2>2
<1> QED BY <1>1

LEMMA ClearsRange ==
  ASSUME NEW lo \in LOW .. HIGH, NEW hi \in LOW .. HIGH, NEW i \in Page, lo <= i, i < hi
  PROVE  i \in Cleared(lo, hi)
<1>1. PICK c : c = PT_ENTRY_COUNT
  OBVIOUS
<1>2. c \in Nat \ {0, 1} /\ lo \in Nat /\ hi \in Nat /\ i \in Nat /\ lo + c - 1 \in Nat
  BY <1>1, VMAssumption, Constants DEF Page
<1>3. PICK a, b, d, e : a = Table(lo) /\ b = Table(i) /\ d = Table(hi) /\ e = Table(lo + c - 1)
  OBVIOUS
<1>4. PICK j, k, l, n : j = Index(lo) /\ k = Index(i) /\ l = Index(hi) /\ n = Index(lo + c - 1)
  OBVIOUS
<1>5. /\ a \in Nat /\ b \in Nat /\ d \in Nat /\ e \in Nat /\ j \in 0 .. c - 1 /\ k \in 0 .. c - 1
      /\ l \in 0 .. c - 1 /\ n \in 0 .. c - 1
      /\ lo = c * a + j /\ i = c * b + k /\ hi = c * d + l /\ lo + c - 1 = c * e + n
  <2>1. a \in Nat /\ j \in 0 .. c - 1 /\ lo = c * a + j
    BY <1>1, <1>2, <1>3, <1>4, Division
  <2>2. b \in Nat /\ k \in 0 .. c - 1 /\ i = c * b + k
    BY <1>1, <1>2, <1>3, <1>4, Division
  <2>3. d \in Nat /\ l \in 0 .. c - 1 /\ hi = c * d + l
    BY <1>1, <1>2, <1>3, <1>4, Division
  <2>4. e \in Nat /\ n \in 0 .. c - 1 /\ lo + c - 1 = c * e + n
    BY <1>1, <1>2, <1>3, <1>4, Division
  <2> QED BY <2>1, <2>2, <2>3, <2>4
<1>6. a <= b
  <2>1. b < a => c * b + c <= c * a
    BY <1>2, <1>5, Multiples
  <2>2. c * a \in Nat /\ c * b \in Nat
    BY <1>2, <1>5, Multiples
  <2> QED BY <1>2, <1>5, <2>1, <2>2
<1>7. b < d \/ (b = d /\ l # 0)
  <2>1. d < b => c * d + c <= c * b
    BY <1>2, <1>5, Multiples
  <2>2. c * d \in Nat /\ c * b \in Nat
    BY <1>2, <1>5, Multiples
  <2>3. ~(d < b)
    BY <1>2, <1>5, <2>1, <2>2
  <2>4. b = d => l # 0
    BY <1>2, <1>5, <2>2
  <2> QED BY <1>5, <2>3, <2>4
<1>8. e <= b \/ (a = b /\ j # 0)
  <2>1. c * a \in Nat /\ c * e \in Nat
    BY <1>2, <1>5, Multiples
  <2>2. e <= a + 1
    <3>1. a + 1 < e => c * (a + 1) + c <= c * e
      BY <1>2, <1>5, Multiples
    <3>2. c * (a + 1) = c * a + c
      BY <1>2, <1>5
    <3> QED BY <1>2, <1>5, <2>1, <3>1, <3>2
  <2>3. j = 0 => e <= a
    <3>1. a < e => c * a + c <= c * e
      BY <1>2, <1>5, Multiples
    <3> QED BY <1>2, <1>5, <2>1, <3>1
  <2> QED BY <1>5, <1>6, <2>2, <2>3
<1>9. \/ j # 0 /\ b = a /\ i >= lo
      \/ l # 0 /\ b = d /\ i < hi
      \/ e <= b /\ b < d
  BY <1>7, <1>8
<1> QED BY <1>1, <1>3, <1>4, <1>9 DEF Cleared

-----------------------------------------------------------------------------
(* A step, and the state after a crash.                                    *)

LEMMA FiveFields ==
  ASSUME NEW SA, NEW SB, NEW ST, NEW SH, NEW SC, NEW A \in SA, NEW B \in SB, NEW T \in ST, NEW H \in SH,
         NEW c \in SC, NEW x, x = [areas |-> A, obj |-> B, pte |-> T, heap |-> H, crash |-> c]
  PROVE  x \in [areas : SA, obj : SB, pte : ST, heap : SH, crash : SC]
OBVIOUS

LEMMA StateOf ==
  ASSUME NEW A \in [Proc -> Seq(AreaRec)], NEW B \in Objs, NEW T \in [Proc -> [Page -> Pte]],
         NEW H \in [Proc -> Brks \cup {NULL}], NEW c \in Crashes,
         NEW x, x = [areas |-> A, obj |-> B, pte |-> T, heap |-> H, crash |-> c]
  PROVE  x \in State
<1>1. PICK SA, SB, ST, SH, SC : /\ SA = [Proc -> Seq(AreaRec)] /\ SB = Objs /\ ST = [Proc -> [Page -> Pte]]
                                /\ SH = [Proc -> Brks \cup {NULL}] /\ SC = Crashes
  OBVIOUS
<1>2. A \in SA /\ B \in SB /\ T \in ST /\ H \in SH /\ c \in SC
  BY <1>1
<1>3. x \in [areas : SA, obj : SB, pte : ST, heap : SH, crash : SC]
  BY <1>2, FiveFields
<1> QED BY <1>1, <1>3 DEF State

LEMMA EmptyGood ==
  ASSUME NEW c \in Crashes, NEW x, x = [NoObjects EXCEPT !.crash = c], NEW sh
  PROVE  Good(x, sh) /\ x.crash = c
<1>1. /\ x.areas = [p \in Proc |-> <<>>] /\ x.obj = [o \in Obj |-> FreeObj]
      /\ x.pte = [p \in Proc |-> [i \in Page |-> NoPte]] /\ x.heap = [p \in Proc |-> NULL] /\ x.crash = c
      /\ x \in State
  <2>1. <<>> \in Seq(AreaRec) /\ FreeObj \in ObjRec /\ NoPte \in Pte
    BY FreeObjType, PteTypes
  <2>2. PICK A, B, T, H : /\ A = [p \in Proc |-> <<>>] /\ B = [o \in Obj |-> FreeObj]
                          /\ T = [p \in Proc |-> [i \in Page |-> NoPte]] /\ H = [p \in Proc |-> NULL]
    OBVIOUS
  <2>3. A \in [Proc -> Seq(AreaRec)] /\ B \in Objs /\ T \in [Proc -> [Page -> Pte]] /\ H \in [Proc -> Brks \cup {NULL}]
    BY <2>1, <2>2 DEF Objs
  <2>4. x = [areas |-> A, obj |-> B, pte |-> T, heap |-> H, crash |-> c]
    BY <2>2 DEF NoObjects
  <2>5. x.areas = A /\ x.obj = B /\ x.pte = T /\ x.heap = H /\ x.crash = c /\ x \in State
    <3>1. x.areas = A /\ x.obj = B /\ x.pte = T /\ x.heap = H /\ x.crash = c
      BY <2>4
    <3>2. x \in State
      BY <2>3, <2>4, StateOf
    <3> QED BY <3>1, <3>2
  <2> QED BY <2>2, <2>5
<1>2. PICK b, u : b = x.obj /\ u = U(x.areas)
  OBVIOUS
<1>3. b \in Objs /\ \A o \in Obj : b[o] = FreeObj /\ b[o].shadowed = NULL /\ b[o].kind = "free" /\ b[o].ref = 0
  <2>1. FreeObj.shadowed = NULL /\ FreeObj.kind = "free" /\ FreeObj.ref = 0
    BY DEF FreeObj
  <2>2. b \in Objs /\ \A o \in Obj : b[o] = FreeObj
    BY <1>1, <1>2, StateParts
  <2> QED BY <2>1, <2>2
<1>4. ASSUME NEW o \in Obj PROVE u[o] = 0 /\ Shadowers(b, o) = {} /\ Pages(b, o) = {}
  <2>1. Users(x.areas, o) = {}
    <3>1. \A p \in Proc : DOMAIN x.areas[p] = {}
      BY <1>1
    <3> QED BY <3>1 DEF Users
  <2>2. u[o] = 0
    BY <1>2, <2>1, FS_EmptySet DEF U
  <2>3. Shadowers(b, o) = {}
    BY <1>3, Constants DEF Shadowers
  <2> QED BY <1>3, <2>2, <2>3, FreeObjType
<1>5. Objects(b, u)
  <2>1. Kinds(b)
    BY <1>3 DEF Kinds
  <2>2. Counts(b, u)
    BY <1>3, <1>4, FS_EmptySet DEF Counts
  <2>3. Live(b, u)
    BY <1>3, <1>4 DEF Live
  <2>4. Grounded(b)
    <3> SUFFICES ASSUME NEW S \in SUBSET Obj, S # {} PROVE \E y \in S : b[y].shadowed \notin S
      BY DEF Grounded
    <3>1. PICK y \in S : TRUE
      OBVIOUS
    <3>2. b[y].shadowed = NULL /\ NULL \notin S
      BY <1>3, Constants
    <3> QED BY <3>1, <3>2
  <2> QED BY <1>3, <2>1, <2>2, <2>3, <2>4 DEF Objects
<1>6. ASSUME NEW p \in Proc PROVE Tidy(x.areas[p], x.heap[p], sh)
  <2>1. x.areas[p] = <<>> /\ <<>> \in Lists
    BY <1>1 DEF Lists
  <2> QED BY <2>1 DEF Tidy, WellFormed, Ordered
<1>7. Tops(x.obj, x.areas)
  <2>1. \A p \in Proc : DOMAIN x.areas[p] = {}
    BY <1>1
  <2> QED BY <2>1 DEF Tops
<1>8. PtesOK(x, sh) /\ Dead(x)
  BY <1>1 DEF PtesOK, PteOK, Dead
<1> QED BY <1>1, <1>2, <1>5, <1>6, <1>7, <1>8 DEF Good

LEMMA Stepped ==
  ASSUME NEW m, m.crash \in Crashes, m.crash = NoCrash => Good(m, shrunk'), shrunk' \in BOOLEAN,
         m.crash \in {"vmmap_insert", "store to freed memory"} => shrunk', Step(m)
  PROVE  IInv'
<1>1. CASE m.crash = NoCrash
  BY <1>1 DEF Step, IInv
<1>2. CASE m.crash # NoCrash
  <2>1. PICK y : y = [NoObjects EXCEPT !.crash = m.crash]
    OBVIOUS
  <2>2. Good(y, shrunk') /\ y.crash = m.crash
    BY <2>1, EmptyGood
  <2>3. s' = y
    BY <1>2, <2>1 DEF Step
  <2> QED BY <2>2, <2>3 DEF IInv
<1> QED BY <1>1, <1>2

LEMMA Crashed ==
  ASSUME NEW m \in State, m.crash = NoCrash, NEW why, NEW x, x = Crash(m, why)
  PROVE  x.crash = why
BY DEF Crash, State

LEMMA SteppedOn ==
  ASSUME NEW m, NEW m0, Good(m, shrunk), m.crash = m0.crash, m0.crash = NoCrash, Step(m),
         shrunk' = shrunk, shrunk \in BOOLEAN
  PROVE  IInv'
<1>1. m.crash = NoCrash /\ NoCrash \in Crashes /\ m.crash \notin {"vmmap_insert", "store to freed memory"}
  BY DEF NoCrash, Crashes
<1> QED BY <1>1, Stepped

LEMMA LosesDead ==
  ASSUME NEW m \in State, NEW x \in State, Loses(m, x), Within(m, x), Dead(m)
  PROVE  Dead(x)
<1> SUFFICES ASSUME NEW p \in Proc, x.heap[p] = NULL
             PROVE  x.areas[p] = <<>> /\ \A i \in Page : x.pte[p][i] = NoPte
  BY DEF Dead
<1>1. m.areas[p] = <<>> /\ \A i \in Page : m.pte[p][i] = NoPte
  BY DEF Loses, Dead
<1>2. x.areas[p] = <<>>
  <2>1. DOMAIN x.areas[p] = {}
    <3>1. DOMAIN m.areas[p] = {}
      BY <1>1
    <3> QED BY <3>1 DEF Within
  <2>2. x.areas[p] \in Seq(AreaRec)
    BY StateParts
  <2>3. Len(x.areas[p]) \in Nat /\ DOMAIN x.areas[p] = 1 .. Len(x.areas[p])
    BY <2>2, ListParts DEF Lists
  <2>4. Len(x.areas[p]) = 0
    <3>1. PICK n : n = Len(x.areas[p])
      OBVIOUS
    <3>2. n \in Nat /\ 1 \notin 1 .. n
      BY <2>1, <2>3, <3>1
    <3>3. n >= 1 => 1 \in 1 .. n
      BY <3>2
    <3> QED BY <3>1, <3>2, <3>3
  <2> QED BY <2>2, <2>4, EmptySeq
<1>3. ASSUME NEW i \in Page PROVE x.pte[p][i] = NoPte
  <2>1. m.pte[p][i] = NoPte /\ m.pte[p][i].o \notin Obj
    BY <1>1, PteTypes
  <2> QED BY <2>1 DEF Loses
<1> QED BY <1>2, <1>3

-----------------------------------------------------------------------------
(* munmap and exit.                                                        *)

LEMMA LeftTidy ==
  ASSUME NEW l, NEW h, NEW sh, Tidy(l, h, sh), NEW lo, NEW hi, NEW R, Left(R, l, Len(l), lo, hi)
  PROVE  Tidy(R, h, sh)
<1>1. l \in Lists /\ R \in Lists /\ Ordered(R) /\ DOMAIN l = 1 .. Len(l)
  BY ListParts DEF Tidy, WellFormed, Left
<1>2. ASSUME NEW k \in DOMAIN R
      PROVE  /\ R[k].start <= R[k].end /\ R[k].off <= R[k].start - LOW
             /\ R[k].start < R[k].end
                  \/ (sh /\ h # NULL /\ R[k].start = R[k].end /\ R[k].start = h.page)
  <2>1. PICK j \in DOMAIN l : IsPart(R[k], l[j])
    BY <1>1 DEF Left
  <2>2. PICK e, a : e = R[k] /\ a = l[j]
    OBVIOUS
  <2>3. e \in AreaRec /\ a \in AreaRec
    BY <1>1, <2>2, ListParts
  <2>4. /\ a.start <= a.end /\ a.off <= a.start - LOW
        /\ a.start < a.end \/ (sh /\ h # NULL /\ a.start = a.end /\ a.start = h.page)
    BY <2>2 DEF Tidy, WellFormed
  <2>5. e.off - e.start = a.off - a.start /\ (e = a \/ e.start < e.end)
    BY <2>1, <2>2 DEF IsPart
  <2>6. e.off \in Int /\ e.start \in Int /\ e.end \in Int /\ a.off \in Int /\ a.start \in Int /\ LOW \in Int
    BY <2>3, AreaParts, Constants
  <2>7. e.off <= e.start - LOW
    BY <2>4, <2>5, <2>6
  <2>8. CASE e = a
    BY <2>2, <2>4, <2>8
  <2>9. CASE e.start < e.end
    BY <2>2, <2>6, <2>7, <2>9
  <2> QED BY <2>5, <2>8, <2>9
<1> QED BY <1>1, <1>2 DEF Tidy, WellFormed

Span(p, lo, hi) == {<<p, i>> : i \in lo .. hi - 1}

LEMMA RemoveGood ==
  ASSUME NEW m, NEW sh, Good(m, sh), NEW p \in Proc, NEW lo \in LOW .. HIGH, NEW hi \in LOW .. HIGH, lo < hi,
         NEW x, x = vmmap_remove(m, p, lo, hi), NEW F, F = Span(p, lo, hi)
  PROVE  /\ GoodBut(x, U(x.areas), sh, F) /\ Dead(x) /\ Loses(m, x)
         /\ \A k \in DOMAIN x.areas[p] : Outside(x.areas[p][k], lo, hi)
<1>1. /\ m \in State /\ Ptes(m) /\ Objects(m.obj, U(m.areas)) /\ Dead(m)
      /\ \A q \in Proc : Tidy(m.areas[q], m.heap[q], sh)
  BY GoodParts DEF Good, GoodBut
<1>2. /\ x \in State /\ Ptes(x) /\ Loses(m, x) /\ Objects(x.obj, U(x.areas))
      /\ Left(x.areas[p], m.areas[p], Len(m.areas[p]), lo, hi)
      /\ \A q \in Proc : q # p => x.areas[q] = m.areas[q]
  <2>1. WellFormed(m.areas[p])
    BY <1>1 DEF Tidy
  <2> QED BY <1>1, <2>1, RemoveStep
<1>3. PICK v : v = U(x.areas)
  OBVIOUS
<1>4. Counting(x, v)
  <2>1. v \in [Obj -> Nat]
    BY <1>2, <1>3, StateParts, UType DEF Lists
  <2> QED BY <1>2, <1>3, <2>1 DEF Counting
<1>5. m.areas[p] \in Lists /\ DOMAIN m.areas[p] = 1 .. Len(m.areas[p])
  BY <1>1, StateParts, ListParts DEF Lists
<1>6. Within(m, x)
  <2>1. \A e \in DOMAIN x.areas[p] : \E k \in DOMAIN m.areas[p] : Fits(x.areas[p][e], m.areas[p][k])
    BY <1>2, <1>5 DEF Left, IsPart, Fits
  <2>2. \A q \in Proc : q # p => \A e \in DOMAIN x.areas[q] : \E k \in DOMAIN m.areas[q] :
          Fits(x.areas[q][e], m.areas[q][k])
    BY <1>2 DEF Fits
  <2> QED BY <2>1, <2>2 DEF Within
<1>7. \A q \in Proc : Tidy(x.areas[q], x.heap[q], sh)
  <2>1. x.heap = m.heap
    BY <1>2 DEF Loses
  <2>2. Tidy(x.areas[p], m.heap[p], sh)
    BY <1>1, <1>2, LeftTidy
  <2> QED BY <1>1, <1>2, <2>1, <2>2
<1>8. ASSUME NEW q \in Proc, NEW i \in Page PROVE <<q, i>> \in F \/ Stays(m, x, q, i)
  <2>1. CASE q = p /\ lo <= i /\ i < hi
    <3>1. i \in lo .. hi - 1
      BY <2>1, Constants DEF Page
    <3> QED BY <2>1, <3>1 DEF Span
  <2>2. CASE q # p
    <3>1. x.areas[q] = m.areas[q]
      BY <1>2, <2>2
    <3> QED BY <3>1 DEF Stays, Fits
  <2>3. CASE q = p /\ ~(lo <= i /\ i < hi)
    <3>1. i \in Int
      BY Constants DEF Page
    <3>2. \A j \in DOMAIN m.areas[p] : Covers(m.areas[p][j], i) =>
            \E e \in DOMAIN x.areas[p] : Covers(x.areas[p][e], i) /\ IsPart(x.areas[p][e], m.areas[p][j])
      BY <1>2, <1>5, <2>3, <3>1 DEF Left
    <3> QED BY <2>3, <3>2 DEF Stays, Fits, IsPart
  <2> QED BY <2>1, <2>2, <2>3
<1>9. GoodBut(x, v, sh, F)
  <2>1. GoodBut(m, U(m.areas), sh, {})
    BY GoodParts
  <2> QED BY <1>2, <1>4, <1>6, <1>7, <1>8, <2>1, LosesGood
<1>10. Dead(x)
  BY <1>1, <1>2, <1>6, LosesDead
<1> QED BY <1>2, <1>3, <1>9, <1>10 DEF Left

\* What pt_unmap_range leaves of a state that is good but for the range.
LEMMA UnmapGood ==
  ASSUME NEW m, NEW u, NEW sh, NEW F, GoodBut(m, u, sh, F), u = U(m.areas), Dead(m), NEW p \in Proc,
         NEW lo \in LOW .. HIGH, NEW hi \in LOW .. HIGH,
         F = Span(p, lo, hi), NEW x, x = pt_unmap_range(m, p, lo, hi)
  PROVE  Good(x, sh) /\ x.crash = m.crash
<1>1. m \in State
  BY DEF GoodBut
<1>2. /\ x \in State /\ x.obj = m.obj /\ x.areas = m.areas /\ x.heap = m.heap /\ x.crash = m.crash
      /\ \A q \in Proc, i \in Page :
           x.pte[q][i] = IF q = p /\ i \in Cleared(lo, hi) THEN NoPte ELSE m.pte[q][i]
  BY <1>1, ClearStep
<1>3. ASSUME NEW q \in Proc, NEW i \in Page
      PROVE  x.pte[q][i] = NoPte \/ (x.pte[q][i] = m.pte[q][i] /\ <<q, i>> \notin F)
  <2>1. CASE <<q, i>> \in F
    <3>1. q = p /\ i \in lo .. hi - 1
      BY <2>1 DEF Span
    <3>2. lo <= i /\ i < hi
      BY <3>1, Constants
    <3>3. i \in Cleared(lo, hi)
      BY <3>2, ClearsRange
    <3> QED BY <1>2, <3>1, <3>3
  <2>2. CASE <<q, i>> \notin F
    BY <1>2, <2>2
  <2> QED BY <2>1, <2>2
<1>4. Dead(x)
  BY <1>2 DEF Dead
<1>5. \A q \in Proc : Tidy(x.areas[q], x.heap[q], sh)
  BY <1>2 DEF GoodBut
<1>6. Wiped(m, x, F)
  BY <1>2, <1>3 DEF Wiped
<1>7. Good(x, sh)
  BY <1>4, <1>5, <1>6, ClearGood
<1> QED BY <1>2, <1>7

LEMMA MunmapGood ==
  ASSUME NEW p \in Proc, NEW lo \in Page, NEW n \in Sizes, IInv, do_munmap(p, lo, n)
  PROVE  IInv'
<1>1. n \in Nat \ {0} /\ lo + n <= HIGH /\ lo \in LOW .. HIGH - 1 /\ LOW \in Nat /\ HIGH \in Nat
  BY VMAssumption, Constants DEF do_munmap, Page
<1>2. PICK hi : hi = lo + n
  OBVIOUS
<1>3. lo \in LOW .. HIGH /\ hi \in LOW .. HIGH /\ lo < hi
  BY <1>1, <1>2
<1>4. PICK x, y : x = vmmap_remove(s, p, lo, hi) /\ y = pt_unmap_range(x, p, lo, hi)
  OBVIOUS
<1>5. PICK F : F = Span(p, lo, hi)
  OBVIOUS
<1>6. Good(s, shrunk) /\ shrunk \in BOOLEAN /\ s.crash = NoCrash /\ Step(y) /\ shrunk' = shrunk
  BY <1>2, <1>4 DEF IInv, do_munmap, Runs, Up
<1>7. GoodBut(x, U(x.areas), shrunk, F) /\ Dead(x) /\ Loses(s, x)
  BY <1>3, <1>4, <1>5, <1>6, RemoveGood
<1>8. Good(y, shrunk) /\ y.crash = x.crash
  <2>1. PICK v : v = U(x.areas)
    OBVIOUS
  <2>2. GoodBut(x, v, shrunk, F) /\ Dead(x)
    BY <1>7, <2>1
  <2> QED BY <1>3, <1>4, <1>5, <2>1, <2>2, UnmapGood
<1>9. y.crash = s.crash
  BY <1>7, <1>8 DEF Loses
<1> QED BY <1>6, <1>8, <1>9, SteppedOn

\* The state that vmmap_destroy and do_exit leave.
Left0(m, p, x) == x = [m EXCEPT !.pte[p] = [i \in Page |-> NoPte], !.heap[p] = NULL]

LEMMA LeftParts ==
  ASSUME NEW m \in State, NEW p \in Proc, NEW x, Left0(m, p, x)
  PROVE  /\ x \in State /\ x.obj = m.obj /\ x.areas = m.areas /\ x.crash = m.crash
         /\ x.heap[p] = NULL /\ \A q \in Proc : q # p => x.heap[q] = m.heap[q]
         /\ \A i \in Page : x.pte[p][i] = NoPte
         /\ \A q \in Proc : q # p => x.pte[q] = m.pte[q]
<1>1. PICK g : g = [i \in Page |-> NoPte]
  OBVIOUS
<1>2. g \in [Page -> Pte] /\ \A i \in Page : g[i] = NoPte
  BY <1>1, PteTypes
<1>3. PICK t, h : t = [m.pte EXCEPT ![p] = g] /\ h = [m.heap EXCEPT ![p] = NULL]
  OBVIOUS
<1>4. t \in [Proc -> [Page -> Pte]] /\ t[p] = g /\ \A q \in Proc : q # p => t[q] = m.pte[q]
  BY <1>2, <1>3, StateParts
<1>5. h \in [Proc -> Brks \cup {NULL}] /\ h[p] = NULL /\ \A q \in Proc : q # p => h[q] = m.heap[q]
  BY <1>3, StateParts
<1>6. x = [m EXCEPT !.pte = t, !.heap = h]
  BY <1>1, <1>3 DEF Left0, State
<1>7. x \in State /\ x.obj = m.obj /\ x.areas = m.areas /\ x.crash = m.crash /\ x.pte = t /\ x.heap = h
  BY <1>4, <1>5, <1>6 DEF State
<1> QED BY <1>2, <1>4, <1>5, <1>7

LEMMA ExitGood ==
  ASSUME NEW m, NEW sh, Good(m, sh), NEW p \in Proc, NEW y, y = Exit(m, p)
  PROVE  Good(y, sh) /\ y.crash = m.crash
<1>1. /\ m \in State /\ Ptes(m) /\ Objects(m.obj, U(m.areas)) /\ Dead(m)
      /\ \A q \in Proc : Tidy(m.areas[q], m.heap[q], sh)
  BY GoodParts DEF Good, GoodBut
<1>2. m.areas \in [Proc -> Lists] /\ m.areas[p] \in Lists /\ <<>> \in Lists
  BY <1>1, StateParts, InEmpty DEF Lists
<1>3. PICK n : AreasNow(n, m, p, <<>>)
  BY DEF AreasNow
<1>4. /\ n \in State /\ n.areas = [m.areas EXCEPT ![p] = <<>>] /\ n.obj = m.obj /\ n.pte = m.pte
      /\ n.heap = m.heap /\ n.crash = m.crash
  BY <1>1, <1>2, <1>3, WithAreas
<1>5. PICK w : w = U(n.areas)
  OBVIOUS
<1>6. /\ n.areas \in [Proc -> Lists] /\ n.areas[p] = <<>> /\ \A q \in Proc : q # p => n.areas[q] = m.areas[q]
      /\ \A o \in Obj : w[o] = U(m.areas)[o] - In(m.areas[p])[o] + In(<<>>)[o]
  BY <1>2, <1>4, <1>5, UReplaced
<1>7. PICK u : u = [o \in Obj |-> w[o] + In(m.areas[p])[o]]
  OBVIOUS
<1>8. w \in [Obj -> Nat] /\ U(m.areas) \in [Obj -> Nat] /\ In(m.areas[p]) \in [Obj -> Nat]
  BY <1>2, <1>5, <1>6, UType, InType
<1>9. u = U(m.areas)
  <2>1. ASSUME NEW o \in Obj PROVE u[o] = U(m.areas)[o]
    <3>1. PICK a, b : a = U(m.areas)[o] /\ b = In(m.areas[p])[o]
      OBVIOUS
    <3>2. a \in Nat /\ b \in Nat /\ w[o] = a - b
      BY <1>6, <1>8, <3>1, InEmpty
    <3> QED BY <1>7, <3>1, <3>2
  <2>2. u \in [Obj -> Int]
    BY <1>7, <1>8
  <2> QED BY <1>8, <2>1, <2>2
<1>10. PICK x : x = vmmap_destroy(m, p)
  OBVIOUS
<1>11. x = PutAll(n, m.areas[p])
  BY <1>3, <1>10 DEF vmmap_destroy, AreasNow
<1>12. x \in State /\ Ptes(x) /\ Frees(n, x) /\ Objects(x.obj, w)
  <2>1. Ptes(n) /\ Objects(n.obj, u)
    BY <1>1, <1>4, <1>9 DEF Ptes
  <2>2. PICK l : l = m.areas[p]
    OBVIOUS
  <2>3. l \in Lists /\ x = PutAll(n, l) /\ u \in [Obj -> Nat]
    BY <1>2, <1>8, <1>9, <1>11, <2>2
  <2>4. u = [o \in Obj |-> w[o] + In(l)[o]]
    BY <1>7, <2>2
  <2> QED BY <1>4, <1>8, <2>1, <2>3, <2>4, PutAllStep
<1>13. x.areas = n.areas /\ x.heap = m.heap /\ x.crash = m.crash
  BY <1>4, <1>12 DEF Frees
<1>14. Left0(x, p, y)
  BY <1>10 DEF Exit, Left0
<1>15. /\ y \in State /\ y.obj = x.obj /\ y.areas = x.areas /\ y.crash = x.crash
       /\ y.heap[p] = NULL /\ \A q \in Proc : q # p => y.heap[q] = x.heap[q]
       /\ \A i \in Page : y.pte[p][i] = NoPte
       /\ \A q \in Proc : q # p => y.pte[q] = x.pte[q]
  BY <1>12, <1>14, LeftParts
<1>16. Loses(m, x)
  <2>1. Loses(n, x)
    BY <1>12, FreesLoses
  <2> QED BY <1>4, <2>1 DEF Loses
<1>17. Counting(x, w)
  BY <1>5, <1>8, <1>12, <1>13 DEF Counting
<1>18. Within(m, x)
  <2>1. ASSUME NEW q \in Proc, NEW e \in DOMAIN x.areas[q] PROVE q # p /\ x.areas[q] = m.areas[q]
    BY <1>6, <1>13
  <2> QED BY <2>1 DEF Within, Fits
<1>19. PICK F : F = {p} \X Page
  OBVIOUS
<1>20. \A q \in Proc, i \in Page : <<q, i>> \in F \/ Stays(m, x, q, i)
  <2>1. ASSUME NEW q \in Proc, NEW i \in Page, q # p PROVE Stays(m, x, q, i)
    BY <1>6, <1>13, <2>1 DEF Stays, Fits
  <2>2. ASSUME NEW i \in Page PROVE <<p, i>> \in F
    BY <1>19
  <2> QED BY <2>1, <2>2
<1>21. \A q \in Proc : Tidy(x.areas[q], x.heap[q], sh) /\ Tidy(y.areas[q], y.heap[q], sh)
  <2>1. Tidy(x.areas[p], x.heap[p], sh) /\ Tidy(y.areas[p], y.heap[p], sh)
    <3>1. x.areas[p] = <<>> /\ y.areas[p] = <<>> /\ DOMAIN <<>> = {}
      BY <1>6, <1>13, <1>15
    <3> QED BY <1>2, <3>1 DEF Tidy, WellFormed, Ordered
  <2>2. ASSUME NEW q \in Proc, q # p PROVE Tidy(x.areas[q], x.heap[q], sh) /\ Tidy(y.areas[q], y.heap[q], sh)
    BY <1>1, <1>6, <1>13, <1>15, <2>2
  <2> QED BY <2>1, <2>2
<1>22. GoodBut(x, w, sh, F)
  <2>1. GoodBut(m, U(m.areas), sh, {})
    BY GoodParts
  <2> QED BY <1>12, <1>16, <1>17, <1>18, <1>20, <1>21, <2>1, LosesGood
<1>23. Wiped(x, y, F)
  <2>1. ASSUME NEW q \in Proc, NEW i \in Page
        PROVE  y.pte[q][i] = NoPte \/ (y.pte[q][i] = x.pte[q][i] /\ <<q, i>> \notin F)
    BY <1>15, <1>19
  <2> QED BY <1>15, <2>1 DEF Wiped
<1>24. Dead(y)
  <2>1. Dead(x)
    BY <1>1, <1>12, <1>16, <1>18, LosesDead
  <2>2. ASSUME NEW q \in Proc, y.heap[q] = NULL PROVE y.areas[q] = <<>> /\ \A i \in Page : y.pte[q][i] = NoPte
    <3>1. CASE q = p
      BY <1>6, <1>13, <1>15, <3>1
    <3>2. CASE q # p
      BY <1>15, <2>1, <2>2, <3>2 DEF Dead
    <3> QED BY <3>1, <3>2
  <2> QED BY <2>2 DEF Dead
<1>25. w = U(x.areas)
  BY <1>5, <1>13
<1>26. Good(y, sh)
  BY <1>21, <1>22, <1>23, <1>24, <1>25, ClearGood
<1> QED BY <1>13, <1>15, <1>26

LEMMA DoExitGood == ASSUME NEW p \in Proc, IInv, do_exit(p) PROVE IInv'
<1>1. PICK y : y = Exit(s, p)
  OBVIOUS
<1>2. Good(s, shrunk) /\ shrunk \in BOOLEAN /\ s.crash = NoCrash /\ Step(y) /\ shrunk' = shrunk
  BY <1>1 DEF IInv, do_exit, Runs, Up
<1>3. Good(y, shrunk) /\ y.crash = s.crash
  BY <1>1, <1>2, ExitGood
<1> QED BY <1>2, <1>3, SteppedOn

-----------------------------------------------------------------------------
(* brk.                                                                    *)

\* Once a heap has shrunk, translations need not belong to areas.
LEMMA Shrunk ==
  ASSUME NEW m, NEW u, NEW sh, NEW E, GoodBut(m, u, sh, E)
  PROVE  GoodBut(m, u, TRUE, {})
<1>1. ASSUME NEW p \in Proc, NEW i \in Page PROVE PteOK(m.obj, m.areas[p], i, m.pte[p][i], TRUE)
  BY DEF GoodBut, Ptes, PteOK
<1>2. \A p \in Proc : Tidy(m.areas[p], m.heap[p], TRUE)
  BY DEF GoodBut, Tidy
<1> QED BY <1>1, <1>2 DEF GoodBut

\* Area k of the list l, over the heap at page g, ends at end.
EndsAt(a, e, end) == a = [e EXCEPT !.end = end]

LEMMA MovedBreak ==
  ASSUME NEW l, NEW h, NEW sh, Tidy(l, h, sh), h # NULL, h.page \in Page, NEW k \in DOMAIN l, Covers(l[k], h.page),
         NEW end \in LOW .. HIGH, h.page <= end, l[k].end < end => vmmap_is_range_empty(l, l[k].end, end),
         NEW sh2, sh \/ end < l[k].end => sh2,
         NEW a, EndsAt(a, l[k], end), NEW r, Replaced(r, l, k, a)
  PROVE  /\ a \in AreaRec /\ Fits(a, l[k]) /\ a.start = l[k].start /\ a.end = end
         /\ r \in Lists /\ DOMAIN r = DOMAIN l /\ r[k] = a /\ \A j \in DOMAIN l : j # k => r[j] = l[j]
         /\ Tidy(r, h, sh2) /\ In(r) = In(l)
<1>1. l \in Lists /\ Ordered(l) /\ DOMAIN l = 1 .. Len(l) /\ Len(l) \in Nat
  BY ListParts DEF Tidy, WellFormed
<1>2. PICK e : e = l[k]
  OBVIOUS
<1>3. e \in AreaRec /\ e.start \in LOW .. HIGH /\ e.end \in LOW .. HIGH
  BY <1>1, <1>2, ListParts, AreaParts
<1>4. /\ a \in AreaRec /\ a.end = end /\ a.start = e.start /\ a.off = e.off /\ a.shared = e.shared
      /\ a.prot = e.prot /\ a.obj = e.obj
  BY <1>2, <1>3 DEF AreaRec, EndsAt
<1>5. r \in Lists /\ DOMAIN r = DOMAIN l /\ r[k] = a /\ \A j \in DOMAIN l : j # k => r[j] = l[j]
  BY <1>1, <1>4 DEF Lists, Replaced
<1>6. h.page \in Int /\ end \in Int /\ LOW \in Int /\ e.start <= h.page /\ h.page < e.end
  BY <1>2, Constants DEF Covers, Page
<1>7. ASSUME NEW j \in DOMAIN l, NEW d, d = l[j]
      PROVE  /\ d \in AreaRec /\ d.start \in Int /\ d.end \in Int /\ d.start <= d.end /\ d.off <= d.start - LOW
             /\ d.start < d.end \/ (sh /\ d.start = d.end /\ d.start = h.page)
             /\ (j < k => d.end <= e.start) /\ (k < j => e.end <= d.start)
  <2>1. d \in AreaRec /\ d.start \in Int /\ d.end \in Int
    BY <1>1, <1>7, ListParts, AreaParts
  <2>2. /\ d.start <= d.end /\ d.off <= d.start - LOW
        /\ d.start < d.end \/ (sh /\ d.start = d.end /\ d.start = h.page)
    BY <1>7 DEF Tidy, WellFormed
  <2>3. (j < k => d.end <= e.start) /\ (k < j => e.end <= d.start)
    BY <1>1, <1>2, <1>7 DEF Ordered
  <2> QED BY <2>1, <2>2, <2>3
<1>8. ASSUME NEW j \in DOMAIN l, k < j PROVE end <= l[j].start
  <2>1. PICK d : d = l[j]
    OBVIOUS
  <2>2. /\ d.start \in Int /\ d.end \in Int /\ d.start <= d.end /\ e.end <= d.start
        /\ d.start < d.end \/ d.start = h.page
    BY <1>7, <1>8, <2>1
  <2>3. e.end < end => d.start >= end \/ d.end <= e.end
    BY <1>2, <2>1 DEF vmmap_is_range_empty
  <2> QED BY <1>3, <1>6, <2>1, <2>2, <2>3
<1>9. Ordered(r)
  <2> SUFFICES ASSUME NEW i \in DOMAIN l, NEW j \in DOMAIN l, i < j PROVE r[i].end <= r[j].start
    BY <1>5 DEF Ordered
  <2>1. CASE i = k
    BY <1>1, <1>4, <1>5, <1>8, <2>1
  <2>2. CASE j = k
    BY <1>1, <1>2, <1>4, <1>5, <2>2 DEF Ordered
  <2>3. CASE i # k /\ j # k
    BY <1>1, <1>5, <2>3 DEF Ordered
  <2> QED BY <2>1, <2>2, <2>3
<1>10. Tidy(r, h, sh2)
  <2>1. ASSUME NEW j \in DOMAIN r, NEW d, d = r[j]
        PROVE  /\ d.start <= d.end /\ d.off <= d.start - LOW
               /\ d.start < d.end \/ (sh2 /\ h # NULL /\ d.start = d.end /\ d.start = h.page)
    <3>1. CASE j = k
      <4>1. d = a /\ d.start = e.start /\ d.end = end /\ d.off = e.off
        BY <1>4, <1>5, <2>1, <3>1
      <4>2. d.off <= d.start - LOW
        BY <1>2, <1>7, <4>1
      <4>3. d.start <= d.end
        BY <1>3, <1>6, <4>1
      <4>4. d.start < d.end \/ (d.start = d.end /\ d.start = h.page /\ end < e.end)
        BY <1>3, <1>6, <4>1
      <4> QED BY <1>2, <4>2, <4>3, <4>4
    <3>2. CASE j # k
      <4>1. j \in DOMAIN l /\ d = l[j]
        BY <1>5, <2>1, <3>2
      <4> QED BY <1>7, <4>1
    <3> QED BY <3>1, <3>2
  <2> QED BY <1>5, <1>9, <2>1 DEF Tidy, WellFormed
<1>11. In(r) = In(l)
  <2>1. ASSUME NEW o \in Obj PROVE {j \in DOMAIN r : r[j].obj = o} = {j \in DOMAIN l : l[j].obj = o}
    BY <1>2, <1>4, <1>5
  <2> QED BY <2>1 DEF In
<1> QED BY <1>2, <1>4, <1>5, <1>10, <1>11 DEF Fits

BrkTo(x, m, p, k, end) == x = [m EXCEPT !.areas[p][k].end = end]
Shrinks(sh2, sh, e, end) == sh2 = (sh \/ end < e)
MayBrk(m, p, k, end) ==
  /\ m.heap[p] # NULL /\ k # 0 /\ k = vmmap_lookup(m, p, m.heap[p].page) /\ m.heap[p].page <= end
  /\ m.areas[p][k].end < end => vmmap_is_range_empty(m.areas[p], m.areas[p][k].end, end)

LEMMA BrkGood ==
  ASSUME NEW m, NEW sh \in BOOLEAN, Good(m, sh), NEW p \in Proc, NEW k, NEW end \in LOW .. HIGH, MayBrk(m, p, k, end),
         NEW sh2 \in BOOLEAN, Shrinks(sh2, sh, m.areas[p][k].end, end), NEW x, BrkTo(x, m, p, k, end)
  PROVE  Good(x, sh2) /\ x.crash = m.crash
<1>1. /\ m \in State /\ Ptes(m) /\ Objects(m.obj, U(m.areas)) /\ Dead(m)
      /\ \A q \in Proc : Tidy(m.areas[q], m.heap[q], sh)
  BY GoodParts DEF Good, GoodBut
<1>2. PICK l, h : l = m.areas[p] /\ h = m.heap[p]
  OBVIOUS
<1>2a. /\ h # NULL /\ k # 0 /\ k = vmmap_lookup(m, p, h.page) /\ h.page <= end
       /\ l[k].end < end => vmmap_is_range_empty(l, l[k].end, end)
  BY <1>2 DEF MayBrk
<1>3. /\ m.areas \in [Proc -> Lists] /\ l \in Lists /\ Tidy(l, h, sh) /\ WellFormed(l) /\ h.page \in Page
      /\ h.page \in Int
  <2>1. m.areas \in [Proc -> Lists] /\ h \in Brks
    BY <1>1, <1>2, <1>2a, StateParts DEF Lists
  <2>2. Tidy(l, h, sh) /\ h.page \in Page
    BY <1>1, <1>2, <2>1, VMAssumption
  <2> QED BY <1>2, <2>1, <2>2, Constants DEF Tidy, Page
<1>4. k \in DOMAIN l /\ Covers(l[k], h.page)
  BY <1>1, <1>2, <1>2a, <1>3, Lookup
<1>0. sh \/ end < l[k].end => sh2
  BY <1>2 DEF Shrinks
<1>5. PICK a, r : EndsAt(a, l[k], end) /\ Replaced(r, l, k, a)
  BY DEF EndsAt, Replaced
<1>6. /\ a \in AreaRec /\ Fits(a, l[k]) /\ a.start = l[k].start /\ a.end = end
      /\ r \in Lists /\ DOMAIN r = DOMAIN l /\ r[k] = a /\ \A j \in DOMAIN l : j # k => r[j] = l[j]
      /\ Tidy(r, h, sh2) /\ In(r) = In(l)
  BY <1>0, <1>2a, <1>3, <1>4, <1>5, MovedBreak
<1>7. AreasNow(x, m, p, r)
  BY <1>1, <1>2, <1>3, <1>4, <1>5, StateParts DEF AreasNow, State, BrkTo, EndsAt, Replaced
<1>8. /\ x \in State /\ x.areas = [m.areas EXCEPT ![p] = r] /\ x.obj = m.obj /\ x.pte = m.pte
      /\ x.heap = m.heap /\ x.crash = m.crash
  BY <1>1, <1>6, <1>7, WithAreas
<1>9. /\ x.areas[p] = r /\ \A q \in Proc : q # p => x.areas[q] = m.areas[q]
      /\ \A o \in Obj : U(x.areas)[o] = U(m.areas)[o] - In(l)[o] + In(r)[o]
      /\ x.areas \in [Proc -> Lists]
  BY <1>2, <1>3, <1>6, <1>8, UReplaced
<1>10. U(x.areas) = U(m.areas)
  <2>1. U(x.areas) \in [Obj -> Nat] /\ U(m.areas) \in [Obj -> Nat] /\ In(l) \in [Obj -> Nat]
    BY <1>3, <1>9, UType, InType
  <2>2. ASSUME NEW o \in Obj PROVE U(x.areas)[o] = U(m.areas)[o]
    BY <1>6, <1>9, <2>1
  <2> QED BY <2>1, <2>2
<1>11. PICK u : u = U(m.areas)
  OBVIOUS
<1>12. GoodBut(m, u, sh2, {})
  <2>1. GoodBut(m, u, sh, {})
    BY <1>11, GoodParts
  <2>2. CASE sh2 = sh
    BY <2>1, <2>2
  <2>3. CASE sh2 # sh
    <3>1. sh2 = TRUE
      BY <1>0, <2>3
    <3> QED BY <2>1, <3>1, Shrunk
  <2> QED BY <2>2, <2>3
<1>13. Counting(x, u)
  BY <1>8, <1>10, <1>11, <1>12 DEF GoodBut, Counting
<1>14. Ptes(x) /\ Loses(m, x)
  BY <1>1, <1>8 DEF Ptes, Loses
<1>15. Within(m, x)
  <2>1. ASSUME NEW j \in DOMAIN r PROVE Fits(r[j], l[j]) /\ j \in DOMAIN l
    BY <1>6, <2>1 DEF Fits
  <2>2. \A q \in Proc : q # p => \A e \in DOMAIN x.areas[q] : \E j \in DOMAIN m.areas[q] :
          Fits(x.areas[q][e], m.areas[q][j])
    BY <1>9 DEF Fits
  <2>3. \A e \in DOMAIN x.areas[p] : \E j \in DOMAIN m.areas[p] : Fits(x.areas[p][e], m.areas[p][j])
    BY <1>2, <1>9, <2>1
  <2> QED BY <2>2, <2>3 DEF Within
<1>16. \A q \in Proc : Tidy(x.areas[q], x.heap[q], sh2)
  <2>1. ASSUME NEW q \in Proc, q # p PROVE Tidy(x.areas[q], x.heap[q], sh2)
    BY <1>8, <1>9, <1>12, <2>1 DEF GoodBut
  <2>2. Tidy(x.areas[p], x.heap[p], sh2)
    BY <1>2, <1>6, <1>8, <1>9
  <2> QED BY <2>1, <2>2
<1>17. Dead(x)
  BY <1>1, <1>8, <1>14, <1>15, LosesDead
<1>18. GoodBut(x, u, sh2, {})
  <2>1. CASE sh2
    <3>1. PICK F : F = Proc \X Page
      OBVIOUS
    <3>2. \A q \in Proc, i \in Page : <<q, i>> \in F
      BY <3>1
    <3>3. GoodBut(x, u, sh2, F)
      <4>1. PICK E : E = {}
        OBVIOUS
      <4>2. GoodBut(m, u, sh2, E) /\ \A e \in E : e \in F
        BY <1>12, <4>1
      <4>3. \A q \in Proc, i \in Page : <<q, i>> \in F \/ Stays(m, x, q, i)
        BY <3>2
      <4> QED BY <1>8, <1>13, <1>14, <1>15, <1>16, <4>2, <4>3, LosesGood
    <3>4. GoodBut(x, u, TRUE, {})
      BY <3>3, Shrunk
    <3>5. sh2 = TRUE
      BY <2>1
    <3> QED BY <3>4, <3>5
  <2>2. CASE ~sh2
    <3>1. l[k].end <= end /\ ~sh
      <4>1. l[k].end \in Int /\ end \in Int
        BY <1>3, <1>4, ListParts, AreaParts, Constants
      <4> QED BY <1>0, <2>2, <4>1
    <3>2. ASSUME NEW q \in Proc, NEW i \in Page PROVE Stays(m, x, q, i)
      <4>1. CASE q # p
        BY <1>9, <4>1 DEF Stays, Fits
      <4>2. CASE q = p
        <5>1. ASSUME NEW j \in DOMAIN l, Covers(l[j], i) PROVE Covers(r[j], i) /\ Fits(r[j], l[j])
          <6>1. CASE j # k
            BY <1>6, <5>1, <6>1 DEF Fits
          <6>2. CASE j = k
            <7>1. l[k].end \in Int /\ end \in Int /\ i \in Int
              BY <1>3, <1>4, ListParts, AreaParts, Constants DEF Page
            <7> QED BY <1>6, <3>1, <5>1, <6>2, <7>1 DEF Covers
          <6> QED BY <6>1, <6>2
        <5> QED BY <1>2, <1>6, <1>9, <4>2, <5>1 DEF Stays
      <4> QED BY <4>1, <4>2
    <3>3. PICK F : F = {}
      OBVIOUS
    <3>4. GoodBut(m, u, sh2, F) /\ \A e \in F : e \in F
      BY <1>12, <3>3
    <3>5. \A q \in Proc, i \in Page : <<q, i>> \in F \/ Stays(m, x, q, i)
      BY <3>2
    <3>6. GoodBut(x, u, sh2, F)
      BY <1>8, <1>13, <1>14, <1>15, <1>16, <3>4, <3>5, LosesGood
    <3> QED BY <3>3, <3>6
  <2> QED BY <2>1, <2>2
<1>19. Wiped(x, x, {})
  BY <1>8 DEF Wiped
<1>20. u = U(x.areas)
  BY <1>10, <1>11
<1>21. Good(x, sh2)
  BY <1>16, <1>17, <1>18, <1>19, <1>20, ClearGood
<1> QED BY <1>8, <1>21

LEMMA DoBrkGood ==
  ASSUME NEW p \in Proc, NEW end \in LOW .. HIGH + 1, IInv, do_brk(p, end)
  PROVE  IInv'
<1>1. Good(s, shrunk) /\ shrunk \in BOOLEAN /\ s.crash = NoCrash /\ s.heap[p] # NULL /\ s \in State
  BY DEF IInv, Good, do_brk, Runs, Up, Alive
<1>2. PICK b, k, a : b = s.heap[p] /\ k = vmmap_lookup(s, p, b.page) /\ a = s.areas[p][k]
  OBVIOUS
<1>3. end >= b.page + (IF b.aligned THEN 0 ELSE 1)
  BY <1>2 DEF do_brk
<1>4. \/ k = 0 /\ Step(Crash(s, "do_brk")) /\ shrunk' = shrunk
      \/ k # 0 /\ a.end < end /\ ~InRange(a.end, end) /\ Step(Crash(s, "vmmap_is_range_empty")) /\ shrunk' = shrunk
      \/ /\ k # 0 /\ (a.end < end => InRange(a.end, end) /\ vmmap_is_range_empty(s.areas[p], a.end, end))
         /\ Step([s EXCEPT !.areas[p][k].end = end]) /\ shrunk' = (shrunk \/ end < a.end)
  BY <1>2 DEF do_brk
<1>5. ASSUME NEW why \in {"do_brk", "vmmap_is_range_empty"}, Step(Crash(s, why)), shrunk' = shrunk PROVE IInv'
  <2>1. PICK y : y = Crash(s, why)
    OBVIOUS
  <2>2. y.crash = why
    BY <1>1, <2>1, Crashed
  <2>3. y.crash \in Crashes /\ y.crash # NoCrash /\ y.crash \notin {"vmmap_insert", "store to freed memory"}
    BY <2>2 DEF Crashes, NoCrash
  <2> QED BY <1>1, <1>5, <2>1, <2>3, Stepped
<1>6. ASSUME k # 0, a.end < end => InRange(a.end, end) /\ vmmap_is_range_empty(s.areas[p], a.end, end),
             Step([s EXCEPT !.areas[p][k].end = end]), shrunk' = (shrunk \/ end < a.end)
      PROVE  IInv'
  <2>1. PICK x : x = [s EXCEPT !.areas[p][k].end = end]
    OBVIOUS
  <2>2. b \in Brks /\ b.page \in Page /\ b.aligned \in BOOLEAN /\ b.page \in Int /\ LOW <= b.page
    BY <1>1, <1>2, StateParts, VMAssumption, Constants DEF Page
  <2>3. b.page <= end /\ end \in Int
    BY <1>3, <2>2, Constants
  <2>4. a \in AreaRec /\ a.end \in LOW .. HIGH
    <3>1. WellFormed(s.areas[p])
      BY <1>1 DEF Good, Tidy
    <3>2. k \in DOMAIN s.areas[p]
      BY <1>1, <1>2, <1>6, <2>2, <3>1, Lookup
    <3> QED BY <1>2, <3>1, <3>2, ListParts, AreaParts DEF WellFormed
  <2>5. end \in LOW .. HIGH
    BY <1>6, <2>2, <2>3, <2>4, Constants DEF InRange
  <2>6. PICK sh2 : sh2 = (shrunk \/ end < a.end)
    OBVIOUS
  <2>7. sh2 \in BOOLEAN
    BY <1>1, <2>6
  <2>7a. Shrinks(sh2, shrunk, s.areas[p][k].end, end) /\ BrkTo(x, s, p, k, end) /\ MayBrk(s, p, k, end)
    BY <1>1, <1>2, <1>6, <2>1, <2>3, <2>6 DEF Shrinks, BrkTo, MayBrk
  <2>8. Good(x, sh2) /\ x.crash = s.crash
    BY <1>1, <2>5, <2>7, <2>7a, BrkGood
  <2>9. x.crash = NoCrash /\ NoCrash \in Crashes /\ x.crash \notin {"vmmap_insert", "store to freed memory"}
    BY <1>1, <2>8 DEF NoCrash, Crashes
  <2>10. shrunk' = sh2 /\ Step(x)
    BY <1>6, <2>1, <2>6
  <2> QED BY <2>7, <2>8, <2>9, <2>10, Stepped
<1> QED BY <1>4, <1>5, <1>6

-----------------------------------------------------------------------------
(* mmap.                                                                   *)

MapsIn(y, x, p, lo, hi, shared, prot) == y = vmmap_map(x, p, lo, hi, shared, prot)
UnmapsIn(z, y, p, lo, hi) == z = pt_unmap_range(y, p, lo, hi)

LEMMA MapGood ==
  ASSUME NEW x, NEW u, NEW sh, NEW F, GoodBut(x, u, sh, F), NEW p \in Proc,
         NEW lo \in LOW .. HIGH, NEW hi \in LOW .. HIGH, lo < hi, vmmap_is_range_empty(x.areas[p], lo, hi),
         NEW shared \in BOOLEAN, NEW prot \in Prots, Cardinality(FreeObjs(x)) >= NewObjs(shared),
         NEW y, MapsIn(y, x, p, lo, hi, shared, prot)
  PROVE  \E a \in AreaRec : /\ GoodBut(y, Plus(u, a.obj), sh, F) /\ U(y.areas) = Plus(U(x.areas), a.obj)
                            /\ Mapped(x, y, p, a) /\ a.start = lo /\ a.end = hi /\ a.prot = prot
                            /\ Cardinality(FreeObjs(y)) >= Cardinality(FreeObjs(x)) - NewObjs(shared)
<1>1. x \in State /\ Ptes(x) /\ u \in [Obj -> Nat] /\ Objects(x.obj, u) /\ WellFormed(x.areas[p])
  BY DEF GoodBut, Counting, Tidy
<1>2. y = vmmap_map(x, p, lo, hi, shared, prot)
  BY DEF MapsIn
<1>3. /\ y \in State /\ Ptes(y)
      /\ Cardinality(FreeObjs(y)) >= Cardinality(FreeObjs(x)) - NewObjs(shared)
      /\ \E a \in AreaRec : /\ Mapped(x, y, p, a) /\ Objects(y.obj, Plus(u, a.obj))
                            /\ U(y.areas) = Plus(U(x.areas), a.obj)
                            /\ a.start = lo /\ a.end = hi /\ a.off = 0
                            /\ a.shared = shared /\ a.prot = prot
  BY <1>1, <1>2, MapStep
<1>4. PICK a \in AreaRec : /\ Mapped(x, y, p, a) /\ Objects(y.obj, Plus(u, a.obj))
                           /\ U(y.areas) = Plus(U(x.areas), a.obj)
                           /\ a.start = lo /\ a.end = hi /\ a.off = 0 /\ a.prot = prot
  BY <1>3
<1>5. GoodBut(y, Plus(u, a.obj), sh, F)
  BY <1>3, <1>4, AddsGood
<1> QED BY <1>3, <1>4, <1>5

LEMMA MmapGood ==
  ASSUME NEW x, NEW u, NEW sh, NEW F, GoodBut(x, u, sh, F), u = U(x.areas), Dead(x), NEW p \in Proc, x.heap[p] # NULL,
         NEW lo \in LOW .. HIGH, NEW hi \in LOW .. HIGH, lo < hi, F = Span(p, lo, hi),
         vmmap_is_range_empty(x.areas[p], lo, hi),
         NEW shared \in BOOLEAN, NEW prot \in Prots, Cardinality(FreeObjs(x)) >= NewObjs(shared),
         NEW y, MapsIn(y, x, p, lo, hi, shared, prot), NEW z, UnmapsIn(z, y, p, lo, hi)
  PROVE  Good(z, sh) /\ z.crash = x.crash
<1>1. PICK a \in AreaRec : /\ GoodBut(y, Plus(u, a.obj), sh, F) /\ U(y.areas) = Plus(U(x.areas), a.obj)
                           /\ Mapped(x, y, p, a)
  BY MapGood
<1>2. PICK v : v = U(y.areas)
  OBVIOUS
<1>3. GoodBut(y, v, sh, F)
  BY <1>1, <1>2
<1>4. Dead(y)
  BY <1>1 DEF Dead, Mapped, Adds
<1>5. y.crash = x.crash
  BY <1>1 DEF Mapped, Adds
<1> QED BY <1>2, <1>3, <1>4, <1>5, UnmapGood DEF UnmapsIn

\* Losing translations for a range loses nothing else.
LEMMA MoreBut ==
  ASSUME NEW m, NEW u, NEW sh, NEW E, NEW F, GoodBut(m, u, sh, E), \A e \in E : e \in F
  PROVE  GoodBut(m, u, sh, F)
BY DEF GoodBut

LEMMA MoreFree ==
  ASSUME NEW m, NEW x, Loses(m, x)
  PROVE  Cardinality(FreeObjs(m)) <= Cardinality(FreeObjs(x))
<1>1. FreeObjs(m) \in SUBSET FreeObjs(x)
  BY DEF FreeObjs, Loses
<1> QED BY <1>1, FreeObjsFinite, FS_Subset

LEMMA DoMmapGood ==
  ASSUME NEW p \in Proc, NEW addr \in Fixed \cup {NULL}, NEW n \in Sizes, NEW shared \in BOOLEAN, NEW prot \in Prots,
         IInv, do_mmap(p, addr, n, shared, prot)
  PROVE  IInv'
<1>1. /\ Good(s, shrunk) /\ shrunk \in BOOLEAN /\ s.crash = NoCrash /\ s.heap[p] # NULL /\ s \in State
      /\ shrunk' = shrunk /\ Cardinality(FreeObjs(s)) >= NewObjs(shared)
  BY DEF IInv, Good, do_mmap, Runs, Up, Alive
<1>2. PICK found, lo, hi : /\ found = vmmap_find_range(s.areas[p], n)
                           /\ lo = (IF addr = NULL THEN found ELSE addr) /\ hi = lo + n
  OBVIOUS
<1>3. PICK room : room = IF addr = NULL THEN s ELSE vmmap_remove(s, p, lo, hi)
  OBVIOUS
<1>4. PICK y, z : MapsIn(y, room, p, lo, hi, shared, prot) /\ UnmapsIn(z, y, p, lo, hi)
  BY DEF MapsIn, UnmapsIn
<1>5. Step(CASE addr = NULL /\ found = 0  -> Crash(s, "do_mmap")
             [] addr = NULL /\ found = -1 -> Crash(s, "vmmap_is_range_empty")
             [] addr # NULL /\ hi > HIGH  -> Crash(s, "vmmap_map")
             [] OTHER -> z)
  BY <1>2, <1>3, <1>4 DEF do_mmap, MapsIn, UnmapsIn
<1>6. ASSUME NEW why \in {"do_mmap", "vmmap_is_range_empty", "vmmap_map"}, Step(Crash(s, why)) PROVE IInv'
  <2>1. PICK c : c = Crash(s, why)
    OBVIOUS
  <2>2. c.crash = why
    BY <1>1, <2>1, Crashed
  <2>3. c.crash \in Crashes /\ c.crash # NoCrash /\ c.crash \notin {"vmmap_insert", "store to freed memory"}
    BY <2>2 DEF Crashes, NoCrash
  <2> QED BY <1>1, <1>6, <2>1, <2>3, Stepped
<1>7. CASE addr = NULL /\ found = 0
  <2>1. Step(Crash(s, "do_mmap"))
    <3>1. (CASE addr = NULL /\ found = 0  -> Crash(s, "do_mmap")
             [] addr = NULL /\ found = -1 -> Crash(s, "vmmap_is_range_empty")
             [] addr # NULL /\ hi > HIGH  -> Crash(s, "vmmap_map")
             [] OTHER -> z) = Crash(s, "do_mmap")
      BY <1>7
    <3> QED BY <1>5, <3>1
  <2> QED BY <1>6, <2>1
<1>8. CASE addr = NULL /\ found = -1
  <2>1. Step(Crash(s, "vmmap_is_range_empty"))
    <3>1. (CASE addr = NULL /\ found = 0  -> Crash(s, "do_mmap")
             [] addr = NULL /\ found = -1 -> Crash(s, "vmmap_is_range_empty")
             [] addr # NULL /\ hi > HIGH  -> Crash(s, "vmmap_map")
             [] OTHER -> z) = Crash(s, "vmmap_is_range_empty")
      BY <1>8
    <3> QED BY <1>5, <3>1
  <2> QED BY <1>6, <2>1
<1>9. CASE addr # NULL /\ hi > HIGH
  <2>1. Step(Crash(s, "vmmap_map"))
    <3>1. (CASE addr = NULL /\ found = 0  -> Crash(s, "do_mmap")
             [] addr = NULL /\ found = -1 -> Crash(s, "vmmap_is_range_empty")
             [] addr # NULL /\ hi > HIGH  -> Crash(s, "vmmap_map")
             [] OTHER -> z) = Crash(s, "vmmap_map")
      BY <1>9
    <3> QED BY <1>5, <3>1
  <2> QED BY <1>6, <2>1
<1>10. CASE ~(addr = NULL /\ (found = 0 \/ found = -1)) /\ ~(addr # NULL /\ hi > HIGH)
  <2>1. Step(z)
    <3>1. (CASE addr = NULL /\ found = 0  -> Crash(s, "do_mmap")
             [] addr = NULL /\ found = -1 -> Crash(s, "vmmap_is_range_empty")
             [] addr # NULL /\ hi > HIGH  -> Crash(s, "vmmap_map")
             [] OTHER -> z) = z
      BY <1>10
    <3> QED BY <1>5, <3>1
  <2>2. n \in Nat \ {0} /\ Fixed \in SUBSET Page /\ LOW \in Nat /\ HIGH \in Nat
    BY VMAssumption
  <2>3. PICK F : F = Span(p, lo, hi)
    OBVIOUS
  <2>4. /\ lo \in LOW .. HIGH /\ hi \in LOW .. HIGH /\ lo < hi /\ GoodBut(room, U(room.areas), shrunk, F)
        /\ Dead(room) /\ room.heap = s.heap /\ room.crash = s.crash
        /\ Cardinality(FreeObjs(room)) >= NewObjs(shared) /\ vmmap_is_range_empty(room.areas[p], lo, hi)
    <3>1. CASE addr = NULL
      <4>1. WellFormed(s.areas[p])
        BY <1>1 DEF Good, Tidy
      <4>2. found \in Int /\ LOW <= found /\ found + n <= HIGH /\ vmmap_is_range_empty(s.areas[p], found, found + n)
        BY <1>2, <1>10, <2>2, <3>1, <4>1, FindRange
      <4>3. lo = found /\ hi = found + n /\ room = s
        BY <1>2, <1>3, <3>1
      <4>4. lo \in LOW .. HIGH /\ hi \in LOW .. HIGH /\ lo < hi
        BY <2>2, <4>2, <4>3
      <4>5. GoodBut(s, U(s.areas), shrunk, {}) /\ Dead(s)
        BY <1>1, GoodParts
      <4>6. GoodBut(s, U(s.areas), shrunk, F)
        <5>1. PICK E : E = {}
          OBVIOUS
        <5>2. GoodBut(s, U(s.areas), shrunk, E) /\ \A e \in E : e \in F
          BY <4>5, <5>1
        <5> QED BY <5>2, MoreBut
      <4> QED BY <1>1, <4>2, <4>3, <4>4, <4>5, <4>6
    <3>2. CASE addr # NULL
      <4>1. lo = addr /\ hi = addr + n /\ addr \in Page /\ ~(hi > HIGH) /\ room = vmmap_remove(s, p, lo, hi)
        BY <1>2, <1>3, <1>10, <2>2, <3>2
      <4>2. lo \in LOW .. HIGH /\ hi \in LOW .. HIGH /\ lo < hi
        BY <2>2, <4>1 DEF Page
      <4>3. /\ GoodBut(room, U(room.areas), shrunk, F) /\ Dead(room) /\ Loses(s, room)
            /\ \A k \in DOMAIN room.areas[p] : Outside(room.areas[p][k], lo, hi)
        BY <1>1, <2>3, <4>1, <4>2, RemoveGood
      <4>4. vmmap_is_range_empty(room.areas[p], lo, hi)
        <5>1. room.areas[p] \in Lists
          BY <4>3 DEF GoodBut, Tidy, WellFormed
        <5>2. ASSUME NEW k \in DOMAIN room.areas[p]
              PROVE  room.areas[p][k].start >= hi \/ room.areas[p][k].end <= lo
          <6>1. PICK e : e = room.areas[p][k]
            OBVIOUS
          <6>2. e \in AreaRec /\ e.start \in Int /\ e.end \in Int
            BY <5>1, <6>1, ListParts, AreaParts
          <6>3. e.end <= lo \/ hi <= e.start
            BY <4>3, <6>1 DEF Outside
          <6> QED BY <4>2, <6>1, <6>2, <6>3, Constants
        <5> QED BY <5>2 DEF vmmap_is_range_empty
      <4>5. Cardinality(FreeObjs(room)) >= NewObjs(shared)
        <5>1. Cardinality(FreeObjs(s)) <= Cardinality(FreeObjs(room))
          BY <4>3, MoreFree
        <5>2. Cardinality(FreeObjs(s)) \in Nat /\ Cardinality(FreeObjs(room)) \in Nat /\ NewObjs(shared) \in Nat
          BY FreeObjsFinite DEF NewObjs
        <5> QED BY <1>1, <5>1, <5>2
      <4> QED BY <4>2, <4>3, <4>4, <4>5 DEF Loses
    <3> QED BY <3>1, <3>2
  <2>5. Good(z, shrunk) /\ z.crash = room.crash
    <3>1. PICK u : u = U(room.areas)
      OBVIOUS
    <3>2. GoodBut(room, u, shrunk, F) /\ room.heap[p] # NULL
      BY <1>1, <2>4, <3>1
    <3>3. /\ lo \in LOW .. HIGH /\ hi \in LOW .. HIGH /\ lo < hi /\ Dead(room)
          /\ Cardinality(FreeObjs(room)) >= NewObjs(shared) /\ vmmap_is_range_empty(room.areas[p], lo, hi)
      BY <2>4
    <3> QED BY <1>4, <2>3, <3>1, <3>2, <3>3, MmapGood
  <2> QED BY <1>1, <2>1, <2>4, <2>5, SteppedOn
<1> QED BY <1>7, <1>8, <1>9, <1>10

-----------------------------------------------------------------------------
(* Pages: what lookups and stores do to the objects.                       *)

\* Pages get values, and nothing else happens.
Fills(m, x) ==
  /\ x.areas = m.areas /\ x.pte = m.pte /\ x.heap = m.heap /\ x.crash = m.crash
  /\ \A z \in Obj : /\ x.obj[z].kind = m.obj[z].kind /\ x.obj[z].shadowed = m.obj[z].shadowed
                    /\ \A n \in Num : m.obj[z].page[n] # NULL => x.obj[z].page[n] # NULL

LEMMA FillsRefl == ASSUME NEW m PROVE Fills(m, m)
BY DEF Fills

LEMMA FillsTrans == ASSUME NEW m, NEW x, NEW y, Fills(m, x), Fills(x, y) PROVE Fills(m, y)
BY DEF Fills

\* Page n of o becomes v, and its record has the reference count k.
Filled(x, m, o, n, v, k) ==
  \E g, q, c : /\ g = [m.obj[o].page EXCEPT ![n] = v] /\ IsWith(q, m.obj[o], g, k)
               /\ c = [m.obj EXCEPT ![o] = q] /\ x = [m EXCEPT !.obj = c]

LEMMA FilledParts ==
  ASSUME NEW m \in State, NEW u \in [Obj -> Nat], Objects(m.obj, u), NEW o \in Obj, m.obj[o].kind # "free",
         NEW n \in Num, NEW v \in Val,
         NEW k \in Nat, k = (IF m.obj[o].page[n] = NULL THEN m.obj[o].ref + 1 ELSE m.obj[o].ref),
         NEW x, Filled(x, m, o, n, v, k)
  PROVE  x \in State /\ Fills(m, x) /\ Objects(x.obj, u) /\ x.obj[o].page[n] = v /\ x.obj[o].page[n] # NULL
<1>1. PICK g, q, c : /\ g = [m.obj[o].page EXCEPT ![n] = v] /\ IsWith(q, m.obj[o], g, k)
                     /\ c = [m.obj EXCEPT ![o] = q] /\ x = [m EXCEPT !.obj = c]
  BY DEF Filled
<1>2. PICK r : r = m.obj[o]
  OBVIOUS
<1>3. r \in ObjRec /\ r.page \in [Num -> Val \cup {NULL}] /\ m.obj \in Objs /\ r.ref \in Nat
  BY <1>2, StateParts
<1>4. g \in [Num -> Val \cup {NULL}] /\ g[n] = v /\ \A j \in Num : j # n => g[j] = r.page[j]
  BY <1>1, <1>2, <1>3
<1>5. q \in ObjRec /\ q.kind = r.kind /\ q.shadowed = r.shadowed /\ q.page = g /\ q.ref = k
  <2>1. IsWith(q, r, g, k)
    BY <1>1, <1>2
  <2> QED BY <1>3, <1>4, <2>1, PageRefWith
<1>6. c \in Objs /\ c[o] = q /\ \A z \in Obj : z # o => c[z] = m.obj[z]
  BY <1>1, <1>3, <1>5 DEF Objs
<1>7. x \in State /\ x.obj = c /\ x.areas = m.areas /\ x.pte = m.pte /\ x.heap = m.heap /\ x.crash = m.crash
  BY <1>1, <1>6, WithObj
<1>8. v # NULL
  BY Constants
<1>9. Fills(m, x)
  <2>1. ASSUME NEW z \in Obj
        PROVE  /\ x.obj[z].kind = m.obj[z].kind /\ x.obj[z].shadowed = m.obj[z].shadowed
               /\ \A j \in Num : m.obj[z].page[j] # NULL => x.obj[z].page[j] # NULL
    <3>1. CASE z = o
      BY <1>2, <1>4, <1>5, <1>6, <1>7, <1>8, <3>1
    <3>2. CASE z # o
      BY <1>6, <1>7, <3>2
    <3> QED BY <3>1, <3>2
  <2> QED BY <1>7, <2>1 DEF Fills
<1>10. Objects(c, u)
  <2>1. \A z \in Obj : c[z].kind = m.obj[z].kind /\ c[z].shadowed = m.obj[z].shadowed
    BY <1>7, <1>9 DEF Fills
  <2>2. \A z \in Obj : m.obj[z].kind = "free" => c[z] = m.obj[z] /\ u[z] = 0
    BY <1>6 DEF Objects, Live
  <2>3. \A z \in Obj : m.obj[z].kind # "free" => (u[z] # 0 \/ Shadowers(m.obj, z) # {})
    BY DEF Objects, Live
  <2>4. \A z \in Obj : m.obj[z].ref = u[z] + Cardinality(Shadowers(m.obj, z)) + Cardinality(Pages(m.obj, z))
    BY DEF Objects, Counts
  <2>5. c[o].ref = u[o] + Cardinality(Shadowers(m.obj, o)) + Cardinality(Pages(c, o))
    <3>1. PICK P : P = Pages(m.obj, o)
      OBVIOUS
    <3>2. IsFiniteSet(P) /\ Cardinality(P) \in Nat /\ Cardinality(Shadowers(m.obj, o)) \in Nat
      BY <3>1, FiniteParts
    <3>3. CASE m.obj[o].page[n] = NULL
      <4>1. Pages(c, o) = P \cup {n} /\ n \notin P
        BY <1>2, <1>4, <1>5, <1>6, <1>8, <3>1, <3>3 DEF Pages
      <4>2. Cardinality(P \cup {n}) = Cardinality(P) + 1
        BY <3>2, <4>1, FS_AddElement
      <4>3. k = r.ref + 1 /\ c[o].ref = k
        BY <1>2, <1>5, <1>6, <3>3
      <4>4. PICK a, b : a = Cardinality(P) /\ b = Cardinality(Shadowers(m.obj, o))
        OBVIOUS
      <4>5. r.ref = u[o] + b + a
        BY <1>2, <2>4, <3>1, <4>4
      <4>6. a \in Nat /\ b \in Nat /\ u[o] \in Nat
        BY <3>2, <4>4
      <4> QED BY <4>1, <4>2, <4>3, <4>4, <4>5, <4>6
    <3>4. CASE m.obj[o].page[n] # NULL
      <4>1. Pages(c, o) = P
        BY <1>2, <1>4, <1>5, <1>6, <1>8, <3>1, <3>4 DEF Pages
      <4>2. c[o].ref = r.ref
        BY <1>2, <1>5, <1>6, <3>4
      <4> QED BY <1>2, <2>4, <3>1, <4>1, <4>2
    <3> QED BY <3>3, <3>4
  <2>6. \A z \in Obj : c[z].ref = u[z] + Cardinality(Shadowers(m.obj, z)) + Cardinality(Pages(c, z))
    <3>1. \A z \in Obj : z # o => Pages(c, z) = Pages(m.obj, z) /\ c[z].ref = m.obj[z].ref
      BY <1>6 DEF Pages
    <3> QED BY <2>4, <2>5, <3>1
  <2>7. KeepsChains(m.obj, c, u)
    BY <2>1, <2>2, <2>3, <2>6 DEF KeepsChains
  <2> QED BY <1>6, <2>7, SameChains
<1> QED BY <1>4, <1>5, <1>6, <1>7, <1>8, <1>9, <1>10

LEMMA AddPageStep ==
  ASSUME NEW m \in State, NEW u \in [Obj -> Nat], Objects(m.obj, u), NEW o \in Obj, m.obj[o].kind # "free",
         NEW n \in Num, NEW v \in Val, NEW x, x = AddPage(m, o, n, v)
  PROVE  x \in State /\ Fills(m, x) /\ Objects(x.obj, u) /\ x.obj[o].page[n] # NULL
<1>1. CASE m.obj[o].page[n] # NULL
  <2>1. x = m
    BY <1>1 DEF AddPage
  <2> QED BY <1>1, <2>1, FillsRefl
<1>2. CASE m.obj[o].page[n] = NULL
  <2>1. PICK k : k = m.obj[o].ref + 1
    OBVIOUS
  <2>2. k \in Nat /\ m.obj[o] \in ObjRec /\ m.obj \in Objs
    BY <2>1, StateParts
  <2>3. PICK g, q, c : /\ g = [m.obj[o].page EXCEPT ![n] = v] /\ q = [m.obj[o] EXCEPT !.page = g, !.ref = k]
                       /\ c = [m.obj EXCEPT ![o] = q]
    OBVIOUS
  <2>4. x = [m EXCEPT !.obj = c]
    BY <1>2, <2>1, <2>2, <2>3 DEF AddPage, State, Objs, ObjRec
  <2>5. Filled(x, m, o, n, v, k)
    BY <2>3, <2>4 DEF Filled, IsWith
  <2> QED BY <1>2, <2>1, <2>2, <2>5, FilledParts
<1> QED BY <1>1, <1>2

\* A page that is resident gets another value.
StoredIn(x, m, o, n, v) == x = [m EXCEPT !.obj[o].page[n] = v]

LEMMA StoreStep ==
  ASSUME NEW m \in State, NEW u \in [Obj -> Nat], Objects(m.obj, u), NEW o \in Obj,
         NEW n \in Num, m.obj[o].page[n] # NULL, NEW v \in Val, NEW x, StoredIn(x, m, o, n, v)
  PROVE  x \in State /\ Fills(m, x) /\ Objects(x.obj, u)
<1>1. m.obj[o].kind # "free"
  <2>1. FreeObj.page[n] = NULL
    BY DEF FreeObj
  <2> QED BY <2>1 DEF Objects, Kinds
<1>2. PICK k : k = m.obj[o].ref
  OBVIOUS
<1>3. k \in Nat /\ m.obj[o] \in ObjRec /\ m.obj \in Objs
  BY <1>2, StateParts
<1>4. PICK g, q, c : /\ g = [m.obj[o].page EXCEPT ![n] = v] /\ q = [m.obj[o] EXCEPT !.page = g, !.ref = k]
                     /\ c = [m.obj EXCEPT ![o] = q]
  OBVIOUS
<1>5. x = [m EXCEPT !.obj = c]
  <2>1. PICK r, e : r = m.obj[o] /\ e = [r EXCEPT !.page = g]
    OBVIOUS
  <2>2. e = q
    BY <1>2, <1>3, <1>4, <2>1 DEF ObjRec
  <2>3. x = [m EXCEPT !.obj = [m.obj EXCEPT ![o] = e]]
    BY <1>3, <1>4, <2>1 DEF StoredIn, State, Objs, ObjRec
  <2> QED BY <1>4, <2>2, <2>3
<1>6. Filled(x, m, o, n, v, k)
  BY <1>4, <1>5 DEF Filled, IsWith
<1> QED BY <1>1, <1>2, <1>3, <1>6, FilledParts

-----------------------------------------------------------------------------
(* Lookups.                                                                *)

LEMMA HolderStep ==
  ASSUME NEW m \in State, NEW u, Objects(m.obj, u), NEW o \in Obj, NEW n, NEW h, h = Holder(m, o, n)
  PROVE  h \in Below(m.obj, o) /\ h \in Obj /\ (m.obj[o].page[n] # NULL => h = o)
         /\ (m.obj[o].shadowed = NULL => h = o)
<1> DEFINE b == m.obj
           St == {x \in Obj : Stops(m, x, n)}
           Loop(f) == [x \in Obj |-> IF Stops(m, x, n) THEN x ELSE f[m.obj[x].shadowed]]
           f == CHOOSE g : g = Loop(g)
<1>1. b \in Objs /\ Grounded(b)
  BY DEF Objects
<1>2. St \in SUBSET Obj /\ \A x \in Obj : b[x].shadowed = NULL => x \in St
  BY DEF Stops
<1>3. \A g : g = Loop(g) <=> WalkTo(b, St, g)
  BY DEF WalkTo
<1>4. h = f[o]
  BY DEF Holder
<1>5. m.obj[o].page[n] # NULL \/ m.obj[o].shadowed = NULL => o \in St
  BY DEF Stops
<1> HIDE DEF Loop, St, b
<1>6. \E g : WalkTo(b, St, g)
  BY <1>1, <1>2, WalkExists
<1>7. WalkTo(b, St, f)
  BY <1>3, <1>6
<1> HIDE DEF f
<1>8. f[o] \in Below(b, o) /\ f[o] \in St /\ (o \in St => f[o] = o)
  BY <1>1, <1>2, <1>7, WalkStops
<1> QED BY <1>2, <1>4, <1>5, <1>8 DEF b

LEMMA LookupReadStep ==
  ASSUME NEW m \in State, NEW u \in [Obj -> Nat], Objects(m.obj, u), NEW o \in Obj, m.obj[o].kind # "free",
         NEW n \in Num, NEW l, l = LookupRead(m, o, n)
  PROVE  /\ l.m \in State /\ Fills(m, l.m) /\ Objects(l.m.obj, u) /\ l.o \in Below(m.obj, o) /\ l.o \in Obj
         /\ l.m.obj[l.o].page[n] # NULL
         /\ (m.obj[o].page[n] # NULL \/ m.obj[o].shadowed = NULL => l.o = o)
<1>1. PICK h : h = Holder(m, o, n)
  OBVIOUS
<1>2. h \in Below(m.obj, o) /\ h \in Obj /\ (m.obj[o].page[n] # NULL \/ m.obj[o].shadowed = NULL => h = o)
  BY <1>1, HolderStep
<1>3. m.obj[h].kind # "free"
  BY <1>2, LiveBelow
<1>4. l.m = AddPage(m, h, n, 0) /\ l.o = h
  BY <1>1 DEF LookupRead
<1>5. l.m \in State /\ Fills(m, l.m) /\ Objects(l.m.obj, u) /\ l.m.obj[h].page[n] # NULL
  BY <1>2, <1>3, <1>4, AddPageStep, Constants
<1> QED BY <1>2, <1>4, <1>5

LEMMA LookupWriteStep ==
  ASSUME NEW m \in State, NEW u \in [Obj -> Nat], Objects(m.obj, u), NEW o \in Obj, m.obj[o].kind # "free",
         NEW n \in Num, NEW l, l = LookupWrite(m, o, n)
  PROVE  /\ l.m \in State /\ Fills(m, l.m) /\ Objects(l.m.obj, u) /\ l.o = o
         /\ l.m.obj[o].page[n] # NULL
<1>1. CASE m.obj[o].kind = "anon" \/ m.obj[o].page[n] # NULL
  <2>1. l = LookupRead(m, o, n)
    BY <1>1 DEF LookupWrite
  <2>2. m.obj[o].page[n] # NULL \/ m.obj[o].shadowed = NULL
    BY <1>1 DEF Objects, Kinds
  <2> QED BY <2>1, <2>2, LookupReadStep
<1>2. CASE ~(m.obj[o].kind = "anon" \/ m.obj[o].page[n] # NULL)
  <2>1. PICK w : w = m.obj[o].shadowed
    OBVIOUS
  <2>2. w \in Obj /\ m.obj[w].kind # "free"
    <3>1. m.obj[o].kind = "shadow"
      BY <1>2, StateParts DEF ObjRec
    <3>2. w \in Obj /\ w \in Below(m.obj, o)
      BY <2>1, <3>1, BelowShadowed DEF Objects, Kinds
    <3> QED BY <3>2, LiveBelow
  <2>3. PICK r : r = LookupRead(m, w, n)
    OBVIOUS
  <2>4. r.m \in State /\ Fills(m, r.m) /\ Objects(r.m.obj, u)
    BY <2>2, <2>3, LookupReadStep
  <2>5. PICK v : v = Resolve(m, o, n)
    OBVIOUS
  <2>6. v \in Val
    <3>1. PICK h : h = Holder(m, o, n)
      OBVIOUS
    <3>2. h \in Obj
      BY <3>1, HolderStep
    <3>3. m.obj[h].page[n] \in Val \cup {NULL}
      BY <3>2, StateParts
    <3>4. v = IF m.obj[h].page[n] = NULL THEN 0 ELSE m.obj[h].page[n]
      BY <2>5, <3>1 DEF Resolve
    <3> QED BY <3>3, <3>4, Constants
  <2>7. l.m = AddPage(r.m, o, n, v) /\ l.o = o
    BY <1>2, <2>1, <2>3, <2>5 DEF LookupWrite
  <2>8. r.m.obj[o].kind # "free"
    BY <2>4 DEF Fills
  <2>9. l.m \in State /\ Fills(r.m, l.m) /\ Objects(l.m.obj, u) /\ l.m.obj[o].page[n] # NULL
    BY <2>4, <2>6, <2>7, <2>8, AddPageStep
  <2>10. Fills(m, l.m)
    BY <2>4, <2>9, FillsTrans
  <2> QED BY <2>7, <2>9, <2>10
<1> QED BY <1>1, <1>2

LEMMA FillsGood ==
  ASSUME NEW m, NEW u, NEW sh, NEW E, GoodBut(m, u, sh, E), NEW x \in State, Fills(m, x), Objects(x.obj, u)
  PROVE  GoodBut(x, u, sh, E) /\ \A o \in Obj : Below(x.obj, o) = Below(m.obj, o)
<1>1. m \in State /\ Ptes(m) /\ Counting(m, u) /\ Tops(m.obj, m.areas)
  BY DEF GoodBut
<1>2. \A o \in Obj : Below(x.obj, o) = Below(m.obj, o)
  <2>1. \A y \in Obj : x.obj[y].shadowed = m.obj[y].shadowed
    BY DEF Fills
  <2> SUFFICES ASSUME NEW o \in Obj PROVE Below(x.obj, o) = Below(m.obj, o)
    OBVIOUS
  <2>2. \A y \in Below(m.obj, o) : m.obj[y].shadowed = x.obj[y].shadowed
    BY <2>1 DEF Below
  <2> QED BY <1>1, <2>2, StateParts, SameBelow
<1>3. \A t \in Pte : Leads(m.obj, t) => Leads(x.obj, t)
  BY DEF Fills, Leads, Pte
<1>4. Ptes(x)
  BY <1>1, <1>3, StateParts DEF Ptes, Fills
<1>5. Counting(x, u)
  BY <1>1 DEF Counting, Fills
<1>6. \A o \in Obj : Shadowers(x.obj, o) = Shadowers(m.obj, o)
  BY DEF Shadowers, Fills
<1>7. Tops(x.obj, x.areas)
  <2>1. ASSUME NEW p \in Proc, NEW k \in DOMAIN m.areas[p] PROVE TopOK(x.obj, x.areas, p, x.areas[p][k])
    <3>1. m.areas[p][k].obj \in Obj /\ TopOK(m.obj, m.areas, p, m.areas[p][k]) /\ x.areas = m.areas
      BY <1>1, UserLive DEF Tops, Fills
    <3> QED BY <1>6, <3>1 DEF TopOK, Fills
  <2> QED BY <2>1 DEF Tops, Fills
<1>8. ASSUME NEW p \in Proc, NEW i \in Page, <<p, i>> \notin E PROVE PteOK(x.obj, x.areas[p], i, x.pte[p][i], sh)
  <2>1. PICK t, l : t = m.pte[p][i] /\ l = m.areas[p]
    OBVIOUS
  <2>2. x.pte[p][i] = t /\ x.areas[p] = l /\ t \in Pte
    BY <1>1, <2>1, StateParts DEF Fills
  <2>3. PteOK(m.obj, l, i, t, sh)
    BY <1>8, <2>1 DEF GoodBut
  <2>4. ASSUME NEW k \in DOMAIN l, Belongs(m.obj, l[k], i, t) PROVE Belongs(x.obj, l[k], i, t)
    <3>1. l[k].obj \in Obj
      BY <1>1, <2>1, UserLive
    <3> QED BY <1>2, <2>4, <3>1 DEF Belongs
  <2> QED BY <1>3, <2>2, <2>3, <2>4 DEF PteOK
<1>9. \A p \in Proc : Tidy(x.areas[p], x.heap[p], sh)
  BY DEF GoodBut, Fills
<1> QED BY <1>2, <1>4, <1>5, <1>7, <1>8, <1>9 DEF GoodBut

LEMMA FilledGood ==
  ASSUME NEW m, NEW sh, Good(m, sh), NEW x \in State, Fills(m, x), Objects(x.obj, U(m.areas))
  PROVE  Good(x, sh) /\ x.crash = m.crash
<1>1. PICK u, E : u = U(m.areas) /\ E = {}
  OBVIOUS
<1>2. GoodBut(m, u, sh, E) /\ Dead(m)
  BY <1>1, GoodParts
<1>3. GoodBut(x, u, sh, E)
  BY <1>1, <1>2, FillsGood
<1>4. Dead(x) /\ u = U(x.areas)
  BY <1>1, <1>2 DEF Dead, Fills
<1>5. Wiped(x, x, E)
  BY <1>1 DEF Wiped
<1>6. \A p \in Proc : Tidy(x.areas[p], x.heap[p], sh)
  BY <1>3 DEF GoodBut
<1>7. Good(x, sh)
  BY <1>3, <1>4, <1>5, <1>6, ClearGood
<1> QED BY <1>7 DEF Fills

\* The page of the object that page i of an area is.
LEMMA NumOf ==
  ASSUME NEW l, NEW h, NEW sh, Tidy(l, h, sh), NEW k \in DOMAIN l, NEW i \in Page, Covers(l[k], i),
         NEW n, n = i - l[k].start + l[k].off
  PROVE  n \in Num
<1>1. PICK a : a = l[k]
  OBVIOUS
<1>2. a \in AreaRec /\ a.off <= a.start - LOW /\ a.start <= i
  BY <1>1, ListParts DEF Tidy, WellFormed, Covers
<1>3. a.start \in Int /\ a.off \in Nat /\ i \in LOW .. HIGH - 1 /\ LOW \in Int /\ HIGH \in Int
  BY <1>2, AreaParts, Constants DEF Page
<1> QED BY <1>1, <1>2, <1>3 DEF Num

\* A page fault puts translation t in place for page i of p.
Translates(x, m, p, i, t) == x = [m EXCEPT !.pte[p][i] = t]

LEMMA TranslateGood ==
  ASSUME NEW m, NEW sh, Good(m, sh), NEW p \in Proc, m.heap[p] # NULL, NEW i \in Page, NEW t \in Pte, Leads(m.obj, t),
         NEW k \in DOMAIN m.areas[p], Belongs(m.obj, m.areas[p][k], i, t), NEW x, Translates(x, m, p, i, t)
  PROVE  Good(x, sh) /\ x.crash = m.crash
<1>1. m \in State
  BY DEF Good
<1>2. PICK g, T : g = [m.pte[p] EXCEPT ![i] = t] /\ T = [m.pte EXCEPT ![p] = g]
  OBVIOUS
<1>3. g \in [Page -> Pte] /\ g[i] = t /\ \A j \in Page : j # i => g[j] = m.pte[p][j]
  BY <1>1, <1>2, StateParts
<1>4. T \in [Proc -> [Page -> Pte]] /\ T[p] = g /\ \A q \in Proc : q # p => T[q] = m.pte[q]
  BY <1>1, <1>2, <1>3, StateParts
<1>5. x = [m EXCEPT !.pte = T]
  BY <1>1, <1>2 DEF Translates, State
<1>6. x \in State /\ x.obj = m.obj /\ x.areas = m.areas /\ x.pte = T /\ x.heap = m.heap /\ x.crash = m.crash
  BY <1>1, <1>4, <1>5 DEF State
<1>7. PtesOK(x, sh)
  <2> SUFFICES ASSUME NEW q \in Proc, NEW j \in Page PROVE PteOK(m.obj, m.areas[q], j, T[q][j], sh)
    BY <1>6 DEF PtesOK
  <2>1. CASE q = p /\ j = i
    BY <1>3, <1>4, <2>1 DEF PteOK
  <2>2. CASE ~(q = p /\ j = i)
    <3>1. T[q][j] = m.pte[q][j]
      BY <1>3, <1>4, <2>2
    <3> QED BY <3>1 DEF Good, PtesOK
  <2> QED BY <2>1, <2>2
<1>8. Dead(x)
  BY <1>3, <1>4, <1>6 DEF Good, Dead
<1> QED BY <1>6, <1>7, <1>8 DEF Good

-----------------------------------------------------------------------------
(* Page faults, and what processes and the kernel do to user memory.       *)

\* The area of page i, its object, and the page there.
LEMMA FoundArea ==
  ASSUME NEW m, NEW u, NEW sh, NEW E, GoodBut(m, u, sh, E), NEW p \in Proc, NEW i \in Page, NEW k, k = vmmap_lookup(m, p, i), k # 0
  PROVE  /\ k \in DOMAIN m.areas[p] /\ Covers(m.areas[p][k], i) /\ i - m.areas[p][k].start + m.areas[p][k].off \in Num
         /\ m.areas[p][k].obj \in Obj /\ m.obj[m.areas[p][k].obj].kind # "free"
<1>1. m \in State /\ Tidy(m.areas[p], m.heap[p], sh) /\ Counting(m, u) /\ i \in Int
  BY Constants DEF GoodBut, Page
<1>2. k \in DOMAIN m.areas[p] /\ Covers(m.areas[p][k], i)
  BY <1>1, Lookup DEF Tidy
<1>3. i - m.areas[p][k].start + m.areas[p][k].off \in Num
  BY <1>1, <1>2, NumOf
<1>4. m.areas[p][k].obj \in Obj /\ m.obj[m.areas[p][k].obj].kind # "free"
  BY <1>1, <1>2, UserLive
<1> QED BY <1>2, <1>3, <1>4

LEMMA FaultGood ==
  ASSUME NEW p \in Proc, NEW i \in Page, NEW write \in BOOLEAN, IInv, handle_pagefault(p, i, write)
  PROVE  IInv'
<1>1. /\ Good(s, shrunk) /\ shrunk \in BOOLEAN /\ s.crash = NoCrash /\ s.heap[p] # NULL /\ shrunk' = shrunk
      /\ s \in State
  BY DEF IInv, Good, handle_pagefault, Runs, Up, Alive
<1>2. PICK k, a, n : k = vmmap_lookup(s, p, i) /\ a = s.areas[p][k] /\ n = i - a.start + a.off
  OBVIOUS
<1>3. a = Area(p, i) /\ n = PageNum(p, i) /\ (Has(p, i) <=> k # 0)
  BY <1>2 DEF Area, PageNum, Has
<1>4. PICK l : l = IF write THEN LookupWrite(s, a.obj, n) ELSE LookupRead(s, a.obj, n)
  OBVIOUS
<1>5. CASE k = 0 \/ (write /\ a.prot = "r")
  <2>1. PICK y : y = Exit(s, p)
    OBVIOUS
  <2>2. Step(y)
    BY <1>3, <1>5, <2>1 DEF handle_pagefault
  <2>3. Good(y, shrunk) /\ y.crash = s.crash
    BY <1>1, <2>1, ExitGood
  <2> QED BY <1>1, <2>2, <2>3, SteppedOn
<1>6. CASE ~(k = 0 \/ (write /\ a.prot = "r"))
  <2>1. PICK t, y : t = [o |-> l.o, n |-> n, w |-> write] /\ Translates(y, l.m, p, i, t)
    BY DEF Translates
  <2>2. Step(y)
    BY <1>3, <1>4, <1>6, <2>1 DEF handle_pagefault, Translates
  <2>3. /\ k \in DOMAIN s.areas[p] /\ Covers(a, i) /\ n \in Num /\ a.obj \in Obj /\ s.obj[a.obj].kind # "free"
    BY <1>1, <1>2, <1>6, GoodParts, FoundArea
  <2>4. PICK u : u = U(s.areas)
    OBVIOUS
  <2>5. u \in [Obj -> Nat] /\ Objects(s.obj, u)
    BY <1>1, <2>4, StateParts, UType DEF Good, Lists
  <2>6. /\ l.m \in State /\ Fills(s, l.m) /\ Objects(l.m.obj, u) /\ l.o \in Below(s.obj, a.obj) /\ l.o \in Obj
        /\ l.m.obj[l.o].page[n] # NULL /\ (write => l.o = a.obj)
    <3>1. CASE write
      <4>1. l = LookupWrite(s, a.obj, n)
        BY <1>4, <3>1
      <4> QED BY <1>1, <2>3, <2>5, <4>1, LookupWriteStep, BelowSelf
    <3>2. CASE ~write
      <4>1. l = LookupRead(s, a.obj, n)
        BY <1>4, <3>2
      <4> QED BY <1>1, <2>3, <2>5, <3>2, <4>1, LookupReadStep
    <3> QED BY <3>1, <3>2
  <2>7. Good(l.m, shrunk) /\ l.m.crash = s.crash
    BY <1>1, <2>4, <2>6, FilledGood
  <2>8. Below(l.m.obj, a.obj) = Below(s.obj, a.obj)
    <3>1. GoodBut(s, u, shrunk, {})
      BY <1>1, <2>4, GoodParts
    <3> QED BY <2>3, <2>6, <3>1, FillsGood
  <2>9. l.m.areas = s.areas /\ l.m.heap = s.heap
    BY <2>6 DEF Fills
  <2>10. t \in Pte /\ t.o = l.o /\ t.n = n /\ t.w = write
    BY <2>1, <2>3, <2>6 DEF Pte
  <2>11. Leads(l.m.obj, t)
    BY <2>6, <2>10 DEF Leads
  <2>12. a.prot \in {"r", "rw"}
    <3>1. a \in AreaRec
      BY <1>1, <1>2, <2>3, StateParts, ListParts DEF Lists
    <3> QED BY <3>1, AreaParts, VMAssumption
  <2>13. Belongs(l.m.obj, a, i, t)
    BY <1>2, <1>6, <2>3, <2>6, <2>8, <2>10, <2>12 DEF Belongs
  <2>14. Good(y, shrunk) /\ y.crash = l.m.crash
    <3>1. PICK m : m = l.m
      OBVIOUS
    <3>2. /\ Good(m, shrunk) /\ m.heap[p] # NULL /\ k \in DOMAIN m.areas[p] /\ m.areas[p][k] = a
          /\ Leads(m.obj, t) /\ Belongs(m.obj, m.areas[p][k], i, t) /\ Translates(y, m, p, i, t)
      BY <1>1, <1>2, <2>1, <2>3, <2>7, <2>9, <2>11, <2>13, <3>1
    <3>3. Good(y, shrunk) /\ y.crash = m.crash
      BY <2>10, <3>2, TranslateGood
    <3> QED BY <3>1, <3>3
  <2> QED BY <1>1, <2>2, <2>7, <2>14, SteppedOn
<1> QED BY <1>5, <1>6

LEMMA CopyOutStep ==
  ASSUME NEW m \in State, NEW u \in [Obj -> Nat], Objects(m.obj, u), NEW p \in Proc, NEW i \in Page, NEW v \in Val,
         NEW k, k = vmmap_lookup(m, p, i), NEW a, a = m.areas[p][k], i - a.start + a.off \in Num,
         a.obj \in Obj, m.obj[a.obj].kind # "free", NEW x, x = CopyOut(m, p, i, v)
  PROVE  x \in State /\ Fills(m, x) /\ Objects(x.obj, u)
<1>1. PICK n : n = i - a.start + a.off
  OBVIOUS
<1>2. PICK l : l = LookupWrite(m, a.obj, n)
  OBVIOUS
<1>3. n \in Num
  BY <1>1
<1>4. /\ l.m \in State /\ Fills(m, l.m) /\ Objects(l.m.obj, u) /\ l.o = a.obj
      /\ l.m.obj[a.obj].page[n] # NULL
  <2>1. PICK o : o = a.obj
    OBVIOUS
  <2>2. l = LookupWrite(m, o, n) /\ o \in Obj /\ m.obj[o].kind # "free"
    BY <1>2, <2>1
  <2>3. /\ l.m \in State /\ Fills(m, l.m) /\ Objects(l.m.obj, u) /\ l.o = o
        /\ l.m.obj[o].page[n] # NULL
    BY <1>3, <2>2, LookupWriteStep
  <2> QED BY <2>1, <2>3
<1>5. StoredIn(x, l.m, a.obj, n, v)
  <2>1. CopyOut(m, p, i, v) = [l.m EXCEPT !.obj[l.o].page[n] = v]
    BY <1>1, <1>2 DEF CopyOut
  <2> QED BY <1>4, <2>1 DEF StoredIn
<1>6. x \in State /\ Fills(l.m, x) /\ Objects(x.obj, u)
  BY <1>3, <1>4, <1>5, StoreStep
<1> QED BY <1>4, <1>6, FillsTrans

LEMMA CopyToGood ==
  ASSUME NEW p \in Proc, NEW i \in Page, NEW v \in Val, IInv, copy_to_user(p, i, v)
  PROVE  IInv'
<1>1. /\ Good(s, shrunk) /\ shrunk \in BOOLEAN /\ s.crash = NoCrash /\ s.heap[p] # NULL /\ shrunk' = shrunk
      /\ s \in State
  BY DEF IInv, Good, copy_to_user, Runs, Up, Alive
<1>2. PICK k, a, y : k = vmmap_lookup(s, p, i) /\ a = s.areas[p][k] /\ y = CopyOut(s, p, i, v)
  OBVIOUS
<1>3. k # 0 /\ Step(y)
  <2>1. i \in i .. i
    BY Constants DEF Page
  <2> QED BY <1>2, <2>1 DEF copy_to_user, range_perm, Has
<1>4. i - a.start + a.off \in Num /\ a.obj \in Obj /\ s.obj[a.obj].kind # "free"
  BY <1>1, <1>2, <1>3, GoodParts, FoundArea
<1>5. PICK u : u = U(s.areas)
  OBVIOUS
<1>6. u \in [Obj -> Nat] /\ Objects(s.obj, u)
  BY <1>1, <1>5, StateParts, UType DEF Good, Lists
<1>7. y \in State /\ Fills(s, y) /\ Objects(y.obj, u)
  BY <1>1, <1>2, <1>4, <1>6, CopyOutStep
<1>8. Good(y, shrunk) /\ y.crash = s.crash
  BY <1>1, <1>5, <1>7, FilledGood
<1> QED BY <1>1, <1>3, <1>8, SteppedOn

LEMMA TwoPagesGood == ASSUME NEW p \in Proc, NEW i \in Page, IInv, copy_to_user_TwoPages(p, i) PROVE IInv'
<1>1. s.crash = NoCrash /\ s \in State /\ shrunk \in BOOLEAN /\ shrunk' = shrunk
  BY DEF IInv, Good, copy_to_user_TwoPages, Runs, Up
<1>2. PICK c : c = Crash(s, "copy beyond the frame")
  OBVIOUS
<1>3. c.crash = "copy beyond the frame" /\ Step(c)
  BY <1>1, <1>2, Crashed DEF copy_to_user_TwoPages
<1>4. c.crash \in Crashes /\ c.crash # NoCrash /\ c.crash \notin {"vmmap_insert", "store to freed memory"}
  BY <1>3 DEF Crashes, NoCrash
<1> QED BY <1>1, <1>3, <1>4, Stepped

LEMMA CopyFromGood == ASSUME NEW p \in Proc, NEW i \in Page, IInv, copy_from_user(p, i) PROVE IInv'
<1>1. /\ Good(s, shrunk) /\ shrunk \in BOOLEAN /\ s.crash = NoCrash /\ shrunk' = shrunk /\ s \in State
  BY DEF IInv, Good, copy_from_user, Runs, Up
<1>2. PICK k, a, n : k = vmmap_lookup(s, p, i) /\ a = s.areas[p][k] /\ n = i - a.start + a.off
  OBVIOUS
<1>3. PICK l : l = LookupRead(s, a.obj, n)
  OBVIOUS
<1>4. k # 0 /\ Step(l.m)
  BY <1>2, <1>3 DEF copy_from_user, Has, Area, PageNum
<1>5. n \in Num /\ a.obj \in Obj /\ s.obj[a.obj].kind # "free"
  BY <1>1, <1>2, <1>4, GoodParts, FoundArea
<1>6. PICK u : u = U(s.areas)
  OBVIOUS
<1>7. u \in [Obj -> Nat] /\ Objects(s.obj, u)
  BY <1>1, <1>6, StateParts, UType DEF Good, Lists
<1>8. l.m \in State /\ Fills(s, l.m) /\ Objects(l.m.obj, u)
  BY <1>1, <1>3, <1>5, <1>7, LookupReadStep
<1>9. Good(l.m, shrunk) /\ l.m.crash = s.crash
  BY <1>1, <1>6, <1>8, FilledGood
<1> QED BY <1>1, <1>4, <1>9, SteppedOn

LEMMA StoreGood == ASSUME NEW p \in Proc, NEW i \in Page, NEW v \in Val, IInv, UserStore(p, i, v) PROVE IInv'
<1>1. /\ Good(s, shrunk) /\ shrunk \in BOOLEAN /\ s.crash = NoCrash /\ shrunk' = shrunk /\ s \in State
  BY DEF IInv, Good, UserStore, Runs, Up
<1>2. PICK t : t = s.pte[p][i]
  OBVIOUS
<1>3. t \in Pte /\ t.w /\ t.n \in Num
  <2>1. t \in Pte
    BY <1>1, <1>2, StateParts
  <2>2. t.w
    BY <1>2 DEF UserStore
  <2> QED BY <2>1, <2>2 DEF Pte
<1>4. (shrunk /\ t = Dangling) \/ Leads(s.obj, t)
  <2>1. PteOK(s.obj, s.areas[p], i, t, shrunk)
    BY <1>1, <1>2 DEF Good, PtesOK
  <2> QED BY <1>3, <2>1, PteTypes DEF PteOK
<1>5. CASE t = Dangling
  <2>1. shrunk
    BY <1>4, <1>5, PteTypes DEF Leads
  <2>2. PICK c : c = Crash(s, "store to freed memory")
    OBVIOUS
  <2>3. c.crash = "store to freed memory" /\ Step(c)
    BY <1>1, <1>2, <1>5, <2>2, Crashed DEF UserStore
  <2>4. c.crash \in Crashes /\ c.crash # NoCrash
    BY <2>3 DEF Crashes, NoCrash
  <2> QED BY <1>1, <2>1, <2>3, <2>4, Stepped
<1>6. CASE t # Dangling
  <2>1. Leads(s.obj, t)
    BY <1>4, <1>6
  <2>2. PICK y : StoredIn(y, s, t.o, t.n, v)
    BY DEF StoredIn
  <2>3. Step(y)
    BY <1>2, <1>6, <2>2 DEF UserStore, StoredIn
  <2>4. PICK u : u = U(s.areas)
    OBVIOUS
  <2>5. u \in [Obj -> Nat] /\ Objects(s.obj, u)
    BY <1>1, <2>4, StateParts, UType DEF Good, Lists
  <2>6. y \in State /\ Fills(s, y) /\ Objects(y.obj, u)
    BY <1>1, <1>3, <2>1, <2>2, <2>5, StoreStep DEF Leads
  <2>7. Good(y, shrunk) /\ y.crash = s.crash
    BY <1>1, <2>4, <2>6, FilledGood
  <2> QED BY <1>1, <2>3, <2>7, SteppedOn
<1> QED BY <1>5, <1>6

-----------------------------------------------------------------------------
(* execve, and the program that the system starts with.                    *)

SameRange(e, g) == e.start = g.start /\ e.end = g.end

\* Of the segments of the program, k are mapped for p; w counts the other users.
Mapping(m, w, sh, F, p, k, y) ==
  /\ \E u : GoodBut(y, u, sh, F) /\ \A o \in Obj : u[o] = w[o] + In(y.areas[p])[o]
  /\ y.pte = m.pte /\ y.heap = m.heap /\ y.crash = m.crash
  /\ \A q \in Proc : q # p => y.areas[q] = m.areas[q]
  /\ Cardinality(FreeObjs(y)) >= 2 * (Len(Image) - k)
  /\ \A e \in DOMAIN y.areas[p] : \E j \in 1 .. k : SameRange(y.areas[p][e], Image[j])
  /\ \A j \in 1 .. k : \E e \in DOMAIN y.areas[p] : SameRange(y.areas[p][e], Image[j])

LEMMA ImageParts ==
  /\ Len(Image) \in Nat \ {0} /\ DOMAIN Image = 1 .. Len(Image)
  /\ \A k \in 1 .. Len(Image) :
       /\ Image[k].start \in Page /\ Image[k].end \in LOW .. HIGH /\ Image[k].prot \in Prots
       /\ Image[k].start \in LOW .. HIGH /\ Image[k].start < Image[k].end
  /\ \A j, k \in 1 .. Len(Image) : j # k => Image[j].end <= Image[k].start \/ Image[k].end <= Image[j].start
<1>1. PICK S : S = [start : Page, end : LOW .. HIGH, prot : Prots]
  OBVIOUS
<1>2. Image \in Seq(S) /\ Image # <<>>
  BY <1>1, VMAssumption
<1>3. Len(Image) \in Nat /\ DOMAIN Image = 1 .. Len(Image) /\ \A k \in 1 .. Len(Image) : Image[k] \in S
  BY <1>2, LenProperties
<1>4. Len(Image) # 0
  BY <1>2, EmptySeq
<1>5. \A k \in 1 .. Len(Image) : Image[k].start \in Page /\ Image[k].end \in LOW .. HIGH /\ Image[k].prot \in Prots
  BY <1>1, <1>3
<1>6. Page \in SUBSET (LOW .. HIGH)
  BY Constants DEF Page
<1>7. \A k \in 1 .. Len(Image) : Image[k].start < Image[k].end
  BY <1>3, VMAssumption
<1>8. \A j, k \in 1 .. Len(Image) : j # k => Image[j].end <= Image[k].start \/ Image[k].end <= Image[j].start
  BY <1>3, VMAssumption
<1> QED BY <1>3, <1>4, <1>5, <1>6, <1>7, <1>8

LEMMA MappingOne ==
  ASSUME NEW m, NEW w \in [Obj -> Nat], NEW sh, NEW F, NEW p \in Proc, NEW k \in 1 .. Len(Image), NEW y,
         Mapping(m, w, sh, F, p, k - 1, y),
         NEW x, MapsIn(x, y, p, Image[k].start, Image[k].end, FALSE, Image[k].prot)
  PROVE  Mapping(m, w, sh, F, p, k, x)
<1>1. PICK lo, hi, prot : lo = Image[k].start /\ hi = Image[k].end /\ prot = Image[k].prot
  OBVIOUS
<1>2. lo \in LOW .. HIGH /\ hi \in LOW .. HIGH /\ lo < hi /\ prot \in Prots /\ k \in Nat /\ Len(Image) \in Nat
  BY <1>1, ImageParts
<1>3. PICK u : GoodBut(y, u, sh, F) /\ \A o \in Obj : u[o] = w[o] + In(y.areas[p])[o]
  BY DEF Mapping
<1>4. y.areas[p] \in Lists
  BY <1>3 DEF GoodBut, Tidy, WellFormed
<1>5. vmmap_is_range_empty(y.areas[p], lo, hi)
  <2>1. ASSUME NEW e \in DOMAIN y.areas[p] PROVE y.areas[p][e].start >= hi \/ y.areas[p][e].end <= lo
    <3>1. PICK j \in 1 .. k - 1 : SameRange(y.areas[p][e], Image[j])
      BY DEF Mapping
    <3>2. j \in 1 .. Len(Image) /\ j # k
      BY <1>2
    <3>3. Image[j].end <= lo \/ hi <= Image[j].start
      BY <1>1, <3>2, ImageParts
    <3>4. PICK a, b : a = Image[j].start /\ b = Image[j].end
      OBVIOUS
    <3>5. a \in Int /\ b \in Int /\ y.areas[p][e].start = a /\ y.areas[p][e].end = b
      BY <3>1, <3>2, <3>4, ImageParts, Constants DEF SameRange
    <3> QED BY <1>2, <3>3, <3>4, <3>5, Constants
  <2> QED BY <2>1 DEF vmmap_is_range_empty
<1>6. PICK f, g : f = Cardinality(FreeObjs(y)) /\ g = Cardinality(FreeObjs(x))
  OBVIOUS
<1>15. f \in Nat /\ g \in Nat
  BY <1>6, FreeObjsFinite
<1>16. f >= 2 * (Len(Image) - (k - 1)) /\ NewObjs(FALSE) = 2
  BY <1>6 DEF Mapping, NewObjs
<1>17. f >= 2 /\ f - 2 >= 2 * (Len(Image) - k)
  <2>1. PICK len : len = Len(Image)
    OBVIOUS
  <2>2. len \in Nat /\ k <= len /\ f >= 2 * (len - (k - 1))
    BY <1>2, <1>16, <2>1
  <2>3. 2 * (len - (k - 1)) = 2 * (len - k) + 2 /\ len - k \in Nat
    BY <1>2, <2>2
  <2> QED BY <1>15, <2>1, <2>2, <2>3
<1>18. Cardinality(FreeObjs(y)) >= NewObjs(FALSE)
  BY <1>6, <1>16, <1>17
<1>7. MapsIn(x, y, p, lo, hi, FALSE, prot)
  BY <1>1
<1>8. PICK a \in AreaRec : /\ GoodBut(x, Plus(u, a.obj), sh, F) /\ Mapped(y, x, p, a)
                           /\ a.start = lo /\ a.end = hi
                           /\ Cardinality(FreeObjs(x)) >= Cardinality(FreeObjs(y)) - NewObjs(FALSE)
  <2>1. PICK no \in BOOLEAN : no = FALSE
    OBVIOUS
  <2>3. MapsIn(x, y, p, lo, hi, no, prot) /\ Cardinality(FreeObjs(y)) >= NewObjs(no) /\ GoodBut(y, u, sh, F)
    BY <1>3, <1>7, <1>18, <2>1
  <2>4. PICK a \in AreaRec : /\ GoodBut(x, Plus(u, a.obj), sh, F) /\ U(x.areas) = Plus(U(y.areas), a.obj)
                            /\ Mapped(y, x, p, a) /\ a.start = lo /\ a.end = hi /\ a.prot = prot
                            /\ Cardinality(FreeObjs(x)) >= Cardinality(FreeObjs(y)) - NewObjs(no)
    BY <1>2, <1>5, <2>3, MapGood
  <2> QED BY <2>1, <2>4
<1>9. Inserted(x.areas[p], y.areas[p], a) /\ Adds(y, x) /\ \A q \in Proc : q # p => x.areas[q] = y.areas[q]
  BY <1>8 DEF Mapped
<1>10. Cardinality(FreeObjs(x)) >= 2 * (Len(Image) - k)
  <2>1. g >= f - 2
    BY <1>6, <1>8, <1>16
  <2>2. PICK r : r = 2 * (Len(Image) - k)
    OBVIOUS
  <2>3. r \in Int /\ f - 2 >= r
    BY <1>2, <1>17, <2>2
  <2>4. g >= r
    BY <1>15, <2>1, <2>3
  <2> QED BY <1>6, <2>2, <2>4
<1>11. \A o \in Obj : Plus(u, a.obj)[o] = w[o] + In(x.areas[p])[o]
  <2> SUFFICES ASSUME NEW o \in Obj PROVE Plus(u, a.obj)[o] = w[o] + In(x.areas[p])[o]
    OBVIOUS
  <2>1. PICK c, d : c = w[o] /\ d = In(y.areas[p])[o]
    OBVIOUS
  <2>2. c \in Nat /\ d \in Nat /\ u[o] = c + d
    BY <1>3, <1>4, <2>1, InType
  <2>3. In(x.areas[p])[o] = d + (IF o = a.obj THEN 1 ELSE 0)
    BY <1>9, <2>1 DEF Inserted
  <2>4. Plus(u, a.obj)[o] = IF o = a.obj THEN u[o] + 1 ELSE u[o]
    BY DEF Plus
  <2> QED BY <2>1, <2>2, <2>3, <2>4
<1>12. ASSUME NEW e \in DOMAIN x.areas[p] PROVE \E j \in 1 .. k : SameRange(x.areas[p][e], Image[j])
  <2>1. CASE x.areas[p][e] = a
    <3>1. SameRange(a, Image[k]) /\ k \in 1 .. k
      BY <1>1, <1>2, <1>8 DEF SameRange
    <3> QED BY <2>1, <3>1
  <2>2. CASE \E d \in DOMAIN y.areas[p] : x.areas[p][e] = y.areas[p][d]
    <3>1. PICK j \in 1 .. k - 1 : SameRange(x.areas[p][e], Image[j])
      BY <2>2 DEF Mapping
    <3>2. j \in 1 .. k
      BY <1>2
    <3> QED BY <3>1, <3>2
  <2> QED BY <1>9, <2>1, <2>2 DEF Inserted
<1>13. ASSUME NEW j \in 1 .. k PROVE \E e \in DOMAIN x.areas[p] : SameRange(x.areas[p][e], Image[j])
  <2>1. CASE j = k
    <3>1. PICK e \in DOMAIN x.areas[p] : x.areas[p][e] = a
      BY <1>9 DEF Inserted
    <3> QED BY <1>1, <1>8, <2>1, <3>1 DEF SameRange
  <2>2. CASE j # k
    <3>1. j \in 1 .. k - 1
      BY <1>2, <2>2
    <3>2. PICK d \in DOMAIN y.areas[p] : SameRange(y.areas[p][d], Image[j])
      BY <3>1 DEF Mapping
    <3>3. PICK e \in DOMAIN x.areas[p] : x.areas[p][e] = y.areas[p][d]
      BY <1>9 DEF Inserted
    <3> QED BY <3>2, <3>3
  <2> QED BY <2>1, <2>2
<1>14. /\ x.pte = m.pte /\ x.heap = m.heap /\ x.crash = m.crash
       /\ \A q \in Proc : q # p => x.areas[q] = m.areas[q]
  BY <1>9 DEF Adds, Mapping
<1> QED BY <1>8, <1>10, <1>11, <1>12, <1>13, <1>14 DEF Mapping

LEMMA SegmentsStep ==
  ASSUME NEW m, NEW p \in Proc, NEW n, AreasNow(n, m, p, <<>>), NEW w \in [Obj -> Nat], NEW sh, NEW F,
         Mapping(n, w, sh, F, p, 0, n), NEW y, y = _elf32_map_progsegs(m, p)
  PROVE  Mapping(n, w, sh, F, p, Len(Image), y)
<1>1. PICK a : /\ Ran("segments", [p |-> p], [m EXCEPT !.areas[p] = <<>>], a, Len(Image))
               /\ y = a[Len(Image)]
  BY SegmentsRan
<1>2. /\ a[0] = n
      /\ \A k \in 1 .. Len(Image) : MapsIn(a[k], a[k - 1], p, Image[k].start, Image[k].end, FALSE, Image[k].prot)
  <2>1. a[0] = [m EXCEPT !.areas[p] = <<>>]
    BY <1>1 DEF Ran
  <2>2. \A k \in 1 .. Len(Image) : a[k] = Turn("segments", [p |-> p], a[k - 1], k)
    BY <1>1 DEF Ran
  <2>3. \A x, k : Turn("segments", [p |-> p], x, k) = vmmap_map(x, p, Image[k].start, Image[k].end, FALSE, Image[k].prot)
    BY DEF Turn
  <2> QED BY <2>1, <2>2, <2>3 DEF AreasNow, MapsIn
<1> DEFINE S == {k \in 0 .. Len(Image) : Mapping(n, w, sh, F, p, k, a[k])}
<1>3. Len(Image) \in Nat
  BY ImageParts
<1>4. 0 \in S
  BY <1>2, <1>3
<1>5. ASSUME NEW k \in 0 .. Len(Image) - 1, k \in S PROVE k + 1 \in S
  <2>1. PICK j : j = k + 1
    OBVIOUS
  <2>2. j \in 1 .. Len(Image) /\ j - 1 = k /\ j \in 0 .. Len(Image)
    BY <1>3, <2>1
  <2>3. Mapping(n, w, sh, F, p, j - 1, a[j - 1])
    BY <1>5, <2>2
  <2>4. MapsIn(a[j], a[j - 1], p, Image[j].start, Image[j].end, FALSE, Image[j].prot)
    BY <1>2, <2>2
  <2>5. Mapping(n, w, sh, F, p, j, a[j])
    BY <2>2, <2>3, <2>4, MappingOne
  <2> QED BY <2>1, <2>2, <2>5
<1> HIDE DEF S
<1>6. Closed(S, Len(Image))
  BY <1>4, <1>5 DEF Closed
<1>7. Len(Image) \in S
  BY <1>3, <1>6, Reached
<1> QED BY <1>1, <1>7 DEF S

\* The old areas of p are put aside, and with them what its translations belong to.
LEMMA AsideGood ==
  ASSUME NEW m, NEW sh, Good(m, sh), NEW p \in Proc, NEW n, AreasNow(n, m, p, <<>>),
         NEW F, F = Span(p, LOW, HIGH), NEW w, w = U(m.areas)
  PROVE  GoodBut(n, w, sh, F) /\ w \in [Obj -> Nat]
<1>1. GoodBut(m, w, sh, {}) /\ m \in State /\ Ptes(m) /\ m.areas \in [Proc -> Lists]
  BY GoodParts, StateParts DEF GoodBut, Lists
<1>2. <<>> \in Lists /\ DOMAIN <<>> = {} /\ \A o \in Obj : In(<<>>)[o] = 0
  BY InEmpty
<1>3. PICK e : e = <<>>
  OBVIOUS
<1>4. e \in Lists /\ AreasNow(n, m, p, e) /\ DOMAIN e = {}
  BY <1>2, <1>3
<1>5. /\ n \in State /\ n.areas = [m.areas EXCEPT ![p] = e] /\ n.obj = m.obj /\ n.pte = m.pte
      /\ n.heap = m.heap /\ n.crash = m.crash
  BY <1>1, <1>4, WithAreas
<1>6. /\ n.areas \in [Proc -> Lists] /\ n.areas[p] = e /\ \A q \in Proc : q # p => n.areas[q] = m.areas[q]
      /\ \A o \in Obj : U(n.areas)[o] = U(m.areas)[o] - In(m.areas[p])[o] + In(e)[o]
  BY <1>1, <1>4, <1>5, UReplaced
<1>7. w \in [Obj -> Nat] /\ Objects(m.obj, w)
  BY <1>1 DEF GoodBut, Counting
<1>8. Counting(n, w)
  <2>1. ASSUME NEW o \in Obj PROVE U(n.areas)[o] <= w[o]
    <3>1. m.areas[p] \in Lists
      BY <1>1
    <3>2. In(m.areas[p]) \in [Obj -> Nat]
      BY <3>1, InType
    <3>3. PICK a, b, c : a = U(n.areas)[o] /\ b = w[o] /\ c = In(m.areas[p])[o]
      OBVIOUS
    <3>4. b \in Nat /\ c \in Nat /\ a = b - c + 0
      BY <1>2, <1>3, <1>6, <1>7, <3>2, <3>3
    <3> QED BY <3>3, <3>4
  <2> QED BY <1>5, <1>7, <2>1 DEF Counting
<1>9. Ptes(n) /\ Loses(m, n)
  BY <1>1, <1>5 DEF Ptes, Loses
<1>10. Within(m, n)
  BY <1>4, <1>6 DEF Within, Fits
<1>11. \A q \in Proc : Tidy(n.areas[q], n.heap[q], sh)
  <2>1. Tidy(e, n.heap[p], sh)
    BY <1>4 DEF Tidy, WellFormed, Ordered
  <2> QED BY <1>1, <1>5, <1>6, <2>1 DEF GoodBut
<1>12. \A q \in Proc, i \in Page : <<q, i>> \in F \/ Stays(m, n, q, i)
  <2>1. \A i \in Page : i \in LOW .. HIGH - 1
    BY DEF Page
  <2>2. \A i \in Page : <<p, i>> \in F
    BY <2>1 DEF Span
  <2>3. \A q \in Proc, i \in Page : q # p => Stays(m, n, q, i)
    BY <1>6 DEF Stays, Fits
  <2> QED BY <2>2, <2>3
<1>13. PICK E : E = {}
  OBVIOUS
<1>14. GoodBut(m, w, sh, E) /\ \A f \in E : f \in F
  BY <1>1, <1>13
<1> QED BY <1>5, <1>7, <1>8, <1>9, <1>10, <1>11, <1>12, <1>14, LosesGood

HeapNow(x, m, p, b) == x = [m EXCEPT !.heap[p] = b]

LEMMA WithHeap ==
  ASSUME NEW m \in State, NEW p \in Proc, NEW b \in Brks \cup {NULL}, NEW x, HeapNow(x, m, p, b)
  PROVE  /\ x \in State /\ x.areas = m.areas /\ x.obj = m.obj /\ x.pte = m.pte /\ x.crash = m.crash
         /\ x.heap[p] = b /\ \A q \in Proc : q # p => x.heap[q] = m.heap[q]
<1>1. PICK h : h = [m.heap EXCEPT ![p] = b]
  OBVIOUS
<1>2. h \in [Proc -> Brks \cup {NULL}] /\ h[p] = b /\ \A q \in Proc : q # p => h[q] = m.heap[q]
  BY <1>1, StateParts
<1>3. x = [m EXCEPT !.heap = h]
  BY <1>1 DEF HeapNow
<1>4. x.areas = m.areas /\ x.obj = m.obj /\ x.pte = m.pte /\ x.crash = m.crash /\ x.heap = h
  BY <1>3 DEF State
<1>5. x \in State
  <2>1. x = [areas |-> m.areas, obj |-> m.obj, pte |-> m.pte, heap |-> h, crash |-> m.crash]
    BY <1>3 DEF State
  <2>2. m.areas \in [Proc -> Seq(AreaRec)] /\ m.obj \in Objs /\ m.pte \in [Proc -> [Page -> Pte]] /\ m.crash \in Crashes
    BY StateParts
  <2> QED BY <1>2, <2>1, <2>2, StateOf
<1> QED BY <1>2, <1>4, <1>5

\* The arguments are put into the new address space.
LEMMA ArgsGood ==
  ASSUME NEW m, NEW w \in [Obj -> Nat], NEW sh, NEW F, NEW p \in Proc, NEW y, Mapping(m, w, sh, F, p, Len(Image), y),
         NEW v \in Val, NEW z, z = CopyOut(y, p, Image[1].end - 1, v)
  PROVE  /\ \E u : GoodBut(z, u, sh, F) /\ \A o \in Obj : u[o] = w[o] + In(z.areas[p])[o]
         /\ z.areas = y.areas /\ z.pte = m.pte /\ z.heap = m.heap /\ z.crash = m.crash
<1>1. PICK u : GoodBut(y, u, sh, F) /\ \A o \in Obj : u[o] = w[o] + In(y.areas[p])[o]
  BY DEF Mapping
<1>2. 1 \in 1 .. Len(Image)
  BY ImageParts
<1>3. PICK lo, hi, i : lo = Image[1].start /\ hi = Image[1].end /\ i = hi - 1
  OBVIOUS
<1>4. lo \in Int /\ hi \in LOW .. HIGH /\ lo < hi /\ LOW <= lo
  BY <1>2, <1>3, ImageParts, Constants
<1>5. i \in Page /\ i \in Int /\ lo <= i /\ i < hi
  BY <1>3, <1>4, Constants DEF Page
<1>6. y \in State /\ y.areas \in [Proc -> Lists] /\ WellFormed(y.areas[p]) /\ Objects(y.obj, u) /\ u \in [Obj -> Nat]
  BY <1>1, StateParts DEF GoodBut, Tidy, Counting, Lists
<1>7. PICK k : k = vmmap_lookup(y, p, i)
  OBVIOUS
<1>8. k # 0
  <2>1. PICK e \in DOMAIN y.areas[p] : SameRange(y.areas[p][e], Image[1])
    BY <1>2 DEF Mapping
  <2>2. Covers(y.areas[p][e], i)
    BY <1>3, <1>5, <2>1 DEF SameRange, Covers
  <2> QED BY <1>5, <1>6, <1>7, <2>2, Lookup
<1>9. PICK a : a = y.areas[p][k]
  OBVIOUS
<1>10. i - a.start + a.off \in Num /\ a.obj \in Obj /\ y.obj[a.obj].kind # "free"
  BY <1>1, <1>5, <1>7, <1>8, <1>9, FoundArea
<1>11. z = CopyOut(y, p, i, v)
  BY <1>3
<1>12. z \in State /\ Fills(y, z) /\ Objects(z.obj, u)
  BY <1>5, <1>6, <1>7, <1>9, <1>10, <1>11, CopyOutStep
<1>13. GoodBut(z, u, sh, F)
  BY <1>1, <1>12, FillsGood
<1>14. z.areas = y.areas /\ z.pte = m.pte /\ z.heap = m.heap /\ z.crash = m.crash
  BY <1>12 DEF Fills, Mapping
<1> QED BY <1>1, <1>13, <1>14

\* The old areas are put: the users that are left are the areas.
LEMMA OldPut ==
  ASSUME NEW m, NEW w \in [Obj -> Nat], m \in State, w = U(m.areas), NEW p \in Proc, NEW sh, NEW F,
         NEW z, NEW u, GoodBut(z, u, sh, F), \A o \in Obj : u[o] = w[o] + In(z.areas[p])[o],
         \A q \in Proc : q # p => z.areas[q] = m.areas[q],
         NEW r, r = PutAll(z, m.areas[p])
  PROVE  GoodBut(r, U(r.areas), sh, F) /\ r \in State /\ Frees(z, r)
<1>1. z \in State /\ z.areas \in [Proc -> Lists] /\ m.areas \in [Proc -> Lists] /\ Objects(z.obj, u) /\ u \in [Obj -> Nat] /\ Ptes(z)
  BY StateParts DEF GoodBut, Counting, Lists
<1>2. PICK l : l = z.areas[p]
  OBVIOUS
<1>3. l \in Lists /\ z.areas = [m.areas EXCEPT ![p] = l]
  BY <1>1, <1>2
<1>4. \A o \in Obj : U(z.areas)[o] = U(m.areas)[o] - In(m.areas[p])[o] + In(l)[o]
  BY <1>1, <1>3, UReplaced
<1>5. PICK old, t : old = m.areas[p] /\ t = U(z.areas)
  OBVIOUS
<1>6. old \in Lists /\ In(old) \in [Obj -> Nat] /\ In(l) \in [Obj -> Nat] /\ t \in [Obj -> Nat]
  BY <1>1, <1>3, <1>5, InType, UType
<1>7. u = [o \in Obj |-> t[o] + In(old)[o]]
  <2>1. ASSUME NEW o \in Obj PROVE u[o] = t[o] + In(old)[o]
    <3>1. PICK a, b, c, d, e : a = u[o] /\ b = w[o] /\ c = In(l)[o] /\ d = In(old)[o] /\ e = t[o]
      OBVIOUS
    <3>2. a \in Nat /\ b \in Nat /\ c \in Nat /\ d \in Nat /\ e \in Nat
      BY <1>1, <1>6, <3>1
    <3>3. a = b + c /\ e = b - d + c
      BY <1>2, <1>4, <1>5, <3>1
    <3> QED BY <3>1, <3>2, <3>3
  <2> QED BY <1>1, <2>1
<1>8. r = PutAll(z, old)
  BY <1>5
<1>9. r \in State /\ Ptes(r) /\ Frees(z, r) /\ Objects(r.obj, t)
  BY <1>1, <1>6, <1>7, <1>8, PutAllStep
<1>10. r.areas = z.areas /\ r.heap = z.heap
  BY <1>9 DEF Frees
<1>11. Counting(r, t) /\ t = U(r.areas)
  BY <1>5, <1>6, <1>9, <1>10 DEF Counting
<1>12. Loses(z, r)
  BY <1>9, FreesLoses
<1>13. Within(z, r) /\ \A q \in Proc, i \in Page : Stays(z, r, q, i)
  BY <1>10 DEF Within, Stays, Fits
<1>14. \A q \in Proc : Tidy(r.areas[q], r.heap[q], sh)
  BY <1>10 DEF GoodBut
<1>15. GoodBut(r, t, sh, F)
  BY <1>9, <1>11, <1>12, <1>13, <1>14, LosesGood
<1> QED BY <1>9, <1>11, <1>15

LEMMA LoadGood ==
  ASSUME NEW m, NEW sh, Good(m, sh), NEW p \in Proc, NEW b \in Brks, NEW v \in Val,
         Cardinality(FreeObjs(m)) >= 2 * Len(Image), NEW x, x = _elf32_load(m, p, b, v)
  PROVE  Good(x, sh) /\ x.crash = m.crash
<1>1. Dead(m) /\ m \in State
  BY DEF Good
<1>2. PICK n, F, w : AreasNow(n, m, p, <<>>) /\ F = Span(p, LOW, HIGH) /\ w = U(m.areas)
  BY DEF AreasNow
<1>3. GoodBut(n, w, sh, F) /\ w \in [Obj -> Nat]
  BY <1>2, AsideGood
<1>26. n.areas = [m.areas EXCEPT ![p] = <<>>] /\ n.obj = m.obj /\ n.pte = m.pte /\ n.heap = m.heap /\ n.crash = m.crash
  <2>1. PICK e : e = <<>>
    OBVIOUS
  <2>2. e \in Lists /\ AreasNow(n, m, p, e)
    BY <1>2, <2>1, InEmpty
  <2>3. n.areas = [m.areas EXCEPT ![p] = e] /\ n.obj = m.obj /\ n.pte = m.pte /\ n.heap = m.heap /\ n.crash = m.crash
    BY <1>1, <2>2, WithAreas
  <2> QED BY <2>1, <2>3
<1>4. n.areas[p] = <<>> /\ \A q \in Proc : q # p => n.areas[q] = m.areas[q]
  <2>1. n.areas = [m.areas EXCEPT ![p] = <<>>] /\ m.areas \in [Proc -> Lists]
    BY <1>1, <1>26, StateParts DEF Lists
  <2> QED BY <2>1
<1>5. n.obj = m.obj /\ n.pte = m.pte /\ n.heap = m.heap /\ n.crash = m.crash
  BY <1>26
<1>6. Mapping(n, w, sh, F, p, 0, n)
  <2>1. \A o \in Obj : w[o] = w[o] + In(n.areas[p])[o]
    <3>1. \A o \in Obj : In(n.areas[p])[o] = 0
      BY <1>4, InEmpty
    <3> QED BY <1>3, <3>1
  <2>2. FreeObjs(n) = FreeObjs(m)
    BY <1>5 DEF FreeObjs
  <2>3. Cardinality(FreeObjs(n)) >= 2 * (Len(Image) - 0)
    BY <2>2, ImageParts
  <2>4. DOMAIN n.areas[p] = {} /\ \A j \in 1 .. 0 : FALSE
    BY <1>4, InEmpty
  <2> QED BY <1>3, <2>1, <2>3, <2>4 DEF Mapping
<1>7. PICK y : y = _elf32_map_progsegs(m, p)
  OBVIOUS
<1>8. Mapping(n, w, sh, F, p, Len(Image), y)
  BY <1>2, <1>3, <1>6, <1>7, SegmentsStep
<1>9. PICK z : z = CopyOut(y, p, Image[1].end - 1, v)
  OBVIOUS
<1>10. /\ \E u : GoodBut(z, u, sh, F) /\ \A o \in Obj : u[o] = w[o] + In(z.areas[p])[o]
       /\ z.areas = y.areas /\ z.pte = n.pte /\ z.heap = n.heap /\ z.crash = n.crash
  BY <1>3, <1>8, <1>9, ArgsGood
<1>11. PICK r : r = PutAll(z, m.areas[p])
  OBVIOUS
<1>12. \A q \in Proc : q # p => z.areas[q] = m.areas[q]
  BY <1>4, <1>8, <1>10 DEF Mapping
<1>13. GoodBut(r, U(r.areas), sh, F) /\ r \in State /\ Frees(z, r)
  BY <1>1, <1>2, <1>3, <1>10, <1>11, <1>12, OldPut
<1>14. PICK t : t = pt_unmap_range(r, p, LOW, HIGH)
  OBVIOUS
<1>15. /\ t \in State /\ t.obj = r.obj /\ t.areas = r.areas /\ t.heap = r.heap /\ t.crash = r.crash
       /\ \A q \in Proc, i \in Page : t.pte[q][i] = IF q = p /\ i \in Cleared(LOW, HIGH) THEN NoPte ELSE r.pte[q][i]
  BY <1>13, <1>14, ClearStep
<1>16. HeapNow(x, t, p, b)
  BY <1>7, <1>9, <1>11, <1>14 DEF HeapNow, _elf32_load, _elf32_load_args
<1>17. /\ x \in State /\ x.areas = r.areas /\ x.obj = r.obj /\ x.pte = t.pte /\ x.crash = r.crash
       /\ x.heap[p] = b /\ \A q \in Proc : q # p => x.heap[q] = r.heap[q]
  BY <1>15, <1>16, WithHeap
<1>18. \A i \in Page : x.pte[p][i] = NoPte
  <2>1. \A i \in Page : i \in Cleared(LOW, HIGH)
    BY ClearsRange, Constants DEF Page
  <2> QED BY <1>15, <1>17, <2>1
<1>19. Wiped(r, x, F)
  <2>1. \A q \in Proc, i \in Page : q # p => x.pte[q][i] = r.pte[q][i] /\ <<q, i>> \notin F
    BY <1>2, <1>15, <1>17 DEF Span
  <2> QED BY <1>17, <1>18, <2>1 DEF Wiped
<1>20. r.areas = y.areas /\ r.heap = m.heap /\ r.crash = m.crash
  BY <1>5, <1>10, <1>13 DEF Frees
<1>21. ASSUME NEW q \in Proc PROVE Tidy(x.areas[q], x.heap[q], sh)
  <2>1. Tidy(r.areas[q], r.heap[q], sh)
    BY <1>13 DEF GoodBut
  <2>2. CASE q # p
    BY <1>17, <2>1, <2>2
  <2>3. CASE q = p
    <3>1. ASSUME NEW k \in DOMAIN x.areas[p] PROVE x.areas[p][k].start < x.areas[p][k].end
      <4>1. PICK j \in 1 .. Len(Image) : SameRange(y.areas[p][k], Image[j])
        BY <1>8, <1>17, <1>20 DEF Mapping
      <4> QED BY <1>17, <1>20, <4>1, ImageParts DEF SameRange
    <3>2. x.areas[p] = r.areas[p]
      BY <1>17
    <3> QED BY <2>1, <2>3, <3>1, <3>2 DEF Tidy
  <2> QED BY <2>2, <2>3
<1>22. Dead(x)
  <2>1. b # NULL
    BY VMAssumption
  <2>2. ASSUME NEW q \in Proc, x.heap[q] = NULL PROVE x.areas[q] = <<>> /\ \A i \in Page : x.pte[q][i] = NoPte
    <3>1. q # p /\ m.heap[q] = NULL
      BY <1>17, <1>20, <2>1, <2>2
    <3>2. m.areas[q] = <<>> /\ \A i \in Page : m.pte[q][i] = NoPte
      BY <1>1, <3>1 DEF Dead
    <3>3. x.areas[q] = <<>>
      BY <1>10, <1>12, <1>17, <1>20, <3>1, <3>2
    <3>4. \A i \in Page : z.pte[q][i] = NoPte
      BY <1>5, <1>10, <3>2
    <3>5. \A i \in Page : r.pte[q][i] = NoPte
      BY <1>13, <3>4, PteTypes DEF Frees
    <3>6. \A i \in Page : x.pte[q][i] = NoPte
      BY <1>15, <1>17, <3>1, <3>5
    <3> QED BY <3>3, <3>6
  <2> QED BY <2>2 DEF Dead
<1>23. PICK u : u = U(r.areas)
  OBVIOUS
<1>24. GoodBut(r, u, sh, F) /\ u = U(r.areas)
  BY <1>13, <1>23
<1>25. Good(x, sh)
  BY <1>19, <1>21, <1>22, <1>24, ClearGood
<1> QED BY <1>17, <1>20, <1>25

\* do_execve, and the state that the system starts in.
LEMMA DoExecveGood ==
  ASSUME NEW p \in Proc, NEW b \in Brks, NEW v \in Val, IInv, do_execve(p, b, v)
  PROVE  IInv'
<1>1. Good(s, shrunk) /\ s.crash = NoCrash /\ shrunk \in BOOLEAN
  BY DEF IInv, do_execve, Runs, Up
<1>2. PICK m : m = _elf32_load(s, p, b, v)
  OBVIOUS
<1>3. Good(m, shrunk) /\ m.crash = s.crash
  BY <1>1, <1>2, LoadGood DEF do_execve
<1>4. Step(m) /\ shrunk' = shrunk
  BY <1>2 DEF do_execve
<1> QED BY <1>1, <1>3, <1>4, SteppedOn

LEMMA InitGood == Init => IInv
<1> SUFFICES ASSUME Init PROVE IInv
  OBVIOUS
<1>1. PICK p \in Proc, b \in Brks : s = _elf32_load(NoObjects, p, b, 0)
  BY DEF Init
<1>2. PICK m : m = NoObjects
  OBVIOUS
<1>3. PICK sh \in BOOLEAN : sh = FALSE
  OBVIOUS
<1>4. Good(m, sh) /\ m.crash = NoCrash
  <2>1. m = [NoObjects EXCEPT !.crash = NoCrash]
    <3>1. PICK A, B, T, H : m = [areas |-> A, obj |-> B, pte |-> T, heap |-> H, crash |-> NoCrash]
      BY <1>2 DEF NoObjects
    <3>2. [m EXCEPT !.crash = NoCrash] = [areas |-> A, obj |-> B, pte |-> T, heap |-> H, crash |-> NoCrash]
      BY <3>1
    <3> QED BY <1>2, <3>1, <3>2
  <2>2. NoCrash \in Crashes
    BY DEF Crashes
  <2> QED BY <2>1, <2>2, EmptyGood
<1>5. Cardinality(FreeObjs(m)) >= 2 * Len(Image)
  <2>1. FreeObjs(m) = Obj
    BY <1>2 DEF FreeObjs, NoObjects, FreeObj
  <2>2. Cardinality(Obj) \in Nat /\ Len(Image) \in Nat
    BY Constants, FS_CardinalityType, ImageParts
  <2>3. 2 * Len(Image) <= Cardinality(Obj)
    BY VMAssumption
  <2> QED BY <2>1, <2>2, <2>3
<1>6. 0 \in Val
  BY Constants
<1>7. PICK v \in Val : v = 0
  BY <1>6
<1>8. s = _elf32_load(m, p, b, v)
  BY <1>1, <1>2, <1>7
<1>9. Good(s, sh) /\ s.crash = NoCrash
  BY <1>4, <1>5, <1>8, LoadGood
<1> QED BY <1>3, <1>9 DEF IInv, Init, NoCrash

-----------------------------------------------------------------------------
(* fork: one area of the parent, under two new shadow objects.             *)

LEMMA GrowsTrans ==
  ASSUME NEW m, NEW x, NEW y, Grows(m, x), Grows(x, y)
  PROVE  Grows(m, y)
BY DEF Grows

\* Objects e and g are new and over o.
TwoNew(m, x, o, e, g) ==
  /\ e \in Obj /\ g \in Obj /\ e # g /\ m.obj[e].kind = "free" /\ m.obj[g].kind = "free"
  /\ x.obj[e].kind = "shadow" /\ x.obj[g].kind = "shadow" /\ x.obj[e].shadowed = o /\ x.obj[g].shadowed = o
  /\ x.areas = m.areas /\ Grows(m, x)
  /\ \A z \in Obj : m.obj[z].kind = "free" /\ z # e /\ z # g => x.obj[z].kind = "free"
  /\ Cardinality(FreeObjs(x)) = Cardinality(FreeObjs(m)) - 2
Doubled(u, o, e, g) == [z \in Obj |-> IF z = e \/ z = g THEN 1 ELSE IF z = o THEN u[z] - 1 ELSE u[z]]

LEMMA TwoShadows ==
  ASSUME NEW m \in State, Ptes(m), NEW u \in [Obj -> Nat], Objects(m.obj, u), NEW o \in Obj, u[o] > 0,
         Cardinality(FreeObjs(m)) >= 2, NEW r, r = ref(m, o), NEW c, c = shadow_create(r, o),
         NEW x, x = shadow_create(c, o), NEW e, e = NewObj(m), NEW g, g = NewObj(c)
  PROVE  /\ x \in State /\ Ptes(x) /\ TwoNew(m, x, o, e, g)
         /\ Doubled(u, o, e, g) \in [Obj -> Nat] /\ Objects(x.obj, Doubled(u, o, e, g))
<1>1. m.obj[o].kind # "free"
  BY DEF Objects, Live
<1>2. PICK v : v = Plus(u, o)
  OBVIOUS
<1>3. r \in State /\ Ptes(r) /\ Objects(r.obj, v) /\ SameObjs(m, r)
  BY <1>1, <1>2, RefStep
<1>4. v \in [Obj -> Nat] /\ \A z \in Obj : v[z] = IF z = o THEN u[z] + 1 ELSE u[z]
  BY <1>2, PlusType
<1>5. FreeObjs(r) = FreeObjs(m) /\ e = NewObj(r)
  <2>1. FreeObjs(r) = FreeObjs(m)
    BY <1>3 DEF SameObjs, FreeObjs
  <2> QED BY <2>1 DEF NewObj
<1>6. /\ IsFiniteSet(FreeObjs(m)) /\ Cardinality(FreeObjs(m)) \in Nat
      /\ IsFiniteSet(FreeObjs(c)) /\ Cardinality(FreeObjs(c)) \in Nat /\ FreeObjs(m) # {}
  BY FreeObjsFinite, FS_EmptySet
<1>7. v[o] > 0 /\ o # NULL /\ o \in Obj \cup {NULL}
  BY <1>4, Constants
<1>8. PICK w : w = Given(v, e, o)
  OBVIOUS
<1>9. /\ c \in State /\ Ptes(c) /\ Adds(r, c) /\ IsNew(r, c, e, o) /\ e # o
      /\ w \in [Obj -> Nat] /\ Objects(c.obj, w)
  <2>1. c = IF o = NULL THEN anon_create(r) ELSE shadow_create(r, o)
    BY <1>7
  <2>2. FreeObjs(r) # {} /\ (o # NULL => v[o] > 0)
    BY <1>5, <1>6, <1>7
  <2> QED BY <1>3, <1>4, <1>5, <1>7, <1>8, <2>1, <2>2, CreateStep
<1>10. FreeObjs(c) = FreeObjs(m) \ {e} /\ e \in FreeObjs(m)
  BY <1>5, <1>9 DEF IsNew
<1>11. Cardinality(FreeObjs(c)) = Cardinality(FreeObjs(m)) - 1 /\ FreeObjs(c) # {}
  <2>1. Cardinality(FreeObjs(c)) = Cardinality(FreeObjs(m)) - 1
    BY <1>6, <1>10, FS_RemoveElement
  <2> QED BY <1>6, <2>1, FS_EmptySet
<1>12. w[o] > 0 /\ \A z \in Obj : w[z] = IF z = e THEN 1 ELSE u[z]
  BY <1>4, <1>8, <1>9 DEF Given
<1>13. PICK t : t = Given(w, g, o)
  OBVIOUS
<1>14. /\ x \in State /\ Ptes(x) /\ Adds(c, x) /\ IsNew(c, x, g, o) /\ g # o
       /\ t \in [Obj -> Nat] /\ Objects(x.obj, t)
  <2>1. x = IF o = NULL THEN anon_create(c) ELSE shadow_create(c, o)
    BY <1>7
  <2>2. o # NULL => w[o] > 0
    BY <1>12
  <2> QED BY <1>7, <1>9, <1>11, <1>13, <2>1, <2>2, CreateStep
<1>15. FreeObjs(x) = FreeObjs(c) \ {g} /\ g \in FreeObjs(c)
  BY <1>14 DEF IsNew
<1>16. Cardinality(FreeObjs(x)) = Cardinality(FreeObjs(m)) - 2
  <2>1. Cardinality(FreeObjs(x)) = Cardinality(FreeObjs(c)) - 1
    <3>1. PICK A, B : A = FreeObjs(c) /\ B = FreeObjs(x)
      OBVIOUS
    <3>2. IsFiniteSet(A) /\ g \in A /\ B = A \ {g}
      BY <1>6, <1>15, <3>1
    <3>3. Cardinality(B) = Cardinality(A) - 1
      BY <3>2, FS_RemoveElement
    <3> QED BY <3>1, <3>3
  <2> QED BY <1>6, <1>11, <2>1
<1>17. e \in Obj /\ g \in Obj /\ e # g /\ m.obj[e].kind = "free" /\ m.obj[g].kind = "free"
  BY <1>10, <1>15 DEF FreeObjs
<1>18. Grows(m, x)
  <2>1. Grows(m, r)
    BY <1>3 DEF SameObjs, Grows
  <2>2. Grows(r, c)
    BY <1>9 DEF Adds, Grows
  <2>3. Grows(c, x)
    BY <1>14 DEF Adds, Grows
  <2> QED BY <2>1, <2>2, <2>3, GrowsTrans
<1>19. /\ x.obj[e].kind = "shadow" /\ x.obj[g].kind = "shadow" /\ x.obj[e].shadowed = o /\ x.obj[g].shadowed = o
       /\ x.areas = m.areas
  BY <1>3, <1>7, <1>9, <1>14, <1>17 DEF IsNew, SameObjs
<1>20. \A z \in Obj : m.obj[z].kind = "free" /\ z # e /\ z # g => x.obj[z].kind = "free"
  BY <1>10, <1>15 DEF FreeObjs
<1>21. Doubled(u, o, e, g) = t
  <2>1. \A z \in Obj : t[z] = IF z = g THEN 1 ELSE IF z = o THEN w[z] - 1 ELSE w[z]
    BY <1>13 DEF Given
  <2>2. \A z \in Obj : t[z] = IF z = e \/ z = g THEN 1 ELSE IF z = o THEN u[z] - 1 ELSE u[z]
    BY <1>9, <1>12, <2>1
  <2> QED BY <1>14, <2>2 DEF Doubled
<1>22. TwoNew(m, x, o, e, g)
  BY <1>16, <1>17, <1>18, <1>19, <1>20 DEF TwoNew
<1> QED BY <1>14, <1>21, <1>22

\* a differs from e in the object only.
Alike(a, e) == a.start = e.start /\ a.end = e.end /\ a.off = e.off /\ a.shared = e.shared /\ a.prot = e.prot
ObjIs(a, e, o) == a = [e EXCEPT !.obj = o]
AreaObj(x, m, p, k, o) == x = [m EXCEPT !.areas[p][k].obj = o]

LEMMA AreaObjStep ==
  ASSUME NEW m \in State, NEW p \in Proc, NEW k \in DOMAIN m.areas[p], NEW o \in Obj, NEW x, AreaObj(x, m, p, k, o)
  PROVE  /\ x \in State /\ x.obj = m.obj /\ x.pte = m.pte /\ x.heap = m.heap /\ x.crash = m.crash
         /\ \A q \in Proc : q # p => x.areas[q] = m.areas[q]
         /\ \E a \in AreaRec : /\ Alike(a, m.areas[p][k]) /\ a.obj = o /\ Replaced(x.areas[p], m.areas[p], k, a)
                               /\ x.areas[p] \in Lists /\ DOMAIN x.areas[p] = DOMAIN m.areas[p] /\ x.areas[p][k] = a
                               /\ \A j \in DOMAIN m.areas[p] : j # k => x.areas[p][j] = m.areas[p][j]
<1>1. PICK l : l = m.areas[p]
  OBVIOUS
<1>2. m.areas \in [Proc -> Lists] /\ l \in Lists /\ k \in DOMAIN l
  BY <1>1, StateParts DEF Lists
<1>3. PICK e : e = l[k]
  OBVIOUS
<1>4. e \in AreaRec
  BY <1>2, <1>3, ListParts
<1>5. PICK a, r : ObjIs(a, e, o) /\ Replaced(r, l, k, a)
  BY DEF ObjIs, Replaced
<1>6. a \in AreaRec /\ a.obj = o /\ Alike(a, e)
  BY <1>4, <1>5 DEF AreaRec, ObjIs, Alike
<1>7. r \in Lists /\ DOMAIN r = DOMAIN l /\ r[k] = a /\ \A j \in DOMAIN l : j # k => r[j] = l[j]
  <2>1. DOMAIN l = 1 .. Len(l)
    BY <1>2, ListParts
  <2> QED BY <1>2, <1>5, <1>6, <2>1 DEF Lists, Replaced
<1>8. AreasNow(x, m, p, r)
  BY <1>1, <1>2, <1>3, <1>5, StateParts DEF AreasNow, State, AreaObj, ObjIs, Replaced
<1>9. /\ x \in State /\ x.areas = [m.areas EXCEPT ![p] = r] /\ x.obj = m.obj /\ x.pte = m.pte
      /\ x.heap = m.heap /\ x.crash = m.crash
  BY <1>7, <1>8, WithAreas
<1>10. x.areas[p] = r /\ \A q \in Proc : q # p => x.areas[q] = m.areas[q]
  BY <1>2, <1>9
<1> QED BY <1>1, <1>3, <1>5, <1>6, <1>7, <1>9, <1>10

LEMMA InPositive ==
  ASSUME NEW l \in Lists, NEW k \in DOMAIN l
  PROVE  In(l)[l[k].obj] > 0
<1>1. PICK o, K : o = l[k].obj /\ K = {j \in DOMAIN l : l[j].obj = o}
  OBVIOUS
<1>2. o \in Obj /\ IsFiniteSet(K) /\ Cardinality(K) \in Nat
  BY <1>1, ListParts, ListFinite
<1>3. k \in K
  BY <1>1
<1>4. Cardinality(K) # 0
  BY <1>2, <1>3, FS_EmptySet
<1>5. In(l)[o] = Cardinality(K)
  BY <1>1, <1>2 DEF In
<1> QED BY <1>1, <1>2, <1>4, <1>5

\* P and Q are what became of the list l of the parent, and its copy, after k areas.
Own(m, x, o) == o \in Obj /\ m.obj[o].kind = "free" /\ x.obj[o].kind = "shadow"
CopyParts(m, x, l, P, Q, k) ==
  /\ P \in Lists /\ Q \in Lists /\ DOMAIN P = DOMAIN l /\ DOMAIN Q = DOMAIN l
  /\ \A j \in DOMAIN l : /\ Alike(P[j], l[j]) /\ Alike(Q[j], l[j])
                         /\ j > k \/ l[j].shared => P[j] = l[j] /\ Q[j] = l[j]
                         /\ j <= k /\ ~l[j].shared => Own(m, x, P[j].obj) /\ Own(m, x, Q[j].obj)
  /\ \A i, j \in DOMAIN l : i <= k /\ j <= k /\ ~l[i].shared /\ ~l[j].shared => P[i].obj # Q[j].obj
Over(m, x, l) == \A h \in Obj : m.obj[h].kind = "free" /\ x.obj[h].kind # "free" =>
  \E j \in DOMAIN l : ~l[j].shared /\ x.obj[h].shadowed = l[j].obj
Privates(l, k) == {j \in DOMAIN l : j > k /\ ~l[j].shared}

\* S is P with c at place k; c is a copy of a over object o.
Swapped(S, P, k, c) ==
  S \in Lists /\ DOMAIN S = DOMAIN P /\ S[k] = c /\ \A j \in DOMAIN P : j # k => S[j] = P[j]
IsCopy(c, a, o) == c \in AreaRec /\ Alike(c, a) /\ c.obj = o

LEMMA CopyOne ==
  ASSUME NEW l \in Lists, NEW k \in DOMAIN l, ~l[k].shared, NEW m, NEW x, NEW P, NEW Q,
         CopyParts(m, x, l, P, Q, k - 1), Grows(m, x), Over(m, x, l),
         NEW o, o = l[k].obj, NEW y, NEW g, NEW e, TwoNew(x, y, o, e, g),
         NEW c, IsCopy(c, l[k], g), NEW d, IsCopy(d, l[k], e), NEW S, Swapped(S, P, k, c), NEW T, Swapped(T, Q, k, d)
  PROVE  CopyParts(m, y, l, S, T, k) /\ Over(m, y, l) /\ Grows(m, y)
<1>1. k \in Nat /\ DOMAIN l \in SUBSET Nat
  BY ListParts
<1>2. Grows(x, y) /\ Grows(m, y)
  BY GrowsTrans DEF TwoNew
<1>9. /\ S \in Lists /\ DOMAIN S = DOMAIN l /\ S[k] = c /\ \A j \in DOMAIN l : j # k => S[j] = P[j]
      /\ T \in Lists /\ DOMAIN T = DOMAIN l /\ T[k] = d /\ \A j \in DOMAIN l : j # k => T[j] = Q[j]
      /\ Alike(c, l[k]) /\ c.obj = g /\ Alike(d, l[k]) /\ d.obj = e
  BY DEF Swapped, IsCopy, CopyParts
<1>3. \A z \in Obj : x.obj[z].kind = "free" => m.obj[z].kind = "free"
  BY DEF Grows
<1>4. Own(m, y, e) /\ Own(m, y, g) /\ e # g
  BY <1>3 DEF TwoNew, Own
<1>5. \A z : Own(m, x, z) => Own(m, y, z) /\ z # e /\ z # g
  BY <1>2 DEF TwoNew, Own, Grows
<1>6. ASSUME NEW j \in DOMAIN l
      PROVE  /\ Alike(S[j], l[j]) /\ Alike(T[j], l[j])
             /\ j > k \/ l[j].shared => S[j] = l[j] /\ T[j] = l[j]
             /\ j <= k /\ ~l[j].shared => Own(m, y, S[j].obj) /\ Own(m, y, T[j].obj)
  <2>1. CASE j = k
    BY <1>1, <1>4, <1>9, <2>1
  <2>2. CASE j # k
    <3>1. (j > k => j > k - 1) /\ (j <= k => j <= k - 1)
      BY <1>1, <2>2
    <3>2. /\ Alike(P[j], l[j]) /\ Alike(Q[j], l[j])
          /\ j > k - 1 \/ l[j].shared => P[j] = l[j] /\ Q[j] = l[j]
          /\ j <= k - 1 /\ ~l[j].shared => Own(m, x, P[j].obj) /\ Own(m, x, Q[j].obj)
      BY DEF CopyParts
    <3> QED BY <1>5, <1>9, <2>2, <3>1, <3>2
  <2> QED BY <2>1, <2>2
<1>7. ASSUME NEW i \in DOMAIN l, NEW j \in DOMAIN l, i <= k, j <= k, ~l[i].shared, ~l[j].shared
      PROVE  S[i].obj # T[j].obj
  <2>1. i # k => i <= k - 1 /\ Own(m, x, P[i].obj) /\ S[i] = P[i]
    BY <1>1, <1>7, <1>9 DEF CopyParts
  <2>2. j # k => j <= k - 1 /\ Own(m, x, Q[j].obj) /\ T[j] = Q[j]
    BY <1>1, <1>7, <1>9 DEF CopyParts
  <2>3. CASE i = k /\ j = k
    BY <1>4, <1>9, <2>3
  <2>4. CASE i = k /\ j # k
    BY <1>5, <1>9, <2>2, <2>4
  <2>5. CASE i # k /\ j = k
    BY <1>5, <1>9, <2>1, <2>5
  <2>6. CASE i # k /\ j # k
    BY <1>7, <2>1, <2>2, <2>6 DEF CopyParts
  <2> QED BY <2>3, <2>4, <2>5, <2>6
<1>8. Over(m, y, l)
  <2> SUFFICES ASSUME NEW h \in Obj, m.obj[h].kind = "free", y.obj[h].kind # "free"
               PROVE  \E j \in DOMAIN l : ~l[j].shared /\ y.obj[h].shadowed = l[j].obj
    BY DEF Over
  <2>1. CASE x.obj[h].kind # "free"
    BY <1>2, <2>1 DEF Over, Grows
  <2>2. CASE x.obj[h].kind = "free"
    BY <2>2 DEF TwoNew
  <2> QED BY <2>1, <2>2
<1> QED BY <1>2, <1>6, <1>7, <1>8, <1>9 DEF CopyParts

LEMMA PrivatesParts ==
  ASSUME NEW l \in Lists, NEW k \in DOMAIN l
  PROVE  /\ Cardinality(Privates(l, k)) \in Nat /\ Cardinality(Privates(l, k - 1)) \in Nat
         /\ l[k].shared => Cardinality(Privates(l, k - 1)) = Cardinality(Privates(l, k))
         /\ ~l[k].shared => Cardinality(Privates(l, k - 1)) = Cardinality(Privates(l, k)) + 1
<1>1. IsFiniteSet(DOMAIN l) /\ DOMAIN l \in SUBSET Nat
  <2>1. IsFiniteSet(DOMAIN l)
    BY ListFinite
  <2>2. DOMAIN l = 1 .. Len(l) /\ Len(l) \in Nat
    BY ListParts
  <2> QED BY <2>1, <2>2
<1>2. PICK A, B : A = Privates(l, k) /\ B = Privates(l, k - 1)
  OBVIOUS
<1>3. IsFiniteSet(A) /\ IsFiniteSet(B)
  BY <1>1, <1>2, FS_Subset DEF Privates
<1>4. Cardinality(A) \in Nat /\ Cardinality(B) \in Nat
  BY <1>3, FS_CardinalityType
<1>5. \A j \in DOMAIN l : j > k - 1 <=> j > k \/ j = k
  BY <1>1
<1>6. l[k].shared => B = A
  BY <1>2, <1>5 DEF Privates
<1>7. ~l[k].shared => B = A \cup {k} /\ k \notin A
  <2>1. ~(k > k)
    BY <1>1
  <2> QED BY <1>2, <1>5, <2>1 DEF Privates
<1>8. ~l[k].shared => Cardinality(B) = Cardinality(A) + 1
  BY <1>3, <1>7, FS_AddElement
<1> QED BY <1>2, <1>4, <1>6, <1>8

\* The users after k rounds: D is the part of the child's list that refers to objects already.
CopyCounts(w, u, P, Q, D, k) ==
  /\ u \in [Obj -> Nat] /\ D \in Lists /\ Len(D) = k /\ \A j \in 1 .. k : D[j] = Q[j]
  /\ \A o \in Obj : u[o] = w[o] + In(P)[o] + In(D)[o]

LEMMA SharedCounts ==
  ASSUME NEW w \in [Obj -> Nat], NEW u, NEW P \in Lists, NEW Q \in Lists, NEW k \in DOMAIN Q, NEW D,
         CopyCounts(w, u, P, Q, D, k - 1), NEW o, o = Q[k].obj
  PROVE  \E E : CopyCounts(w, Plus(u, o), P, Q, E, k)
<1>1. k \in Nat /\ Q[k] \in AreaRec /\ o \in Obj
  BY ListParts
<1>2. PICK g, R : g = Q[k] /\ R = <<g>>
  OBVIOUS
<1>3. R \in Lists /\ Len(R) = 1 /\ R[1] = g /\ DOMAIN R = {1} /\ \A z \in Obj : In(R)[z] = IF z = o THEN 1 ELSE 0
  <2>1. g \in AreaRec /\ g.obj = o
    BY <1>1, <1>2
  <2>2. R \in Lists /\ \A z \in Obj : In(R)[z] = IF z = o THEN 1 ELSE 0
    BY <1>2, <2>1, InOne
  <2> QED BY <1>2, <2>2
<1>4. D \in Lists /\ Len(D) = k - 1 /\ DOMAIN D = 1 .. k - 1
  BY ListParts DEF CopyCounts
<1>5. PICK E : E = D \o R
  OBVIOUS
<1>6. E \in Lists /\ \A z \in Obj : In(E)[z] = In(D)[z] + In(R)[z]
  BY <1>3, <1>4, <1>5, InConcat
<1>7. /\ Len(E) = Len(D) + Len(R) /\ \A j \in DOMAIN D : E[j] = D[j]
      /\ E[Len(D) + 1] = R[1]
  <2>1. /\ Len(E) = Len(D) + Len(R) /\ \A j \in DOMAIN D : j \in DOMAIN E /\ E[j] = D[j]
        /\ E[Len(D) + 1] = R[1]
    <3>1. D \in Lists /\ R \in Lists /\ E = D \o R
      BY <1>3, <1>4, <1>5
    <3>2. Len(E) = Len(D) + Len(R)
      BY <3>1, ConcatParts
    <3>3. \A j \in DOMAIN D : j \in DOMAIN E /\ E[j] = D[j]
      BY <3>1, ConcatParts
    <3>4. E[Len(D) + 1] = R[1]
      <4>1. Len(D) \in Nat /\ DOMAIN D = 1 .. Len(D) /\ Len(E) = Len(D) + 1 /\ E \in Lists
        BY <1>3, <1>4, <1>6, <3>2, ListParts
      <4>2. PICK j : j = Len(D) + 1
        OBVIOUS
      <4>3. j \in DOMAIN E /\ j \notin DOMAIN D /\ j - Len(D) = 1
        BY <4>1, <4>2, ListParts
      <4>4. E[j] = R[j - Len(D)]
        BY <3>1, <4>3, ConcatParts
      <4> QED BY <4>2, <4>3, <4>4
    <3> QED BY <3>2, <3>3, <3>4
  <2> QED BY <2>1
<1>8. Len(E) = k
  BY <1>1, <1>3, <1>4, <1>7
<1>9. ASSUME NEW j \in 1 .. k PROVE E[j] = Q[j]
  <2>1. CASE j = k
    <3>1. E[Len(D) + 1] = R[1] /\ Len(D) + 1 = k
      BY <1>1, <1>3, <1>4, <1>7
    <3> QED BY <1>2, <1>3, <2>1, <3>1
  <2>2. CASE j # k
    <3>1. j \in 1 .. k - 1
      BY <1>1, <2>2
    <3> QED BY <1>4, <1>7, <3>1 DEF CopyCounts
  <2> QED BY <2>1, <2>2
<1>10. Plus(u, o) \in [Obj -> Nat] /\ \A z \in Obj : Plus(u, o)[z] = IF z = o THEN u[z] + 1 ELSE u[z]
  BY PlusType DEF CopyCounts
<1>11. ASSUME NEW z \in Obj PROVE Plus(u, o)[z] = w[z] + In(P)[z] + In(E)[z]
  <2>1. PICK a, b, c, d : a = w[z] /\ b = In(P)[z] /\ c = In(D)[z] /\ d = u[z]
    OBVIOUS
  <2>2. a \in Nat /\ b \in Nat /\ c \in Nat /\ d = a + b + c
    <3>1. In(P) \in [Obj -> Nat] /\ In(D) \in [Obj -> Nat]
      BY <1>4, InType
    <3> QED BY <2>1, <3>1 DEF CopyCounts
  <2>3. In(E)[z] = c + In(R)[z] /\ In(R)[z] = IF z = o THEN 1 ELSE 0
    BY <1>3, <1>6, <2>1
  <2>4. Plus(u, o)[z] = IF z = o THEN d + 1 ELSE d
    BY <1>10, <2>1
  <2>5. CASE z = o
    BY <2>1, <2>2, <2>3, <2>4, <2>5
  <2>6. CASE z # o
    BY <2>1, <2>2, <2>3, <2>4, <2>6
  <2> QED BY <2>5, <2>6
<1> QED BY <1>6, <1>8, <1>9, <1>10, <1>11 DEF CopyCounts

\* Area k of the parent goes from o to g, its copy to e.
LEMMA PrivateCounts ==
  ASSUME NEW w \in [Obj -> Nat], NEW u, NEW P \in Lists, NEW Q \in Lists, NEW k \in DOMAIN P, k \in DOMAIN Q, NEW D,
         CopyCounts(w, u, P, Q, D, k - 1), NEW o \in Obj, o = P[k].obj,
         NEW e \in Obj, NEW g \in Obj, e # g, e # o, g # o, u[e] = 0, u[g] = 0,
         NEW c, IsCopy(c, P[k], g), NEW S, Replaced(S, P, k, c),
         NEW b, IsCopy(b, Q[k], e), NEW T, Swapped(T, Q, k, b),
         NEW v, v = Doubled(u, o, e, g), v \in [Obj -> Nat]
  PROVE  \E E : CopyCounts(w, v, S, T, E, k)
<1>0. T \in Lists /\ DOMAIN T = DOMAIN Q /\ T[k].obj = e /\ \A j \in DOMAIN Q : j # k => T[j] = Q[j]
  BY DEF Swapped, IsCopy
<1>1. k \in Nat /\ k \in DOMAIN T
  BY <1>0, ListParts
<1>2. /\ S \in Lists /\ \A z \in Obj : z # g /\ z # o => In(S)[z] = In(P)[z]
      /\ In(S)[g] = In(P)[g] + 1 /\ In(S)[o] = In(P)[o] - 1
  <2>1. Replaced(S, P, k, c) /\ c.obj # P[k].obj /\ c \in AreaRec /\ c.obj = g
    BY DEF IsCopy
  <2>2. /\ S \in Lists /\ \A z \in Obj : z # c.obj /\ z # P[k].obj => In(S)[z] = In(P)[z]
        /\ In(S)[c.obj] = In(P)[c.obj] + 1 /\ In(S)[P[k].obj] = In(P)[P[k].obj] - 1
    BY <2>1, InReplaced
  <2>3. c.obj = g /\ P[k].obj = o
    BY <2>1
  <2> QED BY <2>2, <2>3
<1>3. PICK t : t = [z \in Obj |-> w[z] + In(S)[z] + In(D)[z]]
  OBVIOUS
<1>4. D \in Lists /\ In(P) \in [Obj -> Nat] /\ In(D) \in [Obj -> Nat] /\ In(S) \in [Obj -> Nat]
  BY <1>2, InType DEF CopyCounts
<1>5. t \in [Obj -> Nat]
  BY <1>3, <1>4
<1>6. CopyCounts(w, t, S, T, D, k - 1)
  <2>1. \A j \in 1 .. k - 1 : j \in DOMAIN Q /\ j # k
    <3>1. DOMAIN Q = 1 .. Len(Q) /\ Len(Q) \in Nat
      BY ListParts
    <3> QED BY <1>1, <3>1
  <2>2. \A j \in 1 .. k - 1 : D[j] = T[j]
    BY <1>0, <2>1 DEF CopyCounts
  <2> QED BY <1>3, <1>5, <2>2 DEF CopyCounts
<1>7. PICK E : CopyCounts(w, Plus(t, e), S, T, E, k)
  BY <1>0, <1>1, <1>2, <1>6, SharedCounts
<1>8. Plus(t, e) = v
  <2>1. Plus(t, e) \in [Obj -> Nat] /\ \A z \in Obj : Plus(t, e)[z] = IF z = e THEN t[z] + 1 ELSE t[z]
    BY <1>5, PlusType
  <2>2. ASSUME NEW z \in Obj PROVE Plus(t, e)[z] = v[z]
    <3>1. PICK a, b1, c1, d, f : a = w[z] /\ b1 = In(P)[z] /\ c1 = In(D)[z] /\ d = u[z] /\ f = In(S)[z]
      OBVIOUS
    <3>2. a \in Nat /\ b1 \in Nat /\ c1 \in Nat /\ f \in Nat /\ d = a + b1 + c1
      BY <1>4, <3>1 DEF CopyCounts
    <3>3. t[z] = a + f + c1
      BY <1>3, <3>1
    <3>4. v[z] = IF z = e \/ z = g THEN 1 ELSE IF z = o THEN d - 1 ELSE d
      BY <3>1 DEF Doubled
    <3>5. CASE z = e
      <4>1. f = b1 /\ d = 0
        BY <1>2, <3>1, <3>5
      <4>2. Plus(t, e)[z] = t[z] + 1 /\ v[z] = 1
        BY <2>1, <3>4, <3>5
      <4> QED BY <3>2, <3>3, <4>1, <4>2
    <3>6. CASE z = g
      <4>1. f = b1 + 1 /\ d = 0
        BY <1>2, <3>1, <3>6
      <4>2. Plus(t, e)[z] = t[z] /\ v[z] = 1
        BY <2>1, <3>4, <3>6
      <4> QED BY <3>2, <3>3, <4>1, <4>2
    <3>7. CASE z = o
      BY <1>2, <2>1, <3>1, <3>2, <3>3, <3>4, <3>7
    <3>8. CASE z # e /\ z # g /\ z # o
      BY <1>2, <2>1, <3>1, <3>2, <3>3, <3>4, <3>8
    <3> QED BY <3>5, <3>6, <3>7, <3>8
  <2> QED BY <2>1, <2>2
<1> QED BY <1>7, <1>8

Cloning(m, w, p, q, k, x) ==
  /\ x \in State /\ Ptes(x) /\ Grows(m, x)
  /\ \A r \in Proc : r # p /\ r # q => x.areas[r] = m.areas[r]
  /\ CopyParts(m, x, m.areas[p], x.areas[p], x.areas[q], k) /\ Over(m, x, m.areas[p])
  /\ \E u, D : Objects(x.obj, u) /\ CopyCounts(w, u, x.areas[p], x.areas[q], D, k)
  /\ Cardinality(FreeObjs(x)) >= 2 * Cardinality(Privates(m.areas[p], k))
IsCloned(y, x, p, q, k) == y = Cloned(x, p, q, k)

LEMMA CloneShared ==
  ASSUME NEW m, NEW w \in [Obj -> Nat], NEW p \in Proc, NEW q \in Proc, p # q, m.areas[p] \in Lists,
         NEW k \in DOMAIN m.areas[p], NEW x, Cloning(m, w, p, q, k - 1, x), m.areas[p][k].shared,
         NEW y, IsCloned(y, x, p, q, k)
  PROVE  Cloning(m, w, p, q, k, y)
<1>1. PICK l, P, Q, o : l = m.areas[p] /\ P = x.areas[p] /\ Q = x.areas[q] /\ o = P[k].obj
  OBVIOUS
<1>2. PICK u, D : Objects(x.obj, u) /\ CopyCounts(w, u, P, Q, D, k - 1)
  BY <1>1 DEF Cloning
<1>3. /\ x \in State /\ Ptes(x) /\ Grows(m, x) /\ CopyParts(m, x, l, P, Q, k - 1) /\ Over(m, x, l)
      /\ Cardinality(FreeObjs(x)) >= 2 * Cardinality(Privates(l, k - 1))
      /\ \A r \in Proc : r # p /\ r # q => x.areas[r] = m.areas[r]
  BY <1>1 DEF Cloning
<1>4. l \in Lists /\ k \in DOMAIN l /\ l[k].shared /\ k \in Nat /\ DOMAIN l = 1 .. Len(l) /\ Len(l) \in Nat
  BY <1>1, ListParts
<1>5. P[k] = l[k] /\ Q[k] = l[k] /\ P \in Lists /\ Q \in Lists /\ k \in DOMAIN P /\ k \in DOMAIN Q
  BY <1>3, <1>4 DEF CopyParts
<1>6. o \in Obj /\ o = Q[k].obj /\ u \in [Obj -> Nat]
  BY <1>1, <1>2, <1>5, ListParts DEF CopyCounts
<1>7. u[o] > 0 /\ x.obj[o].kind # "free"
  <2>1. In(P)[o] > 0 /\ In(P) \in [Obj -> Nat] /\ In(D) \in [Obj -> Nat]
    BY <1>1, <1>2, <1>5, InPositive, InType DEF CopyCounts
  <2>2. u[o] = w[o] + In(P)[o] + In(D)[o]
    BY <1>2, <1>6 DEF CopyCounts
  <2>3. PICK a, b, c : a = w[o] /\ b = In(P)[o] /\ c = In(D)[o]
    OBVIOUS
  <2>4. a \in Nat /\ b \in Nat /\ c \in Nat /\ b > 0 /\ u[o] = a + b + c
    BY <1>6, <2>1, <2>2, <2>3
  <2>5. u[o] > 0
    BY <2>4
  <2> QED BY <1>2, <1>6, <2>5 DEF Objects, Live
<1>8. y = ref(x, o)
  <2>1. x.areas[p][k].shared /\ x.areas[p][k].obj = o
    BY <1>1, <1>4, <1>5
  <2> QED BY <2>1 DEF IsCloned, Cloned
<1>9. y \in State /\ Ptes(y) /\ Objects(y.obj, Plus(u, o)) /\ SameObjs(x, y)
  BY <1>2, <1>3, <1>6, <1>7, <1>8, RefStep
<1>10. PICK E : CopyCounts(w, Plus(u, o), P, Q, E, k)
  BY <1>2, <1>5, <1>6, SharedCounts
<1>11. y.areas[p] = P /\ y.areas[q] = Q /\ \A r \in Proc : r # p /\ r # q => y.areas[r] = m.areas[r]
  BY <1>1, <1>3, <1>9 DEF SameObjs
<1>12. Grows(m, y)
  <2>1. Grows(x, y)
    BY <1>9 DEF SameObjs, Grows
  <2> QED BY <1>3, <2>1, GrowsTrans
<1>13. CopyParts(m, y, l, P, Q, k)
  <2>1. \A z : Own(m, x, z) => Own(m, y, z)
    BY <1>9 DEF Own, SameObjs
  <2>2. \A j \in DOMAIN l : (j > k => j > k - 1) /\ (j <= k /\ ~l[j].shared => j <= k - 1)
    BY <1>4
  <2>3. \A j \in DOMAIN l : /\ Alike(P[j], l[j]) /\ Alike(Q[j], l[j])
                            /\ j > k \/ l[j].shared => P[j] = l[j] /\ Q[j] = l[j]
                            /\ j <= k /\ ~l[j].shared => Own(m, y, P[j].obj) /\ Own(m, y, Q[j].obj)
    BY <1>3, <2>1, <2>2 DEF CopyParts
  <2>4. \A i, j \in DOMAIN l : i <= k /\ j <= k /\ ~l[i].shared /\ ~l[j].shared => P[i].obj # Q[j].obj
    BY <1>3, <2>2 DEF CopyParts
  <2> QED BY <1>3, <2>3, <2>4 DEF CopyParts
<1>14. Over(m, y, l)
  BY <1>3, <1>9 DEF Over, SameObjs
<1>15. Cardinality(FreeObjs(y)) >= 2 * Cardinality(Privates(l, k))
  <2>1. FreeObjs(y) = FreeObjs(x)
    BY <1>9 DEF FreeObjs, SameObjs
  <2> QED BY <1>3, <1>4, <2>1, PrivatesParts
<1> QED BY <1>1, <1>9, <1>10, <1>11, <1>12, <1>13, <1>14, <1>15 DEF Cloning

\* The list of the child, then that of the parent.
TwoAreas(y, d, p, q, k, e, g) == y = [d EXCEPT !.areas[q][k].obj = e, !.areas[p][k].obj = g]

LEMMA ClonePrivate ==
  ASSUME NEW m, NEW w \in [Obj -> Nat], NEW p \in Proc, NEW q \in Proc, p # q, m.areas[p] \in Lists,
         NEW k \in DOMAIN m.areas[p], NEW x, Cloning(m, w, p, q, k - 1, x), ~m.areas[p][k].shared,
         NEW y, IsCloned(y, x, p, q, k)
  PROVE  Cloning(m, w, p, q, k, y)
<1>1. PICK l, P, Q, o : l = m.areas[p] /\ P = x.areas[p] /\ Q = x.areas[q] /\ o = P[k].obj
  OBVIOUS
<1>2. PICK u, D : Objects(x.obj, u) /\ CopyCounts(w, u, P, Q, D, k - 1)
  BY <1>1 DEF Cloning
<1>3. /\ x \in State /\ Ptes(x) /\ Grows(m, x) /\ CopyParts(m, x, l, P, Q, k - 1) /\ Over(m, x, l)
      /\ Cardinality(FreeObjs(x)) >= 2 * Cardinality(Privates(l, k - 1))
      /\ \A r \in Proc : r # p /\ r # q => x.areas[r] = m.areas[r]
  BY <1>1 DEF Cloning
<1>4. l \in Lists /\ k \in DOMAIN l /\ ~l[k].shared /\ k \in Nat /\ DOMAIN l = 1 .. Len(l) /\ Len(l) \in Nat
  BY <1>1, ListParts
<1>5. P[k] = l[k] /\ Q[k] = l[k] /\ P \in Lists /\ Q \in Lists /\ k \in DOMAIN P /\ k \in DOMAIN Q
      /\ DOMAIN P = DOMAIN l /\ DOMAIN Q = DOMAIN l
  BY <1>3, <1>4 DEF CopyParts
<1>6. o \in Obj /\ o = Q[k].obj /\ o = l[k].obj /\ u \in [Obj -> Nat]
  BY <1>1, <1>2, <1>5, ListParts DEF CopyCounts
<1>7. u[o] > 0 /\ x.obj[o].kind # "free"
  <2>1. In(P)[o] > 0 /\ In(P) \in [Obj -> Nat] /\ In(D) \in [Obj -> Nat]
    BY <1>1, <1>2, <1>5, InPositive, InType DEF CopyCounts
  <2>2. u[o] = w[o] + In(P)[o] + In(D)[o]
    BY <1>2, <1>6 DEF CopyCounts
  <2>3. PICK a, b, c : a = w[o] /\ b = In(P)[o] /\ c = In(D)[o]
    OBVIOUS
  <2>4. a \in Nat /\ b \in Nat /\ c \in Nat /\ b > 0 /\ u[o] = a + b + c
    BY <1>6, <2>1, <2>2, <2>3
  <2>5. u[o] > 0
    BY <2>4
  <2> QED BY <1>2, <1>6, <2>5 DEF Objects, Live
<1>8. PICK f, n : f = Cardinality(FreeObjs(x)) /\ n = Cardinality(Privates(l, k))
  OBVIOUS
<1>9. f \in Nat /\ n \in Nat /\ f >= 2 * (n + 1)
  BY <1>3, <1>4, <1>8, PrivatesParts, FreeObjsFinite
<1>10. Cardinality(FreeObjs(x)) >= 2 /\ f - 2 >= 2 * n
  BY <1>8, <1>9
<1>11. PICK r, c, d, e, g : /\ r = ref(x, o) /\ c = shadow_create(r, o) /\ d = shadow_create(c, o)
                            /\ e = NewObj(x) /\ g = NewObj(c)
  OBVIOUS
<1>12. PICK v : v = Doubled(u, o, e, g)
  OBVIOUS
<1>13. d \in State /\ Ptes(d) /\ TwoNew(x, d, o, e, g) /\ v \in [Obj -> Nat] /\ Objects(d.obj, v)
  BY <1>2, <1>3, <1>6, <1>7, <1>10, <1>11, <1>12, TwoShadows
<1>14. d.areas = x.areas /\ e \in Obj /\ g \in Obj /\ e # g /\ x.obj[e].kind = "free" /\ x.obj[g].kind = "free"
  BY <1>13 DEF TwoNew
<1>15. TwoAreas(y, d, p, q, k, e, g)
  <2>1. x.areas[p][k].obj = o /\ ~x.areas[p][k].shared
    BY <1>1, <1>4, <1>5
  <2> QED BY <1>11, <2>1 DEF IsCloned, Cloned, TwoAreas
<1>16. PICK z : AreaObj(z, d, q, k, e)
  BY DEF AreaObj
<1>17. AreaObj(y, z, p, k, g)
  BY <1>15, <1>16 DEF TwoAreas, AreaObj
<1>18. /\ z \in State /\ z.obj = d.obj /\ z.pte = d.pte /\ z.heap = d.heap /\ z.crash = d.crash
       /\ \A t \in Proc : t # q => z.areas[t] = x.areas[t]
       /\ \E a \in AreaRec : /\ Alike(a, Q[k]) /\ a.obj = e
                             /\ z.areas[q] \in Lists /\ DOMAIN z.areas[q] = DOMAIN Q /\ z.areas[q][k] = a
                             /\ \A j \in DOMAIN Q : j # k => z.areas[q][j] = Q[j]
  <2>1. k \in DOMAIN d.areas[q] /\ d.areas[q] = Q
    BY <1>1, <1>5, <1>14
  <2> QED BY <1>13, <1>14, <1>16, <2>1, AreaObjStep
<1>19. PICK b \in AreaRec : /\ Alike(b, l[k]) /\ b.obj = e /\ z.areas[q][k] = b
  BY <1>5, <1>18
<1>20. /\ y \in State /\ y.obj = z.obj /\ y.pte = z.pte /\ y.heap = z.heap /\ y.crash = z.crash
       /\ \A t \in Proc : t # p => y.areas[t] = z.areas[t]
       /\ \E a \in AreaRec : /\ Alike(a, P[k]) /\ a.obj = g /\ Replaced(y.areas[p], P, k, a)
                             /\ y.areas[p] \in Lists /\ DOMAIN y.areas[p] = DOMAIN P /\ y.areas[p][k] = a
                             /\ \A j \in DOMAIN P : j # k => y.areas[p][j] = P[j]
  <2>1. k \in DOMAIN z.areas[p] /\ z.areas[p] = P
    BY <1>1, <1>5, <1>18
  <2> QED BY <1>14, <1>17, <1>18, <2>1, AreaObjStep
<1>21. PICK a \in AreaRec : Alike(a, l[k]) /\ a.obj = g /\ Replaced(y.areas[p], P, k, a) /\ y.areas[p][k] = a
  BY <1>5, <1>20
<1>22. PICK S, T : S = y.areas[p] /\ T = y.areas[q]
  OBVIOUS
<1>23. /\ S \in Lists /\ DOMAIN S = DOMAIN l /\ S[k] = a /\ \A j \in DOMAIN l : j # k => S[j] = P[j]
       /\ T \in Lists /\ DOMAIN T = DOMAIN l /\ T[k] = b /\ \A j \in DOMAIN l : j # k => T[j] = Q[j]
       /\ Replaced(S, P, k, a)
  BY <1>5, <1>18, <1>19, <1>20, <1>21, <1>22
<1>24. Swapped(S, P, k, a) /\ Swapped(T, Q, k, b) /\ IsCopy(a, l[k], g) /\ IsCopy(b, l[k], e)
  BY <1>5, <1>19, <1>21, <1>23 DEF Swapped, IsCopy
<1>25. CopyParts(m, d, l, S, T, k) /\ Over(m, d, l) /\ Grows(m, d)
  BY <1>3, <1>4, <1>6, <1>13, <1>24, CopyOne
<1>26. CopyParts(m, y, l, S, T, k) /\ Over(m, y, l) /\ Grows(m, y) /\ Ptes(y) /\ Objects(y.obj, v)
  BY <1>13, <1>18, <1>20, <1>25 DEF CopyParts, Own, Over, Grows, Ptes
<1>27. PICK E : CopyCounts(w, v, S, T, E, k)
  <2>1. u[e] = 0 /\ u[g] = 0 /\ e # o /\ g # o
    BY <1>2, <1>7, <1>14 DEF Objects, Live
  <2>2. IsCopy(a, P[k], g) /\ IsCopy(b, Q[k], e) /\ Swapped(T, Q, k, b) /\ Replaced(S, P, k, a)
    BY <1>5, <1>23, <1>24
  <2>3. o = P[k].obj
    BY <1>1
  <2> QED BY <1>2, <1>5, <1>6, <1>12, <1>13, <1>14, <2>1, <2>2, <2>3, PrivateCounts
<1>28. Cardinality(FreeObjs(y)) >= 2 * Cardinality(Privates(l, k))
  <2>1. FreeObjs(y) = FreeObjs(d)
    BY <1>18, <1>20 DEF FreeObjs
  <2>2. Cardinality(FreeObjs(d)) = f - 2
    BY <1>8, <1>13 DEF TwoNew
  <2> QED BY <1>8, <1>10, <2>1, <2>2
<1>29. \A t \in Proc : t # p /\ t # q => y.areas[t] = m.areas[t]
  BY <1>3, <1>18, <1>20
<1> QED BY <1>1, <1>20, <1>22, <1>26, <1>27, <1>28, <1>29 DEF Cloning

LEMMA CloneOne ==
  ASSUME NEW m, NEW w \in [Obj -> Nat], NEW p \in Proc, NEW q \in Proc, p # q, m.areas[p] \in Lists,
         NEW k \in DOMAIN m.areas[p], NEW x, Cloning(m, w, p, q, k - 1, x), NEW y, IsCloned(y, x, p, q, k)
  PROVE  Cloning(m, w, p, q, k, y)
<1>1. CASE m.areas[p][k].shared
  BY <1>1, CloneShared
<1>2. CASE ~m.areas[p][k].shared
  BY <1>2, ClonePrivate
<1> QED BY <1>1, <1>2

LEMMA CloneAll ==
  ASSUME NEW m, NEW w \in [Obj -> Nat], NEW p \in Proc, NEW q \in Proc, p # q, NEW l \in Lists, l = m.areas[p],
         NEW n, AreasNow(n, m, q, l), Cloning(m, w, p, q, 0, n), NEW y, y = vmmap_clone(m, p, q)
  PROVE  Cloning(m, w, p, q, Len(l), y)
<1>1. Len(l) \in Nat /\ DOMAIN l = 1 .. Len(l) /\ Len(m.areas[p]) \in Nat
  BY ListParts
<1>2. PICK a : /\ Ran("clone", [p |-> p, q |-> q], [m EXCEPT !.areas[q] = m.areas[p]], a, Len(l))
               /\ y = a[Len(l)]
  BY <1>1, CloneRan
<1>3. a[0] = n /\ \A k \in 1 .. Len(l) : IsCloned(a[k], a[k - 1], p, q, k)
  <2>1. a[0] = [m EXCEPT !.areas[q] = m.areas[p]]
    BY <1>2 DEF Ran
  <2>2. \A k \in 1 .. Len(l) : a[k] = Turn("clone", [p |-> p, q |-> q], a[k - 1], k)
    BY <1>2 DEF Ran
  <2>3. \A x, k : Turn("clone", [p |-> p, q |-> q], x, k) = Cloned(x, p, q, k)
    BY DEF Turn
  <2> QED BY <2>1, <2>2, <2>3 DEF AreasNow, IsCloned
<1> DEFINE S == {k \in 0 .. Len(l) : Cloning(m, w, p, q, k, a[k])}
<1>4. 0 \in S
  BY <1>1, <1>3
<1>5. ASSUME NEW k \in 0 .. Len(l) - 1, k \in S PROVE k + 1 \in S
  <2>1. PICK j : j = k + 1
    OBVIOUS
  <2>2. j \in 1 .. Len(l) /\ j - 1 = k /\ j \in 0 .. Len(l) /\ j \in DOMAIN m.areas[p]
    BY <1>1, <2>1
  <2>3. Cloning(m, w, p, q, j - 1, a[j - 1])
    BY <1>5, <2>2
  <2>4. IsCloned(a[j], a[j - 1], p, q, j) /\ m.areas[p] \in Lists
    BY <1>3, <2>2
  <2>5. Cloning(m, w, p, q, j, a[j])
    BY <2>2, <2>3, <2>4, CloneOne
  <2> QED BY <2>1, <2>2, <2>5
<1> HIDE DEF S
<1>6. Closed(S, Len(l))
  BY <1>4, <1>5 DEF Closed
<1>7. Len(l) \in S
  BY <1>1, <1>6, Reached
<1> QED BY <1>2, <1>7 DEF S

\* The other users of the objects, when those of the areas of p are not counted.
LEMMA Others ==
  ASSUME NEW m, m.areas \in [Proc -> Lists], NEW p \in Proc
  PROVE  \E w \in [Obj -> Nat] : \A o \in Obj : U(m.areas)[o] = w[o] + In(m.areas[p])[o]
<1>1. PICK e, after : e = <<>> /\ after = [m.areas EXCEPT ![p] = e]
  OBVIOUS
<1>2. e \in Lists /\ \A o \in Obj : In(e)[o] = 0
  BY <1>1, InEmpty
<1>3. after \in [Proc -> Lists] /\ \A o \in Obj : U(after)[o] = U(m.areas)[o] - In(m.areas[p])[o] + In(e)[o]
  <2>2. p \in Proc /\ e \in Lists /\ after = [m.areas EXCEPT ![p] = e] /\ m.areas \in [Proc -> Lists]
    BY <1>1, <1>2
  <2> QED BY <2>2, UReplaced
<1>4. U(after) \in [Obj -> Nat] /\ U(m.areas) \in [Obj -> Nat] /\ In(m.areas[p]) \in [Obj -> Nat]
  BY <1>3, UType, InType
<1>5. ASSUME NEW o \in Obj PROVE U(m.areas)[o] = U(after)[o] + In(m.areas[p])[o]
  <2>1. PICK a, b, c : a = U(m.areas)[o] /\ b = U(after)[o] /\ c = In(m.areas[p])[o]
    OBVIOUS
  <2>2. a \in Nat /\ b \in Nat /\ c \in Nat /\ b = a - c + 0
    BY <1>2, <1>3, <1>4, <2>1
  <2> QED BY <2>1, <2>2
<1> QED BY <1>4, <1>5

LEMMA ForkStart ==
  ASSUME NEW m, NEW sh, Good(m, sh), NEW p \in Proc, NEW q \in Proc, p # q,
         NEW l, l = m.areas[p], NEW n, AreasNow(n, m, q, l),
         Cardinality(FreeObjs(m)) >= 2 * Cardinality({k \in DOMAIN l : ~l[k].shared}),
         NEW w \in [Obj -> Nat], \A o \in Obj : U(m.areas)[o] = w[o] + In(l)[o]
  PROVE  Cloning(m, w, p, q, 0, n)
<1>1. /\ m \in State /\ Ptes(m) /\ Objects(m.obj, U(m.areas)) /\ m.areas \in [Proc -> Lists] /\ l \in Lists
  BY PtesOKPtes, StateParts DEF Good, Lists
<1>2. /\ n \in State /\ n.areas = [m.areas EXCEPT ![q] = l] /\ n.obj = m.obj /\ n.pte = m.pte
      /\ n.heap = m.heap /\ n.crash = m.crash
  BY <1>1, WithAreas
<1>3. n.areas[p] = l /\ n.areas[q] = l /\ \A r \in Proc : r # p /\ r # q => n.areas[r] = m.areas[r]
  BY <1>1, <1>2
<1>4. DOMAIN l = 1 .. Len(l) /\ Len(l) \in Nat
  BY <1>1, ListParts
<1>5. Ptes(n) /\ Grows(m, n) /\ Over(m, n, l)
  BY <1>1, <1>2 DEF Ptes, Grows, Over
<1>6. CopyParts(m, n, l, l, l, 0)
  <2>1. \A j \in DOMAIN l : ~(j <= 0)
    BY <1>4
  <2> QED BY <1>1, <2>1 DEF CopyParts, Alike
<1>7. PICK D : D = <<>>
  OBVIOUS
<1>8. CopyCounts(w, U(m.areas), l, l, D, 0)
  <2>1. D \in Lists /\ Len(D) = 0 /\ \A o \in Obj : In(D)[o] = 0
    BY <1>7, InEmpty
  <2>2. U(m.areas) \in [Obj -> Nat] /\ In(l) \in [Obj -> Nat]
    BY <1>1, UType, InType
  <2>3. \A o \in Obj : U(m.areas)[o] = w[o] + In(l)[o] + In(D)[o]
    BY <2>1, <2>2
  <2>4. \A j \in 1 .. 0 : D[j] = l[j]
    OBVIOUS
  <2> QED BY <2>1, <2>2, <2>3, <2>4 DEF CopyCounts
<1>9. Cardinality(FreeObjs(n)) >= 2 * Cardinality(Privates(l, 0))
  <2>1. FreeObjs(n) = FreeObjs(m)
    BY <1>2 DEF FreeObjs
  <2>2. Privates(l, 0) = {k \in DOMAIN l : ~l[k].shared}
    <3>1. \A k \in DOMAIN l : k > 0
      BY <1>4
    <3> QED BY <3>1 DEF Privates
  <2> QED BY <2>1, <2>2
<1>10. Objects(n.obj, U(m.areas))
  BY <1>1, <1>2
<1> QED BY <1>2, <1>3, <1>5, <1>6, <1>8, <1>9, <1>10 DEF Cloning

\* The lists of the parent and the child when all areas have been cloned.
CloneDone(m, p, q, y) == \E w \in [Obj -> Nat] : /\ \A o \in Obj : U(m.areas)[o] = w[o] + In(m.areas[p])[o]
                                               /\ Cloning(m, w, p, q, Len(m.areas[p]), y)

LEMMA CloneUsers ==
  ASSUME NEW m, m.areas \in [Proc -> Lists], NEW p \in Proc, NEW q \in Proc, p # q, m.areas[q] = <<>>,
         NEW y, CloneDone(m, p, q, y)
  PROVE  Counting(y, U(y.areas))
<1>1. PICK w \in [Obj -> Nat] : /\ \A o \in Obj : U(m.areas)[o] = w[o] + In(m.areas[p])[o]
                               /\ Cloning(m, w, p, q, Len(m.areas[p]), y)
  BY DEF CloneDone
<1>2. PICK l, P, Q : l = m.areas[p] /\ P = y.areas[p] /\ Q = y.areas[q]
  OBVIOUS
<1>3. l \in Lists /\ P \in Lists /\ Q \in Lists /\ DOMAIN Q = DOMAIN l /\ y \in State
      /\ \A r \in Proc : r # p /\ r # q => y.areas[r] = m.areas[r]
  BY <1>1, <1>2 DEF Cloning, CopyParts
<1>4. PICK u, D : Objects(y.obj, u) /\ CopyCounts(w, u, P, Q, D, Len(l))
  BY <1>1, <1>2 DEF Cloning
<1>5. D = Q
  <2>1. Len(Q) = Len(l) /\ DOMAIN Q = 1 .. Len(Q) /\ Len(Q) \in Nat
    BY <1>3, ListParts
  <2>2. D \in Seq(AreaRec) /\ Q \in Seq(AreaRec) /\ Len(D) = Len(Q) /\ \A j \in 1 .. Len(D) : D[j] = Q[j]
    BY <1>3, <1>4, <2>1 DEF CopyCounts, Lists
  <2> QED BY <2>2, SeqEqual
<1>6. PICK A, B, M : M = m.areas /\ AreasTo(A, M, p, P) /\ AreasTo(B, A, q, Q)
  BY DEF AreasTo
<1>7. /\ A \in [Proc -> Lists] /\ A[p] = P /\ \A r \in Proc : r # p => A[r] = m.areas[r]
      /\ \A o \in Obj : U(A)[o] = U(m.areas)[o] - In(m.areas[p])[o] + In(P)[o]
  <2>1. M \in [Proc -> Lists]
    BY <1>6
  <2>2. /\ A \in [Proc -> Lists] /\ A[p] = P /\ \A r \in Proc : r # p => A[r] = M[r]
        /\ \A o \in Obj : U(A)[o] = U(M)[o] - In(M[p])[o] + In(P)[o]
    BY <1>3, <1>6, <2>1, UTo
  <2> QED BY <1>6, <2>2
<1>8. /\ B \in [Proc -> Lists] /\ B[q] = Q /\ \A r \in Proc : r # q => B[r] = A[r]
      /\ \A o \in Obj : U(B)[o] = U(A)[o] - In(A[q])[o] + In(Q)[o]
  BY <1>3, <1>6, <1>7, UTo
<1>9. y.areas = B
  <2>1. y.areas \in [Proc -> Lists]
    BY <1>3, StateParts DEF Lists
  <2>2. \A r \in Proc : y.areas[r] = B[r]
    BY <1>2, <1>3, <1>7, <1>8
  <2> QED BY <1>8, <2>1, <2>2
<1>10. U(B) = u
  <2>1. U(B) \in [Obj -> Nat] /\ u \in [Obj -> Nat] /\ U(m.areas) \in [Obj -> Nat] /\ U(A) \in [Obj -> Nat]
    BY <1>4, <1>7, <1>8, UType DEF CopyCounts
  <2>2. In(l) \in [Obj -> Nat] /\ In(P) \in [Obj -> Nat] /\ In(Q) \in [Obj -> Nat]
    BY <1>3, InType
  <2>3. ASSUME NEW o \in Obj PROVE U(B)[o] = u[o]
    <3>1. PICK a, b, c, d, e, f : /\ a = w[o] /\ b = In(l)[o] /\ c = In(P)[o] /\ d = In(Q)[o]
                                  /\ e = U(m.areas)[o] /\ f = U(A)[o]
      OBVIOUS
    <3>2. a \in Nat /\ b \in Nat /\ c \in Nat /\ d \in Nat /\ e \in Nat /\ f \in Nat
      BY <2>1, <2>2, <3>1
    <3>3. e = a + b /\ f = e - b + c
      BY <1>1, <1>2, <1>7, <3>1
    <3>4. In(A[q])[o] = 0
      BY <1>7, InEmpty
    <3>5. U(B)[o] = f - 0 + d
      BY <1>8, <3>1, <3>4
    <3>6. u[o] = a + c + d
      BY <1>4, <1>5, <3>1 DEF CopyCounts
    <3> QED BY <3>2, <3>3, <3>5, <3>6
  <2> QED BY <2>1, <2>3
<1> QED BY <1>4, <1>9, <1>10 DEF Counting, CopyCounts

\* No private area of l is over o.
NotUnder(l, o) == \A j \in DOMAIN l : ~l[j].shared => l[j].obj # o

\* Only what private areas of the parent were over has new shadow objects.
LEMMA CloneShadowers ==
  ASSUME NEW m, NEW l, NEW y, NEW v, Objects(y.obj, v), Grows(m, y), Over(m, y, l),
         NEW o \in Obj, Shadowers(m.obj, o) = {}, NotUnder(l, o)
  PROVE  Shadowers(y.obj, o) = {}
<1> SUFFICES ASSUME NEW h \in Obj, y.obj[h].shadowed = o PROVE FALSE
  BY DEF Shadowers
<1>1. CASE m.obj[h].kind # "free"
  BY <1>1 DEF Grows, Shadowers
<1>2. CASE m.obj[h].kind = "free" /\ y.obj[h].kind # "free"
  BY <1>2 DEF Over, NotUnder
<1>3. CASE y.obj[h].kind = "free"
  <2>1. y.obj[h] = FreeObj
    BY <1>3 DEF Objects, Kinds
  <2>2. FreeObj.shadowed = NULL
    BY DEF FreeObj
  <2> QED BY <2>1, <2>2, Constants
<1> QED BY <1>1, <1>2, <1>3

LEMMA CloneTops ==
  ASSUME NEW m \in State, Objects(m.obj, U(m.areas)), Tops(m.obj, m.areas), NEW p \in Proc, NEW q \in Proc, p # q,
         NEW y, CloneDone(m, p, q, y), NEW v, Objects(y.obj, v)
  PROVE  Tops(y.obj, y.areas)
<1>1. PICK l, P, Q : l = m.areas[p] /\ P = y.areas[p] /\ Q = y.areas[q]
  OBVIOUS
<1>2. PICK w : Cloning(m, w, p, q, Len(l), y)
  BY <1>1 DEF CloneDone
<1>3. /\ Grows(m, y) /\ Over(m, y, l) /\ \A r \in Proc : r # p /\ r # q => y.areas[r] = m.areas[r]
      /\ CopyParts(m, y, l, P, Q, Len(l))
  BY <1>1, <1>2 DEF Cloning
<1>4. /\ \A r \in Proc : \A j \in DOMAIN m.areas[r] : m.areas[r][j].obj \in Obj /\ m.obj[m.areas[r][j].obj].kind # "free"
  <2>1. Counting(m, U(m.areas))
    <3>1. U(m.areas) \in [Obj -> Nat]
      BY StateParts, UType DEF Lists
    <3> QED BY <3>1 DEF Counting
  <2> QED BY <2>1, UserLive
<1>5. l \in Lists /\ \A j \in DOMAIN l : j <= Len(l)
  <2>1. l \in Lists
    BY <1>1, StateParts DEF Lists
  <2>2. DOMAIN l = 1 .. Len(l)
    BY <2>1, ListParts
  <2> QED BY <2>1, <2>2
<1>6. /\ DOMAIN P = DOMAIN l /\ DOMAIN Q = DOMAIN l
      /\ \A j \in DOMAIN l : /\ P[j].shared = l[j].shared /\ Q[j].shared = l[j].shared
                             /\ l[j].shared => P[j] = l[j] /\ Q[j] = l[j]
                             /\ ~l[j].shared => Own(m, y, P[j].obj) /\ Own(m, y, Q[j].obj)
      /\ \A i, j \in DOMAIN l : ~l[i].shared /\ ~l[j].shared => P[i].obj # Q[j].obj
  BY <1>3, <1>5 DEF CopyParts, Alike
\* A new object of p or q is under no other object, and no area of another process.
<1>7. ASSUME NEW o, Own(m, y, o)
      PROVE  /\ y.obj[o].kind = "shadow" /\ Shadowers(y.obj, o) = {}
             /\ \A r \in Proc : r # p /\ r # q => \A j \in DOMAIN y.areas[r] : y.areas[r][j].obj # o
             /\ \A j \in DOMAIN l : l[j].obj # o
  <2>1. o \in Obj /\ m.obj[o].kind = "free" /\ y.obj[o].kind = "shadow"
    BY <1>7 DEF Own
  <2>2. \A j \in DOMAIN l : l[j].obj # o
    BY <1>1, <1>4, <2>1
  <2>3. Shadowers(m.obj, o) = {}
    BY <2>1 DEF Objects, Live
  <2>4. Shadowers(y.obj, o) = {}
    <3>1. NotUnder(l, o)
      BY <2>2 DEF NotUnder
    <3> QED BY <1>3, <2>1, <2>3, <3>1, CloneShadowers
  <2>5. \A r \in Proc : r # p /\ r # q => \A j \in DOMAIN y.areas[r] : y.areas[r][j].obj # o
    BY <1>3, <1>4, <2>1
  <2> QED BY <2>1, <2>2, <2>4, <2>5
<1>8. ASSUME NEW a, a.shared, m.obj[a.obj].kind = "anon", a.obj \in Obj, NEW r PROVE TopOK(y.obj, y.areas, r, a)
  <2>1. y.obj[a.obj].kind = "anon"
    BY <1>3, <1>8 DEF Grows
  <2> QED BY <1>8, <2>1 DEF TopOK
<1>9. \A r \in Proc : \A j \in DOMAIN m.areas[r] : m.areas[r][j].shared => m.obj[m.areas[r][j].obj].kind = "anon"
  BY DEF Tops, TopOK
<1>10. ASSUME NEW k \in DOMAIN P PROVE TopOK(y.obj, y.areas, p, P[k])
  <2>1. CASE l[k].shared
    <3>1. P[k] = l[k] /\ k \in DOMAIN l /\ P[k].shared
      BY <1>6, <2>1
    <3>2. m.obj[P[k].obj].kind = "anon" /\ P[k].obj \in Obj
      BY <1>1, <1>4, <1>9, <3>1
    <3> QED BY <1>8, <3>1, <3>2
  <2>2. CASE ~l[k].shared
    <3>1. PICK o : o = P[k].obj
      OBVIOUS
    <3>2. Own(m, y, o) /\ ~P[k].shared /\ k \in DOMAIN l
      BY <1>6, <2>2, <3>1
    <3>3. \A j \in DOMAIN Q : Q[j].obj # o
      BY <1>6, <1>7, <2>2, <3>1, <3>2
    <3>4. \A r \in Proc : \A j \in DOMAIN y.areas[r] : y.areas[r][j].obj = o => r = p
      BY <1>1, <1>7, <3>2, <3>3
    <3> QED BY <1>7, <3>1, <3>2, <3>4 DEF TopOK
  <2> QED BY <2>1, <2>2
<1>11. ASSUME NEW k \in DOMAIN Q PROVE TopOK(y.obj, y.areas, q, Q[k])
  <2>1. CASE l[k].shared
    <3>1. Q[k] = l[k] /\ k \in DOMAIN l /\ Q[k].shared
      BY <1>6, <2>1
    <3>2. m.obj[Q[k].obj].kind = "anon" /\ Q[k].obj \in Obj
      BY <1>1, <1>4, <1>9, <3>1
    <3> QED BY <1>8, <3>1, <3>2
  <2>2. CASE ~l[k].shared
    <3>1. PICK o : o = Q[k].obj
      OBVIOUS
    <3>2. Own(m, y, o) /\ ~Q[k].shared /\ k \in DOMAIN l
      BY <1>6, <2>2, <3>1
    <3>3. \A j \in DOMAIN P : P[j].obj # o
      BY <1>6, <1>7, <2>2, <3>1, <3>2
    <3>4. \A r \in Proc : \A j \in DOMAIN y.areas[r] : y.areas[r][j].obj = o => r = q
      BY <1>1, <1>7, <3>2, <3>3
    <3> QED BY <1>7, <3>1, <3>2, <3>4 DEF TopOK
  <2> QED BY <2>1, <2>2
<1>12. ASSUME NEW r \in Proc, r # p, r # q, NEW k \in DOMAIN y.areas[r] PROVE TopOK(y.obj, y.areas, r, y.areas[r][k])
  <2>1. PICK a : a = m.areas[r][k]
    OBVIOUS
  <2>2. y.areas[r] = m.areas[r] /\ y.areas[r][k] = a /\ k \in DOMAIN m.areas[r] /\ TopOK(m.obj, m.areas, r, a)
    BY <1>3, <1>12, <2>1 DEF Tops
  <2>3. a.obj \in Obj /\ m.obj[a.obj].kind # "free"
    BY <1>4, <2>1, <2>2
  <2>4. CASE a.shared
    BY <1>8, <1>9, <2>1, <2>2, <2>3, <2>4
  <2>5. CASE ~a.shared
    <3>1. PICK o : o = a.obj
      OBVIOUS
    <3>2. /\ m.obj[o].kind = "shadow" /\ Shadowers(m.obj, o) = {} /\ o \in Obj
          /\ \A t \in Proc : \A j \in DOMAIN m.areas[t] : m.areas[t][j].obj = o => t = r
      BY <2>2, <2>3, <2>5, <3>1 DEF TopOK
    <3>3. \A j \in DOMAIN l : l[j].obj # o
      BY <1>1, <1>12, <3>2
    <3>4. Shadowers(y.obj, o) = {}
      <4>1. NotUnder(l, o)
        BY <3>3 DEF NotUnder
      <4> QED BY <1>3, <3>2, <4>1, CloneShadowers
    <3>5. y.obj[o].kind = "shadow"
      BY <1>3, <3>2 DEF Grows
    <3>6. ~Own(m, y, o)
      BY <3>2 DEF Own
    <3>7. \A j \in DOMAIN l : P[j].obj # o /\ Q[j].obj # o
      BY <1>6, <3>3, <3>6
    <3>8. \A t \in Proc : \A j \in DOMAIN y.areas[t] : y.areas[t][j].obj = o => t = r
      BY <1>1, <1>3, <1>6, <3>2, <3>7
    <3> QED BY <2>2, <2>5, <3>1, <3>4, <3>5, <3>8 DEF TopOK
  <2> QED BY <2>4, <2>5
<1> QED BY <1>1, <1>10, <1>11, <1>12 DEF Tops

LEMMA TidyCopy ==
  ASSUME NEW l, NEW h, NEW sh, Tidy(l, h, sh), \A k \in DOMAIN l : l[k].start # l[k].end,
         NEW P \in Lists, DOMAIN P = DOMAIN l, \A k \in DOMAIN l : Alike(P[k], l[k]), NEW g
  PROVE  Tidy(P, g, sh)
<1>1. \A k \in DOMAIN l : l[k].start < l[k].end /\ l[k].start <= l[k].end /\ l[k].off <= l[k].start - LOW
  BY DEF Tidy, WellFormed
<1>2. \A k \in DOMAIN l : P[k].start = l[k].start /\ P[k].end = l[k].end /\ P[k].off = l[k].off
  BY DEF Alike
<1>3. \A j, k \in DOMAIN l : j < k => l[j].end <= l[k].start
  BY DEF Tidy, WellFormed, Ordered
<1>4. WellFormed(P)
  BY <1>1, <1>2, <1>3 DEF WellFormed, Ordered
<1> QED BY <1>1, <1>2, <1>4 DEF Tidy

NoEmpty(l) == \A k \in DOMAIN l : l[k].start # l[k].end

LEMMA CloneGood ==
  ASSUME NEW m, NEW sh, Good(m, sh), NEW p \in Proc, NEW q \in Proc, p # q, m.heap[q] = NULL,
         NoEmpty(m.areas[p]), NEW y, CloneDone(m, p, q, y), NEW F, F = Span(p, LOW, HIGH), NEW v, v = U(y.areas)
  PROVE  /\ GoodBut(y, v, sh, F) /\ \A g : Tidy(y.areas[p], g, sh) /\ Tidy(y.areas[q], g, sh)
         /\ Grows(m, y) /\ \A r \in Proc : r # p /\ r # q => y.areas[r] = m.areas[r]
<1>1. /\ m \in State /\ Ptes(m) /\ Objects(m.obj, U(m.areas)) /\ Tops(m.obj, m.areas) /\ PtesOK(m, sh) /\ Dead(m)
      /\ \A r \in Proc : Tidy(m.areas[r], m.heap[r], sh)
  BY PtesOKPtes DEF Good
<1>2. m.areas \in [Proc -> Lists]
  BY <1>1, StateParts DEF Lists
<1>3. m.areas[q] = <<>> /\ \A i \in Page : m.pte[q][i] = NoPte
  BY <1>1 DEF Dead
<1>4. Counting(y, v)
  BY <1>2, <1>3, CloneUsers
<1>5. PICK l, w : l = m.areas[p] /\ Cloning(m, w, p, q, Len(l), y)
  BY DEF CloneDone
<1>6. /\ y \in State /\ Ptes(y) /\ Grows(m, y) /\ \A r \in Proc : r # p /\ r # q => y.areas[r] = m.areas[r]
      /\ CopyParts(m, y, l, y.areas[p], y.areas[q], Len(l))
  BY <1>5 DEF Cloning
<1>7. ASSUME NEW g PROVE Tidy(y.areas[p], g, sh) /\ Tidy(y.areas[q], g, sh)
  <2>1. PICK P, Q, h : P = y.areas[p] /\ Q = y.areas[q] /\ h = m.heap[p]
    OBVIOUS
  <2>2. Tidy(l, h, sh) /\ \A k \in DOMAIN l : l[k].start # l[k].end
    BY <1>1, <1>5, <2>1 DEF NoEmpty
  <2>3. /\ P \in Lists /\ Q \in Lists /\ DOMAIN P = DOMAIN l /\ DOMAIN Q = DOMAIN l
        /\ \A k \in DOMAIN l : Alike(P[k], l[k]) /\ Alike(Q[k], l[k])
    BY <1>6, <2>1 DEF CopyParts
  <2>4. Tidy(P, g, sh)
    BY <2>2, <2>3, TidyCopy
  <2>5. Tidy(Q, g, sh)
    BY <2>2, <2>3, TidyCopy
  <2> QED BY <2>1, <2>4, <2>5
<1>8. \A r \in Proc : Tidy(y.areas[r], y.heap[r], sh)
  BY <1>1, <1>6, <1>7 DEF Grows
<1>9. Tops(y.obj, y.areas)
  BY <1>1, <1>4, CloneTops DEF Counting
<1>10. ASSUME NEW r \in Proc, NEW i \in Page PROVE <<r, i>> \in F \/ PteOK(y.obj, y.areas[r], i, y.pte[r][i], sh)
  <2>1. CASE r = p
    <3>1. i \in LOW .. HIGH - 1
      BY DEF Page
    <3> QED BY <2>1, <3>1 DEF Span
  <2>2. CASE r = q
    <3>1. y.pte[r][i] = NoPte
      BY <1>3, <1>6, <2>2 DEF Grows
    <3> QED BY <3>1 DEF PteOK
  <2>3. CASE r # p /\ r # q
    <3>1. Stays(m, y, r, i)
      BY <1>6, <2>3 DEF Stays, Fits
    <3>2. Counting(m, U(m.areas))
      <4>1. U(m.areas) \in [Obj -> Nat]
        BY <1>2, UType
      <4> QED BY <1>1, <4>1 DEF Counting
    <3>3. PteOK(m.obj, m.areas[r], i, m.pte[r][i], sh)
      BY <1>1 DEF PtesOK
    <3> QED BY <1>1, <1>6, <3>1, <3>2, <3>3, GrowsPte
  <2> QED BY <2>1, <2>2, <2>3
<1>11. GoodBut(y, v, sh, F)
  BY <1>4, <1>6, <1>8, <1>9, <1>10 DEF GoodBut
<1> QED BY <1>6, <1>7, <1>11

LEMMA ForkGood ==
  ASSUME NEW m, NEW sh, Good(m, sh), NEW p \in Proc, NEW q \in Proc, m.heap[p] # NULL, m.heap[q] = NULL,
         Cardinality(FreeObjs(m)) >= 2 * Cardinality({k \in DOMAIN m.areas[p] : ~m.areas[p][k].shared}),
         NoEmpty(m.areas[p]), NEW y, y = vmmap_clone(m, p, q), NEW z, UnmapsIn(z, y, p, LOW, HIGH),
         NEW x, HeapNow(x, z, q, m.heap[p])
  PROVE  Good(x, sh) /\ x.crash = m.crash
<1>1. m \in State /\ m.areas \in [Proc -> Lists] /\ p # q /\ m.heap[p] \in Brks \cup {NULL} /\ Dead(m)
  BY StateParts DEF Good, Lists
<1>2. PICK w \in [Obj -> Nat] : \A o \in Obj : U(m.areas)[o] = w[o] + In(m.areas[p])[o]
  BY <1>1, Others
<1>3. PICK l, n : l = m.areas[p] /\ AreasNow(n, m, q, l)
  BY DEF AreasNow
<1>4. Cloning(m, w, p, q, 0, n)
  <2>1. Cardinality(FreeObjs(m)) >= 2 * Cardinality({k \in DOMAIN l : ~l[k].shared})
    BY <1>3
  <2>2. \A o \in Obj : U(m.areas)[o] = w[o] + In(l)[o]
    BY <1>2, <1>3
  <2> QED BY <1>1, <1>3, <2>1, <2>2, ForkStart
<1>5. Cloning(m, w, p, q, Len(l), y)
  <2>1. l \in Lists
    BY <1>1, <1>3
  <2> QED BY <1>1, <1>3, <1>4, <2>1, CloneAll
<1>6. CloneDone(m, p, q, y)
  BY <1>2, <1>3, <1>5 DEF CloneDone
<1>7. PICK F, v, h : F = Span(p, LOW, HIGH) /\ v = U(y.areas) /\ h = m.heap[p]
  OBVIOUS
<1>8. /\ GoodBut(y, v, sh, F) /\ \A g : Tidy(y.areas[p], g, sh) /\ Tidy(y.areas[q], g, sh)
      /\ Grows(m, y) /\ \A r \in Proc : r # p /\ r # q => y.areas[r] = m.areas[r]
  BY <1>1, <1>6, <1>7, CloneGood
<1>9. y \in State /\ y.crash = m.crash /\ y.heap = m.heap /\ y.pte = m.pte
  BY <1>8 DEF GoodBut, Grows
<1>10. /\ z \in State /\ z.obj = y.obj /\ z.areas = y.areas /\ z.heap = y.heap /\ z.crash = y.crash
       /\ \A r \in Proc, i \in Page : z.pte[r][i] = IF r = p /\ i \in Cleared(LOW, HIGH) THEN NoPte ELSE y.pte[r][i]
  <2>1. z = pt_unmap_range(y, p, LOW, HIGH)
    BY DEF UnmapsIn
  <2> QED BY <1>9, <2>1, ClearStep
<1>11. /\ x \in State /\ x.areas = y.areas /\ x.obj = y.obj /\ x.pte = z.pte /\ x.crash = m.crash
       /\ x.heap[q] = h /\ \A r \in Proc : r # q => x.heap[r] = m.heap[r]
  <2>1. HeapNow(x, z, q, h) /\ h \in Brks \cup {NULL}
    BY <1>1, <1>7
  <2>2. /\ x \in State /\ x.areas = z.areas /\ x.obj = z.obj /\ x.pte = z.pte /\ x.crash = z.crash
       /\ x.heap[q] = h /\ \A r \in Proc : r # q => x.heap[r] = z.heap[r]
    BY <1>10, <2>1, WithHeap
  <2> QED BY <1>9, <1>10, <2>2
<1>12. \A i \in Page : x.pte[p][i] = NoPte
  <2>1. \A i \in Page : i \in Cleared(LOW, HIGH)
    BY ClearsRange, Constants DEF Page
  <2> QED BY <1>10, <1>11, <2>1
<1>13. Wiped(y, x, F)
  <2>1. \A r \in Proc, i \in Page : r # p => x.pte[r][i] = y.pte[r][i] /\ <<r, i>> \notin F
    BY <1>7, <1>10, <1>11 DEF Span
  <2> QED BY <1>11, <1>12, <2>1 DEF Wiped
<1>14. ASSUME NEW r \in Proc PROVE Tidy(x.areas[r], x.heap[r], sh)
  <2>1. CASE r = p \/ r = q
    BY <1>8, <1>11, <2>1
  <2>2. CASE r # p /\ r # q
    <3>1. Tidy(y.areas[r], y.heap[r], sh)
      BY <1>8 DEF GoodBut
    <3> QED BY <1>9, <1>11, <2>2, <3>1
  <2> QED BY <2>1, <2>2
<1>15. Dead(x)
  <2>1. ASSUME NEW r \in Proc, x.heap[r] = NULL PROVE x.areas[r] = <<>> /\ \A i \in Page : x.pte[r][i] = NoPte
    <3>1. r # p /\ r # q /\ m.heap[r] = NULL
      BY <1>1, <1>7, <1>11, <2>1
    <3>2. m.areas[r] = <<>> /\ \A i \in Page : m.pte[r][i] = NoPte
      BY <1>1, <3>1 DEF Dead
    <3>3. x.areas[r] = <<>>
      BY <1>8, <1>11, <3>1, <3>2
    <3>4. \A i \in Page : x.pte[r][i] = NoPte
      BY <1>9, <1>10, <1>11, <3>1, <3>2
    <3> QED BY <3>3, <3>4
  <2> QED BY <2>1 DEF Dead
<1>16. Good(x, sh)
  BY <1>7, <1>8, <1>13, <1>14, <1>15, ClearGood
<1> QED BY <1>11, <1>16

LEMMA DoForkGood ==
  ASSUME NEW p \in Proc, NEW q \in Proc, IInv, do_fork(p, q)
  PROVE  IInv'
<1>1. /\ Good(s, shrunk) /\ s.crash = NoCrash /\ shrunk \in BOOLEAN /\ s.heap[p] # NULL /\ s.heap[q] = NULL
      /\ shrunk' = shrunk
  BY DEF IInv, do_fork, Runs, Up, Alive
<1>2. CASE \E k \in DOMAIN s.areas[p] : s.areas[p][k].start = s.areas[p][k].end
  <2>1. PICK m, why : why = "vmmap_insert" /\ m = Crash(s, why)
    OBVIOUS
  <2>2. Step(m)
    BY <1>2, <2>1 DEF do_fork
  <2>3. m.crash = why
    BY <1>1, <2>1, Crashed DEF Good
  <2>4. shrunk
    <3>1. PICK k \in DOMAIN s.areas[p] : s.areas[p][k].start = s.areas[p][k].end
      BY <1>2
    <3>2. s.areas[p][k] \in AreaRec
      BY <1>1, StateParts, ListParts DEF Good, Lists
    <3>3. s.areas[p][k].start \in Int
      BY <3>2, AreaParts
    <3>4. ~(s.areas[p][k].start < s.areas[p][k].end)
      BY <3>1, <3>3
    <3>5. Tidy(s.areas[p], s.heap[p], shrunk)
      BY <1>1 DEF Good
    <3> QED BY <3>4, <3>5 DEF Tidy
  <2>5. m.crash \in Crashes /\ m.crash # NoCrash
    BY <2>1, <2>3 DEF Crashes, NoCrash
  <2> QED BY <1>1, <2>2, <2>4, <2>5, Stepped
<1>3. CASE \A k \in DOMAIN s.areas[p] : s.areas[p][k].start # s.areas[p][k].end
  <2>1. PICK y, z, x : y = vmmap_clone(s, p, q) /\ UnmapsIn(z, y, p, LOW, HIGH) /\ HeapNow(x, z, q, s.heap[p])
    BY DEF UnmapsIn, HeapNow
  <2>2. Step(x)
    BY <1>3, <2>1 DEF do_fork, UnmapsIn, HeapNow
  <2>3. Cardinality(FreeObjs(s)) >= 2 * Cardinality({k \in DOMAIN s.areas[p] : ~s.areas[p][k].shared})
    BY DEF do_fork
  <2>4. NoEmpty(s.areas[p])
    BY <1>3 DEF NoEmpty
  <2>5. PICK m : m = s
    OBVIOUS
  <2>6. Good(x, shrunk) /\ x.crash = m.crash
    BY <1>1, <2>1, <2>3, <2>4, <2>5, ForkGood
  <2> QED BY <1>1, <2>2, <2>5, <2>6, SteppedOn
<1> QED BY <1>2, <1>3
-----------------------------------------------------------------------------
(* What shadowd needs of chains.                                           *)
\* Objects of one chain are over the same bottom object.
LEMMA Bottoms ==
  ASSUME NEW m \in State, NEW u, Objects(m.obj, u), NEW o \in Obj, NEW x \in Below(m.obj, o)
  PROVE  mmobj_bottom_obj(m, x) = mmobj_bottom_obj(m, o)
<1> DEFINE b == m.obj
           St == {y \in Obj : m.obj[y].shadowed = NULL}
           Loop(f) == [y \in Obj |-> IF m.obj[y].shadowed = NULL THEN y ELSE f[m.obj[y].shadowed]]
           f == CHOOSE g : g = Loop(g)
<1>1. b \in Objs /\ Grounded(b)
  BY DEF Objects
<1>2. St \in SUBSET Obj /\ \A y \in Obj : b[y].shadowed = NULL => y \in St
  OBVIOUS
<1>3. \A g : g = Loop(g) <=> WalkTo(b, St, g)
  BY DEF WalkTo
<1>4. \A y : mmobj_bottom_obj(m, y) = f[y]
  BY DEF mmobj_bottom_obj
<1>5. \A y \in St : m.obj[y].shadowed = NULL
  OBVIOUS
<1> HIDE DEF Loop, St
<1>6. \E g : WalkTo(b, St, g)
  BY <1>1, <1>2, WalkExists
<1>7. WalkTo(b, St, f)
  BY <1>3, <1>6
<1> HIDE DEF f
<1>8. \A y \in Obj : y \notin St => f[y] = f[b[y].shadowed]
  BY <1>7 DEF WalkTo
<1> DEFINE S == {y \in Obj : f[y] = f[o]}
<1>9. S \in SUBSET Obj /\ o \in S
  OBVIOUS
<1>10. Down(b, S)
  <2> SUFFICES ASSUME NEW y \in S, b[y].shadowed # NULL PROVE b[y].shadowed \in S
    BY DEF Down
  <2>1. y \in Obj /\ y \notin St /\ b[y].shadowed \in Obj
    BY <1>1, <1>5, ShadowedType
  <2> QED BY <1>8, <2>1
<1> HIDE DEF S
<1>11. x \in S
  BY <1>9, <1>10, BelowLeast
<1> QED BY <1>4, <1>11 DEF S

\* What is below another object is shadowed by one below it.
LEMMA Above ==
  ASSUME NEW b \in Objs, NEW a \in Obj, NEW o \in Below(b, a), o # a
  PROVE  \E h \in Below(b, a) : b[h].shadowed = o
<1> SUFFICES ASSUME \A h \in Below(b, a) : b[h].shadowed # o PROVE FALSE
  OBVIOUS
<1>1. PICK S : S = Below(b, a) \ {o}
  OBVIOUS
<1>2. S \in SUBSET Obj
  BY <1>1 DEF Below
<1>3. a \in S
  BY <1>1, BelowSelf
<1>4. Down(b, S)
  <2> SUFFICES ASSUME NEW y \in S, b[y].shadowed # NULL PROVE b[y].shadowed \in S
    BY DEF Down
  <2>1. y \in Below(b, a)
    BY <1>1
  <2>2. b[y].shadowed \in Below(b, a)
    BY <2>1, BelowDown
  <2> QED BY <1>1, <2>1, <2>2
<1>5. o \in S
  BY <1>2, <1>3, <1>4, BelowLeast
<1> QED BY <1>1, <1>5

\* Object o is taken out from under t, that alone shadows it.
LEMMA Unlinked ==
  ASSUME NEW b \in Objs, NEW c \in Objs, NEW t \in Obj, NEW o \in Obj, NEW w \in Obj, t # o, w # o,
         Shadowers(b, o) = {t}, b[o].shadowed = w, c[t].shadowed = w,
         \A y \in Obj : y # t => c[y].shadowed = b[y].shadowed, NEW z \in Obj, z # o
  PROVE  \A y : y \in Below(c, z) <=> y \in Below(b, z) /\ y # o
<1>0. b[t].shadowed = o /\ (\A y \in Obj : y # t => b[y].shadowed # o) /\ o # NULL /\ w # NULL
  BY Constants DEF Shadowers
<1>1. ASSUME NEW y \in Below(c, z) PROVE y \in Below(b, z) /\ y # o
  <2>1. PICK S : S = Below(b, z) \ {o}
    OBVIOUS
  <2>2. S \in SUBSET Obj
    BY <2>1 DEF Below
  <2>3. z \in S
    BY <2>1, BelowSelf
  <2>4. Down(c, S)
    <3> SUFFICES ASSUME NEW h \in S, c[h].shadowed # NULL PROVE c[h].shadowed \in S
      BY DEF Down
    <3>1. h \in Below(b, z) /\ h \in Obj
      BY <2>1, <2>2
    <3>2. CASE h = t
      <4>1. o \in Below(b, z)
        BY <1>0, <3>1, <3>2, BelowDown
      <4>2. w \in Below(b, z)
        BY <1>0, <4>1, BelowDown
      <4> QED BY <2>1, <3>2, <4>2
    <3>3. CASE h # t
      <4>1. c[h].shadowed = b[h].shadowed /\ b[h].shadowed # o
        BY <1>0, <3>1, <3>3
      <4>2. b[h].shadowed \in Below(b, z)
        BY <3>1, <4>1, BelowDown
      <4> QED BY <2>1, <4>1, <4>2
    <3> QED BY <3>2, <3>3
  <2>5. y \in S
    BY <2>2, <2>3, <2>4, BelowLeast
  <2> QED BY <2>1, <2>5
<1>2. ASSUME NEW y \in Below(b, z), y # o PROVE y \in Below(c, z)
  <2>1. PICK S : S = Below(c, z) \cup {h \in {o} : t \in Below(c, z)}
    OBVIOUS
  <2>2. S \in SUBSET Obj
    BY <2>1 DEF Below
  <2>3. z \in S
    BY <2>1, BelowSelf
  <2>4. Down(b, S)
    <3> SUFFICES ASSUME NEW h \in S, b[h].shadowed # NULL PROVE b[h].shadowed \in S
      BY DEF Down
    <3>1. CASE h \in Below(c, z) /\ h = t
      BY <1>0, <2>1, <3>1
    <3>2. CASE h \in Below(c, z) /\ h # t
      <4>1. c[h].shadowed = b[h].shadowed
        BY <2>2, <3>2
      <4>2. c[h].shadowed \in Below(c, z)
        BY <3>2, <4>1, BelowDown
      <4> QED BY <2>1, <4>1, <4>2
    <3>3. CASE h \notin Below(c, z)
      <4>1. h = o /\ t \in Below(c, z)
        BY <2>1, <3>3
      <4>2. c[t].shadowed \in Below(c, z)
        BY <1>0, <4>1, BelowDown
      <4> QED BY <2>1, <4>1, <4>2
    <3> QED BY <3>1, <3>2, <3>3
  <2>5. y \in S
    BY <2>2, <2>3, <2>4, BelowLeast
  <2> QED BY <1>2, <2>1, <2>5
<1> QED BY <1>1, <1>2

\* An object with one parent has no area over it, and no other object.
SoleUser(b, u, t, o) == u[o] = 0 /\ Shadowers(b, o) = {t}
LEMMA Sole ==
  ASSUME NEW m \in State, NEW u \in [Obj -> Nat], Objects(m.obj, u), NEW t \in Obj, NEW o \in Obj,
         m.obj[t].shadowed = o, Parents(m, o) = 1
  PROVE  SoleUser(m.obj, u, t, o)
<1>1. PICK S : S = Shadowers(m.obj, o)
  OBVIOUS
<1>2. t \in S /\ IsFiniteSet(S) /\ Cardinality(S) \in Nat
  <2>1. t \in S
    BY <1>1 DEF Shadowers
  <2> QED BY <1>1, <2>1, FiniteParts
<1>3. PICK c, n, r, k : c = Cardinality(S) /\ n = Cardinality(Pages(m.obj, o)) /\ r = m.obj[o].ref /\ k = u[o]
  OBVIOUS
<1>4. c \in Nat /\ n \in Nat /\ r \in Nat /\ k \in Nat
  BY <1>2, <1>3, FiniteParts, StateParts
<1>5. r = k + c + n
  BY <1>1, <1>3 DEF Objects, Counts
<1>6. Resident(m, o) = Pages(m.obj, o)
  BY DEF Resident, Pages
<1>7. r - n = 1
  BY <1>3, <1>6 DEF Parents
<1>8. c # 0
  BY <1>2, <1>3, FS_EmptySet
<1>9. c = 1 /\ k = 0
  BY <1>4, <1>5, <1>7, <1>8
<1>10. PICK y : S = {y}
  BY <1>2, <1>3, <1>9, FS_Singleton
<1> QED BY <1>1, <1>2, <1>3, <1>9, <1>10 DEF SoleUser

-----------------------------------------------------------------------------
(* pframe_migrate: the pages of o that t has not got move to t.            *)
Twice(m, t, o) == {n \in Resident(m, o) : m.obj[t].page[n] # NULL}
Once(m, t, o)  == Resident(m, o) \ Twice(m, t, o)
Both(m, t, o)  == [n \in Num |-> IF n \in Once(m, t, o) THEN m.obj[o].page[n] ELSE m.obj[t].page[n]]
\* What becomes of a translation.
Migrates(m, x, t, o) ==
  \A p \in Proc, i \in Page :
    \/ x.pte[p][i] = m.pte[p][i] /\ (m.pte[p][i] = NoPte \/ m.pte[p][i].o # o \/ m.obj[o].page[m.pte[p][i].n] = NULL)
    \/ x.pte[p][i] = NoPte
    \/ /\ x.pte[p][i] = Dangling /\ m.pte[p][i].o = o /\ m.pte[p][i].n \in Twice(m, t, o)
       /\ ~pframe_remove_from_pts(m, o, Twice(m, t, o), p, i)
    \/ /\ m.pte[p][i].o = o /\ m.pte[p][i].n \in Once(m, t, o)
       /\ x.pte[p][i].o = t /\ x.pte[p][i].n = m.pte[p][i].n /\ x.pte[p][i].w = m.pte[p][i].w
LEMMA Parted ==
  ASSUME NEW m \in State, NEW u \in [Obj -> Nat], Objects(m.obj, u), NEW t \in Obj, NEW o \in Obj
  PROVE  /\ Twice(m, t, o) \in SUBSET Num /\ Once(m, t, o) \in SUBSET Num
         /\ Cardinality(Twice(m, t, o)) \in Nat /\ Cardinality(Once(m, t, o)) \in Nat
         /\ Cardinality(Twice(m, t, o)) + Cardinality(Once(m, t, o)) = Cardinality(Pages(m.obj, o))
         /\ Cardinality(Pages(m.obj, o)) <= m.obj[o].ref
<1>1. PICK N, A, B : N = Pages(m.obj, o) /\ A = Twice(m, t, o) /\ B = Once(m, t, o)
  OBVIOUS
<1>2. N \in SUBSET Num /\ A \in SUBSET N /\ B = N \ A
  BY <1>1 DEF Pages, Twice, Once, Resident
<1>3. IsFiniteSet(N) /\ IsFiniteSet(A) /\ IsFiniteSet(B) /\ A \cap B = {} /\ A \cup B = N
  BY <1>2, NumFinite
<1>4. Cardinality(A) \in Nat /\ Cardinality(B) \in Nat /\ Cardinality(N) \in Nat
  BY <1>3, FS_CardinalityType
<1>5. Cardinality(A \cup B) = Cardinality(A) + Cardinality(B) - Cardinality(A \cap B)
  BY <1>3, FS_Union
<1>6. Cardinality(A \cap B) = 0
  BY <1>3, FS_EmptySet
<1>7. Cardinality(A) + Cardinality(B) = Cardinality(N)
  <2>1. PICK a, b, n, k : a = Cardinality(A) /\ b = Cardinality(B) /\ n = Cardinality(N) /\ k = Cardinality(A \cap B)
    OBVIOUS
  <2>2. n = a + b - k
    BY <1>3, <1>5, <2>1
  <2>3. a \in Nat /\ b \in Nat /\ k = 0
    BY <1>4, <1>6, <2>1
  <2>4. a + b = n
    BY <2>2, <2>3
  <2> QED BY <2>1, <2>4
<1>8. Cardinality(N) <= m.obj[o].ref
  <2>1. PICK r, a, c : r = m.obj[o].ref /\ a = u[o] /\ c = Cardinality(Shadowers(m.obj, o))
    OBVIOUS
  <2>2. r = a + c + Cardinality(N)
    BY <1>1, <2>1 DEF Objects, Counts
  <2>3. a \in Nat /\ c \in Nat
    BY <2>1, FiniteParts
  <2>4. Cardinality(N) <= r
    BY <1>4, <2>2, <2>3
  <2> QED BY <2>1, <2>4
<1> QED BY <1>1, <1>2, <1>4, <1>7, <1>8

\* The two objects, as the migration leaves them.
LEMMA MigratedObjs ==
  ASSUME NEW m \in State, NEW u \in [Obj -> Nat], Objects(m.obj, u), NEW t \in Obj, NEW o \in Obj, t # o,
         m.obj[o].kind # "free", m.obj[t].kind # "free", NEW c \in Objs,
         \A z \in Obj : c[z].kind = m.obj[z].kind /\ c[z].shadowed = m.obj[z].shadowed,
         \A z \in Obj : z # t /\ z # o => c[z] = m.obj[z],
         c[t].page = Both(m, t, o), c[o].page = FreeObj.page,
         c[t].ref = m.obj[t].ref + Cardinality(Once(m, t, o)),
         c[o].ref = m.obj[o].ref - Cardinality(Pages(m.obj, o))
  PROVE  Objects(c, u)
<1>1. \A z \in Obj : m.obj[z].ref = u[z] + Cardinality(Shadowers(m.obj, z)) + Cardinality(Pages(m.obj, z))
  BY DEF Objects, Counts
<1>2. \A z \in Obj : z # t /\ z # o => Pages(c, z) = Pages(m.obj, z)
  BY DEF Pages
<1>3. Cardinality(Pages(c, o)) = 0
  <2>1. Pages(c, o) = {}
    BY DEF Pages, FreeObj
  <2> QED BY <2>1, FS_EmptySet
<1>4. Cardinality(Pages(c, t)) = Cardinality(Pages(m.obj, t)) + Cardinality(Once(m, t, o))
  <2>1. PICK A, B : A = Pages(m.obj, t) /\ B = Once(m, t, o)
    OBVIOUS
  <2>2. Pages(c, t) = A \cup B
    <3>1. \A n \in Num : c[t].page[n] = IF n \in B THEN m.obj[o].page[n] ELSE m.obj[t].page[n]
      BY <2>1 DEF Both
    <3>2. \A n \in B : n \in Num /\ m.obj[o].page[n] # NULL
      BY <2>1 DEF Once, Resident
    <3> QED BY <2>1, <3>1, <3>2 DEF Pages
  <2>3. A \cap B = {}
    BY <2>1 DEF Pages, Once, Twice, Resident
  <2>4. IsFiniteSet(A) /\ IsFiniteSet(B) /\ Cardinality(A) \in Nat /\ Cardinality(B) \in Nat
    BY <2>1, FiniteParts, Parted, NumFinite
  <2>5. Cardinality(A \cup B) = Cardinality(A) + Cardinality(B) - Cardinality(A \cap B)
    BY <2>4, FS_Union
  <2>6. Cardinality(A \cap B) = 0
    BY <2>3, FS_EmptySet
  <2>7. Cardinality(A \cup B) = Cardinality(A) + Cardinality(B)
    BY <2>4, <2>5, <2>6
  <2> QED BY <2>1, <2>2, <2>7
<1>5. c[o].ref = u[o] + Cardinality(Shadowers(m.obj, o)) + Cardinality(Pages(c, o))
  <2>1. PICK r, a, n, k : /\ r = m.obj[o].ref /\ a = u[o] /\ n = Cardinality(Shadowers(m.obj, o))
                          /\ k = Cardinality(Pages(m.obj, o))
    OBVIOUS
  <2>2. r = a + n + k /\ c[o].ref = r - k
    BY <1>1, <2>1
  <2>3. a \in Nat /\ n \in Nat /\ k \in Nat
    BY <2>1, FiniteParts
  <2>4. c[o].ref = a + n + 0
    BY <2>2, <2>3
  <2> QED BY <1>3, <2>1, <2>4
<1>6. c[t].ref = u[t] + Cardinality(Shadowers(m.obj, t)) + Cardinality(Pages(c, t))
  <2>1. PICK r, a, n, k, e : /\ r = m.obj[t].ref /\ a = u[t] /\ n = Cardinality(Shadowers(m.obj, t))
                             /\ k = Cardinality(Pages(m.obj, t)) /\ e = Cardinality(Once(m, t, o))
    OBVIOUS
  <2>2. r = a + n + k /\ c[t].ref = r + e /\ Cardinality(Pages(c, t)) = k + e
    BY <1>1, <1>4, <2>1
  <2>3. a \in Nat /\ n \in Nat /\ k \in Nat /\ e \in Nat
    BY <2>1, FiniteParts, Parted
  <2>4. c[t].ref = a + n + (k + e)
    BY <2>2, <2>3
  <2> QED BY <2>1, <2>2, <2>4
<1>7. KeepsChains(m.obj, c, u)
  <2>1. \A z \in Obj : m.obj[z].kind = "free" => c[z] = m.obj[z] /\ u[z] = 0
    BY DEF Objects, Live
  <2>2. \A z \in Obj : m.obj[z].kind # "free" => (u[z] # 0 \/ Shadowers(m.obj, z) # {})
    BY DEF Objects, Live
  <2>3. \A z \in Obj : c[z].ref = u[z] + Cardinality(Shadowers(m.obj, z)) + Cardinality(Pages(c, z))
    BY <1>1, <1>2, <1>5, <1>6
  <2> QED BY <2>1, <2>2, <2>3 DEF KeepsChains
<1> QED BY <1>7, SameChains

Migrated(m, x, t, o) ==
  /\ x \in State /\ x.areas = m.areas /\ x.heap = m.heap /\ x.crash = m.crash
  /\ \A z \in Obj : x.obj[z].kind = m.obj[z].kind /\ x.obj[z].shadowed = m.obj[z].shadowed
  /\ \A z \in Obj : z # t /\ z # o => x.obj[z] = m.obj[z]
  /\ x.obj[t].page = Both(m, t, o) /\ x.obj[o].page = FreeObj.page
  /\ Migrates(m, x, t, o)
\* One object more gets other pages and another count.
Repaged(y, c, q, o) == y = [c EXCEPT ![o] = q]
LEMMA RepagedStep ==
  ASSUME NEW c \in Objs, NEW o \in Obj, NEW g \in [Num -> Val \cup {NULL}], NEW k \in Nat,
         NEW q, IsWith(q, c[o], g, k), NEW y, Repaged(y, c, q, o)
  PROVE  /\ y \in Objs /\ y[o].kind = c[o].kind /\ y[o].shadowed = c[o].shadowed
         /\ y[o].page = g /\ y[o].ref = k /\ \A z \in Obj : z # o => y[z] = c[z]
<1>1. PICK r : r = c[o]
  OBVIOUS
<1>2. r \in ObjRec /\ IsWith(q, r, g, k)
  BY <1>1 DEF Objs
<1>3. q \in ObjRec /\ q.kind = r.kind /\ q.shadowed = r.shadowed /\ q.page = g /\ q.ref = k
  BY <1>2, PageRefWith
<1>4. y \in Objs /\ y[o] = q /\ \A z \in Obj : z # o => y[z] = c[z]
  BY <1>3 DEF Objs, Repaged
<1> QED BY <1>1, <1>3, <1>4

LEMMA MigrateStep ==
  ASSUME NEW m \in State, NEW u \in [Obj -> Nat], Objects(m.obj, u), NEW t \in Obj, NEW o \in Obj, t # o,
         m.obj[o].kind # "free", m.obj[t].kind # "free", NEW x, x = pframe_migrate(m, o, t)
  PROVE  Migrated(m, x, t, o) /\ Objects(x.obj, u)
<1>1. PICK A, B : A = Twice(m, t, o) /\ B = Once(m, t, o)
  OBVIOUS
<1>2. PICK a, b, k, r, e : /\ a = Cardinality(A) /\ b = Cardinality(B) /\ k = Cardinality(Pages(m.obj, o))
                           /\ r = m.obj[o].ref /\ e = m.obj[t].ref
  OBVIOUS
<1>3. A \in SUBSET Num /\ B \in SUBSET Num /\ a \in Nat /\ b \in Nat /\ a + b = k /\ k <= r /\ r \in Nat /\ e \in Nat
  BY <1>1, <1>2, Parted, StateParts
<1>4. PICK y : y = pframe_free(m, o, A)
  OBVIOUS
<1>5. PagesFreed(m, y, o, A)
  <2>1. Cardinality(A) <= m.obj[o].ref
    <3>1. a <= r
      BY <1>3
    <3> QED BY <1>2, <3>1
  <2> QED BY <1>3, <1>4, <2>1, PageFree
<1>6. /\ y \in State /\ y.areas = m.areas /\ y.heap = m.heap /\ y.crash = m.crash
      /\ \A z \in Obj : z # o => y.obj[z] = m.obj[z]
      /\ y.obj[o].kind = m.obj[o].kind /\ y.obj[o].shadowed = m.obj[o].shadowed
      /\ y.obj[o].ref = r - a /\ Unmaps(m, y, o, A)
  BY <1>2, <1>5 DEF PagesFreed
<1>7. y.obj \in Objs /\ y.obj[t] \in ObjRec /\ y.obj[t].ref = e /\ y.pte \in [Proc -> [Page -> Pte]]
  BY <1>2, <1>6, StateParts
<1>8. PICK g : g = Both(m, t, o)
  OBVIOUS
<1>9. g \in [Num -> Val \cup {NULL}]
  <2>1. m.obj[o].page \in [Num -> Val \cup {NULL}] /\ m.obj[t].page \in [Num -> Val \cup {NULL}]
    BY StateParts
  <2> QED BY <1>8, <2>1 DEF Both
<1>10. FreeObj.page \in [Num -> Val \cup {NULL}]
  BY FreeObjType DEF ObjRec
<1>11. PICK f, n1, n2 : f = FreeObj.page /\ n1 = e + b /\ n2 = r - a - b
  OBVIOUS
<1>12. n1 \in Nat /\ n2 \in Nat /\ n2 = r - k
  BY <1>3, <1>11
<1>13. PICK q1 : IsWith(q1, y.obj[t], g, n1)
  BY DEF IsWith
<1>14. PICK c1 : Repaged(c1, y.obj, q1, t)
  BY DEF Repaged
<1>15. /\ c1 \in Objs /\ c1[t].kind = y.obj[t].kind /\ c1[t].shadowed = y.obj[t].shadowed
       /\ c1[t].page = g /\ c1[t].ref = n1 /\ \A z \in Obj : z # t => c1[z] = y.obj[z]
  <2>1. PICK c0 : c0 = y.obj
    OBVIOUS
  <2>2. c0 \in Objs /\ IsWith(q1, c0[t], g, n1) /\ Repaged(c1, c0, q1, t)
    BY <1>7, <1>13, <1>14, <2>1
  <2>3. /\ c1 \in Objs /\ c1[t].kind = c0[t].kind /\ c1[t].shadowed = c0[t].shadowed
        /\ c1[t].page = g /\ c1[t].ref = n1 /\ \A z \in Obj : z # t => c1[z] = c0[z]
    BY <1>9, <1>12, <2>2, RepagedStep
  <2> QED BY <2>1, <2>3
<1>16. PICK q2 : IsWith(q2, c1[o], f, n2)
  BY DEF IsWith
<1>17. PICK c : Repaged(c, c1, q2, o)
  BY DEF Repaged
<1>18. /\ c \in Objs /\ c[o].kind = c1[o].kind /\ c[o].shadowed = c1[o].shadowed
       /\ c[o].page = f /\ c[o].ref = n2 /\ \A z \in Obj : z # o => c[z] = c1[z]
  BY <1>10, <1>11, <1>12, <1>15, <1>16, <1>17, RepagedStep
<1>19. /\ \A z \in Obj : c[z].kind = m.obj[z].kind /\ c[z].shadowed = m.obj[z].shadowed
       /\ \A z \in Obj : z # t /\ z # o => c[z] = m.obj[z]
       /\ c[t].page = g /\ c[o].page = f /\ c[t].ref = e + b /\ c[o].ref = r - k
  BY <1>6, <1>11, <1>12, <1>15, <1>18
<1>20. Objects(c, u)
  <2>1. /\ c[t].page = Both(m, t, o) /\ c[o].page = FreeObj.page
        /\ c[t].ref = m.obj[t].ref + Cardinality(Once(m, t, o))
        /\ c[o].ref = m.obj[o].ref - Cardinality(Pages(m.obj, o))
    BY <1>1, <1>2, <1>8, <1>11, <1>19
  <2> QED BY <1>18, <1>19, <2>1, MigratedObjs
<1> DEFINE to(z) == IF z.o = o /\ z.n \in B THEN [z EXCEPT !.o = t] ELSE z
           table == [p \in Proc |-> [i \in Page |-> to(y.pte[p][i])]]
<1>21. PICK T : T = table
  OBVIOUS
<1>22. T \in [Proc -> [Page -> Pte]]
  <2>1. ASSUME NEW z \in Pte PROVE to(z) \in Pte
    BY DEF Pte
  <2> HIDE DEF to
  <2> QED BY <1>7, <1>21, <2>1
<1>23. IsNow(x, y, c, T)
  <2>1. x = [y EXCEPT !.obj = c, !.pte = T]
    <3>1. y.obj[o] \in ObjRec /\ y.obj[t] \in ObjRec
      BY <1>7 DEF Objs
    <3>2. B = Resident(m, o) \ {n \in Resident(m, o) : m.obj[t].page[n] # NULL}
          /\ A = {n \in Resident(m, o) : m.obj[t].page[n] # NULL}
      BY <1>1 DEF Once, Twice
    <3>3. g = [n \in Num |-> IF n \in B THEN m.obj[o].page[n] ELSE m.obj[t].page[n]]
      BY <1>1, <1>8 DEF Both
    <3>4. x = [y EXCEPT !.obj[t].page = g, !.obj[t].ref = @ + Cardinality(B),
                        !.obj[o].page = FreeObj.page, !.obj[o].ref = @ - Cardinality(B), !.pte = T]
      BY <1>4, <1>21, <3>2, <3>3 DEF pframe_migrate
    <3>5. q1 = [y.obj[t] EXCEPT !.page = g, !.ref = y.obj[t].ref + Cardinality(B)]
      BY <1>2, <1>7, <1>11, <1>13 DEF IsWith
    <3>6. q2 = [c1[o] EXCEPT !.page = FreeObj.page, !.ref = c1[o].ref - Cardinality(B)] /\ c1[o] = y.obj[o]
      BY <1>2, <1>6, <1>11, <1>15, <1>16 DEF IsWith
    <3>7. PICK y1 : y1 = [y EXCEPT !.obj[t].page = g, !.obj[t].ref = @ + Cardinality(B)]
      OBVIOUS
    <3>8. y1 = [y EXCEPT !.obj = c1]
      BY <1>6, <1>7, <1>14, <3>1, <3>5, <3>7 DEF State, Objs, ObjRec, Repaged
    <3>9. y1 \in State /\ y1.obj = c1
      BY <1>6, <1>15, <3>8, WithObj
    <3>10. PICK y2 : y2 = [y1 EXCEPT !.obj[o].page = FreeObj.page, !.obj[o].ref = y.obj[o].ref - Cardinality(B)]
      OBVIOUS
    <3>11. c1[o] \in ObjRec
      BY <1>15 DEF Objs
    <3>12. y2 = [y1 EXCEPT !.obj = c]
      BY <1>15, <1>17, <3>6, <3>9, <3>10, <3>11 DEF State, Objs, ObjRec, Repaged
    <3>13. y2 = [y EXCEPT !.obj = c]
      BY <3>8, <3>12, <1>6 DEF State
    <3>14. x = [y2 EXCEPT !.pte = T]
      BY <3>4, <3>7, <3>10
    <3> QED BY <1>6, <3>13, <3>14 DEF State
  <2> QED BY <2>1 DEF IsNow
<1>24. /\ x \in State /\ x.obj = c /\ x.areas = y.areas /\ x.pte = T
       /\ x.heap = y.heap /\ x.crash = y.crash
  BY <1>6, <1>18, <1>22, <1>23, WithObjPte
<1>25. Migrates(m, x, t, o)
  <2> SUFFICES ASSUME NEW p \in Proc, NEW i \in Page, NEW z, z = m.pte[p][i], NEW w, w = y.pte[p][i],
                      NEW v, v = x.pte[p][i]
               PROVE  \/ v = z /\ (z = NoPte \/ z.o # o \/ m.obj[o].page[z.n] = NULL)
                      \/ v = NoPte
                      \/ v = Dangling /\ z.o = o /\ z.n \in A /\ ~pframe_remove_from_pts(m, o, A, p, i)
                      \/ z.o = o /\ z.n \in B /\ v.o = t /\ v.n = z.n /\ v.w = z.w
    BY <1>1 DEF Migrates
  <2>1. \/ w = z /\ (z = NoPte \/ ~(z.o = o /\ z.n \in A))
        \/ w = NoPte
        \/ w = Dangling /\ z.o = o /\ z.n \in A /\ ~pframe_remove_from_pts(m, o, A, p, i)
    BY <1>6 DEF Unmaps
  <2>2. v = IF w.o = o /\ w.n \in B THEN [w EXCEPT !.o = t] ELSE w
    BY <1>21, <1>24
  <2>3. w \in Pte /\ z \in Pte
    BY <1>7, StateParts
  <2>4. ASSUME z.o = o, m.obj[o].page[z.n] # NULL PROVE z.n \in A \/ z.n \in B
    BY <1>1, <2>3, <2>4 DEF Twice, Once, Resident, Pte
  <2>5. NoPte.o # o /\ Dangling.o # o
    BY PteTypes
  <2>6. CASE w = NoPte \/ w = Dangling
    BY <2>1, <2>2, <2>5, <2>6
  <2>7. CASE w = z /\ w # NoPte /\ w # Dangling
    <3>1. ~(z.o = o /\ z.n \in A)
      BY <2>1, <2>7
    <3>2. CASE z.o = o /\ z.n \in B
      <4>1. v = [z EXCEPT !.o = t]
        BY <2>2, <2>7, <3>2
      <4>2. v.o = t /\ v.n = z.n /\ v.w = z.w
        BY <2>3, <4>1 DEF Pte
      <4> QED BY <3>2, <4>2
    <3>3. CASE ~(z.o = o /\ z.n \in B)
      BY <2>2, <2>4, <2>7, <3>1, <3>3
    <3> QED BY <3>2, <3>3
  <2> QED BY <2>1, <2>6, <2>7
<1>26. Migrated(m, x, t, o)
  BY <1>6, <1>8, <1>11, <1>19, <1>24, <1>25 DEF Migrated
<1> QED BY <1>20, <1>24, <1>26

-----------------------------------------------------------------------------
(* The migration, and t over what o shadows: o is left with a reference    *)
(* that is to be put.                                                      *)
Lifted(m, x, t, o, w) ==
  /\ x \in State /\ x.areas = m.areas /\ x.heap = m.heap /\ x.crash = m.crash /\ t # o /\ w # o /\ w # t
  /\ m.obj[t].shadowed = o /\ m.obj[o].shadowed = w /\ x.obj[t].shadowed = w
  /\ \A z \in Obj : x.obj[z].kind = m.obj[z].kind
  /\ \A z \in Obj : z # t => x.obj[z].shadowed = m.obj[z].shadowed
  /\ \A z \in Obj : z # t /\ z # o => x.obj[z].page = m.obj[z].page
  /\ x.obj[t].page = Both(m, t, o) /\ x.obj[o].page = FreeObj.page
  /\ Migrates(m, x, t, o)
\* The objects of m become c.
HasObjs(x, m, c) == x = [m EXCEPT !.obj = c]
LEMMA HasObjsParts ==
  ASSUME NEW m \in State, NEW c \in Objs, NEW x, HasObjs(x, m, c)
  PROVE  /\ x \in State /\ x.obj = c /\ x.areas = m.areas /\ x.pte = m.pte
         /\ x.heap = m.heap /\ x.crash = m.crash
BY WithObj DEF HasObjs

\* t is put over w.
LinkedTo(z, y, t, w) == z = [y EXCEPT !.obj[t].shadowed = w]
LEMMA LiftStep ==
  ASSUME NEW m \in State, NEW u \in [Obj -> Nat], Objects(m.obj, u), NEW t \in Obj, NEW o \in Obj, NEW w \in Obj,
         m.obj[t].shadowed = o, m.obj[o].shadowed = w, NEW y, y = pframe_migrate(m, o, t),
         NEW z, LinkedTo(z, y, t, w), NEW x, x = ref(z, w)
  PROVE  Lifted(m, x, t, o, w) /\ Objects(x.obj, Plus(u, o))
<1>1. m.obj \in Objs /\ Kinds(m.obj) /\ Grounded(m.obj) /\ o # NULL /\ w # NULL
  BY Constants DEF Objects
<1>2. t # o
  <2> SUFFICES ASSUME t = o PROVE FALSE
    OBVIOUS
  <2>1. {t} \in SUBSET Obj /\ {t} # {}
    OBVIOUS
  <2> QED BY <1>1, <2>1 DEF Grounded
<1>3. m.obj[t].kind # "free" /\ m.obj[o].kind # "free"
  BY <1>1 DEF Kinds, FreeObj
<1>4. Migrated(m, y, t, o) /\ Objects(y.obj, u)
  BY <1>2, <1>3, MigrateStep
<1>5. /\ y \in State /\ y.areas = m.areas /\ y.heap = m.heap /\ y.crash = m.crash
      /\ \A h \in Obj : y.obj[h].kind = m.obj[h].kind /\ y.obj[h].shadowed = m.obj[h].shadowed
      /\ \A h \in Obj : h # t /\ h # o => y.obj[h] = m.obj[h]
      /\ y.obj[t].page = Both(m, t, o) /\ y.obj[o].page = FreeObj.page
      /\ Migrates(m, y, t, o)
  BY <1>4 DEF Migrated
<1>6. PICK b : b = y.obj
  OBVIOUS
<1>7. b \in Objs /\ b[t] \in ObjRec
  BY <1>5, <1>6, StateParts
<1>8. PICK q : q = [b[t] EXCEPT !.shadowed = w]
  OBVIOUS
<1>9. q \in ObjRec /\ q.kind = b[t].kind /\ q.ref = b[t].ref /\ q.page = b[t].page /\ q.shadowed = w
  BY <1>7, <1>8 DEF ObjRec
<1>10. PICK c1 : c1 = [b EXCEPT ![t] = q]
  OBVIOUS
<1>11. c1 \in Objs /\ c1[t] = q /\ \A h \in Obj : h # t => c1[h] = b[h]
  BY <1>7, <1>9, <1>10 DEF Objs
<1>12. z = [y EXCEPT !.obj = c1]
  BY <1>5, <1>6, <1>7, <1>8, <1>10 DEF LinkedTo, State, Objs, ObjRec
<1>13. z \in State /\ z.obj = c1 /\ z.areas = y.areas /\ z.pte = y.pte /\ z.heap = y.heap /\ z.crash = y.crash
  <2>1. y \in State /\ c1 \in Objs
    BY <1>5, <1>11
  <2>2. HasObjs(z, y, c1)
    BY <1>12 DEF HasObjs
  <2> QED BY <2>1, <2>2, HasObjsParts
<1>14. c1[w] \in ObjRec /\ c1[w].ref \in Nat
  BY <1>11, <1>13, StateParts
<1>15. PICK k : k = c1[w].ref + 1
  OBVIOUS
<1>16. PICK r : r = [c1[w] EXCEPT !.ref = k]
  OBVIOUS
<1>17. r \in ObjRec /\ r.kind = c1[w].kind /\ r.shadowed = c1[w].shadowed /\ r.page = c1[w].page /\ r.ref = k
  <2>1. k \in Nat
    BY <1>14, <1>15
  <2>2. PICK d : d = c1[w]
    OBVIOUS
  <2>3. r = [d EXCEPT !.ref = k] /\ d \in ObjRec
    BY <1>14, <1>16, <2>2
  <2>4. r \in ObjRec /\ r.kind = d.kind /\ r.shadowed = d.shadowed /\ r.page = d.page /\ r.ref = k
    BY <2>1, <2>3, RefWith
  <2> QED BY <2>2, <2>4
<1>18. PICK c : c = [c1 EXCEPT ![w] = r]
  OBVIOUS
<1>19. c \in Objs /\ c[w] = r /\ \A h \in Obj : h # w => c[h] = c1[h]
  BY <1>11, <1>17, <1>18 DEF Objs
<1>20. x = [z EXCEPT !.obj = c]
  BY <1>13, <1>14, <1>15, <1>16, <1>18 DEF ref, State, Objs, ObjRec
<1>21. x \in State /\ x.obj = c /\ x.areas = z.areas /\ x.pte = z.pte /\ x.heap = z.heap /\ x.crash = z.crash
  <2>1. z \in State /\ c \in Objs
    BY <1>13, <1>19
  <2>2. HasObjs(x, z, c)
    BY <1>20 DEF HasObjs
  <2> QED BY <2>1, <2>2, HasObjsParts
<1>22. /\ c[t].shadowed = w \/ w = t
       /\ w = t => c[t].shadowed = w
       /\ \A h \in Obj : c[h].kind = b[h].kind /\ c[h].page = b[h].page
       /\ \A h \in Obj : h # t => c[h].shadowed = b[h].shadowed
  BY <1>9, <1>11, <1>17, <1>19
<1>23. c[w].ref = b[w].ref + 1 /\ \A h \in Obj : h # w => c[h].ref = b[h].ref
  BY <1>9, <1>11, <1>15, <1>17, <1>19
<1>24. PICK v : v = Plus(u, o)
  OBVIOUS
<1>25. Objects(c, v) /\ w # o /\ w # t
  <2>1. v = [h \in Obj |-> IF h = o THEN u[h] + 1 ELSE u[h]]
    BY <1>24 DEF Plus
  <2>2. Objects(b, u) /\ b[t].shadowed = o /\ b[o].shadowed = w /\ c[t].shadowed = w
    BY <1>4, <1>5, <1>6, <1>22
  <2>3. /\ c \in Objs /\ c[w].ref = b[w].ref + 1 /\ \A h \in Obj : c[h].kind = b[h].kind /\ c[h].page = b[h].page
        /\ \A h \in Obj : h # t => c[h].shadowed = b[h].shadowed
        /\ \A h \in Obj : h # w => c[h].ref = b[h].ref
    BY <1>19, <1>22, <1>23
  <2> QED BY <2>1, <2>2, <2>3, Relinked
<1>26. Migrates(m, x, t, o)
  <2>1. x.pte = y.pte
    BY <1>13, <1>21
  <2>2. Migrates(m, y, t, o)
    BY <1>5
  <2> QED BY <2>1, <2>2 DEF Migrates
<1>27. /\ \A h \in Obj : x.obj[h].kind = m.obj[h].kind
       /\ \A h \in Obj : h # t => x.obj[h].shadowed = m.obj[h].shadowed
       /\ \A h \in Obj : h # t /\ h # o => x.obj[h].page = m.obj[h].page
       /\ x.obj[t].page = Both(m, t, o) /\ x.obj[o].page = FreeObj.page /\ x.obj[t].shadowed = w
  BY <1>5, <1>6, <1>21, <1>22
<1>28. x.areas = m.areas /\ x.heap = m.heap /\ x.crash = m.crash
  BY <1>5, <1>13, <1>21
<1> QED BY <1>2, <1>21, <1>24, <1>25, <1>26, <1>27, <1>28 DEF Lifted

LEMMA BothPages ==
  ASSUME NEW m, NEW t, NEW o, NEW n \in Num
  PROVE  Both(m, t, o)[n] # NULL <=> (m.obj[t].page[n] # NULL \/ m.obj[o].page[n] # NULL)
<1>1. Both(m, t, o)[n] = IF n \in Once(m, t, o) THEN m.obj[o].page[n] ELSE m.obj[t].page[n]
  BY DEF Both
<1>2. n \in Once(m, t, o) <=> (m.obj[o].page[n] # NULL /\ m.obj[t].page[n] = NULL)
  BY DEF Once, Twice, Resident
<1> QED BY <1>1, <1>2

\* Translations still lead to pages.
LEMMA LiftedPtes ==
  ASSUME NEW m \in State, Ptes(m), NEW t \in Obj, NEW o \in Obj, NEW w \in Obj, NEW x, Lifted(m, x, t, o, w)
  PROVE  Ptes(x)
<1> SUFFICES ASSUME NEW p \in Proc, NEW i \in Page, NEW e, e = m.pte[p][i], NEW v, v = x.pte[p][i]
             PROVE  v = NoPte \/ v = Dangling \/ Leads(x.obj, v)
  BY DEF Ptes
<1>1. e \in Pte /\ e.n \in Num
  <2>1. e \in Pte
    BY StateParts
  <2> QED BY <2>1 DEF Pte
<1>2. e = NoPte \/ e = Dangling \/ Leads(m.obj, e)
  BY DEF Ptes
<1>3. \/ v = e /\ (e = NoPte \/ e.o # o \/ m.obj[o].page[e.n] = NULL)
      \/ v = NoPte
      \/ v = Dangling
      \/ e.o = o /\ e.n \in Once(m, t, o) /\ v.o = t /\ v.n = e.n
  BY DEF Lifted, Migrates
<1>4. CASE v = e /\ e # NoPte /\ e # Dangling
  <2>1. e.o \in Obj /\ m.obj[e.o].page[e.n] # NULL
    BY <1>2, <1>4 DEF Leads
  <2>2. e.o # o
    <3>1. t # o
      BY DEF Lifted
    <3> QED BY <1>3, <1>4, <2>1, <3>1
  <2>3. CASE e.o = t
    <3>1. x.obj[t].page = Both(m, t, o)
      BY DEF Lifted
    <3>2. x.obj[e.o].page[e.n] # NULL
      BY <1>1, <2>1, <2>3, <3>1, BothPages
    <3> QED BY <1>4, <2>1, <3>2 DEF Leads
  <2>4. CASE e.o # t
    <3>1. x.obj[e.o].page = m.obj[e.o].page
      BY <2>1, <2>2, <2>4 DEF Lifted
    <3> QED BY <1>4, <2>1, <3>1 DEF Leads
  <2> QED BY <2>3, <2>4
<1>5. CASE e.o = o /\ e.n \in Once(m, t, o) /\ v.o = t /\ v.n = e.n
  <2>1. m.obj[o].page[e.n] # NULL
    BY <1>5 DEF Once, Resident
  <2>2. x.obj[t].page = Both(m, t, o)
    BY DEF Lifted
  <2>3. x.obj[v.o].page[v.n] # NULL
    BY <1>1, <1>5, <2>1, <2>2, BothPages
  <2> QED BY <1>5, <2>3 DEF Leads
<1> QED BY <1>3, <1>4, <1>5

\* Private areas still have objects of their own.
LEMMA LiftedTops ==
  ASSUME NEW m \in State, NEW t \in Obj, NEW o \in Obj, NEW w \in Obj, NEW x, Lifted(m, x, t, o, w), Tops(m.obj, m.areas)
  PROVE  Tops(x.obj, x.areas)
<1>1. PICK areas : areas = m.areas
  OBVIOUS
<1>2. x.areas = areas /\ Tops(m.obj, areas)
  BY <1>1 DEF Lifted
<1>3. /\ \A z \in Obj : x.obj[z].kind = m.obj[z].kind
      /\ \A z \in Obj : z # t => x.obj[z].shadowed = m.obj[z].shadowed
      /\ x.obj[t].shadowed = w /\ m.obj[o].shadowed = w
  BY DEF Lifted
<1>4. ASSUME NEW z, Shadowers(m.obj, z) = {} PROVE Shadowers(x.obj, z) = {}
  <2>1. \A h \in Obj : m.obj[h].shadowed # z
    BY <1>4 DEF Shadowers
  <2>2. \A h \in Obj : x.obj[h].shadowed # z
    BY <1>3, <2>1
  <2> QED BY <2>2 DEF Shadowers
<1>5. ASSUME NEW p \in Proc, NEW k \in DOMAIN areas[p], NEW a, a = areas[p][k], a.obj \in Obj,
             TopOK(m.obj, areas, p, a)
      PROVE  TopOK(x.obj, areas, p, a)
  BY <1>3, <1>4, <1>5 DEF TopOK
<1>6. ASSUME NEW p \in Proc, NEW k \in DOMAIN areas[p] PROVE TopOK(x.obj, areas, p, areas[p][k])
  <2>1. areas[p] \in Lists
    BY <1>1, StateParts DEF Lists
  <2>2. areas[p][k].obj \in Obj
    BY <2>1, ListParts
  <2>3. TopOK(m.obj, areas, p, areas[p][k])
    BY <1>2 DEF Tops
  <2> QED BY <1>5, <2>2, <2>3
<1> QED BY <1>2, <1>6 DEF Tops

\* Chains lose o and nothing else.
Lacks(c, b, z, o) == \A y : y \in Below(c, z) <=> y \in Below(b, z) /\ y # o
LEMMA LiftedBelow ==
  ASSUME NEW m \in State, NEW t \in Obj, NEW o \in Obj, NEW w \in Obj, NEW x, Lifted(m, x, t, o, w),
         Shadowers(m.obj, o) = {t}, NEW z \in Obj, z # o
  PROVE  Lacks(x.obj, m.obj, z, o)
<1>1. PICK b, c : b = m.obj /\ c = x.obj
  OBVIOUS
<1>2. /\ b \in Objs /\ c \in Objs /\ t # o /\ w # o /\ Shadowers(b, o) = {t} /\ b[o].shadowed = w
      /\ c[t].shadowed = w /\ \A y \in Obj : y # t => c[y].shadowed = b[y].shadowed
  BY <1>1, StateParts DEF Lifted
<1> QED BY <1>1, <1>2, Unlinked DEF Lacks

\* pframe_free removes the translations of a private area over the object.
LEMMA RemovedPte ==
  ASSUME NEW m \in State, NEW u, Counting(m, u), Tops(m.obj, m.areas), NEW o \in Obj, NEW N, NEW p \in Proc, NEW i \in Page,
         NEW k \in DOMAIN m.areas[p], NEW a, a = m.areas[p][k], NEW e, Belongs(m.obj, a, i, e), e.o = o, a.obj # o,
         e.n \in N
  PROVE  pframe_remove_from_pts(m, o, N, p, i)
<1>1. a \in AreaRec /\ a.obj \in Obj
  BY UserLive
<1>2. Covers(a, i) /\ e.n = i - a.start + a.off /\ o \in Below(m.obj, a.obj)
  BY DEF Belongs
<1>3. m.obj \in Objs /\ Objects(m.obj, u) /\ Kinds(m.obj)
  BY DEF Counting, Objects
<1>4. m.obj[a.obj].shadowed \in Obj
  BY <1>1, <1>2, <1>3, BelowStep
<1>5. m.obj[a.obj].kind # "anon"
  BY <1>1, <1>3, <1>4, Constants DEF Kinds
<1>6. ~a.shared
  <2>1. TopOK(m.obj, m.areas, p, a)
    BY DEF Tops
  <2> QED BY <1>5, <2>1 DEF TopOK
<1>7. mmobj_bottom_obj(m, o) = mmobj_bottom_obj(m, a.obj)
  BY <1>1, <1>2, <1>3, Bottoms
<1>8. a.start <= i /\ i < a.end /\ i - a.start + a.off \in N
  BY <1>2 DEF Covers
<1> QED BY <1>6, <1>7, <1>8 DEF pframe_remove_from_pts

\* A translation still belongs to its area.
LEMMA LiftedPte ==
  ASSUME NEW m \in State, NEW u, Counting(m, u), Tops(m.obj, m.areas), NEW t \in Obj, NEW o \in Obj, NEW w \in Obj,
         u[o] = 0, Shadowers(m.obj, o) = {t}, NEW x, Lifted(m, x, t, o, w), Ptes(x),
         NEW sh, NEW p \in Proc, NEW i \in Page, PteOK(m.obj, m.areas[p], i, m.pte[p][i], sh)
  PROVE  PteOK(x.obj, x.areas[p], i, x.pte[p][i], sh)
<1>1. PICK e, v : e = m.pte[p][i] /\ v = x.pte[p][i]
  OBVIOUS
<1>2. x.areas = m.areas /\ t # o
  BY DEF Lifted
<1>3. v = NoPte \/ v = Dangling \/ Leads(x.obj, v)
  BY <1>1 DEF Ptes
<1>4. \/ v = e /\ (e = NoPte \/ e.o # o \/ m.obj[o].page[e.n] = NULL)
      \/ v = NoPte
      \/ v = Dangling /\ e.o = o /\ e.n \in Twice(m, t, o) /\ ~pframe_remove_from_pts(m, o, Twice(m, t, o), p, i)
      \/ e.o = o /\ e.n \in Once(m, t, o) /\ v.o = t /\ v.n = e.n /\ v.w = e.w
  BY <1>1 DEF Lifted, Migrates
<1>5. CASE sh
  BY <1>1, <1>3, <1>5 DEF PteOK
<1>6. CASE v = NoPte
  BY <1>1, <1>6 DEF PteOK
<1>7. CASE ~sh /\ v # NoPte
  <2>1. e # NoPte
    <3>1. NoPte.o # o
      BY PteTypes
    <3> QED BY <1>4, <1>7, <3>1
  <2>2. Leads(m.obj, e) /\ \E k \in DOMAIN m.areas[p] : Belongs(m.obj, m.areas[p][k], i, e)
    BY <1>1, <1>7, <2>1 DEF PteOK
  <2>3. PICK k \in DOMAIN m.areas[p] : Belongs(m.obj, m.areas[p][k], i, e)
    BY <2>2
  <2>4. PICK a : a = m.areas[p][k]
    OBVIOUS
  <2>5. a \in AreaRec /\ a.obj \in Obj /\ u[a.obj] > 0
    BY <2>4, UserLive
  <2>6. a.obj # o
    BY <2>5
  <2>7. \A y : y \in Below(x.obj, a.obj) <=> y \in Below(m.obj, a.obj) /\ y # o
    <3>1. PICK z : z = a.obj
      OBVIOUS
    <3>2. z \in Obj /\ z # o
      BY <2>5, <2>6, <3>1
    <3>3. Lacks(x.obj, m.obj, z, o)
      BY <3>2, LiftedBelow
    <3> QED BY <3>1, <3>3 DEF Lacks
  <2>8. /\ Covers(a, i) /\ e.n = i - a.start + a.off /\ e.o \in Below(m.obj, a.obj)
        /\ e.w => a.prot = "rw" /\ e.o = a.obj
    BY <2>3, <2>4 DEF Belongs
  <2>9. Belongs(x.obj, a, i, v)
    <3>1. CASE v = e /\ e.o # o
      BY <2>7, <2>8, <3>1 DEF Belongs
    <3>2. CASE e.o = o
      <4>1. m.obj[o].page[e.n] # NULL
        BY <2>2, <3>2 DEF Leads
      <4>2. e.n \notin Twice(m, t, o) \/ pframe_remove_from_pts(m, o, Twice(m, t, o), p, i)
        <5>1. PICK N : N = Twice(m, t, o)
          OBVIOUS
        <5>2. e.n \in N => pframe_remove_from_pts(m, o, N, p, i)
          BY <2>3, <2>4, <2>6, <3>2, RemovedPte
        <5> QED BY <5>1, <5>2
      <4>3. v.o = t /\ v.n = e.n /\ v.w = e.w
        BY <1>4, <1>7, <3>2, <4>1, <4>2
      <4>4. t \in Below(m.obj, a.obj)
        <5>1. PICK h \in Below(m.obj, a.obj) : m.obj[h].shadowed = o
          <6>1. PICK b, z : b = m.obj /\ z = a.obj
            OBVIOUS
          <6>2. b \in Objs /\ z \in Obj /\ o \in Below(b, z) /\ o # z
            BY <2>5, <2>6, <2>8, <3>2, <6>1, StateParts
          <6>3. \E h \in Below(b, z) : b[h].shadowed = o
            BY <6>2, Above
          <6> QED BY <6>1, <6>3
        <5>2. h \in Shadowers(m.obj, o)
          BY <5>1 DEF Shadowers, Below
        <5> QED BY <5>1, <5>2
      <4>5. ~v.w
        BY <2>6, <2>8, <3>2, <4>3
      <4> QED BY <1>2, <2>7, <2>8, <4>3, <4>4, <4>5 DEF Belongs
    <3> QED BY <1>4, <1>7, <3>1, <3>2
  <2>10. v # Dangling
    <3>1. v.o \in Obj
      BY <2>9 DEF Belongs, Below
    <3> QED BY <3>1, PteTypes
  <2>11. Leads(x.obj, v)
    BY <1>3, <1>7, <2>10
  <2> QED BY <1>1, <1>2, <2>4, <2>9, <2>11 DEF PteOK
<1> QED BY <1>5, <1>6, <1>7

\* What is left but for the reference to o.
LEMMA LiftedGood ==
  ASSUME NEW m, NEW sh, Good(m, sh), NEW u, u = U(m.areas), NEW t \in Obj, NEW o \in Obj, NEW w \in Obj,
         u[o] = 0, Shadowers(m.obj, o) = {t}, NEW x, Lifted(m, x, t, o, w), Objects(x.obj, Plus(u, o))
  PROVE  GoodBut(x, Plus(u, o), sh, {})
<1>1. GoodBut(m, u, sh, {})
  BY GoodParts
<1>2. m \in State /\ Ptes(m) /\ Counting(m, u) /\ Tops(m.obj, m.areas)
  BY <1>1 DEF GoodBut
<1>3. x \in State /\ x.areas = m.areas /\ x.heap = m.heap
  BY DEF Lifted
<1>4. Ptes(x)
  BY <1>2, LiftedPtes
<1>5. Tops(x.obj, x.areas)
  BY <1>2, LiftedTops
<1>6. Counting(x, Plus(u, o))
  <2>1. u \in [Obj -> Nat]
    BY <1>2 DEF Counting
  <2>2. Plus(u, o) \in [Obj -> Nat] /\ \A z \in Obj : Plus(u, o)[z] = IF z = o THEN u[z] + 1 ELSE u[z]
    BY <2>1, PlusType
  <2>3. \A z \in Obj : U(x.areas)[z] = u[z]
    BY <1>3
  <2>4. \A z \in Obj : U(x.areas)[z] <= Plus(u, o)[z]
    BY <2>1, <2>2, <2>3
  <2> QED BY <2>2, <2>4 DEF Counting
<1>7. \A p \in Proc : Tidy(x.areas[p], x.heap[p], sh)
  BY <1>1, <1>3 DEF GoodBut
<1>8. ASSUME NEW p \in Proc, NEW i \in Page PROVE PteOK(x.obj, x.areas[p], i, x.pte[p][i], sh)
  <2>1. PteOK(m.obj, m.areas[p], i, m.pte[p][i], sh)
    BY <1>1 DEF GoodBut
  <2> QED BY <1>2, <1>4, <2>1, LiftedPte
<1> QED BY <1>3, <1>4, <1>5, <1>6, <1>7, <1>8 DEF GoodBut

-----------------------------------------------------------------------------
(* shadowd, one object after the other.                                    *)
\* o is put, and with it the invariant holds again.
LEMMA LiftedPut ==
  ASSUME NEW m, NEW sh, Good(m, sh), NEW u, u = U(m.areas), NEW t \in Obj, NEW o \in Obj, NEW w \in Obj,
         u[o] = 0, Shadowers(m.obj, o) = {t}, NEW y, Lifted(m, y, t, o, w), Objects(y.obj, Plus(u, o)),
         NEW x, x = put(y, o)
  PROVE  /\ Good(x, sh) /\ x.areas = m.areas /\ x.crash = m.crash /\ Frees(y, x)
         /\ u \in [Obj -> Nat] /\ Objects(x.obj, u)
<1>1. PICK v : v = Plus(u, o)
  OBVIOUS
<1>2. GoodBut(y, v, sh, {})
  BY <1>1, LiftedGood
<1>3. u \in [Obj -> Nat]
  BY StateParts, UType DEF Good, Lists
<1>4. y \in State /\ Ptes(y) /\ \A p \in Proc : Tidy(y.areas[p], y.heap[p], sh)
  BY <1>2 DEF GoodBut
<1>5. x \in State /\ Ptes(x) /\ Frees(y, x) /\ Objects(x.obj, u)
  BY <1>3, <1>4, PutStep
<1>6. x.areas = y.areas /\ x.heap = y.heap /\ x.crash = y.crash /\ y.areas = m.areas /\ y.heap = m.heap /\ y.crash = m.crash
  BY <1>5 DEF Frees, Lifted
<1>7. Loses(y, x)
  BY <1>5, FreesLoses
<1>8. Counting(x, u)
  BY <1>3, <1>5, <1>6 DEF Counting
<1>9. Within(y, x)
  BY <1>6 DEF Within, Fits
<1>10. \A p \in Proc : Tidy(x.areas[p], x.heap[p], sh)
  BY <1>4, <1>6
<1>11. \A p \in Proc, i \in Page : Stays(y, x, p, i)
  BY <1>6 DEF Stays, Fits
<1>12. PICK E : E = {}
  OBVIOUS
<1>13. GoodBut(x, u, sh, E)
  BY <1>2, <1>5, <1>7, <1>8, <1>9, <1>10, <1>11, <1>12, LosesGood
<1>14. Dead(y)
  <2>1. Dead(m)
    BY DEF Good
  <2>2. ASSUME NEW p \in Proc, NEW i \in Page, m.pte[p][i] = NoPte PROVE y.pte[p][i] = NoPte
    <3>1. NoPte.o # o
      BY PteTypes
    <3> QED BY <2>2, <3>1 DEF Lifted, Migrates
  <2> QED BY <1>6, <2>1, <2>2 DEF Dead
<1>15. Dead(x)
  BY <1>4, <1>5, <1>7, <1>9, <1>14, LosesDead
<1>16. Wiped(x, x, E)
  BY <1>5, <1>12 DEF Wiped
<1>17. u = U(x.areas)
  BY <1>6
<1>18. Good(x, sh)
  BY <1>10, <1>13, <1>15, <1>16, <1>17, ClearGood
<1> QED BY <1>3, <1>5, <1>6, <1>18

\* A round begins below top with t and what it shadows, or there was a crash.
Round(areas, sh, top, m, t, o) ==
  \/ m.crash = "shadowd" /\ o = NULL
  \/ /\ Good(m, sh) /\ m.crash = NoCrash /\ m.areas = areas /\ t \in Obj /\ t \in Below(m.obj, top)
     /\ m.obj[t].shadowed = o
Collapsing(areas, sh, top, y) ==
  \E m, t, o : y = [m |-> m, last |-> t, o |-> o] /\ Round(areas, sh, top, m, t, o)
LEMMA LiftRound ==
  ASSUME NEW areas, NEW sh, NEW top \in Obj, U(areas)[top] > 0, NEW m, NEW t \in Obj, NEW o \in Obj, NEW w \in Obj,
         Good(m, sh), m.crash = NoCrash, m.areas = areas, t \in Below(m.obj, top), m.obj[t].shadowed = o,
         m.obj[o].shadowed = w, Parents(m, o) = 1, NEW y, y = pframe_migrate(m, o, t), NEW z, LinkedTo(z, y, t, w),
         NEW above, above = ref(z, w), NEW x, x = put(above, o)
  PROVE  Round(areas, sh, top, x, t, w)
<1>1. PICK u : u = U(m.areas)
  OBVIOUS
<1>2. m \in State /\ u \in [Obj -> Nat] /\ Objects(m.obj, u)
  BY <1>1, StateParts, UType DEF Good, Lists
<1>3. u[o] = 0 /\ Shadowers(m.obj, o) = {t}
  BY <1>2, Sole DEF SoleUser
<1>4. Lifted(m, above, t, o, w) /\ Objects(above.obj, Plus(u, o))
  BY <1>2, LiftStep
<1>5. Good(x, sh) /\ x.areas = m.areas /\ x.crash = m.crash /\ Frees(above, x) /\ Objects(x.obj, u)
  BY <1>1, <1>3, <1>4, LiftedPut
<1>6. x \in State /\ above \in State /\ Loses(above, x)
  BY <1>4, <1>5, FreesLoses DEF Good, Lifted
<1>7. top # o /\ t # o /\ u[top] > 0
  <2>1. u[top] > 0
    BY <1>1
  <2>2. top # o
    BY <1>3, <2>1
  <2> QED BY <1>4, <2>1, <2>2 DEF Lifted
<1>8. t \in Below(above.obj, top)
  <2>1. Lacks(above.obj, m.obj, top, o)
    BY <1>2, <1>3, <1>4, <1>7, LiftedBelow
  <2> QED BY <1>7, <2>1 DEF Lacks
<1>9. x.obj[top].kind # "free"
  <2>1. u[top] # 0
    BY <1>7
  <2>2. Live(x.obj, u)
    BY <1>5 DEF Objects
  <2> QED BY <2>1, <2>2 DEF Live
<1>10. t \in Below(x.obj, top)
  BY <1>5, <1>6, <1>8, <1>9, LosesBelow
<1>11. x.obj[t].kind # "free"
  BY <1>5, <1>9, <1>10, LiveBelow
<1>12. x.obj[t].shadowed = w
  BY <1>4, <1>5, <1>11 DEF Frees, Lifted
<1> QED BY <1>5, <1>10, <1>12 DEF Round

LEMMA CollapseOneStep ==
  ASSUME NEW areas, NEW sh, NEW top \in Obj, U(areas)[top] > 0, NEW y, Collapsing(areas, sh, top, y),
         y.o # NULL, y.m.obj[y.o].shadowed # NULL, NEW x, x = CollapseOne(y)
  PROVE  Collapsing(areas, sh, top, x)
<1>1. PICK m, t, o : y = [m |-> m, last |-> t, o |-> o] /\ Round(areas, sh, top, m, t, o)
  BY DEF Collapsing
<1>2. y.m = m /\ y.last = t /\ y.o = o
  BY <1>1
<1>3. /\ Good(m, sh) /\ m.crash = NoCrash /\ m.areas = areas /\ t \in Obj /\ t \in Below(m.obj, top)
      /\ m.obj[t].shadowed = o
  BY <1>1, <1>2 DEF Round
<1>4. PICK w : w = m.obj[o].shadowed
  OBVIOUS
<1>5. m \in State /\ o \in Obj /\ w \in Obj /\ m.obj \in Objs
  <2>1. m \in State /\ m.obj \in Objs
    BY <1>3, StateParts DEF Good
  <2>2. o \in Obj
    BY <1>2, <1>3, <2>1, ShadowedType
  <2> QED BY <1>2, <1>4, <2>1, <2>2, ShadowedType
<1>6. PICK g, z, a, e : g = pframe_migrate(m, o, t) /\ LinkedTo(z, g, t, w) /\ a = ref(z, w) /\ e = put(a, o)
  BY DEF LinkedTo
<1>7. x = CASE Parents(m, o) = 1 -> [y EXCEPT !.m = e, !.o = w]
            [] Parents(m, o) = 2 -> [y EXCEPT !.last = o, !.o = w]
            [] OTHER -> [y EXCEPT !.m = Crash(m, "shadowd"), !.o = NULL]
  BY <1>2, <1>4, <1>6 DEF CollapseOne, LinkedTo
<1>8. CASE Parents(m, o) = 1
  <2>0. x = [y EXCEPT !.m = e, !.o = w]
    BY <1>7, <1>8
  <2>1. x = [m |-> e, last |-> t, o |-> w]
    BY <1>1, <2>0
  <2>2. Round(areas, sh, top, e, t, w)
    BY <1>3, <1>4, <1>5, <1>6, <1>8, LiftRound
  <2> QED BY <2>1, <2>2 DEF Collapsing
<1>9. CASE Parents(m, o) # 1 /\ Parents(m, o) = 2
  <2>1. x = [m |-> m, last |-> o, o |-> w]
    BY <1>1, <1>7, <1>9
  <2>2. o \in Below(m.obj, top)
    BY <1>2, <1>3, <1>5, BelowDown
  <2>3. Round(areas, sh, top, m, o, w)
    BY <1>3, <1>4, <1>5, <2>2 DEF Round
  <2> QED BY <2>1, <2>3 DEF Collapsing
<1>10. CASE Parents(m, o) # 1 /\ Parents(m, o) # 2
  <2>1. PICK c : c = Crash(m, "shadowd")
    OBVIOUS
  <2>2. x = [m |-> c, last |-> t, o |-> NULL]
    BY <1>1, <1>7, <1>10, <2>1
  <2>3. c.crash = "shadowd"
    BY <1>3, <1>5, <2>1, Crashed
  <2>4. Round(areas, sh, top, c, t, NULL)
    BY <2>3 DEF Round
  <2> QED BY <2>2, <2>4 DEF Collapsing
<1> QED BY <1>8, <1>9, <1>10

LEMMA CollapseGood ==
  ASSUME NEW m, NEW sh, Good(m, sh), m.crash = NoCrash, NEW top \in Obj, U(m.areas)[top] > 0,
         NEW x, x = Collapse(m, top)
  PROVE  x.crash = "shadowd" \/ (Good(x, sh) /\ x.crash = NoCrash /\ x.areas = m.areas)
<1> DEFINE N == Cardinality(Obj)
<1>1. N \in Nat
  BY Constants, FS_CardinalityType
<1>2. PICK y0 : y0 = [m |-> m, last |-> top, o |-> m.obj[top].shadowed]
  OBVIOUS
<1>3. PICK areas : areas = m.areas
  OBVIOUS
<1>4. PICK a : Ran("collapse", <<>>, y0, a, N) /\ x = a[N].m
  BY <1>2, CollapseRan
<1>5. \A k \in 1 .. N : a[k] = IF a[k - 1].o = NULL THEN a[k - 1]
                               ELSE IF a[k - 1].m.obj[a[k - 1].o].shadowed = NULL THEN a[k - 1]
                               ELSE CollapseOne(a[k - 1])
  <2>1. \A y, k : Turn("collapse", <<>>, y, k) =
          IF y.o = NULL THEN y ELSE IF y.m.obj[y.o].shadowed = NULL THEN y ELSE CollapseOne(y)
    BY DEF Turn
  <2> QED BY <1>4, <2>1 DEF Ran
<1>6. Collapsing(areas, sh, top, y0)
  <2>1. PICK o : o = m.obj[top].shadowed
    OBVIOUS
  <2>2. Round(areas, sh, top, m, top, o)
    BY <1>3, <2>1, BelowSelf DEF Round
  <2> QED BY <1>2, <2>1, <2>2 DEF Collapsing
<1> DEFINE S == {k \in 0 .. N : Collapsing(areas, sh, top, a[k])}
<1>7. 0 \in S
  BY <1>1, <1>4, <1>6 DEF Ran
<1>8. ASSUME NEW k \in 0 .. N - 1, k \in S PROVE k + 1 \in S
  <2>1. PICK j : j = k + 1
    OBVIOUS
  <2>2. j \in 1 .. N /\ j - 1 = k /\ j \in 0 .. N
    BY <1>1, <2>1
  <2>3. PICK y, z : y = a[j - 1] /\ z = a[j]
    OBVIOUS
  <2>4. Collapsing(areas, sh, top, y)
    BY <1>8, <2>2, <2>3
  <2>5. z = IF y.o = NULL THEN y ELSE IF y.m.obj[y.o].shadowed = NULL THEN y ELSE CollapseOne(y)
    BY <1>5, <2>2, <2>3
  <2>6. Collapsing(areas, sh, top, z)
    <3>1. CASE y.o = NULL \/ y.m.obj[y.o].shadowed = NULL
      BY <2>4, <2>5, <3>1
    <3>2. CASE y.o # NULL /\ y.m.obj[y.o].shadowed # NULL
      <4>1. z = CollapseOne(y)
        BY <2>5, <3>2
      <4> QED BY <1>3, <2>4, <3>2, <4>1, CollapseOneStep
    <3> QED BY <3>1, <3>2
  <2> QED BY <2>1, <2>2, <2>3, <2>6
<1> HIDE DEF S
<1>9. Closed(S, N)
  BY <1>7, <1>8 DEF Closed
<1>10. N \in S
  BY <1>1, <1>9, Reached
<1>11. PICK n, t, o : a[N] = [m |-> n, last |-> t, o |-> o] /\ Round(areas, sh, top, n, t, o)
  BY <1>10 DEF S, Collapsing
<1>12. x = n
  BY <1>4, <1>11
<1> QED BY <1>3, <1>11, <1>12 DEF Round

-----------------------------------------------------------------------------
(* shadowd, one address space after the other.                             *)
LEMMA SequenceOf ==
  ASSUME NEW S, IsFiniteSet(S), NEW f, f = SetToSeq(S)
  PROVE  Len(f) \in Nat /\ \A k \in 1 .. Len(f) : f[k] \in S
<1>1. PICK n \in Nat : ExistsBijection(1 .. n, S)
  BY FS_NatBijection
<1>2. Cardinality(S) = n
  BY <1>1, FS_CountingElements
<1>3. PICK g : g \in Bijection(1 .. n, S)
  BY <1>1 DEF ExistsBijection
<1>4. g \in [1 .. n -> S] /\ IsInjective(g)
  BY <1>3 DEF Bijection, Injection
<1>5. f \in [1 .. n -> S]
  BY <1>2, <1>4 DEF SetToSeq
<1>6. f \in Seq(S) /\ Len(f) = n
  BY <1>5
<1> QED BY <1>5, <1>6

LEMMA ShadowdRan ==
  ASSUME shadowd, NEW tops, tops = SetToSeq({s.areas[e[1]][e[2]].obj : e \in Areas}), Len(tops) \in Nat
  PROVE  \E a : Ran("tops", [tops |-> tops], s, a, Len(tops)) /\ Step(a[Len(tops)])
<1> DEFINE Loop(f) == [k \in 0 .. Len(tops) |->
             IF k = 0 THEN s
             ELSE IF f[k - 1].crash = NoCrash THEN Collapse(f[k - 1], tops[k]) ELSE f[k - 1]]
           a == CHOOSE f : f = Loop(f)
<1>1. \A f : Loop(f) = Rounds("tops", [tops |-> tops], s, f, Len(tops))
  <2>1. \A y, k : Turn("tops", [tops |-> tops], y, k) = IF y.crash = NoCrash THEN Collapse(y, tops[k]) ELSE y
    BY DEF Turn
  <2> QED BY <2>1 DEF Rounds
<1>2. Step(a[Len(tops)])
  BY DEF shadowd
<1> HIDE DEF Loop
<1>3. HasRounds("tops", [tops |-> tops], s, Len(tops))
  BY RoundsExist
<1>4. \E f : f = Loop(f)
  BY <1>1, <1>3 DEF HasRounds
<1>5. a = Loop(a)
  BY <1>4
<1>6. Ran("tops", [tops |-> tops], s, a, Len(tops))
  BY <1>1, <1>5, RoundsRan
<1> QED BY <1>2, <1>6

LEMMA ShadowdGood == ASSUME IInv, shadowd PROVE IInv'
<1>1. Good(s, shrunk) /\ shrunk \in BOOLEAN /\ s.crash = NoCrash /\ shrunk' = shrunk /\ s \in State
  BY DEF IInv, Good, shadowd, Up
<1>2. PICK S : S = {s.areas[e[1]][e[2]].obj : e \in Areas}
  OBVIOUS
<1>3. ASSUME NEW z \in S PROVE z \in Obj /\ U(s.areas)[z] > 0
  <2>1. \E p \in Proc : \E k \in DOMAIN s.areas[p] : z = s.areas[p][k].obj
    BY <1>2 DEF Areas
  <2>4. PICK p \in Proc : \E k \in DOMAIN s.areas[p] : z = s.areas[p][k].obj
    BY <2>1
  <2>5. PICK k \in DOMAIN s.areas[p] : z = s.areas[p][k].obj
    BY <2>4
  <2>2. s.areas[p] \in Lists /\ s.areas \in [Proc -> Lists]
    BY <1>1, StateParts DEF Lists
  <2>3. s.areas[p][k].obj \in Obj
    BY <2>2, ListParts
  <2> QED BY <2>2, <2>3, <2>5, UPositive
<1>4. IsFiniteSet(S)
  <2>1. S \in SUBSET Obj
    BY <1>3
  <2> QED BY <2>1, Constants, FS_Subset
<1>5. PICK tops : tops = SetToSeq(S)
  OBVIOUS
<1>6. Len(tops) \in Nat /\ \A k \in 1 .. Len(tops) : tops[k] \in S
  BY <1>4, <1>5, SequenceOf
<1>7. PICK a : Ran("tops", [tops |-> tops], s, a, Len(tops)) /\ Step(a[Len(tops)])
  BY <1>2, <1>5, <1>6, ShadowdRan
<1>8. \A k \in 1 .. Len(tops) :
        a[k] = IF a[k - 1].crash = NoCrash THEN Collapse(a[k - 1], tops[k]) ELSE a[k - 1]
  <2>1. \A y, k : Turn("tops", [tops |-> tops], y, k) = IF y.crash = NoCrash THEN Collapse(y, tops[k]) ELSE y
    BY DEF Turn
  <2> QED BY <1>7, <2>1 DEF Ran
<1> DEFINE OK(y) == y.crash = "shadowd" \/ (Good(y, shrunk) /\ y.crash = NoCrash /\ y.areas = s.areas)
           T == {k \in 0 .. Len(tops) : OK(a[k])}
<1>9. 0 \in T
  BY <1>1, <1>6, <1>7 DEF Ran
<1>10. ASSUME NEW k \in 0 .. Len(tops) - 1, k \in T PROVE k + 1 \in T
  <2>1. PICK j : j = k + 1
    OBVIOUS
  <2>2. j \in 1 .. Len(tops) /\ j - 1 = k /\ j \in 0 .. Len(tops)
    BY <1>6, <2>1
  <2>3. PICK y, z : y = a[j - 1] /\ z = a[j]
    OBVIOUS
  <2>4. OK(y)
    BY <1>10, <2>2, <2>3
  <2>5. z = IF y.crash = NoCrash THEN Collapse(y, tops[j]) ELSE y
    BY <1>8, <2>2, <2>3
  <2>6. OK(z)
    <3>1. CASE y.crash # NoCrash
      BY <2>4, <2>5, <3>1
    <3>2. CASE y.crash = NoCrash
      <4>1. Good(y, shrunk) /\ y.areas = s.areas /\ z = Collapse(y, tops[j])
        BY <2>4, <2>5, <3>2 DEF NoCrash
      <4>2. PICK top : top = tops[j]
        OBVIOUS
      <4>3. top \in Obj /\ U(y.areas)[top] > 0
        BY <1>3, <1>6, <2>2, <4>1, <4>2
      <4>4. z.crash = "shadowd" \/ (Good(z, shrunk) /\ z.crash = NoCrash /\ z.areas = y.areas)
        BY <3>2, <4>1, <4>2, <4>3, CollapseGood
      <4> QED BY <4>1, <4>4
    <3> QED BY <3>1, <3>2
  <2> QED BY <2>1, <2>2, <2>3, <2>6
<1> HIDE DEF T, OK
<1>11. Closed(T, Len(tops))
  BY <1>9, <1>10 DEF Closed
<1>12. Len(tops) \in T
  BY <1>6, <1>11, Reached
<1>13. PICK m : m = a[Len(tops)]
  OBVIOUS
<1>14. Step(m) /\ (m.crash = "shadowd" \/ (Good(m, shrunk) /\ m.crash = NoCrash))
  BY <1>7, <1>12, <1>13 DEF T, OK
<1>15. CASE m.crash = "shadowd"
  <2>1. m.crash \in Crashes /\ m.crash # NoCrash /\ m.crash \notin {"vmmap_insert", "store to freed memory"}
    BY <1>15 DEF Crashes, NoCrash
  <2> QED BY <1>1, <1>14, <2>1, Stepped
<1>16. CASE Good(m, shrunk) /\ m.crash = NoCrash
  BY <1>1, <1>14, <1>16, SteppedOn
<1> QED BY <1>14, <1>15, <1>16

-----------------------------------------------------------------------------
(* Every step keeps the inductive invariant.                               *)
LEMMA IdleGood == ASSUME IInv, UNCHANGED vars PROVE IInv'
<1>1. s' = s /\ shrunk' = shrunk
  BY DEF vars
<1>2. (Good(s, shrunk))' <=> Good(s, shrunk)
  BY <1>1 DEF Good, State, Objects, U, Users, Counts, Live, Grounded, Kinds, Tidy, WellFormed, Ordered, Tops, TopOK,
              Shadowers, Pages, PtesOK, PteOK, Leads, Belongs, Below, Down, Covers, Dead
<1> QED BY <1>1, <1>2 DEF IInv

LEMMA NextGood == ASSUME IInv, [Next]_vars PROVE IInv'
<1>1. CASE UNCHANGED vars
  BY <1>1, IdleGood
<1>2. ASSUME NEW p \in Proc, Memory(p) PROVE IInv'
  <2>1. ASSUME NEW i \in Page, NEW v \in Val \ {0}, UserStore(p, i, v) \/ copy_to_user(p, i, v) PROVE IInv'
    <3>1. v \in Val
      OBVIOUS
    <3> QED BY <2>1, <3>1, StoreGood, CopyToGood
  <2>2. ASSUME NEW i \in Page, NEW write \in BOOLEAN, handle_pagefault(p, i, write) PROVE IInv'
    BY <2>2, FaultGood
  <2>3. ASSUME NEW i \in Page, copy_to_user_TwoPages(p, i) \/ copy_from_user(p, i) PROVE IInv'
    BY <2>3, TwoPagesGood, CopyFromGood
  <2> QED BY <1>2, <2>1, <2>2, <2>3 DEF Memory
<1>3. ASSUME NEW p \in Proc, AddressSpace(p) PROVE IInv'
  <2>1. ASSUME NEW addr \in Fixed \cup {NULL}, NEW n \in Sizes, NEW shared \in BOOLEAN, NEW prot \in Prots,
               do_mmap(p, addr, n, shared, prot)
        PROVE  IInv'
    BY <2>1, DoMmapGood
  <2>2. ASSUME NEW i \in Page, NEW n \in Sizes, do_munmap(p, i, n) PROVE IInv'
    BY <2>2, MunmapGood
  <2>3. ASSUME NEW end \in LOW .. HIGH + 1, do_brk(p, end) PROVE IInv'
    BY <2>3, DoBrkGood
  <2>4. ASSUME NEW q \in Proc, do_fork(p, q) PROVE IInv'
    BY <2>4, DoForkGood
  <2>5. ASSUME NEW b \in Brks, NEW v \in Val, do_execve(p, b, v) PROVE IInv'
    BY <2>5, DoExecveGood
  <2>6. ASSUME do_exit(p) PROVE IInv'
    BY <2>6, DoExitGood
  <2> QED BY <1>3, <2>1, <2>2, <2>3, <2>4, <2>5, <2>6 DEF AddressSpace
<1>4. CASE shadowd
  BY <1>4, ShadowdGood
<1>5. CASE Stopped
  BY <1>5, IdleGood DEF Stopped
<1> QED BY <1>1, <1>2, <1>3, <1>4, <1>5 DEF Next

\* Objects count their users, private areas have their own, and translations lead to their areas: the
\* inductive invariant that the properties of address spaces follow from.
THEOREM InductiveInvariant == Spec => []IInv
<1>1. Init => IInv
  BY InitGood
<1>2. IInv /\ [Next]_vars => IInv'
  BY NextGood
<1> QED BY <1>1, <1>2, PTL DEF Spec

-----------------------------------------------------------------------------
(* What follows from it.                                                   *)
LEMMA AreasGood == IInv => TypeOK /\ AreasInOrder /\ PrivateTop
<1> SUFFICES ASSUME IInv PROVE TypeOK /\ AreasInOrder /\ PrivateTop
  OBVIOUS
<1>1. s \in State /\ shrunk \in BOOLEAN /\ Tops(s.obj, s.areas)
      /\ \A p \in Proc : Tidy(s.areas[p], s.heap[p], shrunk) /\ s.areas[p] \in Lists
  BY StateParts DEF IInv, Good, Lists
<1>2. TypeOK
  <2>1. s.crash \in Crashes /\ s.obj \in Objs /\ s.pte \in [Proc -> [Page -> Pte]] /\ s.heap \in [Proc -> Brks \cup {NULL}]
    BY <1>1, StateParts
  <2>2. s.crash \in {"vmmap_insert", "store to freed memory"} => shrunk
    BY DEF IInv
  <2> QED BY <1>1, <2>1, <2>2 DEF TypeOK, Crashes, Objs, ObjRec, Pte
<1>3. AreasInOrder
  <2> SUFFICES ASSUME NEW p \in Proc, NEW k \in DOMAIN s.areas[p], NEW a, a = s.areas[p][k]
               PROVE  /\ LOW <= a.start /\ a.end <= HIGH /\ (a.start < a.end \/ (shrunk /\ a.start = a.end))
                      /\ k + 1 \in DOMAIN s.areas[p] => a.end <= s.areas[p][k + 1].start
    BY DEF AreasInOrder
  <2>1. PICK l : l = s.areas[p]
    OBVIOUS
  <2>2. /\ l \in Lists /\ Ordered(l) /\ k \in DOMAIN l /\ a = l[k]
        /\ l[k].start < l[k].end \/ (shrunk /\ l[k].start = l[k].end)
    BY <1>1, <2>1 DEF Tidy, WellFormed
  <2>3. a \in AreaRec /\ k \in Nat
    BY <2>2, ListParts
  <2>4. LOW <= a.start /\ a.end <= HIGH
    BY <2>3, Constants DEF AreaRec
  <2>5. k + 1 \in DOMAIN l => a.end <= l[k + 1].start
    BY <2>2, <2>3 DEF Ordered
  <2> QED BY <2>1, <2>2, <2>4, <2>5
<1>4. PrivateTop
  <2> SUFFICES ASSUME NEW p \in Proc, NEW k \in DOMAIN s.areas[p], NEW a, a = s.areas[p][k], ~a.shared
               PROVE  /\ s.obj[a.obj].kind = "shadow"
                      /\ \A h \in Obj : s.obj[h].shadowed # a.obj
                      /\ \A e \in AreasOf(a.obj) : e[1] = p
    BY DEF PrivateTop, AreaSet
  <2>1. TopOK(s.obj, s.areas, p, a)
    BY <1>1 DEF Tops
  <2>2. /\ s.obj[a.obj].kind = "shadow" /\ Shadowers(s.obj, a.obj) = {}
        /\ \A q \in Proc : \A j \in DOMAIN s.areas[q] : s.areas[q][j].obj = a.obj => q = p
    BY <2>1 DEF TopOK
  <2>3. ASSUME NEW e \in AreasOf(a.obj) PROVE e[1] = p
    <3>1. e \in Areas /\ s.areas[e[1]][e[2]].obj = a.obj
      BY DEF AreasOf
    <3>2. PICK q \in Proc : e \in {<<q, j>> : j \in DOMAIN s.areas[q]}
      BY <3>1 DEF Areas
    <3>3. PICK j \in DOMAIN s.areas[q] : e = <<q, j>>
      BY <3>2
    <3> QED BY <2>2, <3>1, <3>3
  <2> QED BY <2>2, <2>3 DEF Shadowers
<1> QED BY <1>2, <1>3, <1>4

LEMMA RefsGood == IInv => RefCounts
<1> SUFFICES ASSUME IInv, NEW o \in Obj, NEW a, a = Cardinality(AreasOf(o)),
                    NEW c, c = Cardinality({h \in Obj : s.obj[h].shadowed = o})
             PROVE  /\ s.obj[o].ref = a + c + Cardinality(Resident(s, o))
                    /\ (s.obj[o].kind = "free") <=> (a + c = 0)
  BY DEF RefCounts
<1>1. s \in State /\ Objects(s.obj, U(s.areas)) /\ s.areas \in [Proc -> Lists]
  BY StateParts DEF IInv, Good, Lists
<1>2. AreasOf(o) = Users(s.areas, o)
  BY DEF AreasOf, Areas, Users
<1>3. U(s.areas)[o] = a
  BY <1>2 DEF U
<1>4. c = Cardinality(Shadowers(s.obj, o)) /\ Resident(s, o) = Pages(s.obj, o)
  BY DEF Shadowers, Resident, Pages
<1>5. a \in Nat /\ c \in Nat /\ (c = 0 <=> Shadowers(s.obj, o) = {})
  BY <1>1, <1>2, <1>4, FiniteParts, UsersFinite
<1>6. s.obj[o].ref = a + c + Cardinality(Resident(s, o))
  BY <1>1, <1>3, <1>4 DEF Objects, Counts
<1>7. s.obj[o].kind = "free" <=> (a = 0 /\ c = 0)
  BY <1>1, <1>3, <1>5 DEF Objects, Live
<1>8. a + c = 0 <=> (a = 0 /\ c = 0)
  BY <1>5
<1> QED BY <1>6, <1>7, <1>8

LEMMA TranslationsGood == IInv => Translations
<1> SUFFICES ASSUME IInv, NEW p \in Proc, NEW i \in Page, NEW t, t = s.pte[p][i], t # NoPte, ~shrunk
             PROVE  /\ Has(p, i) /\ t # Dangling /\ t.n = PageNum(p, i)
                    /\ s.obj[t.o].page[t.n] # NULL
                    /\ mmobj_bottom_obj(s, t.o) = mmobj_bottom_obj(s, Area(p, i).obj)
                    /\ t.w => Area(p, i).prot = "rw" /\ t.o = Area(p, i).obj
  BY DEF Translations
<1>1. Good(s, shrunk) /\ s \in State /\ Tidy(s.areas[p], s.heap[p], shrunk) /\ Objects(s.obj, U(s.areas))
  BY DEF IInv, Good
<1>2. PteOK(s.obj, s.areas[p], i, t, shrunk)
  BY <1>1 DEF Good, PtesOK
<1>3. Leads(s.obj, t) /\ \E j \in DOMAIN s.areas[p] : Belongs(s.obj, s.areas[p][j], i, t)
  BY <1>2 DEF PteOK
<1>4. PICK j \in DOMAIN s.areas[p] : Belongs(s.obj, s.areas[p][j], i, t)
  BY <1>3
<1>5. PICK a : a = s.areas[p][j]
  OBVIOUS
<1>6. /\ Covers(a, i) /\ t.n = i - a.start + a.off /\ t.o \in Below(s.obj, a.obj)
      /\ t.w => a.prot = "rw" /\ t.o = a.obj
  BY <1>4, <1>5 DEF Belongs
<1>7. PICK k : k = vmmap_lookup(s, p, i)
  OBVIOUS
<1>8. i \in Int /\ WellFormed(s.areas[p])
  BY <1>1, Constants DEF Page, Tidy
<1>9. k = j
  BY <1>1, <1>5, <1>6, <1>7, <1>8, Lookup
<1>10. j # 0 /\ a.obj \in Obj
  <2>1. s.areas[p] \in Lists
    BY <1>8 DEF WellFormed
  <2> QED BY <1>5, <2>1, ListParts
<1>11. Has(p, i) /\ Area(p, i) = a /\ PageNum(p, i) = i - a.start + a.off
  BY <1>5, <1>7, <1>9, <1>10 DEF Has, Area, PageNum
<1>12. t.o \in Obj /\ s.obj[t.o].page[t.n] # NULL
  BY <1>3 DEF Leads
<1>13. mmobj_bottom_obj(s, t.o) = mmobj_bottom_obj(s, a.obj)
  <2>1. PICK z, x : z = a.obj /\ x = t.o
    OBVIOUS
  <2>2. z \in Obj /\ x \in Below(s.obj, z)
    BY <1>6, <1>10, <2>1
  <2>3. mmobj_bottom_obj(s, x) = mmobj_bottom_obj(s, z)
    BY <1>1, <2>2, Bottoms
  <2> QED BY <2>1, <2>3
<1>14. t # Dangling
  BY <1>12, PteTypes
<1> QED BY <1>6, <1>11, <1>12, <1>13, <1>14

-----------------------------------------------------------------------------
\* Areas are in order and apart, and a private area writes into an object of its own process (vmmap.c,
\* fork.c), for any number of processes, objects and pages.
THEOREM SpacesApart == Spec => []AddressSpaces
<1>1. IInv => AddressSpaces
  BY AreasGood DEF AddressSpaces
<1> QED BY <1>1, InductiveInvariant, PTL

\* mmo_refcount counts the areas, the shadow objects above and the resident pages, whatever is mapped,
\* cut, forked, migrated or put; an object is free when the first two are none.
THEOREM CountsExact == Spec => []RefCounts
BY RefsGood, InductiveInvariant, PTL

\* No translation outlives its area or its page, and no page can be written through a translation that
\* does not lead to the top object of its area.
THEOREM TranslationsLead == Spec => []Translations
BY TranslationsGood, InductiveInvariant, PTL

=============================================================================
