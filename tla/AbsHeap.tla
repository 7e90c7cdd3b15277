------------------------------ MODULE AbsHeap ------------------------------
(***************************************************************************)
(* What the kernel's memory allocators promise: a piece of memory that is  *)
(* handed out overlaps nothing that is in use, whether a caller has it or  *)
(* the allocators need it for their own records.  A piece is the words     *)
(* from its lo to before its hi.                                           *)
(***************************************************************************)
EXTENDS Integers

CONSTANT Size   \* words of memory

VARIABLES
  given,   \* the pieces that callers have
  own      \* the pieces that hold the allocators' records

heapvars == <<given, own>>

Piece == [lo : 0 .. Size, hi : 0 .. Size]

Apart(b, c) == b.hi <= c.lo \/ c.hi <= b.lo

(* Pieces that come into use are apart from each other and from all that   *)
(* stays in use.                                                           *)
NewPiecesApart ==
  \A b \in (given' \cup own') \ (given \cup own) :
    /\ b \in Piece /\ b.lo < b.hi
    /\ \A c \in given' \cup own' : c = b \/ Apart(b, c)

(* A piece is a caller's or the allocators', and never passes between them *)
(* without being free in between.                                          *)
NoneChangesHands == given' \cap (own \cup own') = {} /\ own' \cap given = {}

Take == \E b \in given' \ given : given' = given \cup {b}
Give == \E b \in given \ given' : given' = given \ {b}

Init ==
  /\ given = {}
  /\ \A b \in own : b \in Piece /\ b.lo < b.hi /\ \A c \in own : c = b \/ Apart(b, c)

Next ==
  /\ Take \/ Give \/ given' = given
  /\ NewPiecesApart
  /\ NoneChangesHands

Spec == Init /\ [][Next]_heapvars
=============================================================================
