---------------------------- MODULE MCPageCache ----------------------------
(* Constants of PageCache for TLC. *)
EXTENDS PageCache, TLC

Symmetry == Permutations(Thread) \cup Permutations(Page) \cup Permutations(Frame)
=============================================================================
