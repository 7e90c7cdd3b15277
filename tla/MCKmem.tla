------------------------------- MODULE MCKmem -------------------------------
(* Constants of Kmem for TLC. *)
EXTENDS Kmem
=============================================================================
