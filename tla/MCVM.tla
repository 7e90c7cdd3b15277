-------------------------------- MODULE MCVM --------------------------------
(* Constants of VM for TLC.  A program is one area at the top of user      *)
(* memory, for its stack and its data, and its break is in that page: its  *)
(* heap cannot grow.                                                       *)
EXTENDS VM, TLC

MCImage == <<[start |-> HIGH - 1, end |-> HIGH, prot |-> "rw"]>>
MCBrks  == {[page |-> HIGH - 1, aligned |-> FALSE]}

(* Processes and objects are told apart by their areas alone, and which    *)
(* free object is taken makes no difference.                               *)
Symmetry == Permutations(Proc) \cup Permutations(Obj)
=============================================================================
