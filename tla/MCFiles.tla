------------------------------ MODULE MCFiles ------------------------------
(* Constants of Files for TLC. *)
EXTENDS Files

Abs(dirs, name) == [abs |-> TRUE, dirs |-> dirs, name |-> name]
Rel(dirs, name) == [abs |-> FALSE, dirs |-> dirs, name |-> name]

MCProc == 1 .. 2
TreeProc == {1}
MCFileId == 1 .. 2

(* Descriptors: one name, and one that leads through it. *)
FdPath == {Abs(<<>>, "a"), Abs(<<"a">>, "a")}
FdOFlags == {"O_RDWR|O_CREAT", "O_RDWR|O_APPEND"}

(* The tree: names below the working directory, and what is around it.     *)
TreePath == {Rel(<<>>, "a"), Rel(<<>>, "b"), Rel(<<>>, ".."), Abs(<<>>, "a")}
TreeOFlags == {"O_RDONLY|O_CREAT"}
TreeFileId == {1}

=============================================================================
