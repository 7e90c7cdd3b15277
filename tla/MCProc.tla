------------------------------- MODULE MCProc -------------------------------
EXTENDS Proc

MCThread    == 0 .. PROC_MAX_COUNT - 1
MCWaitQueue == {p_wait(p) : p \in MCThread} \cup {DiskQ, TtyQ, PageoutdQ}
=============================================================================
