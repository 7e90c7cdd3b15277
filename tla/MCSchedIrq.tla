----------------------------- MODULE MCSchedIrq -----------------------------
EXTENDS SchedIrq

CONSTANTS t1, t2, t3

MCThread == {t1, t2, t3}
=============================================================================
