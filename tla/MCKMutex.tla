------------------------------ MODULE MCKMutex ------------------------------
EXTENDS KMutex

CONSTANTS t1, t2, t3

MCThread     == {t1, t2, t3}
MCWaitQueue  == {KmWaitQ, DevQ}
MCStartOrder == <<t1, t2, t3>>
=============================================================================
