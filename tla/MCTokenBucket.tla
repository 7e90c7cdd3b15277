--------------------------- MODULE MCTokenBucket ---------------------------
(* Constants of TokenBucket for TLC: two packets, of which one may wait    *)
(* behind the other in a queue, two servers, and a packet that may need    *)
(* more than the bucket holds.                                             *)
EXTENDS TokenBucket, TLC

CONSTANTS s1, s2

MCServer == {s1, s2}
=============================================================================
