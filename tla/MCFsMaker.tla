----------------------------- MODULE MCFsMaker -----------------------------
(* Constants of FsMaker for TLC: paths of one and two names, the current   *)
(* directory's parent, and an absolute path.                               *)
EXTENDS FsMaker, TLC

Rel(segs) == [abs |-> FALSE, segs |-> segs]
MCPath ==
  {Rel(<<"a">>), Rel(<<"b">>), Rel(<<"a", "b">>), Rel(<<"..">>), [abs |-> TRUE, segs |-> <<"a">>]}
=============================================================================
