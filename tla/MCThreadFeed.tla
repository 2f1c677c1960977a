----------------------------- MODULE MCThreadFeed -----------------------------
(* ThreadFeed on a small instance. *)
EXTENDS ThreadFeed

CONSTANTS f1, t1, t2

OneFollower == {f1}
TwoWriters == {t1, t2}

=============================================================================
