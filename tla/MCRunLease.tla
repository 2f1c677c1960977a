---------------------------- MODULE MCRunLease ----------------------------
(* Small instances of RunLease for TLC. *)
EXTENDS RunLease

CONSTANTS h1, h2, w1, w2

Two     == {h1, h2}
Workers == {w1, w2}

\* Both executions run in one process: a job and its duplicate.
SameProcess == [h \in Two |-> w1]
\* Every execution in a process of its own.
OwnProcess == [h \in Two |-> IF h = h1 THEN w1 ELSE w2]
=============================================================================
