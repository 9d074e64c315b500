------------------------------ MODULE MCJobQueue ------------------------------
(* An instance of JobQueue for TLC: two pushes and a mail. *)
EXTENDS JobQueue, TLC

CONSTANTS p1, p2, m1

MCJobs == {p1, p2, m1}
MCQueue == [j \in MCJobs |-> IF j = m1 THEN "mail" ELSE "push"]
=============================================================================
