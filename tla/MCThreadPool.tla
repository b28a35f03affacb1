---------------------------- MODULE MCThreadPool ----------------------------
(* Six tasks, two of which submit one of the others: with two workers and  *)
(* a queue of two places both workers can come to wait in a nested Run.    *)
EXTENDS ThreadPool, TLC

CONSTANTS t1, t2, t3, t4, t5, t6

MCTasks == {t1, t2, t3, t4, t5, t6}
MCSpawns == (t1 :> t3) @@ (t2 :> t4) @@ [x \in {t3, t4, t5, t6} |-> NoTask]
=============================================================================
