---------------------------- MODULE MCZilCommit ----------------------------
(* Workloads of ZilCommit for model checking. *)
EXTENDS ZilCommit, TLC

CONSTANTS t1, t2, t3

Ztest2 == [ztest |-> TRUE, threads |-> {t1, t2}, ops |-> 3, txgs |-> 3, commits |-> 2]
Files3 == [ztest |-> FALSE, threads |-> {t1, t2, t3}, ops |-> 2, txgs |-> 1, commits |-> 3]
Files2 == [ztest |-> FALSE, threads |-> {t1, t2}, ops |-> 3, txgs |-> 1, commits |-> 1]

Both == {Ztest2, Files3}
Files == {Files2}

\* Threads that every workload has.
ThreadSymmetry == Permutations({t1, t2})
=============================================================================
