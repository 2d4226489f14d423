----------------------------- MODULE MCExecutor -----------------------------
(* Model checking of Executor: two boxes and four jobs.  Jobs 2 and 3 have  *)
(* the same priority (two inputs of one submission), job 1 belongs to an    *)
(* older request and job 4 to a newer one.                                  *)
EXTENDS Executor

CONSTANTS j1, j2, j3, j4

MCJobs == {j1, j2, j3, j4}
MCPriority == [j \in MCJobs |-> CASE j = j1 -> 0 [] j = j4 -> -2 [] OTHER -> -1]
=============================================================================
