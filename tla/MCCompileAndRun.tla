-------------------------- MODULE MCCompileAndRun --------------------------
(* Model checking of CompileAndRun: the jobs and priorities that belong to  *)
(* the requests of the cfg.                                                 *)
EXTENDS CompileAndRun

MCInputs == <<3, 1>>
MCJobs == UNION {{r} \X (0 .. MCInputs[r]) : r \in DOMAIN MCInputs}
MCPriority == [j \in MCJobs |-> -j[1]]
=============================================================================
