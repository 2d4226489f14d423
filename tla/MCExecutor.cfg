\* Two boxes for four jobs; a timed-out isolate process may live on for two of the jobs;
\* former processes have left something in the box that is taken first.
CONSTANTS
  j1 = j1
  j2 = j2
  j3 = j3
  j4 = j4
  Nobody = Nobody
  Jobs <- MCJobs
  Priority <- MCPriority
  BoxCount = 2
  Unkillable = {j1, j2}
  LeftBoxes = {1}
SPECIFICATION Spec
INVARIANTS BoxExclusive GrantHasBox NoIdlePermit NeverInUse OwnResult
PROPERTIES NoOvertaking ImplementsPool EveryJobEnds
