\* Judge: outputs of up to 3 characters against expected texts of up to 4; all
\* fates of runs, sources and faults.  Contract: bodies at the limits.  Saves and
\* UniqueNames: 2 saves, 2 requests; 2 rows, 2 names, 3 requests.
CONSTANTS
  Problems <- MCProblems
  Solutions <- MCSolutions
  Submissions <- MCSubmissions
  Filters <- MCFilters
  LostReports <- MCLostReports
  TimeLimit = 1000
  MaxSubmissions = 2
  Bodies <- MCBodies
  Programs <- MCPrograms
  Runs <- MCRuns
  Null = Null
  Huge = Huge
  SaveIds = {1, 2}
  Codes = {a, b}
  Savers = {1, 2}
  MaxTime = 1
  NoSave = NoSave
  RowIds = {x, y}
  Names = {n, m}
  Writers = {u, v, w}
  NoName = NoName
SPECIFICATION Spec
INVARIANTS AcceptedMeansPassed CodesNameCause VerifiedIsAccepted CompletionAgrees
INVARIANTS RequestsAccepted LatestFound NamesGuarded
PROPERTIES PlainBodiesStored
