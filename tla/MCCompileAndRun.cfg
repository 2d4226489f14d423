\* Two requests, the older with three inputs, compete for two boxes; one crash.
CONSTANTS
  Inputs <- MCInputs
  Jobs <- MCJobs
  Priority <- MCPriority
  BoxCount = 2
  MaxCrashes = 1
SPECIFICATION CSpec
INVARIANTS FindsExecutable OutputsOfOwnCode StorageReleased
PROPERTIES RequestAnswered
