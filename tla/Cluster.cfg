SPECIFICATION Spec
CONSTANTS
  Lows <- MCLows
  Codes <- MCCodes
  APIs <- MCAPIs
  MaxEvidence = 2
  WorkerCount = 2
  TotalUsers = 3
  MaxSteps = 1
  Kinds <- MCKinds
  Pools <- MCPools
  Findings <- MCFindings
INVARIANTS
    WholeRun
    MergeExact
    EvidenceReplays
PROPERTIES
    Returns
CHECK_DEADLOCK FALSE
