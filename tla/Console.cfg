SPECIFICATION Spec
CONSTANTS
    Groups <- MCGroups
    Events <- MCEvents
    HeatEdges <- MCHeatEdges
    Sessions = {1, 2}
    MaxEvents = 2
    Outcomes <- MCOutcomes
    Requests <- MCRequests
    Replays <- MCReplays
    Flags <- MCFlags
    TTLs <- MCTTLs
    MaxTokens = 3
    MaxNow = 2
    MaxLives = 3
    traceBufCap = 2
    latencyMaxCols = 2
    maxRetainedShares = 2
    defaultReproduceAttempts = 2
    maxReproduceAttempts = 2
INVARIANTS
    
    NoLostVerdict
    FramesHonest
PROPERTIES
    ShareEviction
    HistoryKept
CHECK_DEADLOCK FALSE
