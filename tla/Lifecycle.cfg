SPECIFICATION Spec
CONSTANTS
    MaxSeq = 4
    MaxLive = 2
    Cap = 2
    Kinds <- OneKind
    StoreOutcomes = {TRUE}
    MaxEpoch = 1
INVARIANTS
    StoredStatusFinal
    ShutdownRecords
PROPERTIES
    StatusFinal
    
CHECK_DEADLOCK FALSE
