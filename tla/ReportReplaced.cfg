SPECIFICATION Spec
CONSTANTS
    MaxSeq = 2
    MaxLive = 1
    Cap = 1
    Kinds <- OneKind
    StoreOutcomes = {TRUE}
    MaxEpoch = 2
PROPERTY
    StoredReportKept
CHECK_DEADLOCK FALSE
