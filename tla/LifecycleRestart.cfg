SPECIFICATION FairSpec
CONSTANTS
    MaxSeq = 2
    MaxLive = 1
    Cap = 1
    Kinds <- TwoKinds
    StoreOutcomes = {TRUE, FALSE}
    MaxEpoch = 2
INVARIANTS
    NeverLost
PROPERTIES
    CommandsEnd
CHECK_DEADLOCK FALSE
