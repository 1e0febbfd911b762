SPECIFICATION ImportSpec
CONSTANTS
    Documents <- AllDocuments
    Recordings <- MCRecordings
    Names <- MCNames
INVARIANTS
    JourneySound
    WalkSound
    
CHECK_DEADLOCK FALSE
