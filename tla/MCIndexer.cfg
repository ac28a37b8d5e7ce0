CONSTANTS
    Resolvers = {}
    None = None
    Happening = {"completed", "refunded", "disputed", "released", "resolvedRelease"}
    MaxLedger = 3
    MaxReorgs = 1
    MaxFailures = 1
    Limit = 2
    MaxCheckpoints = 2
SPECIFICATION Spec
INVARIANTS
    
    NothingLeftBehind
    
PROPERTIES
    CatchesUp
CHECK_DEADLOCK FALSE
