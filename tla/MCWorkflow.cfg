SPECIFICATION Spec
CONSTANTS
    Workflows = {w1}
    Workers = {u1, u2}
    Metadata <- MCMetadata
    maxRetries = 2
    MaxFailures = 2
    MaxRecoveries = 1
INVARIANTS
    RecordsMatchCommits
PROPERTIES
    
    ReconciliationEnds
CHECK_DEADLOCK FALSE
