CONSTANTS
    Resolvers = {v1}
    None = None
    Happening = {"completed", "refunded", "disputed", "resolvedRefund", "resolvedRelease"}
    MaxLedger = 3
    MaxReorgs = 1
    MaxFailures = 0
    Limit = 2
    MaxCheckpoints = 2
SPECIFICATION Spec
INVARIANTS
    RefundedStaysDenied
    AccessFollowsTheChain
CHECK_DEADLOCK FALSE
