SPECIFICATION Spec
CONSTANTS
    Users = {alice, bob, carol}
    Creator = alice
    Ids = {t1, t2}
    Calls = {c1, c2}
    Ttl = 2
    AcceptLease = 1
    MaxClock = 2
    MaxCalls = 5
    MaxClaims = 2
    MaxDisputes = 2
    MaxFailures = 1
    None = None
SYMMETRY OwnershipSymmetry
INVARIANTS
    TransfersMatchOwner
PROPERTIES
    OnlyTheOwnerGivesAway
    DisputeHolds
    
CHECK_DEADLOCK FALSE
