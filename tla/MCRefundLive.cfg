SPECIFICATION FairSpec
CONSTANTS
    Purchases = {p1}
    Refunds = {r1}
    Workers = {w1}
    Routes = {a1}
    MAX_SUBMIT_RETRIES = 1
    STUCK_SUBMITTING = 2
    PENDING_TIMEOUT = 3
    TX_TIMEBOUND = 1
    MaxJobTime = 3
    MaxTx = 2
    MaxAbandons = 1
    NoClaim = NoClaim
INVARIANT MirroredOnceAfterPayment
PROPERTIES SettledIsTerminal EveryRefundResolves
