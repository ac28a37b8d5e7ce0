SPECIFICATION Spec
CONSTANTS
    Effects = {e1, e2}
    Workers = {w1, w2}
    Enqueuers = {q1}
    maxAttempts = 3
    LeaseTtl = 1
    MaxJobTime = 2
    MaxFailures = 0
    MaxReplays = 1
    NoEffect = NoEffect
SYMMETRY OutboxSymmetry
INVARIANT OrderedDelivery
