SPECIFICATION FairSpec
CONSTANTS
    Effects = {e1, e2}
    Workers = {w1, w2}
    Enqueuers = {q1}
    maxAttempts = 3
    LeaseTtl = 2
    MaxJobTime = 1
    MaxFailures = 1
    MaxReplays = 0
    NoEffect = NoEffect
INVARIANT LeasesAreSound
PROPERTY EveryEffectResolves
