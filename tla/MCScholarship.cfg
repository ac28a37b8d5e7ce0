SPECIFICATION Spec
CONSTANTS
    l1 = l1
    m1 = m1
    m2 = m2
    i1 = i1
    None = None
    Learners = {l1}
    Materials = {m1, m2}
    Issuers = {i1}
    Amounts = {1, 2}
    Costs = {2}
    MAX_ACTIVE_SCHOLARSHIP_GRANTS = 3
    MaxGrants = 3
    MaxLedger = 2
INVARIANTS CreditsAddUp GrantsCoverRedemption
PROPERTY EarliestExpiryFirst
SYMMETRY MaterialSymmetry
CHECK_DEADLOCK FALSE
