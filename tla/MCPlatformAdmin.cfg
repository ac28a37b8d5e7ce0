SPECIFICATION AuthoritySpec
CONSTANTS
    a1 = a1
    a2 = a2
    a3 = a3
    t1 = t1
    t2 = t2
    Contract = Contract
    Absent = Absent
    Addresses = {a1, a2, a3}
    Deployer = a1
    Treasuries = {t1, t2, Contract}
    Fees = {0, 1, 2}
    MAX_PLATFORM_FEE_BPS = 1
    MIN_ADMIN_TRANSFER_DELAY_SECS = 2
    Delays = {1, 2, 3}
    MaxTime = 7
INVARIANTS AuthorityTypeOK AuthorityIsSingle
PROPERTIES HandoverIsDelayed TreasuryNeedsTwoPeople
CHECK_DEADLOCK FALSE
