SPECIFICATION SettlementSpec
CONSTANTS
    Buyers = {b1, b2}
    Materials = {m1}
    Assets = {xlm}
    Prices = {10, 15}
    FeeRates = {1}
    BASIS_POINTS = 10
    ESCROW_LOCK_PERIOD_LEDGERS = 2
    DISPUTE_WINDOW_LEDGERS = 1
    MAX_BULK_LICENSE_RECIPIENTS = 2
    MAX_MAINTENANCE_BATCH = 2
    QuoteTtl = 1
    MaxPurchases = 3
    MaxLedger = 3
    MaxVersion = 1
    NoRecord = NoRecord
SYMMETRY BuyerSymmetry
INVARIANT SettlementMatchesEscrow
INVARIANT TypeOK
INVARIANT EntitlementBacked
INVARIANT LivePurchaseGrantsAccess
INVARIANT Solvent
PROPERTY TerminalIsFinal
PROPERTY NoReleaseInDisputeWindow
PROPERTY ImplementsSettlement
CHECK_DEADLOCK FALSE
