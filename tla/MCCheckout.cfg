SPECIFICATION MarketplaceSpec
CONSTANTS
    Accounts = {u1, u2}
    MIN_ADMIN_TRANSFER_DELAY_SECS = 1
    Delays = {0, 1}
    Buyers = {b1}
    Materials = {m1}
    Assets = {xlm}
    Prices = {10, 20}
    FeeRates = {1}
    BASIS_POINTS = 10
    ESCROW_LOCK_PERIOD_LEDGERS = 1
    DISPUTE_WINDOW_LEDGERS = 1
    MAX_BULK_LICENSE_RECIPIENTS = 1
    MAX_MAINTENANCE_BATCH = 1
    QuoteTtl = 0
    MaxPurchases = 1
    MaxLedger = 1
    MaxVersion = 2
    NoRecord = NoRecord
SYMMETRY AccountSymmetry
INVARIANT RegistryIsSound
INVARIANT QuoteShowsCurrentPrice
PROPERTY HandoverIsAnnounced
PROPERTY ImplementsPurchaseManager
CHECK_DEADLOCK FALSE
