CONSTANTS
    None = None
    Intervals = {1, 2}
    Rates <- MCRates
    Unit = 2
    Webhooks <- MCWebhooks
    MaxTime = 2
    MaxLosses = 2
SPECIFICATION BillingSpec
INVARIANTS
    LedgerIsExact
    PolarCountsDebits
    SubscriptionIsLatest
PROPERTIES
    BillingCompletes
CHECK_DEADLOCK FALSE
