CONSTANTS
    a1 = a1
    a2 = a2
    a3 = a3
    Names <- MCNames
    Addrs = {a1, a2, a3}
    None = None
    NoState = NoState
    collector_addr = collector
    RATE_SEC_DENOM = 2
    U64 = 64
    DECIMAL_FRACTION = 10
    TaxRate = 2
    TaxCap = 1
    Rates = {0, 1, 2}
    Deposits = {0, 1, 2, 3, 6}
    min_lease_secs = 2
    max_lease_secs = 6
    counter_delay_secs = 2
    transition_delay_secs = 1
    bid_delay_secs = 2
    StartTime = 3
    MaxTime = 9
    NoName = NoName
    NoLimit = NoLimit
    Limits = {1, NoLimit}
    DEFAULT_LIMIT = 2
    MAX_LIMIT = 3
SPECIFICATION FairSpec
PROPERTIES
    ImplementsRegistry
    ImplementsPaging
    OnlyTimeOwes
    StandingBidIsDecided
