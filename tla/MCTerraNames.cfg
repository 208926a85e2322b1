CONSTANTS
    a1 = a1
    a2 = a2
    s1 = s1
    n1 = n1
    v1 = v1
    Values = {v1}
    NoValue = NoValue
    Names = {n1}
    Addrs = {a1, a2}
    None = None
    NoState = NoState
    collector_addr = collector
    RATE_SEC_DENOM = 3
    U64 = 64
    DECIMAL_FRACTION = 10
    TaxRate = 5
    TaxCap = 1
    Rates = {2, 3}
    Deposits = {2, 3, 5}
    min_lease_secs = 2
    max_lease_secs = 5
    counter_delay_secs = 1
    transition_delay_secs = 0
    bid_delay_secs = 1
    StartTime = 2
    MaxTime = 6
    Stakers = {s1}
    base_token = base_token
    NoTime = NoTime
    TokenAmounts = {1}
    DepositAmounts = {}
    TokenSupply = 1
    MaxFunds = 5
    MaxMultiplier = 20
    unstake_delay = 1
SYMMETRY Symmetry
SPECIFICATION SystemSpec
INVARIANTS
    AcceptedCallsSucceed
    HeldNamesResolve
PROPERTIES
    ValueSetOnlyWhileHeld
    AuctionKeepsOnlyDust
