CONSTANTS
    a1 = a1
    a2 = a2
    n1 = n1
    Names = {n1}
    Addrs = {a1, a2}
    None = None
    NoState = NoState
    collector_addr = collector
    RATE_SEC_DENOM = 3
    U64 = 64
    DECIMAL_FRACTION = 10
    TaxRate = 2
    TaxCap = 1
    Rates = {0, 1, 2, 3}
    Deposits = {0, 1, 2, 3, 4, 6}
    min_lease_secs = 2
    max_lease_secs = 6
    counter_delay_secs = 2
    transition_delay_secs = 1
    bid_delay_secs = 2
    StartTime = 3
    MaxTime = 10
SYMMETRY Symmetry
SPECIFICATION LedgerSpec
INVARIANTS
    TypeOK
    TimesOrdered
    LeaseWithinBounds
    SpentWithinDeposit
    ReportedTimesAgree
    FreshNameHasNoController
    NeverUndercharged
    OverchargeBounded
    LapsesOnlyWhenPaidUp
PROPERTIES
    OwnerKeepsName
    ContestedRateNeverFalls
