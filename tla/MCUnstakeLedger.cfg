CONSTANTS
    s1 = s1
    s2 = s2
    Stakers = {s1, s2}
    base_token = base_token
    NoTime = NoTime
    NoState = NoState
    DECIMAL_FRACTION = 4
    TaxRate = 1
    TaxCap = 1
    TokenAmounts = {0, 1, 2}
    DepositAmounts = {}
    TokenSupply = 2
    MaxFunds = 0
    MaxMultiplier = 0
    unstake_delay = 2
    StartTime = 0
    MaxTime = 4
SYMMETRY Symmetry
SPECIFICATION LedgerSpec
INVARIANTS
    TokensBacked
    NotBeforeDelay
    ReturnedAfterDelay
PROPERTIES
    ImplementsVault
