CONSTANTS
    s1 = s1
    s2 = s2
    Stakers = {s1, s2}
    base_token = base_token
    NoTime = NoTime
    NoState = NoState
    DECIMAL_FRACTION = 3
    TaxRate = 2
    TaxCap = 1
    TokenAmounts = {1, 2}
    DepositAmounts = {0, 1, 2}
    TokenSupply = 2
    MaxFunds = 3
    MaxMultiplier = 3
    unstake_delay = 0
    StartTime = 0
    MaxTime = 0
SYMMETRY Symmetry
SPECIFICATION LedgerSpec
INVARIANTS
    TypeOK
    TotalStakedIsSum
    DividendFollowsStake
    ShortfallBounded
