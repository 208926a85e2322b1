CONSTANTS
    s1 = s1
    s2 = s2
    Stakers = {s1, s2}
    base_token = base_token
    NoTime = NoTime
    NoState = NoState
    DECIMAL_FRACTION = 3
    TaxRate = 1
    TaxCap = 1
    TokenAmounts = {0, 1, 2}
    DepositAmounts = {0, 1, 3}
    TokenSupply = 2
    MaxFunds = 3
    MaxMultiplier = 4
    unstake_delay = 1
    StartTime = 0
    MaxTime = 2
SYMMETRY Symmetry
SPECIFICATION Spec
INVARIANTS
    Solvent
