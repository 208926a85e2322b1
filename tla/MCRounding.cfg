CONSTANTS
    RATE_SEC_DENOM = 7
    U64 = 1024
    DECIMAL_FRACTION = 10
    MaxAmount = 50
    MaxRate = 9
    MaxTaxRate = 12
    MaxTaxCap = 5
SPECIFICATION Spec
INVARIANTS
    TransferFits
    TransferNearlyLargest
    RoundingsAgree
