\* Two operators, money only: points are switched off.
CONSTANTS
    a = a
    b = b
    Operators = {a, b}
    Balance <- MixedBalance
    Vesting <- MixedVesting
    Fees = {0, 1}
    Amounts = {0, 1}
    InitialPoints = {0}
    MinDelegation = 1
    MaxPoints = 0
    MaxMint = 0
SPECIFICATION Spec
INVARIANTS
    TypeOK
    StakeIsBacked
    LockedStaysInAccount
