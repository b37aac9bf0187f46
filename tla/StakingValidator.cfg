\* One operator, larger amounts, engagement points.
CONSTANTS
    a = a
    b = b
    Operators = {a}
    Balance <- SingleBalance
    Vesting <- SingleVesting
    Fees = {0, 1}
    Amounts = {0, 1, 2}
    InitialPoints = {0, 1}
    MinDelegation = 2
    MaxPoints = 2
    MaxMint = 1
SPECIFICATION Spec
INVARIANTS
    ModulesArePassedThrough
    VestingStakeIsTracked
PROPERTIES
    RegistrationHasStake
    PointsAreNotLowered
