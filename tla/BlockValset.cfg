CONSTANTS
    None = None
    Contracts = {a}
    Validators = {v, w}
    Votes = {x}
    MaxPos = 1
    MaxCrashes = 2
SPECIFICATION FairSpec
INVARIANTS ValsetInSync UpdateIsFinal
PROPERTIES ChangesReachTendermint
