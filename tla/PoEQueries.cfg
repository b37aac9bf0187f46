SPECIFICATION Spec
CONSTANTS
    N = 3
    NoText = NoText
    Malformed = Malformed
    PubKeyTypes <- MCPubKeyTypes
    PageDefault = 2
    PageMax = 2
    Limits <- MCLimits
    Uint64 = 3
    Amounts <- MCAmounts
    Stakers <- MCStakers
    MaxChanges = 4
INVARIANTS
    ListingsAreComplete
    PagesCoverAll
    ServersAgree
    HoldingsAreReported
PROPERTY SessionEnds
