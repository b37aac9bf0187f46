CONSTANTS
    None = None
    Contracts = {c1, c2}
    Codes = {k1, k2}
    PrivilegeTypes = {gov, valset}
    SingletonTypes = {valset}
    GovExecutor = gov
    MaxPos = 2
    MaxDepth = 3
    MaxGas = 2
SPECIFICATION Spec
SYMMETRY Symmetry
INVARIANTS
    TypeOK
    IndexMatchesDetails
    RemovalTouchesOwnKeysOnly
PROPERTIES
    OnlyPrivilegedRegister
    DemotionKeepsSharedPins
    ImplementsRegistry
