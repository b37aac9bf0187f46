CONSTANTS
    None = None
    Contracts = {c1, c2}
    Codes = {k1}
    PrivilegeTypes = {gov, valset, endblock}
    SingletonTypes = {valset}
    GovExecutor = gov
    MaxPos = 2
    MaxDepth = 2
    MaxGas = 3
SPECIFICATION Spec
SYMMETRY Symmetry
INVARIANTS DemotedHasNoPrivileges
