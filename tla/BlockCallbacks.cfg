CONSTANTS
    None = None
    Contracts = {a, b}
    Validators = {v}
    Votes = {x, y}
    MaxPos = 3
    MaxCrashes = 2
SPECIFICATION Spec
SYMMETRY Symmetry
INVARIANTS TypeOK ReadsOwnVotes AllAreCalled
