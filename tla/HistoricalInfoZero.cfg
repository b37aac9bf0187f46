CONSTANTS
    EntryNums = {0, 1, 3}
    MaxHeight = 7
SPECIFICATION Spec
INVARIANTS KeepsOnlyWindow
