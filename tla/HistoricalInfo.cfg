CONSTANTS
    EntryNums = {1, 2, 3, 5}
    MaxHeight = 9
SPECIFICATION Spec
INVARIANTS KeepsOnlyWindow
PROPERTIES KeepsWindow
