SPECIFICATION Spec
CONSTANTS
    Bits = 30
    HalfBits = 15
    MaxParts = 2
    Reads <- MCReads
    Writes <- MCWrites
    Sizes <- MCSizes
    Messages <- MCMessages
    UnknownFields <- MCUnknownFields
    DamagedFields <- MCDamagedFields
INVARIANTS TypeOK RoundTrip CutKeepsWholeFields  EveryTurnAdvances
CHECK_DEADLOCK FALSE
