SPECIFICATION Spec
CONSTANTS
    a = a
    b = b
    c = c
    Configs <- OneDevice
    Typed <- MCTyped
    ErrorName = ErrorName
    NoName = NoName
    Unset <- MCUnset
    Unsaved = Unsaved
    NoChoice = NoChoice
    MaxPlugs = 0
    MaxSaves = 1
    MaxOpens = 1
INVARIANT OutOfRangeReported
CHECK_DEADLOCK FALSE
