SPECIFICATION FairSpec
CONSTANTS
    a = a
    b = b
    c = c
    Configs <- MCConfigs
    Typed <- MCTyped
    ErrorName = ErrorName
    NoName = NoName
    Unset <- MCUnset
    Unsaved = Unsaved
    NoChoice = NoChoice
    MaxPlugs = 1
    MaxSaves = 2
    MaxOpens = 1
INVARIANTS
    TypeOK
    PluginFollowsSaved
    PortsBelongTogether
PROPERTIES
    NamedPortOpens
    VirtualOpens
CHECK_DEADLOCK FALSE
