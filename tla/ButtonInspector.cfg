SPECIFICATION FairSpec
CONSTANTS
    FadeTimes <- Times
    FadeCurves <- Curves
    CurveProgress <- MCCurveProgress
    CurveSpan <- MCCurveSpan
    Null = Null
    Contexts <- Two
    ActionOf <- OneFades
    Second = 400
    Inputs <- MCInputs
    NoEntry = NoEntry
    Nothing = Nothing
    MaxSaves = 2
    MaxQueue = 3
INVARIANTS
    TypeOK
    PluginUsesSaved
    FormShowsSaved
PROPERTIES
    ChangesOneSetting
    SettingsArrive
CHECK_DEADLOCK FALSE
