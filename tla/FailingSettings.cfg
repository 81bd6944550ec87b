SPECIFICATION FairSpec
CONSTANTS
    FadeTimes <- Times
    FadeCurves <- Curves
    CurveProgress <- MCCurveProgress
    CurveSpan <- MCCurveSpan
    Contexts <- Two
    ActionOf <- ToggleAndNote
    InMultiAction = {1}
    Payloads <- FailingPayloads
    Given <- AnyGiven
    Garbage <- TameValues
    NoEntry = NoEntry
    Null = Null
INVARIANTS
    TypeOK
PROPERTIES
    FadeEnds
    TickIsCleared
CHECK_DEADLOCK FALSE
