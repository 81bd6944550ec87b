SPECIFICATION Spec
CONSTANTS
    FadeTimes <- Times
    FadeCurves <- Curves
    CurveProgress <- MCCurveProgress
    CurveSpan <- MCCurveSpan
    Contexts <- One
    ActionOf <- OneCC
    InMultiAction = {}
    Payloads <- PlainPayloads
    Given <- AnyGiven
    Garbage <- TameValues
    NoEntry = NoEntry
    Null = Null
INVARIANT ReadsInTable
