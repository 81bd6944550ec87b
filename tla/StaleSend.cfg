SPECIFICATION Spec
CONSTANTS
    FadeTimes <- Times
    FadeCurves <- Curves
    CurveProgress <- MCCurveProgress
    CurveSpan <- MCCurveSpan
    Contexts <- One
    ActionOf <- OneToggle
    InMultiAction = {}
    Payloads <- RaisedPayloads
    Given <- AnyGiven
    Garbage <- TameValues
    NoEntry = NoEntry
    Null = Null
INVARIANT SendsFadeValue
