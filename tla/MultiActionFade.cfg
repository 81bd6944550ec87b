SPECIFICATION Spec
CONSTANTS
    FadeTimes <- Times
    FadeCurves <- Curves
    CurveProgress <- MCCurveProgress
    CurveSpan <- MCCurveSpan
    Contexts <- One
    ActionOf <- OneToggle
    InMultiAction = {1}
    Payloads <- RaisedPayloads
    Given <- AnyGiven
    Garbage <- TameValues
    NoEntry = NoEntry
    Null = Null
PROPERTY MultiActionStartsFade
