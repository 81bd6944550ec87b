SPECIFICATION Spec
CONSTANTS
    FadeTimes <- Times
    FadeCurves <- Curves
    CurveProgress <- MCCurveProgress
    CurveSpan <- MCCurveSpan
    Contexts <- Six
    ActionOf <- AllActions
    InMultiAction = {}
    Payloads <- AllPayloads
    Given <- OneGroupGiven
    Garbage <- WildValues
    NoEntry = NoEntry
    Null = Null
CONSTRAINT OneGroup
INVARIANTS
    IndexInBounds
    HoldsLastEntry
    ValueInRange
    HeldFadesForward
    FadeIsConfigured
    ResumesInItsDirection
    ControllerFollowsFade
    ToggleEndsItsNote
    NoteEndsWithKey
PROPERTIES
    FadeApproaches
