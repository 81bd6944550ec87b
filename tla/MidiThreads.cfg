SPECIFICATION FairSpec
CONSTANTS
    Messages <- MCMessages
    DisposeWaits = {TRUE, FALSE}
    None = None
    MaxSettings = 2
    MaxSent = 1
    MaxReceived = 2
INVARIANTS
    TypeOK
    HandlerSeesPort
PROPERTIES
    WholeMessages
    CallbackReturns
    SettingsReturn
    TimerReturns
CHECK_DEADLOCK FALSE
