SPECIFICATION Spec
CONSTANTS
    Messages <- MCMessages
    DisposeWaits = {FALSE}
    None = None
    MaxSettings = 2
    MaxSent = 1
    MaxReceived = 1
INVARIANT UsesLivePorts
CHECK_DEADLOCK FALSE
