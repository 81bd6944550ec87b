SPECIFICATION FairSpec
CONSTANTS
    m_tick = 2
    Durations = {2, 5}
    MaxEvents = 2
    MaxTime = 6
INVARIANTS
    TypeOK
    OnSchedule
PROPERTIES
    CancelledStops
    TicksInTime
    DestroyReturns
CHECK_DEADLOCK FALSE
