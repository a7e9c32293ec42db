\* One identifier that keeps trying for longer than a window.
SPECIFICATION Spec
CONSTANTS
    u1 = u1
    u2 = u2
    Identifiers = {u1}
    MaxRequests = 2
    WindowSeconds = 2
    TicksPerSecond = 2
    Lag = 1
    MaxTime = 8
    MaxAttempts = 5
    MaxFaults = 1
INVARIANTS
    TypeOK
    WindowLimit
    DeniedOnlyWhenBusy
    RetryAfterPositive
PROPERTY ImplementsSlidingWindow
