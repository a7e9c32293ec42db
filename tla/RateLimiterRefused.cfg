\* Are refused requests taken out of the window again?
SPECIFICATION Spec
CONSTANTS
    u1 = u1
    u2 = u2
    Identifiers = {u1, u2}
    MaxRequests = 1
    WindowSeconds = 1
    TicksPerSecond = 2
    Lag = 0
    MaxTime = 2
    MaxAttempts = 3
    MaxFaults = 0
INVARIANT RefusedRequestsRemoved
