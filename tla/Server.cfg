SPECIFICATION FairSpec
CONSTANTS
    Requests = {q1}
    Served <- Shapes
    Sockets = {s1}
    Stops = {p1, p2}
    MaxOutages = 1
INVARIANTS
    TypeOK
    NoServiceAfterQuit
    RoomsSurviveRedis
PROPERTIES
    GhostsHaveACause
    EveryRequestAnswered
    StopsWhenQuiet
CHECK_DEADLOCK FALSE
