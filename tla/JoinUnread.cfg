SPECIFICATION Spec
CONSTANTS
    None = None
    alice = alice
    bob = bob
    lobby = lobby
    den = den
    s1 = s1
    s2 = s2
    m1 = m1
    h1 = h1
    h2 = h2
    Users = {alice, bob}
    Sockets = {s1, s2}
    UserOf <- OneEach
    Rooms = {lobby}
    MessageIds = {m1}
    Handlers = {h1}
    Founders <- AllMembers
    OnlineTtl = 2
    Events = {"join", "send"}
    Punctual = TRUE
    EarlyClose = FALSE
    DbFaults = FALSE
    MaxCrashes = 0
PROPERTY JoinMarksAllRead
CHECK_DEADLOCK FALSE
