SPECIFICATION FairSpec
CONSTANTS
    None = None
    alice = alice
    bob = bob
    lobby = lobby
    den = den
    s1 = s1
    s2 = s2
    m1 = m1
    h1 = h1
    h2 = h2
    Users = {alice}
    Sockets = {s1}
    UserOf <- Alone
    Rooms = {lobby}
    MessageIds = {m1}
    Handlers = {h1}
    Founders <- AllMembers
    OnlineTtl = 2
    Events = {"disconnect", "time"}
    Punctual = FALSE
    EarlyClose = TRUE
    DbFaults = FALSE
    MaxCrashes = 0
PROPERTY DisconnectedFadesOut
