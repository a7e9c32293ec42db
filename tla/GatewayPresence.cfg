SPECIFICATION FairSpec
CONSTANTS
    None = None
    alice = alice
    bob = bob
    lobby = lobby
    den = den
    s1 = s1
    s2 = s2
    m1 = m1
    h1 = h1
    h2 = h2
    Users = {alice}
    Sockets = {s1, s2}
    UserOf <- TwoDevices
    Rooms = {lobby, den}
    MessageIds = {m1}
    Handlers = {h1}
    Founders <- AllMembers
    OnlineTtl = 2
    Events = {"join", "leave", "disconnect", "time"}
    Punctual = TRUE
    EarlyClose = FALSE
    DbFaults = TRUE
    MaxCrashes = 1
INVARIANTS
    SoleSessionOnline
    SoleSessionListed
    CurrentRoomIsJoined
PROPERTIES
    DisconnectedFadesOut
