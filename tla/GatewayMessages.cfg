SPECIFICATION Spec
CONSTANTS
    None = None
    alice = alice
    bob = bob
    lobby = lobby
    den = den
    s1 = s1
    s2 = s2
    m1 = m1
    h1 = h1
    h2 = h2
    Users = {alice, bob}
    Sockets = {s1, s2}
    UserOf <- OneEach
    Rooms = {lobby}
    MessageIds = {m1}
    Handlers = {h1, h2}
    Founders <- AliceFounded
    OnlineTtl = 2
    Events = {"join", "send", "type", "read", "fetch", "member", "disconnect"}
    Punctual = TRUE
    EarlyClose = TRUE
    DbFaults = TRUE
    MaxCrashes = 0
INVARIANTS
    TypeOK
    OnlyMembersTakePart
    ReceiptsWellFormed
    BroadcastAfterReceipts
    NothingStoredIsDropped
PROPERTIES
    OnlyRecipientsRead
    ImplementsRoomChat
    StatusNeverRegresses
SYMMETRY HandlerSymmetry
CHECK_DEADLOCK FALSE
