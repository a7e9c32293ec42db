SPECIFICATION Spec
CONSTANTS
    None = None
    Users = {u1, u2}
    Rooms = {a, b}
    Requests = {r1, r2}
    Validity = 1
    MaxTime = 1
INVARIANTS
    TypeOK
    RoomsAreOwned
    MembershipUnique
    PrivateByInvitation
    JoinedIsMember
PROPERTIES
    ImplementsMembership
SYMMETRY Symmetry
CHECK_DEADLOCK FALSE
