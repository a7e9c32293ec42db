SPECIFICATION Spec
CONSTANTS
    Users = {u1, u2}
    Requests = {r1, r2}
    Fresh = 1
    Short = 2
    Long = 3
    MaxTime = 2
    MaxTokens = 2
INVARIANTS
    TypeOK
    LogoutEnds
    RevokedIsRefused
PROPERTIES
    NoResurrection
SYMMETRY RequestSymmetry
