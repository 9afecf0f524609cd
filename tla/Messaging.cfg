SPECIFICATION MCSpec
CONSTANTS
    None = None
    a = a
    b = b
    Users = {a, b}
    Requests = {r1, r2}
    Limit = 2
    Window = 2
    PageSize = 3
    MaxNow = 4
    MaxMessages = 7
SYMMETRY MCSymmetry
INVARIANTS
    LateSendRefused
    BurstIsBounded
