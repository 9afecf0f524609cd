SPECIFICATION Spec
CONSTANTS
    Accounts = {u}
    AttemptIds = {a1, a2}
    SessionIds = {p1, p2}
    Requests = {r1, r2}
    handle = handle
    other = other
    References = {handle, other}
    Results <- ResultsTried
    None = None
SYMMETRY Symmetry
INVARIANTS IdentityAgreesWithAttempt SubmittedIsComplete
PROPERTIES FollowsIdentityLife
CHECK_DEADLOCK FALSE
