SPECIFICATION Spec
CONSTANTS
    Accounts = {u}
    SessionIds = {s1, s2, s3}
    RecoveryIds = {c1, c2}
    Passwords = {old, new}
    Requests = {r1, r2}
    Ttl = 2
    RefreshWindow = 2
    IdleTimeout = 2
    MaxSessions = 1
    CodeTtl = 1
    UndoWindow = 1
    MaxNow = 2
    MaxWrongCodes = 1
    MaxRequests = 4
    None = None
SYMMETRY Symmetry
INVARIANTS CodeWorksOnce SingleUse RecoverySignsOut DeletedHasNoAccess
PROPERTIES DeadStaysDead
CHECK_DEADLOCK FALSE
