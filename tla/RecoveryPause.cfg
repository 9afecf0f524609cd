SPECIFICATION Spec
CONSTANTS
    None = None
    Sources = {s1, s2}
    Requests = {r1, r2}
    Channel = "email"
    PerAccount = 3
    PerSource = 2
    DayLength = 2
    MaxNow = 5
    MaxAsked = 3
SYMMETRY MCSymmetry
INVARIANTS
    OwnerLearnsOnce
    PausedOwnerIsTold
CHECK_DEADLOCK FALSE
