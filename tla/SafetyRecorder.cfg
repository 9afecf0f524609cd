SPECIFICATION MCSpec
CONSTANTS
    target = target
    a = a
    b = b
    Users = {target, a, b}
    Behaviours <- MCBehaviours
    Instants = {0, 1, 169}
    Requests = {r1, r2}
    Paired = TRUE
    ClusterSize = 2
    MaxFoldAttempts = 2
    Capacity = 6
    SignalsPerRun = 2
    MaxObserved = 6
    MaxFailures = 1
    CampaignObserved = 3
    Alone = 5
    MaxRestarts = 1
    None = None
SYMMETRY MCSymmetry
INVARIANTS SignalsAreFolded CampaignIsCased RiskIsCorroborated StaysBelowHigh
CHECK_DEADLOCK FALSE
