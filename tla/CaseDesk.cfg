SPECIFICATION Spec
CONSTANTS
    Staff = {m1, m2}
    Sessions = {s1, s2}
    Reports = {p1}
    Cases = {c1}
    Requests = {r1, r2}
    Reasons = {"other"}
    Reporters = {"member"}
    Detected = {"mass_report_campaign"}
    Identities <- MCIdentities
    MaxSessions = 1
    None = None
SYMMETRY MCSymmetry
INVARIANTS OnlyTheAppointedAct ReadIsAudited
