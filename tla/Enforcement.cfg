SPECIFICATION MCSpec
CONSTANTS
    Accounts = {u}
    CaseIds = {c1, c2}
    DecisionIds = {d1, d2, d3}
    Requests = {r1, r2}
    Offered = {"warn", "restrict", "suspend", "ban", "clear"}
    Removals <- MCRemovals
    None = None
SYMMETRY MCSymmetry
INVARIANTS StandingIsExplained SerialRecordIsWhole
PROPERTIES EverySanctionCounts HoldEndsInBan SerialFollowsMachine
