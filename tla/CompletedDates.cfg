SPECIFICATION Spec
CONSTANTS
    None = None
    Entries = {e1}
    Keys = {k1, k2}
    Requests = {r1, r2}
    Today = 2
    MaxSeq = 3
SYMMETRY MCSymmetry
INVARIANTS
    SupersedesAClaim
PROPERTIES
    NothingResurrects
