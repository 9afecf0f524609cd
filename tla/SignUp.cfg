SPECIFICATION Spec
CONSTANTS
    None = None
    Users = {u1, u2, u3}
    Contacts = {c1, c2}
    Addresses <- MCAddresses
    Births <- MCBirths
    Requests = {r1, r2}
    Today <- MCToday
    PerAddress = 1
    PerContact = 1
SYMMETRY MCSymmetry
INVARIANTS
    DuplicateIsAnswered
    AddressLimitHolds
PROPERTIES
    ReentryIsHeld
