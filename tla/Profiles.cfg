SPECIFICATION MCSpec
CONSTANTS
    Photos = {p1, p2}
    Requests = {r1, r2}
    MaxPhotos = 2
    MaxListed = 2
    None = None
    Removed = Removed
SYMMETRY MCSymmetry
INVARIANTS ProfileShowsPublished ToldAsShown
PROPERTIES PrimarySurvives
