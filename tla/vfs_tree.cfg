SPECIFICATION Spec
CONSTANTS
    Names = {a, b}
    Nodes = {n0, n1, n2, n3, n4}
    root = n0
    MaxParts = 2
SYMMETRY NamesSymmetry
INVARIANTS
    TypeOK
    ProperTree
    PathsLeadBack
    ListingMissesNothing
CHECK_DEADLOCK FALSE
