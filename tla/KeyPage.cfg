SPECIFICATION Spec
CONSTANTS
    Keys = {k1, k2}
    NewKey = NewKey
    Bad = Bad
    None = None
    MaxActs = 3
SYMMETRY Symmetry
CHECK_DEADLOCK FALSE
INVARIANTS TypeOK EditorShowsItsRecord ListSettles
