CONSTANTS
    Users = {u1, u2}
    IDs = {i1, i2}
    None = None
SPECIFICATION Spec
SYMMETRY Symmetry
INVARIANT GeneratedIDsAreUnique
CHECK_DEADLOCK FALSE
