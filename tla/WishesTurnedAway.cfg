CONSTANTS
    Guests = {g1, g2}
    DocIDs = {d1, d2}
    MaxWishLength = 1
    MaxGets = 1
    None = None
SPECIFICATION Spec
SYMMETRY Symmetry
INVARIANT TurnedAwayHasWish
