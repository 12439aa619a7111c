CONSTANTS
    Users = {u1, u2, u3}
    IDs = {i1, i2}
    None = None
SPECIFICATION FairSpec
INVARIANTS
    TypeOK
    StoredIDsAreReserved
    SharedOnlyByRace
PROPERTY ProvisioningEnds
CHECK_DEADLOCK FALSE
