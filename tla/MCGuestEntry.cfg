CONSTANTS
    Keys = {"0", "1"}
    Weddings <- OneWedding
    MaxTyped = 5
    MaxPending = 2
    None = None
SPECIFICATION FairSpec
INVARIANTS
    TypeOK
    WarningHasTimer
    AstrayOnlyAfterEdit
PROPERTY CheckedPinIsSettled
