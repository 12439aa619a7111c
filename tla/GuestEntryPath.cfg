CONSTANTS
    Keys = {"0", "1"}
    Weddings <- OneWedding
    MaxTyped = 5
    MaxPending = 2
    None = None
SPECIFICATION Spec
INVARIANT DocumentPathNotEmpty
