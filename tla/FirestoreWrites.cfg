SPECIFICATION Spec
CONSTANTS
    Users = {"guest", "couple"}
    MaxPending = 2
    MaxWrites = 3
INVARIANTS TypeOK NothingSkipped AssertionsHold CallbacksMatch ErrorsAreRefusals StoredStays
PROPERTY Contract
