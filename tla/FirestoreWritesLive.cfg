SPECIFICATION FairSpec
CONSTANTS
    Users = {"guest", "couple"}
    MaxPending = 1
    MaxWrites = 2
PROPERTY WritesAreSettled
