SPECIFICATION LocalFairSpec
CONSTANTS
    Calls = {c1, c2}
    MaxVersion = 1
    MaxEvents = 2
PROPERTY StateIsDecided
