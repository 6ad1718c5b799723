SPECIFICATION FairSpec
CONSTANTS
    Countdown = 2
    MaxRequests = 2
    MaxDepth = 4
INVARIANTS
    TypeOK
    BackPopsItsOwn
PROPERTIES
    NobodyIsStuck
