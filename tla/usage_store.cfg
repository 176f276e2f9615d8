CONSTANTS
    Calls = {c1, c2, c3, c4}
    Capacity = 2
    Batch = 2
    MaxCrashes = 1
SPECIFICATION FairSpec
INVARIANTS TypeOK OnceInOrder
PROPERTIES ImplementsLog Settles CloseReturns
CHECK_DEADLOCK FALSE
