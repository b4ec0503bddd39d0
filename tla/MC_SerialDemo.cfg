\* Chunks of two parts on links that hold three, two numbers, one error.
CONSTANTS
    Parts = 2
    Room = 3
    Numbers = 2
    MaxErrors = 1
SPECIFICATION FairSpec
CHECK_DEADLOCK FALSE
INVARIANTS
    MismatchOnlyAfterError
PROPERTIES
    ChunksKeepArriving
