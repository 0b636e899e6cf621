SPECIFICATION Spec

CONSTANTS
    Records <- MCRecords
    NoID = NoID
    Malformed = Malformed
    MaxRecords = 3
    a = a
    b = b
    n = n

INVARIANTS
    TypeOK
    CountedOnce
    NothingSilent
    OneOfEach

\* A listing ends.
CHECK_DEADLOCK FALSE
