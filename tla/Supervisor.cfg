CONSTANTS
    MaxCrashes = 3
SPECIFICATION Spec
\* The process ends.
CHECK_DEADLOCK FALSE
INVARIANTS
    TypeOK
    QuietWhenClosed
    GivesUpOnlyAfterMax
PROPERTIES
    ServesInTheEnd
    ShutdownEnds
