CONSTANTS
    root = root
    admin = admin
    NoUser = NoUser
    Users <- TwoUsers
    MaxAttempts = 3
    MaxBody = 4
    ChunkSize = 3
    PreviewLimit = 2
    RawLimits <- FiveLimits
    MaxRetries = 2
    MaxLimit = 3
    DefaultLimit = 2
    Lengths <- ThreeLengths
SPECIFICATION Spec
\* A session ends.
CHECK_DEADLOCK FALSE
INVARIANTS
    TypeOK
    OneKindOfTrace
    AnsweredIsKept
    RecordedAsAnswered
    TooLargeIsRefused
    CredentialsAsSent
PROPERTIES
    EverySessionTraced
