CONSTANTS
    japan = japan
    nowhere = nowhere
    broken = broken
    france = france
    private = private
    Rows <- FourRows
    Addresses <- FiveAddresses
    Place <- PlaceTable
    Unresolved = 0
    Damaged <- OneDamaged
    Enabled = TRUE
    CacheSize = 2
    Day = 1
    Hour = 2
    Month = 100
    PerPage = 2
    TopLimit = 2
    Candidates = 2
    Saturation = 4
    MaxTime = 3
SPECIFICATION Spec
\* The API process ends.
CHECK_DEADLOCK FALSE
INVARIANTS
    TypeOK
    WalkShowsAll
    SummaryAddsUp
    RiskBracketed
    PlacesTrue
    CacheIsMostRecent
