CONSTANTS
    old = old
    new = new
    NoKey = NoKey
    Periods <- TwoPeriods
    FirstPeriod = "24h"
    Filters <- OneFilter
    NoFilter = "any"
    LastPage = 2
    Keys <- TwoKeys
    MaxPending = 3
SPECIFICATION Spec
INVARIANTS
    TypeOK
PROPERTIES
    OnlySelectedAppears
    SelectedAppears
