CONSTANTS
    w1 = w1
    w2 = w2
    e1 = e1
    e2 = e2
    Malformed = Malformed
    Workers <- TwoWorkers
    Events <- TwoEvents
    BatchSize = 2
    DbMaxRetries = 2
    MaxEntries = 2
    Budget <- AllFaults
SPECIFICATION Spec
SYMMETRY Symmetry
INVARIANTS
    TypeOK
    NoAckBeforeStore
    CountedOncePerDelivery
    NoDoubleProcessing
PROPERTIES
    StoreSpec
