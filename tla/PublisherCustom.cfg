SPECIFICATION Spec
CONSTANTS
    Paths = {"p", "q"}
    Names = {"a", "b"}
    Metrics <- CustomMetrics
    StatsDepth = 2
    StatsSpan = 2
    TstampDelta = 1
    SecTicks = 2
    MaxBatch = 2
    MaxObjects = 4
    MaxValues = 4
INVARIANTS TypeOK AccountedOnce AttachedToLater SpecForEveryValue
PROPERTIES MergeCatchesUp ImplementsDelivery
