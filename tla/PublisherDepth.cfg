SPECIFICATION Spec
CONSTANTS
    Paths = {"p", "q"}
    Names = {"a"}
    Metrics <- StoreMetrics
    StatsDepth = 2
    StatsSpan = 0
    TstampDelta = 0
    SecTicks = 1
    MaxBatch = 1
    MaxObjects = 4
    MaxValues = 0
INVARIANTS DepthBound
