SPECIFICATION PluginSpec
CONSTANTS
    Paths = {"p", "q"}
    Names = {"a"}
    Metrics <- TwoMetrics
    StatsDepth = 2
    StatsSpan = 0
    TstampDelta = 0
    SecTicks = 1
    MaxBatch = 2
    MaxObjects = 3
    MaxValues = 0
    Handlers = {h1}
    Requests <- TwoRequests
    Malformed = Malformed
    PathOrder <- TwoPaths
INVARIANTS NoLimitOnRange
