SPECIFICATION PluginSpec
CONSTANTS
    Paths = {"p"}
    Names = {"a", "b"}
    Metrics <- PluginMetrics
    StatsDepth = 2
    StatsSpan = 0
    TstampDelta = 0
    SecTicks = 1
    MaxBatch = 2
    MaxObjects = 3
    MaxValues = 4
    Handlers = {h1}
    Requests <- PluginRequests
    Malformed = Malformed
    PathOrder <- OnePath
INVARIANTS WindowCorrect NothingUnreported SpecsReported
PROPERTIES ResponseFrozen
