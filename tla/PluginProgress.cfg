SPECIFICATION FairPluginSpec
CONSTANTS
    Paths = {"p"}
    Names = {"a"}
    Metrics <- BusyMetrics
    StatsDepth = 2
    StatsSpan = 0
    TstampDelta = 0
    SecTicks = 1
    MaxBatch = 2
    MaxObjects = 2
    MaxValues = 1
    Handlers = {h1, h2}
    Requests <- BusyRequests
    Malformed = Malformed
    PathOrder <- OnePath
INVARIANTS LockDiscipline
PROPERTIES RequestAnswered PublishFinishes
