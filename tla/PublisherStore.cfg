SPECIFICATION StatsSpec
CONSTANTS
    Paths = {"p", "q"}
    Names = {"a"}
    Metrics <- StoreMetrics
    StatsDepth = 2
    StatsSpan = 2
    TstampDelta = 0
    SecTicks = 1
    MaxBatch = 2
    MaxObjects = 5
    MaxValues = 2
    MaxReceived <- ManyReceived
INVARIANTS Consistent ListedIsFinished CountersConsistent
PROPERTIES PublishedFrozen GarbageStaysGarbage NoPrematureEviction RecentlyIsKnown
