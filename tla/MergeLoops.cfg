SPECIFICATION Spec
CONSTANTS
    Path = "p"
    Names = {"a", "b"}
    Times <- ValueTimes
    Stamps <- StatsStamps
    StatsDepth = 2
    StatsSpan = 2
    MaxObjects = 4
    MaxValues = 3
INVARIANTS NothingToDrop ArrivalOrder
PROPERTIES ImplementsMerge MergeEnds
