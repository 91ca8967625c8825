SPECIFICATION Spec
CONSTANTS
    Callers = {c1}
    Manifests <- FewTasks
    Durations <- Ticks
    Templates <- Files
    DefSpan = 10
    Unset = Unset
INVARIANTS ServerStarted
