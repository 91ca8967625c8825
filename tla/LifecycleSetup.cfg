SPECIFICATION Spec
CONSTANTS
    Callers = {c1, c2}
    Manifests <- Tasks
    Durations <- Ticks
    Templates <- Files
    DefSpan = 10
    Unset = Unset
INVARIANTS Exclusive ErrorIsReal
PROPERTIES ImplementsSetup PublishReturns InitSettles
