SPECIFICATION Spec
CONSTANTS
    Objects <- OneObject
    Goals <- Paths
    Templates <- NoTemplates
    NoSpec = NoSpec
    NoPattern = NoPattern
    NoText = NoText
INVARIANTS ErrorStopsWalk
