SPECIFICATION Spec
CONSTANTS
    Objects <- WalkedObjects
    Goals <- Paths
    Templates <- AllTemplates
    NoSpec = NoSpec
    NoPattern = NoPattern
    NoText = NoText
INVARIANTS SeekCorrect WalkCorrect AllMapped LoadedClean PanicExplained
PROPERTIES InsertLands
