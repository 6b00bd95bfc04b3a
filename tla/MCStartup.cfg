SPECIFICATION FairSpec
CONSTANTS
    Keys <- MCKeys
    KnownKeys <- MCKnownKeys
    Buttons <- MCButtons
    KnownButtons <- MCKnownButtons
    Sizes <- MCSizes
    DefaultSize = "opened"
    Places <- MCPlaces
    Origin = "corner"
    Batch = 2
    MaxEvents = 2
INVARIANTS
    TypeOK
    RunsOnAMachine
    ReleasedAtExit
    InputFollows
PROPERTIES
    GlHasContext
    FaultsAreReported
    CloseEnds
CHECK_DEADLOCK FALSE
