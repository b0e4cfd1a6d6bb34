SPECIFICATION Spec
CONSTANTS
    Versions = {1, 2}
    Catalog <- Catalogs
    ItemLimit = 2
    ScenarioLimit = 1
    FallbackLimit = 2
    MaxBuilds = 2
    NoFile = NoFile
    Defaults <- RoomCleaning
    Fallbacks <- WallCleaning
    NoRule = NoRule
    MergeLeast = 1
    MergeMost = 3
    Words <- WordsOf
    Null = Null
    NoCode = 0
    Calls <- SomeCalls
    Explorations <- SomeExplorations
    Task <- Rooms
    Jobs <- SomeJobs
    RecommendationLimit = 5
    Profile <- PerItem
    NoteProfile <- NoteItems
    BeforeAll <- Opening
    AfterAll <- NoteItems
    Texts <- SomeTexts
    Exports <- SomeExports
    MaxTurns = 2
    MaxCalls = 1
    MaxItems = 1
    MaxJobs = 1
INVARIANTS
    TypeOK
    DatabaseIsWhole
    AnswersAreOfOneCatalog
    AnswersArePolicyFiltered
    ExploredIsBest
    TypedIsDecided
\* Turns and publications may be used up.
CHECK_DEADLOCK FALSE
