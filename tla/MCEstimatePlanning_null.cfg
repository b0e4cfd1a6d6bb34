SPECIFICATION Spec
CONSTANTS
    Versions = {1}
    Catalog <- Catalogs
    ItemLimit = 2
    ScenarioLimit = 1
    FallbackLimit = 2
    MaxBuilds = 1
    NoFile = NoFile
    Defaults <- RoomCleaning
    Fallbacks <- WallCleaning
    NoRule = NoRule
    MergeLeast = 1
    MergeMost = 3
    Words <- WordsOf
    Null = Null
    NoCode = 0
    Calls <- NullCalls
    Explorations = {}
    Task <- Rooms
    Jobs = {}
    RecommendationLimit = 5
    Profile <- PerItem
    NoteProfile <- NoteItems
    BeforeAll <- Opening
    AfterAll <- NoteItems
    Texts = {}
    Exports = {}
    MaxTurns = 1
    MaxCalls = 1
    MaxItems = 1
    MaxJobs = 0
INVARIANTS
    AnswersArePolicyFiltered
CHECK_DEADLOCK FALSE
