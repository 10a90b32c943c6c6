CONSTANTS
    None = None
    Text <- MCText
    Windows <- MCWindows
    Query <- MCQuery
    Named <- MCNamed
    ExactTerms <- MCExactTerms
    Distinctive <- MCDistinctive
    Weights <- MCWeights
    FusionK = 1
    MaxRank = 4
    Scale = 120
    RerankerLimit = 2
    ProjectOf <- MCProjectOf
    OwnerOf <- MCOwnerOf
    SourceOf <- MCSourceOf
    MarksOf <- MCMarksOf
    ThreadOf <- MCThreadOf
    Says <- MCSays
    Quality <- MCQuality
    At <- MCAt
    FactMessages <- MCFactMessages
    UserSaid <- MCUserSaid
    Nearest <- MCNearest
    Near <- MCNear
    Project = "p"
    Owner = "me"
    Sources = {"codex", "claude"}
    Marks = {"tag"}
    TopKs = {2}
    Multiplier = 1
    Cap = 3
    ListLimit = 2
    Budgets = {None, 2}
    RowTokens = 4
    CitationTokens = 2
    GraphOn = TRUE
    MaxWrites = 1
SPECIFICATION Spec
CHECK_DEADLOCK FALSE
CONSTRAINT OthersAreIndexed
INVARIANT ShowsOnlyVisible PlannerOnlyNarrows FallbackReachesCap RerankerOnlyReorders FactAnswerIsCurrent
