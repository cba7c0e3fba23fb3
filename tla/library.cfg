CONSTANTS
    Subjects = {"device", "search", "properties", "values", "options", "units"}
    Kinds = {"properties", "values", "options", "units"}
    Pieces <- PiecesOfKind
    Most <- MostPieces
    MaxPieces = 4
    Schemas <- OldAndNew
    Facts <- CatalogFacts
    PackageOf <- PackageOfManifest
    Filters <- Asked
    Limits = {0, 1}
    MaxSearches = 2  MaxFilters = 2
    Intervals = {1}
    Lifetimes = {10}
    DefaultInterval = 2  DefaultLifetime = 4
    Timeout = 1  Lag = 1
SPECIFICATION LibrarySpec
CHECK_DEADLOCK FALSE
INVARIANTS NeverTooFast EndsByDeadline ApprovalIsNoticed
    ResultsAreTheIntersection EarliestMatchWins LimitKeepsTheBest
    TokensCoverInput PropertiesSurvive PropertiesFollowGrammar QuotingRoundTrips OptionsHaveTheirPlace
    Utf8RoundTrips
PROPERTIES SignInEnds
