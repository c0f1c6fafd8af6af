CONSTANTS
    None = None
    Papers <- Found
    Topics <- Asked
    Weight <- Weights
    TitleOrder <- PlaceOf
    ThisYear = 2026
    Cuts = {1, 3}
    Most = 3
SPECIFICATION SpecRanking
INVARIANTS
    LimitIsUsed
PROPERTIES
    ArrivalDoesNotMatter
CHECK_DEADLOCK FALSE
