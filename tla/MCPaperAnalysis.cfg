CONSTANTS
    None = None
    s1 = s1
    s2 = s2
    s3 = s3
    Year = {}
    Journal = {}
    Unlisted = "unlisted"
    Doi = {"d1"}
    ArxivId = {"a1"}
    ProviderKey <- Keys
    Title <- Titles
    Abstract <- Abstracts
    NormalDoi <- DoiForms
    NormalArxiv <- ArxivForms
    NormalTitle <- TitleForms
    FoldKey <- KeyForms
    PaperId = {p1, p2, p3}
    ScanId = {s1, s2, s3}
    AnalysisId = {n1}
    Time = {1}
    Batches <- ChainOfBridges
SPECIFICATION PlannedSpec
INVARIANTS
    AliasIndex
    FailedCallLeavesNothing
    GivenIdIsFound
    AnalysisFollowsPaper
PROPERTIES
    EveryCallEnds
    LibraryDelaysNoRequest
CHECK_DEADLOCK FALSE
