CONSTANTS
    None = None
    Doi = {"d1", "d2"}
    ArxivId = {"a1"}
    ProviderKey <- Keys
    Title <- Titles
    Abstract <- Abstracts
    NormalDoi <- DoiForms
    NormalArxiv <- ArxivForms
    NormalTitle <- TitleForms
    FoldKey <- KeyForms
    NoTitle = ""
    Candidates = {}
    Provider = {"openalex", "crossref"}
    Providers <- Order
    Answers <- ProviderAnswers
    Failures = {"timeout"}
    Journal = {"nature", "jasa"}
    Unlisted = "Unlisted"
    Year = {2023, 2024}
    Acoustic <- AcousticText
    Requests <- Searches
    PaperId = {p1, p2}
    ScanId = {s1, s2}
    AnalysisId = {}
    Time = {1}
    Batches = {}
SPECIFICATION FairSpecSaved
INVARIANTS
    NewPapersPassFilters
PROPERTY EveryRequestIsAnswered
CHECK_DEADLOCK FALSE
