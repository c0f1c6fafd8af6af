CONSTANTS
    None = None
    Doi = {"d1", "d2"}
    ArxivId = {"a1"}
    ProviderKey <- Keys
    Title <- Titles
    Abstract <- Abstracts
    NormalDoi <- DoiForms
    NormalArxiv <- ArxivForms
    NormalTitle <- TitleForms
    FoldKey <- KeyForms
    NoTitle = ""
    Candidates = {}
    Provider = {"openalex", "arxiv", "crossref"}
    Providers <- Order
    Answers <- NoAnswers
    Failures <- Error
    Journal = {"nature", "jasa"}
    Unlisted = "Unlisted"
    Year = {2023, 2024, 2025}
    Acoustic <- AcousticText
    Requests <- Searches
    Catalogs <- AllCatalogs
    Sourced = {"nature", "jasa"}
SPECIFICATION SpecHinted
INVARIANTS
    CountsAgree
    NothingInRangeIsLost
    JournalByIssn
    StatusFits
    HintsSuitLonePapers
CHECK_DEADLOCK FALSE
