CONSTANTS
    None = None
    Year = {}
    Journal = {}
    Unlisted = "unlisted"
    d1 = d1
    d2 = d2
    a1 = a1
    a2 = a2
    Doi <- Dois
    ArxivId <- Arxivs
    ProviderKey <- Keys
    Title <- Titles
    Abstract <- Abstracts
    NormalDoi <- DoiForms
    NormalArxiv <- ArxivForms
    NormalTitle <- TitleForms
    FoldKey <- KeyForms
    NoTitle = ""
    Candidates <- Lists
SPECIFICATION SpecDedup
SYMMETRY Symmetric
INVARIANTS
    NoConflictingDois
    ArxivsMeetUnderOneDoi
    StrongIdsTogether
    GroupsAreLinked
CHECK_DEADLOCK FALSE
