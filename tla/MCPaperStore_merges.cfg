CONSTANTS
    None = None
    Year = {2023, 2024}
    Journal = {"jasa", "nature"}
    Unlisted = "unlisted"
    d1 = d1
    d2 = d2
    a1 = a1
    a2 = a2
    Doi <- Dois
    ArxivId <- Arxivs
    ProviderKey <- Keys
    Title <- Titles
    Abstract <- Abstracts
    NormalDoi <- DoiForms
    NormalArxiv <- ArxivForms
    NormalTitle <- TitleForms
    FoldKey <- KeyForms
    PaperId = {p1, p2, p3, p4}
    ScanId = {s1, s2, s3}
    AnalysisId = {n1}
    Time = {1, 2}
    Batches <- MergingBatches
SPECIFICATION Spec
SYMMETRY Papers
INVARIANTS
    AliasIndex
    TypeOK
    NoAliasConflict
    NoDanglingReference
    RedirectsFlat
    ScanKeepsItsRecords
    ScanOrder
    ApartOnlyByConflict
    RepeatShowsTheSame
PROPERTIES
    KeepsCatalog
    EligibleStays
CONSTRAINT OneCall
CHECK_DEADLOCK FALSE
