CONSTANTS
    None = None
    Year = {2023, 2024}
    Journal = {"nature", "jasa"}
    Unlisted = "Unlisted"
    Doi <- Dois
    ArxivId <- Ids
    ProviderKey <- Keys
    Title <- Titles
    Abstract <- Abstracts
    NormalDoi <- DoiForms
    NormalArxiv <- ArxivForms
    NormalTitle <- TitleForms
    FoldKey <- KeyForms
    Limits = {1, 20, 50}
    Id <- Ids
    Item <- Items
    Bodies <- Lists
SPECIFICATION SpecAdapter
INVARIANTS
    EmptyMeansNothingFound
    WholeAnswer
    OneKeyOneWork
CHECK_DEADLOCK FALSE
