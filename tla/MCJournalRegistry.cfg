CONSTANTS
    None = None
    Definitions <- Listed
    Word <- Words
    Name <- Names
    Issn <- Issns
    SourceId <- Sources
    JournalId <- Ids
    Number = {"12"}
    VolumeSign = {"vol"}
    Separator = {","}
    Journals <- Names
    Evidence <- Records
    Citations <- Cited
SPECIFICATION SpecRegistry
INVARIANTS
    RequestMeansItsJournal
    StrongestEvidenceDecides
    CitationMeansWholeName
CHECK_DEADLOCK FALSE
