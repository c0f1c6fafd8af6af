CONSTANTS
    None = None
    pub1 = pub1
    pub2 = pub2
    priv = priv
    Call = {c1, c2}
    Origin <- Hosts
    Address = {pub1, pub2, priv}
    Public = {pub1, pub2}
    Answers <- Lists
    Urls <- BaseUrls
SPECIFICATION FairSpecGateway
INVARIANTS
    OnlyPublic
    KeyGoesOnce
    FailsOnlyIfUnreachable
PROPERTY ConnectingEnds
CHECK_DEADLOCK FALSE
