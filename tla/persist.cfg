SPECIFICATION Spec
CHECK_DEADLOCK FALSE
CONSTANTS
    MaxAttempts = 2
    MaxStalls = 1
    Sources = {"ats", "other"}
    FirstParty = {"ats"}
    Stamped <- StampedSources
    Urls = {"board", "page"}
    Prints = {"old", "new"}
    Versions = {1, 2, 3, 4}
    SourceOf <- SharedSource
    UrlOf <- SharedUrl
    PrintOf <- SharedPrint
    ConfidenceOf <- SharedConfidence
    OppIds = {1, 2}
    Concurrency = 2
    None = None
    Budget = 1
INVARIANTS
    TypeOK
    NoSourceStranded
PROPERTIES
    CommitUnites
    FirstPartyKept
    RollsBackOnlyOnMerge
