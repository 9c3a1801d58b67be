\* One posting, two versions, one falls due; one pause, one handler cut off.
SPECIFICATION FairSpec
CONSTANTS
    Refs = {p1}
    Urls = {p1}
    Contents = {c1, c2}
    Bodies <- OwnBodies
    RefUrl <- OwnUrl
    PageUrl <- OwnUrl
    ListUrls <- NoUrls
    Narrow <- OwnNarrow
    Unparsable <- OneUnparsable
    NoContent = NoContent
    BatchSize = 1
    MaxAttempts = 2
    MaxStalls = 0
    Budget <- LiveBudget
INVARIANTS CheckpointBacked ShortCutMeansStored LiveArtifactHasBody
    OnlyInterruptionStrands
PROPERTIES KeepsCustody FetchSettles ParseHasOutcome ExpiredReclaimed FirstContactStored
CHECK_DEADLOCK FALSE
