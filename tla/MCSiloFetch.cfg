SPECIFICATION FairSpec
CONSTANTS
    revision1 = revision1  revision2 = revision2  truncated = truncated
    Years = {1, 2}
    Ranges <- MCRanges
    Bytes <- MCBytes
    Valid <- MCValid
    Text = Text
    None = None
    MaxCrashes = 2
    MaxAlterations = 1
INVARIANTS
    TypeOK
    OnlyValidatedIsHashed
    ManifestDescribesSnapshot
PROPERTIES
    FinalizedIsFrozen
    FetchFinishes
CHECK_DEADLOCK FALSE
