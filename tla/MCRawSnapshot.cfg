SPECIFICATION FairSpec
CONSTANTS
    revision1 = revision1  revision2 = revision2
    Sources = {"tenements", "minedex", "maus", "dbca", "dea", "regions"}
    Revisions <- MCRevisions
    Pages <- MCPages
    Broken = Broken
    Text = Text
    None = None
    MaxPublish = 1
    MaxFailures = 1
    MaxCrashes = 2
    MaxEdits = 1
INVARIANTS
    TypeOK
    AcceptedIsValidated
    ManifestDescribesFiles
    GateOpensOnFinalizedEvidence
    CustodyIsRecorded
PROPERTIES
    FinalizedIsFrozen
    SnapshotIsCaptured
CHECK_DEADLOCK FALSE
