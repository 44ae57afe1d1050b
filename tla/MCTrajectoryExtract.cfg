SPECIFICATION FairSpec
CONSTANTS
    Dates = {1}
    Partitions = {1, 2}
    s1 = s1  s2 = s2  r1 = r1  r2 = r2  e1 = e1  e2 = e2
    Sites = {s1, s2}
    Registers = {r1, r2}
    Envs = {e1, e2}
    Eligible <- MCEligible
    Covered <- MCCovered
    None = None
    MaxCrashes = 2
    MaxAlterations = 1
    MaxMoves = 1
INVARIANTS
    TypeOK
    OneVersionPerPartition
    AtMostOneUnsealed
    SummarisedTreeIsOneRun
PROPERTIES
    FilesAreImmutable
    CleanTreeIsFinished
    ImplementsStore
CHECK_DEADLOCK FALSE
