SPECIFICATION PipelineSpec
CONSTANTS
    Dates = {1}
    Partitions = {1}
    Sites = {s1}
    Registers = {r1}
    Envs = {e1}
    Eligible <- MCEligible
    Covered <- MCCovered
    None = None
    MaxCrashes = 0
    MaxAlterations = 0
    MaxMoves = 1
    Protocol = {1}
    RegisterDir <- MCRegisterDir
    RowContent <- MCRowContent
    AllForced = {r1}
    Crosswalk <- MCCrosswalk
    ExpectedCounts = {1}
    AcceptanceDates = {1, 2}
    JoinDates = {1}
    SummaryDates = {1}
    Quiet = {"join", "summary"}
INVARIANT
    ContextIsFromTheSameTree
CHECK_DEADLOCK FALSE
