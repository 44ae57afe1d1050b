SPECIFICATION PipelineSpec
CONSTANTS
    Dates = {1}
    Partitions = {1, 2}
    Sites = {s1}
    Registers = {r1}
    Envs = {e1}
    Eligible <- MCEligible
    Covered <- MCCovered
    None = None
    MaxCrashes = 1
    MaxAlterations = 0
    MaxMoves = 0
    Protocol = {1, 2}
    RegisterDir <- MCRegisterDir
    RowContent <- MCRowContent
    AllForced = {r1}
    Crosswalk <- MCCrosswalk
    ExpectedCounts = {2}
    AcceptanceDates = {1}
    JoinDates = {}
    SummaryDates = {}
    Quiet = {}
INVARIANT
    CompleteTreePasses
CHECK_DEADLOCK FALSE
