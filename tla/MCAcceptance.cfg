SPECIFICATION PipelineSpec
CONSTANTS
    Dates = {1}
    Partitions = {1, 2}
    Sites = {s1, s2}
    Registers = {r1}
    Envs = {1, 2}
    Eligible <- MCEligible
    Covered <- MCCoveredLess
    None = None
    MaxCrashes = 0
    MaxAlterations = 1
    MaxMoves = 1
    Protocol = {1, 2}
    RegisterDir <- MCRegisterDir
    RowContent <- MCRowContent
    AllForced = {r1}
    Crosswalk <- MCCrosswalk
    ExpectedCounts = {1, 2}
    AcceptanceDates = {1}
    JoinDates = {}
    SummaryDates = {}
    Quiet = {}
INVARIANTS
    PassedVerdictDescribesItsBytes
    AcceptedTreeIsOneRun
SYMMETRY MCSymmetry
CHECK_DEADLOCK FALSE
