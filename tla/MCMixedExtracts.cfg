SPECIFICATION Spec
CONSTANTS
    p1 = p1  p2 = p2
    Dates = {1, 2}
    Extracts = {1, 2}
    Protocols <- MCProtocols
    None = None
    MaxRuns = 2
    MaxCrashes = 0
    MaxChanges = 1
    MaxAsides = 0
    MaxEvents = 1
SYMMETRY MCSymmetry
INVARIANT EligibilityRestsOnOneExtract
CHECK_DEADLOCK FALSE
