SPECIFICATION Spec
CONSTANTS
    p1 = p1  p2 = p2
    Dates = {1, 2}
    Extracts = {1, 2}
    Protocols <- MCProtocols
    None = None
    MaxRuns = 3
    MaxCrashes = 1
    MaxChanges = 1
    MaxAsides = 1
    MaxEvents = 2
SYMMETRY MCSymmetry
INVARIANTS
    TypeOK
    OneExtract
    OneProtocol
    SingleLineage
    PublishedIsWhole
    RefusalsLeaveNoTable
PROPERTIES
    SealedIsImmutable
    JudgedUnderTheFrozenProtocol
CHECK_DEADLOCK FALSE
