SPECIFICATION Spec
CONSTANTS
    a = a
    b = b
    noId = noId
    nowhere = nowhere
    none = none
    Polygons = {1, 2}
    NoPolygon = 3
    NoId = noId
    Nowhere = nowhere
    None = none
    Regions = {"pilbara"}
    OutsideRegions = "outside"
    Supports = {9, 100, 144}
    FullSupport = 144
    MinFootprints = 1
    MinYears = 2
    UseAllBelow = 2
    SelectN = 1
    HashRank <- MCHashRank
    MaxUncovered <- MCMaxUncovered
    MinFraction <- MCMinFraction
    Worlds <- MCWorlds
    Republished <- MCRepublished
    MaxSnapshots = 2
INVARIANTS
    TypeOK
    LevelsPartitionSites
    ThresholdIsEarned
    EligibleIsEarned
