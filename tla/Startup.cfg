SPECIFICATION FairSpec

CONSTANTS
    Width = 3
    CommandLines <- MCCommandLines
    ReservedCIDRs <- MCReservedCIDRs
    Destinations = {"0.0.0.0/0", "10.1.0.0/16"}
    MainPref = 5

INVARIANTS
    TypeOK
    RangeEnumerated
    AcceptedStarts
    ManagerAssumptions
    CoverageKept
    ResultSmallest

PROPERTIES
    AlwaysAdvances
    StartEnds

CHECK_DEADLOCK FALSE
