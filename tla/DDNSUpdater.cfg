SPECIFICATION FairSpec

CONSTANTS
    Gateways = {g1, g2}
    IPs = {ip1, ip2}
    RequireIP = TRUE
    Faults <- MCAllFaults

INVARIANTS
    TypeOK
    LastIsKnown
    IdleIsCurrent

PROPERTY
    AcceptedIsApplied

CHECK_DEADLOCK FALSE
