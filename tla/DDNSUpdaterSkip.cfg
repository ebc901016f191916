SPECIFICATION Spec

CONSTANTS
    Gateways = {g1, g2}
    IPs = {ip1, ip2}
    RequireIP = FALSE
    Faults <- MCRecordFaults

PROPERTY
    SkipIsCurrent
