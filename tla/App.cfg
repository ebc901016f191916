SPECIFICATION FairSpec

CONSTANTS
    Gateways = {g1, g2}
    IPs = {ip1}
    RequireIP = TRUE
    Faults = {"cancel"}

INVARIANTS
    TypeOK
    CycleAgrees

PROPERTIES
    RoutesBeforeDNS
    DeadGatewayLeaves
    LiveGatewayJoins
    CancelExits

CHECK_DEADLOCK FALSE
