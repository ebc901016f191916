SPECIFICATION Spec

CONSTANTS
    Gateways = {g1, g2}
    IPs = {ip1}
    RequireIP = TRUE
    Faults = {"cancel"}

INVARIANT
    GracefulShutdown

CHECK_DEADLOCK FALSE
