SPECIFICATION Spec

CONSTANTS
    n1 = n1
    n2 = n2
    n3 = n3
    r1 = r1
    r2 = r2
    All = All
    Other = Other
    HostRoute = HostRoute
    Nets = {n1, n2, n3}
    Dsts = {r1, r2}
    Gateways = {g1, g2}
    Configs <- MCFewerNets
    FirstTable = 180
    FirstPref = 1
    MainPref = 6

INVARIANT
    ExcludedBypass
