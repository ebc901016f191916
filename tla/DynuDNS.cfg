SPECIFICATION Spec

CONSTANTS
    IPs = {ip1, ip2, ip3}
    IDs = {d1, d2, d3}
    Duplicates = TRUE
    Late = TRUE

INVARIANT
    TypeOK

PROPERTY
    ProviderContract
