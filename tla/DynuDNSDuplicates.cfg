SPECIFICATION Spec

CONSTANTS
    IPs = {ip1, ip2}
    IDs = {d1, d2, d3}
    Duplicates = FALSE
    Late = TRUE

INVARIANT
    ExtraRemoved
