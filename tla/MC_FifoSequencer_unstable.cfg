CONSTANTS
    c1 = c1
    c2 = c2
    s1 = s1
    s2 = s2
    s3 = s3
    Clients = {c1, c2}
    Sockets = {s1, s2}
    Owner <- MCOwnerTwo
    RecvOrder <- MCRecvOrderTwo
    MaxSends = 3
    MaxPending = 3
    SortThreshold = 1
    SendMayBlock = FALSE
SPECIFICATION Spec
INVARIANT ClientFifo
