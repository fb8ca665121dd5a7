CONSTANTS
    c1 = c1
    c2 = c2
    s1 = s1
    s2 = s2
    s3 = s3
    Clients = {c1, c2}
    Sockets = {s1, s2}
    Owner <- MCOwnerTwo
    RecvOrder <- MCRecvOrderTwo
    MaxSends = 4
    MaxPending = 4
    SortThreshold = 16
    SendMayBlock = TRUE
SPECIFICATION Spec
PROPERTY Sequenced
