\* Three lost datagrams: a snapshot cycle whose tail is lost followed by a
\* cycle whose head is lost.
CONSTANTS
    Qtys = {1}
    MaxUpdates = 4
    NumOrderIds <- MCNumOrderIds
    MaxLosses = 3
    Reorder = FALSE
SPECIFICATION Spec
INVARIANT ConsumerInSync
