\* Gaps, snapshot recovery and the splice with a lost datagram, and the end
\* of every recovery under fair scheduling of the three threads and the timer.
CONSTANTS
    Qtys = {1, 2}
    MaxUpdates = 3
    NumOrderIds <- MCNumOrderIds
    MaxLosses = 1
    Reorder = FALSE
SPECIFICATION Spec
INVARIANTS TypeOK ConsumerInSync SynthConsistent
PROPERTY Recovers
