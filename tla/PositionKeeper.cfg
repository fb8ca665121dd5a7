\* Fills of 1 or 2 at three prices and BBO changes over the same prices or
\* Price_INVALID, five events in any order: enough to open, add, close in
\* part, flip through zero and go flat, with the mark moved in between.
\* The trade engine may simply stop receiving, so the bound ends behaviours.
CONSTANTS
    Prices = {1, 2, 3}
    Qtys = {1, 2}
    MaxEvents = 5
SPECIFICATION Spec
INVARIANT
    PnLMarkToMarket
CHECK_DEADLOCK FALSE
