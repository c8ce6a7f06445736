CONSTANTS
    a = a
    b = b
    part = part
    one = one
    two = two
    Ticket = {a}
    Part = {part}
    Item = {one, two}
    ItemPart <- MCItemPart
    ItemQty <- MCItemQty
    MaxQty = 2
    Stock <- MCStock
    MaxEstimates = 1
SPECIFICATION Spec
CHECK_DEADLOCK FALSE
INVARIANTS TypeOK ReservedIsHeld UnitsAccounted ClosedHoldsNothing PausedIsUnfinished
