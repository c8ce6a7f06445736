CONSTANTS
    a = a
    b = b
    part = part
    one = one
    two = two
    Ticket = {a}
    Part = {part}
    Item = {one}
    ItemPart <- MCItemPart
    ItemQty <- MCItemQty
    MaxQty = 2
    Stock <- MCStock
    MaxEstimates = 0
SPECIFICATION Spec
CHECK_DEADLOCK FALSE
PROPERTY TicketsRespectTransfers
