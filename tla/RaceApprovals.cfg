SPECIFICATION RaceSpec
CONSTANTS
    Transfer = {t1, t2}
    Handler = {h1, h2}
    Op = {"submit", "approve", "reject", "count", "confirm", "edit"}
    Body <- InterOnly
    m1 = m1
    d1 = d1
    k1 = k1
    b1 = b1
    b2 = b2
    w1 = w1
    w2 = w2
    w3 = w3
    NoWarehouse = NoWarehouse
    MaxQty = 2
    Machine = {m1}
    Model = {d1}
    Kind = {k1}
    Branch = {b1, b2}
    Warehouse = {w1, w2, w3}
    ModelOf <- MCModelOf
    BranchOf <- MCBranchOf
    InitQuantity <- MCInitQuantity
    InitWarehouse <- MCInitWarehouse
    SharedRow <- MCSharedRow
    MaxOther = 1
    Edit <- MCEdit
SYMMETRY Symmetry
INVARIANTS
    ApprovalsExclusive
    ApprovedHasLot
CHECK_DEADLOCK FALSE
