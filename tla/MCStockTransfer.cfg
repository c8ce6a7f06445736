SPECIFICATION Spec
CONSTANTS
    Transfer = {t1, t2}
    m1 = m1
    m2 = m2
    d1 = d1
    k1 = k1
    b1 = b1
    b2 = b2
    w1 = w1
    w2 = w2
    w3 = w3
    NoWarehouse = NoWarehouse
    MaxQty = 2
    Machine = {m1, m2}
    Model = {d1}
    Kind = {k1}
    Branch = {b1, b2}
    Warehouse = {w1, w2, w3}
    ModelOf <- MCModelOf
    BranchOf <- MCBranchOf
    Body <- MCBody
    InitQuantity <- MCInitQuantity
    InitWarehouse <- MCInitWarehouse
    SharedRow <- MCSharedRow
    MaxOther = 1
    Edit <- MCEdit
SYMMETRY Symmetry
INVARIANTS
    TypeOK
    ReservedMatchesApprovals
    MachineInOneTransfer
    LotFollowsTransfer
    StockConserved
    TakenStandsAtSource
PROPERTY PromisesKept
