SPECIFICATION FairSpec
CONSTANTS
    PartItem = {i1, i2}
    MachineItem = {j1, j2}
    p1 = p1
    m1 = m1
    Part = {p1}
    Machine = {m1}
    MaxOutages = 2
    PartOf <- MCPartOf
    MachineOf <- MCMachineOf
    Qty <- MCQty
    InitQuantity <- MCInitQuantity
INVARIANTS
    TypeOK
    AppliedOnce
    AckedIsApplied
    NoUnitTakenTwice
PROPERTY EmittedIsSettled
CHECK_DEADLOCK FALSE
