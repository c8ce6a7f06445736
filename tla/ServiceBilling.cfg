SPECIFICATION FairSpec
CONSTANTS
    Contract = {c1}
    MachineOf <- MCMachineOf
    HasBranch = {c1}
    Reading = {1, 2}
    Invoice = {1, 2, 3, 4}
    NoContract = NoContract
    NoInvoice = 0
    MaxAge = 3
    MaxFaults = 2
    MaxRefusals = 1
INVARIANTS
    TypeOK
    MarkedIsBilled
    BilledTwiceOnlyAfterLoss
PROPERTY ReadingIsBilled
CHECK_DEADLOCK FALSE
