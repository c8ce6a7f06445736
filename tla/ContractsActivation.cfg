SPECIFICATION Spec
CONSTANTS
    c1 = c1
    c2 = c2
    Contract = {c1, c2}
    Machine = {m1, m2}
    NoMachine = NoMachine
    SaleTypes <- MCSaleTypes
    SetByHand <- MCSetByHand
    Called <- MCCalled
    Worked = {c1}
    MaxQueue <- MCMaxQueue
PROPERTY GoesLiveWithMachine
CHECK_DEADLOCK FALSE
