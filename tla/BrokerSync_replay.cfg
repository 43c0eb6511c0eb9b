SPECIFICATION Spec
CONSTANTS
    i1 = i1  i2 = i2  f1 = f1  f2 = f2
    Intents = {i1, i2}
    Quantity <- QuantityTwo
    Approved = {i1}
    Amounts = {1, 2}
    FillIds = {f1, f2}
    SharedConnection = FALSE
    OperatorCalls = {"cancel", "amend"}
    MaxBrokerEvents = 3
    MaxOperatorCalls = 1
    MaxFaults = 1
INVARIANT StateReconstructable
SYMMETRY Interchangeable
CHECK_DEADLOCK FALSE
