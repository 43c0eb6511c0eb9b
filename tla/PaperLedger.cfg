SPECIFICATION Spec
CONSTANTS
    i1 = i1  i2 = i2  f1 = f1  f2 = f2
    Intents = {i1, i2}
    Quantity <- QuantityTwo
    Amounts = {1, 2, 3}
    FillIds = {f1, f2}
    Sequences = {1, 2}
INVARIANT NeverOverfilled
PROPERTY TerminalIsFinal
SYMMETRY Interchangeable
CHECK_DEADLOCK FALSE
