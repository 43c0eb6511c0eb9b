CONSTANTS
    i1 = i1
    i2 = i2
    account1 = account1
    Runtimes = {r1, r2}
    Intents = {i1, i2}
    Accounts = {account1}
    Days = {d1}
    AccountOf <- OneAccount
    Notional <- TwoAndTwo
    Scopes = {"GLOBAL"}
    DailyLimit = 3
    MaxFailures = 1
    MaxSwitches = 0

SPECIFICATION Spec

INVARIANT OrdersAreReserved
