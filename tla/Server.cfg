CONSTANTS
    Requests = {r1, r2, r3}
    Horizon = 2
    Parallel = 2
    Arrivals <- MCArrivals
    Panics = FALSE
    MongoFaults = FALSE
    Period = 1
    Burst = 1
    Usernames = {"ann"}
    Passwords = {"p", "q"}
    Blank = ""
    TooLong = {}
    Key <- MCKey
    Second = 1
    Lifetime = 1
    Names = {"ann"}
    Secrets = {"p", "q"}
    Malformed = Malformed
    Forged = Forged
    UniqueIndex = TRUE
    DBFaults = FALSE
SPECIFICATION Spec
SYMMETRY Symmetry
CHECK_DEADLOCK FALSE
INVARIANT TypeOK
INVARIANT RegisteredLogsIn
INVARIANT LoginLoggedBeforeUse
INVARIANT HandlersPaidFor
