CONSTANTS
    Requests = {r1, r2}
    Arrivals <- MCArrivals
    Panics = TRUE
    MongoFaults = TRUE
SPECIFICATION Spec
CHECK_DEADLOCK FALSE
INVARIANT TypeOK
INVARIANT HandlerGuarded
INVARIANT LoggedAsSent
INVARIANT DocumentedSecurity
INVARIANT DocumentedAnswers
PROPERTY EveryRequestSent
