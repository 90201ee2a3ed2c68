CONSTANTS
    Requests = {r1, r2, r3}
    Texts = {"a", "b"}
    Blank = ""
    Malformed = Malformed
    Spellings = {"0", "00", "1", "10", "-1", "x"}
    Atoi <- MCAtoi
    NotAnInt = NotAnInt
    Queries <- FirstPage
    NewBooks <- GoodBooks
    Patches <- Titles
    PathIds = {1}
    InitialBooks <- OneBook
    Nil = Nil
    TTL = 2
    DBFaults = FALSE
    CacheFaults = TRUE
    Crashes = TRUE
SPECIFICATION Spec
CHECK_DEADLOCK FALSE
PROPERTY EveryRequestAnswered
PROPERTY StalePagesLeave
