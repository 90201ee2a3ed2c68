CONSTANTS
    Requests = {r1, r2}
    Texts = {"a", "b"}
    Blank = ""
    Malformed = Malformed
    Spellings = {"0", "00", "1", "10", "-1", "x"}
    Atoi <- MCAtoi
    NotAnInt = NotAnInt
    Queries <- FirstPage
    NewBooks <- GoodBooks
    Patches <- Nothing
    PathIds = {}
    InitialBooks <- OneBook
    Nil = Nil
    TTL = 1
    DBFaults = FALSE
    CacheFaults = FALSE
    Crashes = FALSE
SPECIFICATION Spec
CHECK_DEADLOCK FALSE
INVARIANT CacheInvalidated
