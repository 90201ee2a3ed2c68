CONSTANTS
    Requests = {r1, r2, r3}
    Texts = {"a", "b"}
    Blank = ""
    Malformed = Malformed
    Spellings = {"0", "00", "1", "10", "-1", "x"}
    Atoi <- MCAtoi
    NotAnInt = NotAnInt
    Queries <- AllQueries
    NewBooks <- AllBooks
    Patches <- AllPatches
    PathIds = {1}
    InitialBooks <- OneBook
    Nil = Nil
    TTL = 2
    DBFaults = TRUE
    CacheFaults = TRUE
    Crashes = TRUE
SPECIFICATION Spec
SYMMETRY Symmetry
CHECK_DEADLOCK FALSE
INVARIANT TypeOK
INVARIANT ServedPagesAreSnapshots
INVARIANT InvalidationCovers
 
PROPERTY RowsStayComplete
PROPERTY CallsRunOut
PROPERTY OldPagesRunOut
