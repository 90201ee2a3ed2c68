CONSTANTS
    Requests = {r1, r2, r3, r4}
    Texts = {"a", "b"}
    Blank = ""
    Malformed = Malformed
    Spellings = {"0", "00", "1", "10", "-1", "x"}
    Atoi <- MCAtoi
    NotAnInt = NotAnInt
    Queries <- TwoPages
    NewBooks <- GoodBooks
    Patches <- FieldPatches
    PathIds = {1, 2}
    InitialBooks <- OneBook
    Nil = Nil
    TTL = 1
    DBFaults = FALSE
    CacheFaults = FALSE
    Crashes = TRUE
SPECIFICATION Spec
SYMMETRY Symmetry
CHECK_DEADLOCK FALSE
INVARIANT DeletedStaysDeleted
PROPERTY NoResurrection
PROPERTY FieldsChangeOnlyByPatch
INVARIANT ServedPagesAreSnapshots
INVARIANT InvalidationCovers
PROPERTY CatalogueImplemented
