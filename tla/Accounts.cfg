CONSTANTS
    Requests = {r1, r2, r3, r4}
    Usernames = {"ann", "bob"}
    Passwords = {"p", "q", "long"}
    Blank = ""
    TooLong = {"long"}
    Key <- MCKey
    Second = 2
    Lifetime = 2
    Names = {"ann", "bob"}
    Secrets = {"p", "q", "long"}
    Malformed = Malformed
    Forged = Forged
    Horizon = 4
    UniqueIndex = TRUE
    DBFaults = TRUE
SPECIFICATION Spec
SYMMETRY Symmetry
CHECK_DEADLOCK FALSE
INVARIANT TypeOK
INVARIANT RegisteredCanLogin
INVARIANT TokenProvenance
INVARIANT TokenLifetime
PROPERTY AccountsImplemented
