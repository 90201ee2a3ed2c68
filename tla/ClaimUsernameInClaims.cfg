CONSTANTS
    Requests = {r1, r2, r3}
    Usernames = {"ann", "bob"}
    Passwords = {"p", "q", "long"}
    Blank = ""
    TooLong = {"long"}
    Key <- MCKey
    Second = 1
    Lifetime = 1
    Names = {"ann"}
    Secrets = {"p"}
    Malformed = Malformed
    Forged = Forged
    Horizon = 1
    UniqueIndex = TRUE
    DBFaults = FALSE
SPECIFICATION Spec
CHECK_DEADLOCK FALSE
INVARIANT UsernameInClaims
