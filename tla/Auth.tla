--------------------------------- MODULE Auth ---------------------------------
(***************************************************************************)
(* Passwords and tokens: pkg/auth/auth.go, and what it uses of bcrypt and  *)
(* of golang-jwt.                                                          *)
(*                                                                         *)
(* Time is counted in ticks of a fraction of a second, since a token's     *)
(* expiry is kept in whole seconds. A token is its claims: nobody signs    *)
(* one without JwtKey, so a token that was not issued is a string that     *)
(* does not parse.                                                         *)
(***************************************************************************)
EXTENDS Integers

CONSTANTS
    Usernames,  \* the non-empty user names
    Passwords,  \* the non-empty passwords
    Blank,      \* the empty string
    TooLong,    \* the passwords over the 72 bytes bcrypt hashes
    Key,        \* the 72 bytes of key bcrypt makes of a password, or of Blank
    Second,     \* ticks in a second
    Lifetime    \* ticks in the 5*time.Minute of GenerateToken

ASSUME AuthAssumption ==
    /\ Blank \notin Usernames \cup Passwords
    /\ TooLong \subseteq Passwords
    /\ DOMAIN Key = Passwords \cup {Blank}
    /\ Second \in Nat \ {0}
    /\ Lifetime \in Nat \ {0}

(* time.Time.Unix() *)
Unix(t) == t \div Second

(* A hash shows nothing of the password but to the comparison, and keeps no *)
(* more of it than its key: what stands after the first 72 bytes is cut off *)
(* by the comparison, which unlike GenerateFromPassword refuses no length.  *)
HashPassword(password) == [bcrypt |-> Key[password]]
CompareHashAndPassword(hash, password) == hash = HashPassword(password)

(* Passwords that bcrypt cannot tell apart. *)
Alike(p, q) == Key[p] = Key[q]

Hashes == {HashPassword(p) : p \in Passwords}

(* The registered claims of a token for username issued at t: the name is   *)
(* the issuer, and there is no claim called username.                       *)
GenerateTokenInMilliseconds(username, t) ==  \* mutant
    [exp |-> (1000 \div Second) * (t + Lifetime), iss |-> username]
GenerateToken(username, t) == [exp |-> Unix(t + Lifetime), iss |-> username]

Token == [exp : Nat, iss : Usernames \cup {Blank}]

(* StandardClaims.Valid() at t: the second of exp itself is still good. *)
Valid(token, t) == Unix(t) <= token.exp

(* The Username of auth.Claims after decoding: a member that is absent      *)
(* leaves the field at its zero value.                                      *)
UsernameOf(token) == IF "username" \in DOMAIN token THEN token.username ELSE Blank
===============================================================================
