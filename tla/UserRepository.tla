---------------------------- MODULE UserRepository ----------------------------
(***************************************************************************)
(* The accounts of pkg/api/user.go and what they open: RegisterHandler and *)
(* LoginHandler over the users table, and the JWTAuth middleware           *)
(* (pkg/middleware/authenticateJWT.go) over the tokens LoginHandler gives. *)
(*                                                                         *)
(* A handler is cut at its call to Postgres. Rows of users are inserted,   *)
(* never changed or deleted, so the table is the sequence of its rows by   *)
(* id. What a request was and when it was answered stay in req.            *)
(***************************************************************************)
EXTENDS Auth, Sequences, FiniteSets

CONSTANTS
    Requests,     \* the requests the server receives
    Names,        \* the user names requests carry, Blank among them or not
    Secrets,      \* the passwords requests carry, Blank among them or not
    Malformed,    \* a body ShouldBindJSON cannot decode
    Forged,       \* a bearer token whose signature or form is wrong
    Horizon,      \* the last tick considered
    UniqueIndex,  \* does the database hold users.username unique?
    DBFaults      \* may a call to Postgres fail?

Credentials == [username : Names, password : Secrets]

ASSUME UsersAssumption ==
    /\ Names \subseteq Usernames \cup {Blank}
    /\ Secrets \subseteq Passwords \cup {Blank}
    /\ Malformed \notin Credentials
    /\ Forged \notin Token
    /\ Horizon \in Nat
    /\ UniqueIndex \in BOOLEAN /\ DBFaults \in BOOLEAN

VARIABLES
    now,    \* the clock
    users,  \* the users table, in the order of its ids
    req     \* the goroutine of each request

vars == <<now, users, req>>

Idle == [pc |-> "idle"]
Becomes(r, s) == req' = [req EXCEPT ![r] = s]

(* models.User *)
PlainRow(b) == [username |-> b.username, password |-> [plain |-> b.password]]  \* mutant
Row(b) == [username |-> b.username, password |-> HashPassword(b.password)]

-------------------------------------------------------------------------------
(* RegisterHandler *)

(* models.LoginUser has binding:"required" on both fields. *)
Required(b) == b # Malformed /\ b.username # Blank /\ b.password # Blank

Taken(name) == \E i \in DOMAIN users : users[i].username = name
InsertableAlways(b) == TRUE                                  \* mutant
Insertable(b) == UniqueIndex => ~Taken(b.username)

(* The body is bound, the password hashed, the row inserted; an insert that *)
(* Postgres refuses, or whose reply is lost, is a 500.                      *)
RegisterHandler(r, b) ==
    /\ req[r] = Idle
    /\ \/ /\ ~Required(b)
          /\ Becomes(r, [pc |-> "bad"])
          /\ UNCHANGED users
       \/ /\ Required(b)
          /\ b.password \in TooLong
          /\ Becomes(r, [pc |-> "error"])
          /\ UNCHANGED users
       \/ /\ Required(b)
          /\ b.password \notin TooLong
          /\ Insertable(b)
          /\ users' = Append(users, Row(b))
          /\ \/ Becomes(r, [pc |-> "registered", body |-> b, id |-> Len(users) + 1])
             \/ DBFaults /\ Becomes(r, [pc |-> "unsaved", body |-> b])
       \/ /\ Required(b)
          /\ b.password \notin TooLong
          /\ ~Insertable(b) \/ DBFaults
          /\ Becomes(r, [pc |-> "unsaved", body |-> b])
          /\ UNCHANGED users
    /\ UNCHANGED now

-------------------------------------------------------------------------------
(* LoginHandler *)

(* Where("username = ?").First(&dbUser): the row of least id. *)
First(name) ==
    CHOOSE i \in DOMAIN users : /\ users[i].username = name
                                /\ \A j \in 1 .. i - 1 : users[j].username # name

Refused(b) == [pc |-> "refused", body |-> b, seen |-> Len(users)]

(* models.User has no binding, so that an empty name or password is looked  *)
(* up like any other. seen, the rows there were, is auxiliary.              *)
LoginHandler(r, b) ==
    /\ req[r] = Idle
    /\ \/ b = Malformed /\ Becomes(r, [pc |-> "bad"])
       \/ /\ b # Malformed
          /\ Taken(b.username)
          /\ Becomes(r, [pc |-> "compare", body |-> b, seen |-> Len(users),
                         dbUser |-> users[First(b.username)]])
       \/ b # Malformed /\ ~Taken(b.username) /\ Becomes(r, Refused(b))
       \/ b # Malformed /\ DBFaults /\ Becomes(r, [pc |-> "error"])
    /\ UNCHANGED <<now, users>>

(* Mutant: the comparison's error is not looked at. *)
LoginTokenUnchecked(r) ==
    /\ req[r].pc = "compare"
    /\ Becomes(r, [pc |-> "loggedin", body |-> req[r].body, at |-> now,
                   token |-> GenerateToken(req[r].dbUser.username, now)])
    /\ UNCHANGED <<now, users>>

(* bcrypt takes its time, and then the token is made for what First found.  *)
LoginToken(r) ==
    /\ req[r].pc = "compare"
    /\ IF CompareHashAndPassword(req[r].dbUser.password, req[r].body.password)
       THEN Becomes(r, [pc |-> "loggedin", body |-> req[r].body, at |-> now,
                        token |-> GenerateToken(req[r].dbUser.username, now)])
       ELSE Becomes(r, [pc |-> "refused", body |-> req[r].body, seen |-> req[r].seen])
    /\ UNCHANGED <<now, users>>

-------------------------------------------------------------------------------
(* JWTAuth *)

Issued == {req[l].token : l \in {x \in Requests : req[x].pc = "loggedin"}}

(* A request with no bearer token, with a forged one, or with one that was  *)
(* issued: the handler is reached with a valid one only, the name of its    *)
(* claims in the context.                                                   *)
JWTAuth(r) ==
    /\ req[r] = Idle
    /\ \/ Becomes(r, [pc |-> "unauthorized", token |-> Forged, at |-> now])
       \/ \E token \in Issued :
             IF Valid(token, now)
             THEN Becomes(r, [pc |-> "next", token |-> token, at |-> now,
                              username |-> UsernameOf(token)])
             ELSE Becomes(r, [pc |-> "unauthorized", token |-> token, at |-> now])
    /\ UNCHANGED <<now, users>>

Tick ==
    /\ now < Horizon
    /\ now' = now + 1
    /\ UNCHANGED <<users, req>>

-------------------------------------------------------------------------------
Init ==
    /\ now = 0
    /\ users = << >>
    /\ req = [r \in Requests |-> Idle]

Next ==
    \/ \E r \in Requests :
          \/ \E b \in Credentials \cup {Malformed} :
                RegisterHandler(r, b) \/ LoginHandler(r, b)
          \/ LoginToken(r)
          \/ JWTAuth(r)
    \/ Tick

Spec == Init /\ [][Next]_vars

-------------------------------------------------------------------------------
User == [username : Usernames, password : Hashes]

Request(n, t) ==
    [pc : {"idle", "bad", "error"}]
    \cup [pc : {"registered"}, body : Credentials, id : 1 .. n]
    \cup [pc : {"unsaved"}, body : Credentials]
    \cup [pc : {"compare"}, body : Credentials, seen : 0 .. n, dbUser : User]
    \cup [pc : {"refused"}, body : Credentials, seen : 0 .. n]
    \cup [pc : {"loggedin"}, body : Credentials, at : 0 .. t, token : Token]
    \cup [pc : {"unauthorized"}, token : Token \cup {Forged}, at : 0 .. t]
    \cup [pc : {"next"}, token : Token, at : 0 .. t, username : Usernames \cup {Blank}]

(* The type invariant: what a request remembers is of rows there are and of *)
(* moments past, and passwords are stored hashed.                           *)
TypeOK ==
    /\ now \in 0 .. Horizon
    /\ users \in Seq(User)
    /\ req \in [Requests -> Request(Len(users), now)]

(* A request that reaches a handler behind JWTAuth carries a token that a   *)
(* login was answered with, by a client that gave the name a registration   *)
(* had given and a password that bcrypt takes for the one given then, and   *)
(* the token names that user.                                               *)
TokenProvenance ==
    \A r \in Requests : req[r].pc = "next" =>
        \E l, g \in Requests :
            /\ req[l].pc = "loggedin" /\ req[l].token = req[r].token
            /\ req[g].pc \in {"registered", "unsaved"}
            /\ req[g].body.username = req[l].body.username
            /\ Alike(req[g].body.password, req[l].body.password)
            /\ req[l].body.username = req[r].token.iss

(* A token opens JWTAuth for its five minutes and for less than a second    *)
(* more, although its expiry is cut to whole seconds.                       *)
TokenLifetime ==
    \A r, l \in Requests :
        req[l].pc = "loggedin" =>
            /\ req[r].pc = "next" /\ req[r].token = req[l].token =>
                  \E x \in Requests : /\ req[x].pc = "loggedin"
                                      /\ req[x].token = req[r].token
                                      /\ req[r].at < req[x].at + Lifetime + Second
            /\ req[r].pc = "unauthorized" /\ req[r].token = req[l].token =>
                  req[r].at > req[l].at + Lifetime

(* Whoever was told "Registration successful" is not refused afterwards for *)
(* the name and password registered, whatever registers next or meanwhile.  *)
RegisteredCanLogin ==
    \A g, l \in Requests :
        req[g].pc = "registered" /\ req[l].pc = "refused" /\ req[l].body = req[g].body =>
            req[g].id > req[l].seen

-------------------------------------------------------------------------------
(* What the clients are promised *)

(* A token in the words of the promise: it is good up to the last tick of   *)
(* the second exp.                                                          *)
Shown(token) ==
    IF token = Forged THEN Forged
    ELSE [user |-> token.iss, until |-> (token.exp + 1) * Second - 1]

(* What the client of a request was told: nothing before its answer. *)
Told(s) ==
    CASE s.pc \in {"idle", "compare"} -> [pc |-> "waiting"]
      [] s.pc \in {"registered", "refused"} -> [pc |-> s.pc, body |-> s.body]
      [] s.pc = "loggedin" -> [pc |-> s.pc, body |-> s.body, token |-> Shown(s.token)]
      [] s.pc \in {"next", "unauthorized"} -> [pc |-> s.pc, token |-> Shown(s.token)]
      [] OTHER -> s

(* The key of a name is that of the row First finds. *)
Account(name) == users[First(name)].password.bcrypt

AccountsNow == [name \in {users[i].username : i \in DOMAIN users} |-> Account(name)]

Promised == INSTANCE Accounts WITH accounts <- AccountsNow,
                                   out <- [r \in Requests |-> Told(req[r])]

(* The handlers and JWTAuth, with their rows, hashes, whole seconds and the *)
(* time bcrypt takes, keep the promise of Accounts: what each request is    *)
(* told is what the accounts were at one moment, and tokens last as long as *)
(* they should.                                                             *)
AccountsImplemented == Promised!Spec

-------------------------------------------------------------------------------
(* What a comment says, and the code does not do. *)

(* auth.go:30 "Create the JWT claims, which includes the username": the     *)
(* name JWTAuth reads from the claims is the name of the user. It was put   *)
(* in the issuer, and auth.Claims looks for it elsewhere.                   *)
UsernameInClaims ==
    \A r \in Requests : req[r].pc = "next" =>
        \E l \in Requests : /\ req[l].pc = "loggedin" /\ req[l].token = req[r].token
                            /\ req[r].username = req[l].body.username
===============================================================================
