-------------------------- MODULE UserRepositoryProofs ------------------------
(***************************************************************************)
(* Theorems about UserRepository, for any number of requests, names and    *)
(* passwords, any lifetime of a token, and a Postgres that fails or not.   *)
(***************************************************************************)
EXTENDS UserRepository, WellFoundedInduction, TLAPS

-------------------------------------------------------------------------------
(* Whole seconds *)

LEMMA Seconds ==
    ASSUME NEW t \in Nat, NEW u \in Nat
    PROVE  /\ Unix(t) \in Nat
           /\ t <= u => Unix(t) <= Unix(u)
           /\ Unix(t) <= Unix(u) => t < u + Second
  <1>1. Second \in Nat /\ Second > 0
    BY AuthAssumption
  <1> DEFINE a == t \div Second
             b == u \div Second
  <1>2. a \in Int /\ Second * a <= t /\ t < Second * a + Second
    BY <1>1
  <1>3. b \in Int /\ Second * b <= u /\ u < Second * b + Second
    BY <1>1
  <1> QED
    BY <1>1, <1>2, <1>3 DEF Unix

(* A token made now is good until a second after its lifetime at most, and  *)
(* one that is no longer good has outlived its lifetime.                    *)
LEMMA Validity ==
    ASSUME NEW name \in Usernames, NEW t \in Nat, NEW u \in Nat
    PROVE  /\ GenerateToken(name, t) \in Token
           /\ GenerateToken(name, t).iss = name
           /\ Valid(GenerateToken(name, t), u) => u < t + Lifetime + Second
           /\ ~Valid(GenerateToken(name, t), u) => u > t + Lifetime
  <1>1. Lifetime \in Nat /\ t + Lifetime \in Nat /\ Second \in Nat
    BY AuthAssumption
  <1>2. Unix(t + Lifetime) \in Nat /\ Unix(u) \in Nat
    BY <1>1, Seconds
  <1>3. Unix(u) <= Unix(t + Lifetime) => u < (t + Lifetime) + Second
    BY <1>1, Seconds
  <1>4. u <= t + Lifetime => Unix(u) <= Unix(t + Lifetime)
    BY <1>1, Seconds
  <1> QED
    BY <1>1, <1>2, <1>3, <1>4 DEF GenerateToken, Token, Valid

(* Passwords have the same hash when bcrypt cannot tell them apart. *)
LEMMA SameHashes ==
    ASSUME NEW p, NEW q
    PROVE  /\ HashPassword(p) = HashPassword(q) <=> Alike(p, q)
           /\ HashPassword(p).bcrypt = Key[p]
  BY DEF HashPassword, Alike

-------------------------------------------------------------------------------
(* Types *)

LEMMA RequestGrows ==
    ASSUME NEW n \in Nat, NEW m \in Nat, n <= m, NEW t \in Nat, NEW u \in Nat, t <= u
    PROVE  Request(n, t) \subseteq Request(m, u)
  <1>1. 1 .. n \subseteq 1 .. m /\ 0 .. n \subseteq 0 .. m /\ 0 .. t \subseteq 0 .. u
    OBVIOUS
  <1> QED
    BY <1>1 DEF Request

(* What is registered has both fields, and its row is one of the model's. *)
LEMMA RequiredIsTyped ==
    ASSUME NEW b \in Credentials \cup {Malformed}, Required(b)
    PROVE  /\ b \in Credentials
           /\ b.username \in Usernames
           /\ b.password \in Passwords
           /\ Row(b) \in User /\ Row(b).username = b.username
           /\ Row(b).password = HashPassword(b.password)
  <1>1. b \in Credentials
    BY DEF Required
  <1>2. b.username \in Usernames /\ b.password \in Passwords
    BY <1>1, UsersAssumption DEF Required, Credentials
  <1> QED
    BY <1>1, <1>2 DEF Row, User, Hashes

LEMMA LeastNatural ==
    ASSUME NEW S, S \subseteq Nat, S # {}
    PROVE  \E m \in S : \A k \in S : m <= k
  <1> DEFINE R == OpToRel(<, Nat)
  <1>1. IsWellFoundedOn(R, Nat)
    BY NatLessThanWellFounded
  <1>2. \A x, y \in Nat : y < x => <<y, x>> \in R
    BY DEF OpToRel
  <1> HIDE DEF R
  <1>3. PICK m \in S : \A k \in S : ~ (<<k, m>> \in R)
    BY <1>1, WFMin
  <1>4. \A k \in S : ~(k < m)
    BY <1>2, <1>3
  <1> QED
    BY <1>4

(* The row First finds, which is there when the name is taken. *)
LEMMA FirstFinds ==
    ASSUME users \in Seq(User), NEW name, Taken(name)
    PROVE  /\ First(name) \in 1 .. Len(users)
           /\ users[First(name)] \in User
           /\ users[First(name)].username = name
  <1> DEFINE Rows == {i \in DOMAIN users : users[i].username = name}
  <1>1. DOMAIN users = 1 .. Len(users) /\ Len(users) \in Nat
    OBVIOUS
  <1>2. Rows \subseteq Nat /\ Rows # {}
    BY <1>1 DEF Taken
  <1>3. PICK i \in Rows : \A j \in Rows : i <= j
    BY <1>2, LeastNatural
  <1>4. i \in DOMAIN users /\ users[i].username = name
    OBVIOUS
  <1>5. \A j \in 1 .. i - 1 : users[j].username # name
    BY <1>1, <1>3, <1>4
  <1>6. First(name) \in DOMAIN users /\ users[First(name)].username = name
    BY <1>4, <1>5 DEF First
  <1> QED
    BY <1>1, <1>6

(* What an action makes of a request, well typed. *)
LEMMA RegisterTypes ==
    ASSUME TypeOK, NEW r \in Requests, NEW b \in Credentials \cup {Malformed}, RegisterHandler(r, b)
    PROVE  TypeOK'
  <1> DEFINE n == Len(users)
  <1>1. users \in Seq(User) /\ n \in Nat /\ now \in Nat /\ now' = now
    BY UsersAssumption DEF TypeOK, RegisterHandler
  <1>2. [pc |-> "bad"] \in Request(n, now) /\ [pc |-> "error"] \in Request(n, now)
    BY DEF Request
  <1>3. CASE UNCHANGED users
    <2>1. \/ req' = [req EXCEPT ![r] = [pc |-> "bad"]]
          \/ req' = [req EXCEPT ![r] = [pc |-> "error"]]
          \/ Required(b) /\ req' = [req EXCEPT ![r] = [pc |-> "unsaved", body |-> b]]
      BY <1>1, <1>3 DEF RegisterHandler, Becomes
    <2>2. Required(b) => [pc |-> "unsaved", body |-> b] \in Request(n, now)
      BY RequiredIsTyped DEF Request
    <2> QED
      BY <1>1, <1>2, <1>3, <2>1, <2>2 DEF TypeOK
  <1>4. CASE Required(b) /\ users' = Append(users, Row(b))
    <2>1. Row(b) \in User /\ b \in Credentials
      BY <1>4, RequiredIsTyped
    <2>2. users' \in Seq(User) /\ Len(users') = n + 1
      BY <1>1, <1>4, <2>1
    <2>3. [pc |-> "registered", body |-> b, id |-> n + 1] \in Request(n + 1, now)
      BY <1>1, <2>1 DEF Request
    <2>4. [pc |-> "unsaved", body |-> b] \in Request(n + 1, now)
      BY <2>1 DEF Request
    <2>5. \/ req' = [req EXCEPT ![r] = [pc |-> "registered", body |-> b, id |-> n + 1]]
          \/ req' = [req EXCEPT ![r] = [pc |-> "unsaved", body |-> b]]
      <3>1. users' # users
        BY <1>1, <2>2
      <3> QED
        BY <3>1 DEF RegisterHandler, Becomes
    <2>6. Request(n, now) \subseteq Request(n + 1, now)
      BY <1>1, RequestGrows
    <2>7. req' \in [Requests -> Request(n + 1, now)]
      BY <2>3, <2>4, <2>5, <2>6 DEF TypeOK
    <2> QED
      BY <1>1, <2>2, <2>7 DEF TypeOK
  <1> QED
    BY <1>3, <1>4 DEF RegisterHandler

(* A request changes, and nothing else. *)
LEMMA TypeOfOne ==
    ASSUME TypeOK, NEW r \in Requests, NEW s \in Request(Len(users), now),
           Becomes(r, s), UNCHANGED <<now, users>>
    PROVE  TypeOK'
  BY DEF TypeOK, Becomes

LEMMA LoginTypes ==
    ASSUME TypeOK, NEW r \in Requests, NEW b \in Credentials \cup {Malformed}, LoginHandler(r, b)
    PROVE  TypeOK'
  <1> DEFINE n == Len(users)
  <1>1. users \in Seq(User) /\ n \in Nat
    BY DEF TypeOK
  <1>2. [pc |-> "bad"] \in Request(n, now) /\ [pc |-> "error"] \in Request(n, now)
    BY DEF Request
  <1>3. b # Malformed => Refused(b) \in Request(n, now)
    BY <1>1 DEF Request, Refused
  <1>4. ASSUME b # Malformed, Taken(b.username)
        PROVE  [pc |-> "compare", body |-> b, seen |-> Len(users),
                dbUser |-> users[First(b.username)]] \in Request(n, now)
    <2>1. users[First(b.username)] \in User
      BY <1>1, <1>4, FirstFinds
    <2> QED
      BY <1>1, <1>4, <2>1 DEF Request
  <1>5. UNCHANGED <<now, users>>
    BY DEF LoginHandler
  <1> QED
    BY <1>2, <1>3, <1>4, <1>5, TypeOfOne DEF LoginHandler

LEMMA LoginTokenTypes ==
    ASSUME TypeOK, NEW r \in Requests, LoginToken(r)
    PROVE  TypeOK'
  <1> DEFINE n == Len(users)
             c == req[r]
  <1>1. c \in Request(n, now) /\ c.pc = "compare" /\ now \in Nat
    BY UsersAssumption DEF TypeOK, LoginToken
  <1>2. c.body \in Credentials /\ c.seen \in 0 .. n /\ c.dbUser \in User
    BY <1>1 DEF Request
  <1>3. GenerateToken(c.dbUser.username, now) \in Token
    BY <1>1, <1>2, Validity DEF User
  <1>4. [pc |-> "loggedin", body |-> c.body, at |-> now,
         token |-> GenerateToken(c.dbUser.username, now)] \in Request(n, now)
    BY <1>1, <1>2, <1>3 DEF Request
  <1>5. [pc |-> "refused", body |-> c.body, seen |-> c.seen] \in Request(n, now)
    BY <1>2 DEF Request
  <1> QED
    BY <1>4, <1>5, TypeOfOne DEF LoginToken

(* A token that was issued is a token, and its claims name nobody. *)
LEMMA IssuedIsTyped ==
    ASSUME TypeOK, NEW token \in Issued
    PROVE  /\ token \in Token /\ token # Forged
           /\ UsernameOf(token) = Blank
           /\ \E l \in Requests : req[l].pc = "loggedin" /\ req[l].token = token
  <1>1. PICK l \in Requests : req[l].pc = "loggedin" /\ req[l].token = token
    BY DEF Issued
  <1>2. req[l] \in Request(Len(users), now)
    BY DEF TypeOK
  <1>3. token \in Token
    BY <1>1, <1>2 DEF Request
  <1>4. DOMAIN token = {"exp", "iss"}
    BY <1>3 DEF Token
  <1> QED
    BY <1>1, <1>3, <1>4, UsersAssumption DEF UsernameOf

LEMMA JWTAuthTypes ==
    ASSUME TypeOK, NEW r \in Requests, JWTAuth(r)
    PROVE  TypeOK'
  <1> DEFINE n == Len(users)
  <1>1. now \in 0 .. now
    BY UsersAssumption DEF TypeOK
  <1>2. [pc |-> "unauthorized", token |-> Forged, at |-> now] \in Request(n, now)
    BY <1>1 DEF Request
  <1>3. ASSUME NEW token \in Issued
        PROVE  /\ [pc |-> "next", token |-> token, at |-> now,
                   username |-> UsernameOf(token)] \in Request(n, now)
               /\ [pc |-> "unauthorized", token |-> token, at |-> now] \in Request(n, now)
    <2>1. token \in Token /\ UsernameOf(token) \in Usernames \cup {Blank}
      BY IssuedIsTyped
    <2> QED
      BY <1>1, <2>1 DEF Request
  <1> QED
    BY <1>2, <1>3, TypeOfOne DEF JWTAuth

LEMMA TypeNext ==
    ASSUME TypeOK, [Next]_vars
    PROVE  TypeOK'
  <1>1. CASE Tick
    <2>1. now \in Nat /\ now' = now + 1 /\ now' \in 0 .. Horizon /\ Len(users) \in Nat
      BY <1>1, UsersAssumption DEF Tick, TypeOK
    <2>2. Request(Len(users), now) \subseteq Request(Len(users), now')
      BY <2>1, RequestGrows
    <2> QED
      BY <1>1, <2>1, <2>2 DEF Tick, TypeOK
  <1>2. CASE UNCHANGED vars
    BY <1>2 DEF vars, TypeOK
  <1> QED
    BY <1>1, <1>2, RegisterTypes, LoginTypes, LoginTokenTypes, JWTAuthTypes DEF Next

(* What a request remembers is of rows there are and of moments past, and   *)
(* passwords are stored hashed.                                             *)
THEOREM TypeCorrect == Spec => []TypeOK
  <1>1. Init => TypeOK
    BY UsersAssumption DEF Init, TypeOK, Idle, Request
  <1> QED
    BY <1>1, TypeNext, PTL DEF Spec

-------------------------------------------------------------------------------
(* Provenance and lifetime *)

Registering(g) == req[g].pc \in {"registered", "unsaved"}

(* Every row is one a registration was to insert; ... *)
RowsRegistered ==
    \A i \in DOMAIN users : \E g \in Requests : Registering(g) /\ users[i] = Row(req[g].body)

(* ... a comparison is with a row of the name that was given; ...           *)
Compares(r) ==
    req[r].pc = "compare" =>
        /\ req[r].dbUser.username = req[r].body.username
        /\ \E i \in 1 .. req[r].seen : users[i] = req[r].dbUser

(* ... a token bears the name and the moment of a login whose name and      *)
(* password were registered; ...                                            *)
LogsIn(r) ==
    req[r].pc = "loggedin" =>
        /\ req[r].token = GenerateToken(req[r].body.username, req[r].at)
        /\ req[r].body.username \in Usernames
        /\ \E g \in Requests : /\ Registering(g)
                              /\ req[g].body.username = req[r].body.username
                              /\ Alike(req[g].body.password, req[r].body.password)

(* ... and a request that came with a token was let in or refused by it.    *)
Presents(r) ==
    /\ req[r].pc = "unauthorized" => req[r].token = Forged \/ ~Valid(req[r].token, req[r].at)
    /\ req[r].pc = "next" =>
          \E x \in Requests : /\ req[x].pc = "loggedin" /\ req[x].token = req[r].token
                              /\ req[r].at < req[x].at + Lifetime + Second

Sound(r) == Compares(r) /\ LogsIn(r) /\ Presents(r)

Inv == RowsRegistered /\ \A r \in Requests : Sound(r)

(* What a step changes: one request at most, that was not answered yet, and *)
(* rows are only added.                                                     *)
LEMMA StepShape ==
    ASSUME TypeOK, [Next]_vars
    PROVE  /\ \A g \in Requests : req[g].pc \notin {"idle", "compare"} => req'[g] = req[g]
           /\ \A i \in DOMAIN users : i \in DOMAIN users' /\ users'[i] = users[i]
  <1>1. ASSUME NEW r \in Requests, NEW s, Becomes(r, s), req[r].pc \in {"idle", "compare"}
        PROVE  \A g \in Requests : req[g].pc \notin {"idle", "compare"} => req'[g] = req[g]
    BY <1>1 DEF Becomes, TypeOK
  <1>2. ASSUME NEW r \in Requests, NEW b \in Credentials \cup {Malformed}, RegisterHandler(r, b)
        PROVE  /\ req[r].pc = "idle" /\ \E s : Becomes(r, s)
               /\ UNCHANGED users \/ users' = Append(users, Row(b))
    BY <1>2 DEF RegisterHandler, Idle
  <1>3. ASSUME NEW r \in Requests, NEW b \in Credentials \cup {Malformed}, LoginHandler(r, b)
        PROVE  req[r].pc = "idle" /\ UNCHANGED users /\ \E s : Becomes(r, s)
    BY <1>3 DEF LoginHandler, Idle
  <1>4. ASSUME NEW r \in Requests, LoginToken(r)
        PROVE  req[r].pc = "compare" /\ UNCHANGED users /\ \E s : Becomes(r, s)
    BY <1>4 DEF LoginToken
  <1>5. ASSUME NEW r \in Requests, JWTAuth(r)
        PROVE  req[r].pc = "idle" /\ UNCHANGED users /\ \E s : Becomes(r, s)
    <2>1. req[r].pc = "idle" /\ UNCHANGED users
      BY <1>5 DEF JWTAuth, Idle
    <2>2. ASSUME NEW token \in Issued,
                 IF Valid(token, now)
                 THEN Becomes(r, [pc |-> "next", token |-> token, at |-> now,
                                  username |-> UsernameOf(token)])
                 ELSE Becomes(r, [pc |-> "unauthorized", token |-> token, at |-> now])
          PROVE  \E s : Becomes(r, s)
      <3>1. CASE Valid(token, now)
        BY <2>2, <3>1
      <3>2. CASE ~Valid(token, now)
        BY <2>2, <3>2
      <3> QED
        BY <3>1, <3>2
    <2> QED
      BY <1>5, <2>1, <2>2 DEF JWTAuth
  <1>6. UNCHANGED users \/ \E b : users' = Append(users, Row(b))
    BY <1>2, <1>3, <1>4, <1>5 DEF Next, Tick, vars
  <1>7. \A i \in DOMAIN users : i \in DOMAIN users' /\ users'[i] = users[i]
    <2>1. users \in Seq(User)
      BY DEF TypeOK
    <2>2. ASSUME NEW row, users' = Append(users, row)
          PROVE  \A i \in DOMAIN users : i \in DOMAIN users' /\ users'[i] = users[i]
      BY <2>1, <2>2
    <2> QED
      BY <1>6, <2>2
  <1>8. CASE UNCHANGED req
    BY <1>7, <1>8
  <1>9. CASE \E r \in Requests : \E s : Becomes(r, s) /\ req[r].pc \in {"idle", "compare"}
    BY <1>1, <1>7, <1>9
  <1> QED
    BY <1>2, <1>3, <1>4, <1>5, <1>8, <1>9 DEF Next, Tick, vars

LEMMA RegisteringStays ==
    ASSUME TypeOK, [Next]_vars, NEW g \in Requests, Registering(g)
    PROVE  Registering(g)' /\ req'[g] = req[g]
  BY StepShape DEF Registering

(* A request that a step leaves alone stays sound. *)
LEMMA SoundStays ==
    ASSUME TypeOK, [Next]_vars, NEW r \in Requests, Sound(r), req'[r] = req[r]
    PROVE  Sound(r)'
  <1>1. Compares(r)'
    <2> SUFFICES ASSUME req[r].pc = "compare"
                 PROVE  /\ req[r].dbUser.username = req[r].body.username
                        /\ \E i \in 1 .. req[r].seen : users'[i] = req[r].dbUser
      BY DEF Compares
    <2>1. PICK i \in 1 .. req[r].seen : users[i] = req[r].dbUser
      BY DEF Sound, Compares
    <2>2. req[r] \in Request(Len(users), now) /\ users \in Seq(User)
      BY DEF TypeOK
    <2>3. req[r].seen \in 0 .. Len(users)
      BY <2>2 DEF Request
    <2>4. i \in DOMAIN users
      BY <2>2, <2>3
    <2>5. users'[i] = users[i]
      BY <2>4, StepShape
    <2> QED
      BY <2>1, <2>5 DEF Sound, Compares
  <1>2. LogsIn(r)'
    <2> SUFFICES ASSUME req[r].pc = "loggedin"
                 PROVE  LogsIn(r)'
      BY DEF LogsIn
    <2>1. PICK g \in Requests : /\ Registering(g)
                                /\ req[g].body.username = req[r].body.username
                                /\ Alike(req[g].body.password, req[r].body.password)
      BY DEF Sound, LogsIn
    <2>2. Registering(g)' /\ req'[g] = req[g]
      BY <2>1, RegisteringStays
    <2> QED
      BY <2>1, <2>2 DEF Sound, LogsIn, GenerateToken
  <1>3. Presents(r)'
    <2>1. CASE req[r].pc = "next"
      <3>1. PICK x \in Requests : /\ req[x].pc = "loggedin" /\ req[x].token = req[r].token
                                  /\ req[r].at < req[x].at + Lifetime + Second
        BY <2>1 DEF Sound, Presents
      <3>2. req'[x] = req[x]
        BY <3>1, StepShape
      <3> QED
        BY <2>1, <3>1, <3>2 DEF Presents
    <2>2. CASE req[r].pc # "next"
      BY <2>2 DEF Sound, Presents, Valid
    <2> QED
      BY <2>1, <2>2
  <1> QED
    BY <1>1, <1>2, <1>3 DEF Sound

LEMMA RowsStayRegistered ==
    ASSUME TypeOK, RowsRegistered, [Next]_vars
    PROVE  RowsRegistered'
  <1>1. users \in Seq(User)
    BY DEF TypeOK
  <1>2. ASSUME NEW i \in DOMAIN users
        PROVE  \E g \in Requests : Registering(g)' /\ users'[i] = Row(req'[g].body)
    <2>1. PICK g \in Requests : Registering(g) /\ users[i] = Row(req[g].body)
      BY <1>2 DEF RowsRegistered
    <2>2. Registering(g)' /\ req'[g] = req[g]
      BY <2>1, RegisteringStays
    <2>3. users'[i] = users[i]
      BY <1>2, StepShape
    <2> QED
      BY <2>1, <2>2, <2>3
  <1>3. CASE UNCHANGED users
    BY <1>2, <1>3 DEF RowsRegistered, Row
  <1>4. ASSUME NEW r \in Requests, NEW b \in Credentials \cup {Malformed},
               RegisterHandler(r, b), users' # users
        PROVE  RowsRegistered'
    <2>1. users' = Append(users, Row(b)) /\ Registering(r)' /\ req'[r].body = b
      BY <1>4 DEF RegisterHandler, Becomes, Registering, TypeOK
    <2>2. DOMAIN users' = DOMAIN users \cup {Len(users) + 1} /\ users'[Len(users) + 1] = Row(b)
      BY <1>1, <2>1
    <2>3. ASSUME NEW i \in DOMAIN users'
          PROVE  \E g \in Requests : Registering(g)' /\ users'[i] = Row(req'[g].body)
      BY <1>2, <2>1, <2>2, <2>3
    <2> QED
      BY <2>3 DEF RowsRegistered, Row
  <1> QED
    BY <1>3, <1>4 DEF Next, LoginHandler, LoginToken, JWTAuth, Tick, vars

(* A new state of r is sound when it is none of those Sound speaks of. *)
LEMMA SoundOtherwise ==
    ASSUME NEW r \in Requests,
           req'[r].pc \notin {"compare", "loggedin", "unauthorized", "next"}
    PROVE  Sound(r)'
  BY DEF Sound, Compares, LogsIn, Presents

LEMMA LoginSound ==
    ASSUME TypeOK, NEW r \in Requests, NEW b \in Credentials \cup {Malformed}, LoginHandler(r, b)
    PROVE  Sound(r)'
  <1>1. users \in Seq(User) /\ users' = users
    BY DEF TypeOK, LoginHandler
  <1>2. CASE req'[r].pc = "compare"
    <2>1. /\ Taken(b.username)
          /\ req'[r] = [pc |-> "compare", body |-> b, seen |-> Len(users),
                        dbUser |-> users[First(b.username)]]
      BY <1>2 DEF LoginHandler, Becomes, Refused, TypeOK
    <2>2. /\ First(b.username) \in 1 .. Len(users)
          /\ users[First(b.username)].username = b.username
      BY <1>1, <2>1, FirstFinds
    <2>3. Compares(r)'
      BY <1>1, <2>1, <2>2 DEF Compares
    <2> QED
      BY <1>2, <2>3 DEF Sound, LogsIn, Presents
  <1>3. CASE req'[r].pc # "compare"
    <2>1. req'[r].pc \in {"bad", "refused", "error"}
      BY <1>3 DEF LoginHandler, Becomes, Refused, TypeOK
    <2> QED
      BY <2>1, SoundOtherwise
  <1> QED
    BY <1>2, <1>3

LEMMA LoginTokenSound ==
    ASSUME TypeOK, Inv, NEW r \in Requests, LoginToken(r)
    PROVE  Sound(r)'
  <1> DEFINE c == req[r]
  <1>1. c \in Request(Len(users), now) /\ c.pc = "compare" /\ users \in Seq(User)
    BY DEF TypeOK, LoginToken
  <1>2. c.body \in Credentials /\ c.seen \in 0 .. Len(users) /\ c.dbUser \in User
    BY <1>1 DEF Request
  <1>3. c.dbUser.username = c.body.username /\ \E i \in 1 .. c.seen : users[i] = c.dbUser
    BY <1>1 DEF Inv, Sound, Compares
  <1>4. CASE CompareHashAndPassword(c.dbUser.password, c.body.password)
    <2>1. req'[r] = [pc |-> "loggedin", body |-> c.body, at |-> now,
                     token |-> GenerateToken(c.dbUser.username, now)]
      BY <1>4 DEF LoginToken, Becomes, TypeOK
    <2>2. PICK i \in DOMAIN users : users[i] = c.dbUser
      BY <1>1, <1>2, <1>3
    <2>3. PICK g \in Requests : Registering(g) /\ c.dbUser = Row(req[g].body)
      BY <2>2 DEF Inv, RowsRegistered
    <2>4. req[g].body \in Credentials
      BY <2>3 DEF TypeOK, Request, Registering
    <2>5. /\ req[g].body.username = c.body.username
          /\ HashPassword(req[g].body.password) = HashPassword(c.body.password)
      BY <1>3, <1>4, <2>3 DEF Row, CompareHashAndPassword
    <2>6. Alike(req[g].body.password, c.body.password)
      BY <2>5, SameHashes
    <2>8. Registering(g)' /\ req'[g] = req[g]
      BY <2>3, RegisteringStays DEF Next
    <2>9. c.body.username \in Usernames
      BY <1>2, <1>3 DEF User
    <2>10. LogsIn(r)'
      BY <1>3, <2>1, <2>5, <2>6, <2>8, <2>9 DEF LogsIn, GenerateToken
    <2> QED
      BY <2>1, <2>10 DEF Sound, Compares, Presents
  <1>5. CASE ~CompareHashAndPassword(c.dbUser.password, c.body.password)
    <2>1. req'[r].pc = "refused"
      BY <1>5 DEF LoginToken, Becomes, TypeOK
    <2> QED
      BY <2>1, SoundOtherwise
  <1> QED
    BY <1>4, <1>5

LEMMA JWTAuthSound ==
    ASSUME TypeOK, Inv, NEW r \in Requests, JWTAuth(r)
    PROVE  Sound(r)'
  <1>1. CASE Becomes(r, [pc |-> "unauthorized", token |-> Forged, at |-> now])
    <2>1. req'[r] = [pc |-> "unauthorized", token |-> Forged, at |-> now]
      BY <1>1 DEF Becomes, TypeOK
    <2> QED
      BY <2>1 DEF Sound, Compares, LogsIn, Presents
  <1>2. ASSUME NEW token \in Issued, Valid(token, now),
               Becomes(r, [pc |-> "next", token |-> token, at |-> now,
                           username |-> UsernameOf(token)])
        PROVE  Sound(r)'
    <2>1. /\ req'[r].pc = "next" /\ req'[r].token = token /\ req'[r].at = now
      BY <1>2 DEF Becomes, TypeOK
    <2>2. PICK x \in Requests : req[x].pc = "loggedin" /\ req[x].token = token
      BY <1>2, IssuedIsTyped
    <2>3. token = GenerateToken(req[x].body.username, req[x].at) /\ req[x].body.username \in Usernames
      BY <2>2 DEF Inv, Sound, LogsIn
    <2>4. req[x].at \in Nat /\ now \in Nat
      BY <2>2, UsersAssumption DEF TypeOK, Request
    <2>5. now < req[x].at + Lifetime + Second
      BY <1>2, <2>3, <2>4, Validity
    <2>6. req'[x] = req[x]
      BY <2>2, StepShape DEF Next
    <2>7. Presents(r)'
      BY <2>1, <2>2, <2>5, <2>6 DEF Presents
    <2> QED
      BY <2>1, <2>7 DEF Sound, Compares, LogsIn
  <1>3. ASSUME NEW token \in Issued, ~Valid(token, now),
               Becomes(r, [pc |-> "unauthorized", token |-> token, at |-> now])
        PROVE  Sound(r)'
    <2>1. /\ req'[r].pc = "unauthorized" /\ req'[r].token = token /\ req'[r].at = now
      BY <1>3 DEF Becomes, TypeOK
    <2>2. Presents(r)'
      BY <1>3, <2>1 DEF Presents, Valid
    <2> QED
      BY <2>1, <2>2 DEF Sound, Compares, LogsIn
  <1> QED
    BY <1>1, <1>2, <1>3 DEF JWTAuth

LEMMA InvNext ==
    ASSUME TypeOK, Inv, [Next]_vars
    PROVE  Inv'
  <1>1. RowsRegistered'
    BY RowsStayRegistered DEF Inv
  <1>2. ASSUME NEW x \in Requests, req'[x] = req[x]
        PROVE  Sound(x)'
    BY <1>2, SoundStays DEF Inv
  <1>3. ASSUME NEW r \in Requests, Sound(r)', \A x \in Requests \ {r} : req'[x] = req[x]
        PROVE  Inv'
    BY <1>1, <1>2, <1>3 DEF Inv
  <1>4. ASSUME NEW r \in Requests, NEW b \in Credentials \cup {Malformed}, RegisterHandler(r, b)
        PROVE  Inv'
    <2>1. req'[r].pc \in {"bad", "error", "registered", "unsaved"}
      BY <1>4 DEF RegisterHandler, Becomes, TypeOK
    <2>2. \A x \in Requests \ {r} : req'[x] = req[x]
      BY <1>4 DEF RegisterHandler, Becomes, TypeOK
    <2> QED
      BY <1>3, <2>1, <2>2, SoundOtherwise
  <1>5. ASSUME NEW r \in Requests, NEW b \in Credentials \cup {Malformed}, LoginHandler(r, b)
        PROVE  Inv'
    <2>1. \A x \in Requests \ {r} : req'[x] = req[x]
      BY <1>5 DEF LoginHandler, Becomes, TypeOK
    <2> QED
      BY <1>3, <1>5, <2>1, LoginSound
  <1>6. ASSUME NEW r \in Requests, LoginToken(r)
        PROVE  Inv'
    <2>1. \A x \in Requests \ {r} : req'[x] = req[x]
      BY <1>6 DEF LoginToken, Becomes, TypeOK
    <2> QED
      BY <1>3, <1>6, <2>1, LoginTokenSound
  <1>7. ASSUME NEW r \in Requests, JWTAuth(r)
        PROVE  Inv'
    <2>1. \A x \in Requests \ {r} : req'[x] = req[x]
      BY <1>7 DEF JWTAuth, Becomes, TypeOK
    <2> QED
      BY <1>3, <1>7, <2>1, JWTAuthSound
  <1>8. CASE UNCHANGED req
    BY <1>1, <1>2, <1>8 DEF Inv
  <1> QED
    BY <1>4, <1>5, <1>6, <1>7, <1>8 DEF Next, Tick, vars

LEMMA Invariance == Spec => []Inv
  <1>1. Init => Inv
    BY DEF Init, Idle, Inv, RowsRegistered, Sound, Compares, LogsIn, Presents
  <1>2. TypeOK /\ Inv /\ [Next]_vars => Inv'
    BY InvNext
  <1> QED
    BY <1>1, <1>2, TypeCorrect, PTL DEF Spec

(* Whoever reaches a handler behind JWTAuth carries a token a login was     *)
(* answered with, by a client that gave a name that was registered and a    *)
(* password of the same key, and the token names that user.                 *)
THEOREM Provenance == Spec => []TokenProvenance
  <1>1. TypeOK /\ Inv => TokenProvenance
    <2> SUFFICES ASSUME TypeOK, Inv, NEW r \in Requests, req[r].pc = "next"
                 PROVE  \E l, g \in Requests :
                           /\ req[l].pc = "loggedin" /\ req[l].token = req[r].token
                           /\ Registering(g)
                           /\ req[g].body.username = req[l].body.username
                           /\ Alike(req[g].body.password, req[l].body.password)
                           /\ req[l].body.username = req[r].token.iss
      BY DEF TokenProvenance, Registering
    <2>1. PICK l \in Requests : req[l].pc = "loggedin" /\ req[l].token = req[r].token
      BY DEF Inv, Sound, Presents
    <2>2. /\ req[l].token = GenerateToken(req[l].body.username, req[l].at)
          /\ \E g \in Requests : /\ Registering(g)
                                /\ req[g].body.username = req[l].body.username
                                /\ Alike(req[g].body.password, req[l].body.password)
      BY <2>1 DEF Inv, Sound, LogsIn
    <2>3. req[l].token.iss = req[l].body.username
      BY <2>2 DEF GenerateToken
    <2> QED
      BY <2>1, <2>2, <2>3
  <1> QED
    BY <1>1, Invariance, TypeCorrect, PTL

(* A token opens JWTAuth for its lifetime and less than a second more, for  *)
(* every length of a second and of a lifetime.                              *)
THEOREM Lifetimes == Spec => []TokenLifetime
  <1>1. TypeOK /\ Inv => TokenLifetime
    <2> SUFFICES ASSUME TypeOK, Inv, NEW r \in Requests, NEW l \in Requests,
                        req[l].pc = "loggedin", req[r].token = req[l].token
                 PROVE  /\ req[r].pc = "next" =>
                              \E x \in Requests : /\ req[x].pc = "loggedin"
                                                  /\ req[x].token = req[r].token
                                                  /\ req[r].at < req[x].at + Lifetime + Second
                        /\ req[r].pc = "unauthorized" => req[r].at > req[l].at + Lifetime
      BY DEF TokenLifetime
    <2>1. ASSUME req[r].pc = "unauthorized"
          PROVE  req[r].at > req[l].at + Lifetime
      <3>1. req[l] \in Request(Len(users), now) /\ req[r] \in Request(Len(users), now)
        BY DEF TypeOK
      <3>2. req[l].token \in Token /\ req[l].at \in Nat /\ req[r].at \in Nat
        BY <2>1, <3>1, UsersAssumption DEF Request, TypeOK
      <3>3. ~Valid(req[r].token, req[r].at)
        BY <2>1, <3>2, UsersAssumption DEF Inv, Sound, Presents
      <3>4. /\ req[l].token = GenerateToken(req[l].body.username, req[l].at)
            /\ req[l].body.username \in Usernames
        BY DEF Inv, Sound, LogsIn
      <3> QED
        BY <3>2, <3>3, <3>4, Validity
    <2> QED
      BY <2>1 DEF Inv, Sound, Presents
  <1> QED
    BY <1>1, Invariance, TypeCorrect, PTL

-------------------------------------------------------------------------------
(* Registered means able to log in *)

(* With the index, a name has one row, and a registration's is where its    *)
(* answer says.                                                             *)
NamesUnique == \A i, j \in DOMAIN users : users[i].username = users[j].username => i = j
RowsKept ==
    \A g \in Requests : req[g].pc = "registered" =>
        req[g].id \in DOMAIN users /\ users[req[g].id] = Row(req[g].body)

LEMMA NamesStayUnique ==
    ASSUME UniqueIndex, TypeOK, NamesUnique, [Next]_vars
    PROVE  NamesUnique'
  <1>1. users \in Seq(User)
    BY DEF TypeOK
  <1>2. ASSUME NEW r \in Requests, NEW b \in Credentials \cup {Malformed},
               RegisterHandler(r, b), users' # users
        PROVE  NamesUnique'
    <2>1. users' = Append(users, Row(b)) /\ ~Taken(b.username)
      BY <1>2 DEF RegisterHandler, Insertable
    <2>2. /\ DOMAIN users' = DOMAIN users \cup {Len(users) + 1}
          /\ users'[Len(users) + 1].username = b.username
          /\ \A i \in DOMAIN users : users'[i] = users[i]
      BY <1>1, <2>1 DEF Row
    <2>3. \A i \in DOMAIN users : users[i].username # b.username
      BY <2>1 DEF Taken
    <2> QED
      BY <2>2, <2>3 DEF NamesUnique
  <1>3. CASE UNCHANGED users
    BY <1>3 DEF NamesUnique
  <1> QED
    BY <1>2, <1>3 DEF Next, LoginHandler, LoginToken, JWTAuth, Tick, vars

LEMMA RowsStayKept ==
    ASSUME TypeOK, RowsKept, [Next]_vars
    PROVE  RowsKept'
  <1>1. ASSUME NEW g \in Requests, req[g].pc = "registered"
        PROVE  /\ req'[g] = req[g] /\ req[g].id \in DOMAIN users'
               /\ users'[req[g].id] = Row(req[g].body)
    BY <1>1, StepShape DEF RowsKept
  <1>2. ASSUME NEW g \in Requests, req'[g].pc = "registered", req[g].pc # "registered"
        PROVE  req'[g].id \in DOMAIN users' /\ users'[req'[g].id] = Row(req'[g].body)
    <2>1. PICK b \in Credentials \cup {Malformed} :
             /\ users' = Append(users, Row(b))
             /\ req'[g] = [pc |-> "registered", body |-> b, id |-> Len(users) + 1]
      BY <1>2 DEF Next, RegisterHandler, LoginHandler, LoginToken, JWTAuth, Tick, vars,
                  Becomes, Refused, TypeOK
    <2>2. users \in Seq(User)
      BY DEF TypeOK
    <2> QED
      BY <2>1, <2>2
  <1> QED
    BY <1>1, <1>2 DEF RowsKept, Row

LEMMA RegisteredNext ==
    ASSUME UniqueIndex, TypeOK, Inv, NamesUnique, RowsKept, RegisteredCanLogin, [Next]_vars
    PROVE  RegisteredCanLogin'
  <1> SUFFICES ASSUME NEW g \in Requests, NEW l \in Requests,
                      req'[g].pc = "registered", req'[l].pc = "refused", req'[l].body = req'[g].body
               PROVE  req'[g].id > req'[l].seen
    BY DEF RegisteredCanLogin
  <1>0. users \in Seq(User) /\ \A r \in Requests : req[r] \in Request(Len(users), now)
    BY DEF TypeOK
  <1>1. CASE req'[g] = req[g] /\ req'[l] = req[l]
    BY <1>1 DEF RegisteredCanLogin
  <1>2. ASSUME NEW r \in Requests, NEW b \in Credentials \cup {Malformed}, RegisterHandler(r, b),
               ~(req'[g] = req[g] /\ req'[l] = req[l])
        PROVE  req'[g].id > req'[l].seen
    <2>1. req'[l] = req[l] /\ req[l].pc = "refused"
      BY <1>2 DEF RegisterHandler, Becomes, TypeOK
    <2>2. req'[g].id = Len(users) + 1
      BY <1>2, <2>1 DEF RegisterHandler, Becomes, TypeOK
    <2>3. req[l].seen \in 0 .. Len(users)
      BY <1>0, <2>1 DEF Request
    <2> QED
      BY <1>0, <2>1, <2>2, <2>3
  <1>3. ASSUME NEW r \in Requests, NEW b \in Credentials \cup {Malformed}, LoginHandler(r, b),
               ~(req'[g] = req[g] /\ req'[l] = req[l])
        PROVE  FALSE
    <2>1. req'[g] = req[g] /\ l = r
      BY <1>3 DEF LoginHandler, Becomes, Refused, TypeOK
    <2>2. ~Taken(b.username) /\ req'[l].body = b
      BY <1>3, <2>1 DEF LoginHandler, Becomes, Refused, TypeOK
    <2>3. req[g].id \in DOMAIN users /\ users[req[g].id].username = req[g].body.username
      <3>1. req[g].id \in DOMAIN users /\ users[req[g].id] = Row(req[g].body)
        BY <2>1 DEF RowsKept
      <3> QED
        BY <3>1 DEF Row
    <2> QED
      BY <2>1, <2>2, <2>3 DEF Taken
  <1>4. ASSUME NEW r \in Requests, LoginToken(r),
               ~(req'[g] = req[g] /\ req'[l] = req[l])
        PROVE  req'[g].id > req'[l].seen
    <2>1. req'[g] = req[g] /\ l = r /\ req[r].pc = "compare"
      BY <1>4 DEF LoginToken, Becomes, TypeOK
    <2>2. /\ ~CompareHashAndPassword(req[r].dbUser.password, req[r].body.password)
          /\ req'[l].body = req[r].body /\ req'[l].seen = req[r].seen
      BY <1>4, <2>1 DEF LoginToken, Becomes, TypeOK
    <2>3. /\ req[r].dbUser.username = req[r].body.username
          /\ req[r].seen \in 0 .. Len(users)
      BY <1>0, <2>1 DEF Inv, Sound, Compares, Request
    <2>4. PICK i \in 1 .. req[r].seen : users[i] = req[r].dbUser
      BY <2>1 DEF Inv, Sound, Compares
    <2>5. req[g].id \in DOMAIN users /\ users[req[g].id] = Row(req[r].body)
      BY <2>1, <2>2 DEF RowsKept
    <2>6. i \in DOMAIN users
      BY <1>0, <2>3, <2>4
    <2>7. i # req[g].id
      BY <2>2, <2>4, <2>5 DEF Row, CompareHashAndPassword
    <2>8. users[req[g].id].username = users[i].username
      BY <2>3, <2>4, <2>5 DEF Row
    <2> QED
      BY <2>5, <2>6, <2>7, <2>8 DEF NamesUnique
  <1>5. ASSUME NEW r \in Requests, JWTAuth(r),
               ~(req'[g] = req[g] /\ req'[l] = req[l])
        PROVE  FALSE
    BY <1>5 DEF JWTAuth, Becomes, TypeOK
  <1> QED
    BY <1>1, <1>2, <1>3, <1>4, <1>5 DEF Next, Tick, vars

(* Where Postgres holds names unique, whoever was told that the             *)
(* registration succeeded is not refused for the name and password given.   *)
THEOREM RegistrationHolds ==
    ASSUME UniqueIndex
    PROVE  Spec => []RegisteredCanLogin
  <1> DEFINE Strong == NamesUnique /\ RowsKept /\ RegisteredCanLogin
  <1>1. Init => Strong
    BY DEF Init, Idle, NamesUnique, RowsKept, RegisteredCanLogin
  <1>2. TypeOK /\ Inv /\ Strong /\ [Next]_vars => Strong'
    BY NamesStayUnique, RowsStayKept, RegisteredNext
  <1> QED
    BY <1>1, <1>2, Invariance, TypeCorrect, PTL DEF Spec

-------------------------------------------------------------------------------
(* The promise kept: UserRepository implements Accounts *)

(* What First gives is the one row with no earlier row of the name. *)
LEMMA LeastIsUnique ==
    ASSUME NEW s \in Seq(User), NEW name, NEW i \in DOMAIN s, s[i].username = name,
           \A j \in 1 .. i - 1 : s[j].username # name
    PROVE  (CHOOSE k \in DOMAIN s : /\ s[k].username = name
                                    /\ \A j \in 1 .. k - 1 : s[j].username # name) = i
  <1> DEFINE Least(k) == s[k].username = name /\ \A j \in 1 .. k - 1 : s[j].username # name
  <1>1. Least(i)
    OBVIOUS
  <1>2. \A k \in DOMAIN s : Least(k) => k = i
    <2> TAKE k \in DOMAIN s
    <2> HAVE Least(k)
    <2>1. k \in Nat \ {0} /\ i \in Nat \ {0}
      OBVIOUS
    <2>2. ~(k < i) /\ ~(i < k)
      BY <2>1
    <2> QED
      BY <2>1, <2>2
  <1> QED
    BY <1>1, <1>2

LEMMA FirstIsLeast ==
    ASSUME users \in Seq(User), NEW name, Taken(name)
    PROVE  /\ First(name) \in DOMAIN users
           /\ users[First(name)].username = name
           /\ \A j \in 1 .. First(name) - 1 : users[j].username # name
  <1> DEFINE Rows == {i \in DOMAIN users : users[i].username = name}
  <1>1. Rows \subseteq Nat /\ Rows # {}
    BY DEF Taken
  <1>2. PICK i \in Rows : \A j \in Rows : i <= j
    BY <1>1, LeastNatural
  <1>3. \A j \in 1 .. i - 1 : users[j].username # name
    BY <1>2
  <1>4. First(name) = i
    BY <1>2, <1>3, LeastIsUnique DEF First
  <1> QED
    BY <1>2, <1>3, <1>4

(* Rows that come later do not change what First finds. *)
LEMMA FirstStays ==
    ASSUME users \in Seq(User), NEW name, Taken(name),
           NEW row \in User, users' = Append(users, row)
    PROVE  Taken(name)' /\ First(name)' = First(name) /\ users'[First(name)'] = users[First(name)]
  <1>1. First(name) \in 1 .. Len(users) /\ users[First(name)].username = name
    BY FirstIsLeast
  <1>2. \A j \in 1 .. First(name) - 1 : users[j].username # name
    BY FirstIsLeast
  <1>3. /\ users' \in Seq(User) /\ First(name) \in DOMAIN users'
        /\ \A j \in 1 .. Len(users) : users'[j] = users[j]
    BY <1>1
  <1>4. First(name)' = First(name)
    BY <1>1, <1>2, <1>3, LeastIsUnique DEF First
  <1> QED
    BY <1>1, <1>3, <1>4 DEF Taken

(* The first row of a name that was free is the new one. *)
LEMMA FirstIsNew ==
    ASSUME users \in Seq(User), NEW row \in User, ~Taken(row.username),
           users' = Append(users, row)
    PROVE  First(row.username)' = Len(users) + 1 /\ users'[Len(users) + 1] = row
  <1>1. /\ users' \in Seq(User) /\ Len(users) + 1 \in DOMAIN users'
        /\ users'[Len(users) + 1] = row
        /\ \A j \in 1 .. Len(users) : users'[j] = users[j] /\ j \in DOMAIN users
    OBVIOUS
  <1>2. \A j \in 1 .. (Len(users) + 1) - 1 : users'[j].username # row.username
    BY <1>1 DEF Taken
  <1> QED
    BY <1>1, <1>2, LeastIsUnique DEF First

LEMMA AccountIs ==
    ASSUME users \in Seq(User), NEW name, Taken(name)
    PROVE  users[First(name)].password = [bcrypt |-> Account(name)]
  <1>1. users[First(name)].password \in Hashes
    BY FirstFinds DEF User
  <1> QED
    BY <1>1 DEF Account, Hashes, HashPassword

LEMMA AccountsAre ==
    /\ \A name : name \in DOMAIN AccountsNow <=> Taken(name)
    /\ \A name : Taken(name) => AccountsNow[name] = Account(name)
  BY DEF AccountsNow, Taken

(* A row for a free name opens its account; one for a name that is taken,   *)
(* where there may be one, opens none.                                      *)
LEMMA AccountsGrow ==
    ASSUME users \in Seq(User), NEW b \in Credentials \cup {Malformed}, Required(b),
           users' = Append(users, Row(b))
    PROVE  AccountsNow' = [name \in DOMAIN AccountsNow \cup {b.username} |->
                             IF name \in DOMAIN AccountsNow THEN AccountsNow[name]
                                                            ELSE Key[b.password]]
  <1>1. /\ Row(b) \in User /\ Row(b).username = b.username /\ b.password \in Passwords
        /\ Row(b).password = HashPassword(b.password)
    BY RequiredIsTyped
  <1>2. users' \in Seq(User)
    BY <1>1
  <1>3. DOMAIN (AccountsNow') = DOMAIN AccountsNow \cup {b.username}
    <2>1. /\ DOMAIN users' = DOMAIN users \cup {Len(users) + 1}
          /\ users'[Len(users) + 1].username = b.username
          /\ \A i \in DOMAIN users : users'[i] = users[i]
      BY <1>1
    <2> QED
      BY <2>1 DEF AccountsNow
  <1>4. ASSUME NEW name, Taken(name)
        PROVE  (AccountsNow')[name] = AccountsNow[name]
    <2>1. Taken(name)' /\ users'[First(name)'] = users[First(name)]
      BY <1>1, <1>4, FirstStays
    <2>2. Account(name)' = Account(name)
      BY <2>1 DEF Account
    <2>3. (AccountsNow')[name] = Account(name)'
      BY <2>1 DEF AccountsNow, Taken
    <2> QED
      BY <1>4, <2>2, <2>3, AccountsAre
  <1>5. ASSUME ~Taken(b.username)
        PROVE  (AccountsNow')[b.username] = Key[b.password]
    <2>1. users'[First(b.username)'] = Row(b)
      BY <1>1, <1>5, FirstIsNew
    <2>2. Account(b.username)' = Key[b.password]
      BY <1>1, <2>1, SameHashes DEF Account
    <2>3. b.username \in DOMAIN (AccountsNow')
      BY <1>3
    <2> QED
      BY <2>2, <2>3 DEF AccountsNow
  <1>6. AccountsNow' = [name \in DOMAIN (AccountsNow') |-> (AccountsNow')[name]]
    BY DEF AccountsNow
  <1> QED
    BY <1>3, <1>4, <1>5, <1>6, AccountsAre

(* The whole seconds of a token are a moment up to which it is good, and    *)
(* for a new token that moment is where the promise has it.                 *)
LEMMA ShownToken ==
    ASSUME NEW token \in Token, NEW t \in Nat
    PROVE  /\ Shown(token) = [user |-> token.iss, until |-> (token.exp + 1) * Second - 1]
           /\ Valid(token, t) <=> t <= Shown(token).until
  <1>1. Shown(token) = [user |-> token.iss, until |-> (token.exp + 1) * Second - 1]
    BY UsersAssumption DEF Shown
  <1>2. token.exp \in Nat /\ Second \in Nat /\ Second > 0
    BY AuthAssumption DEF Token
  <1> DEFINE q == t \div Second
             e == token.exp
  <1>3. q \in Int /\ Second * q <= t /\ t < Second * q + Second
    BY <1>2
  <1> HIDE DEF q
  <1>4. q <= e => t <= (e + 1) * Second - 1
    BY <1>2, <1>3
  <1>5. q > e => t > (e + 1) * Second - 1
    BY <1>2, <1>3
  <1>6. Unix(t) = q
    BY DEF Unix, q
  <1> QED
    BY <1>1, <1>2, <1>3, <1>4, <1>5, <1>6 DEF Valid

LEMMA NewToken ==
    ASSUME NEW name \in Usernames, NEW t \in Nat
    PROVE  \E until \in t + Lifetime .. t + Lifetime + Second - 1 :
              Shown(GenerateToken(name, t)) = [user |-> name, until |-> until]
  <1>1. Lifetime \in Nat /\ Second \in Nat /\ Second > 0
    BY AuthAssumption
  <1> DEFINE e == (t + Lifetime) \div Second
             u == (e + 1) * Second - 1
  <1>2. e \in Int /\ Second * e <= t + Lifetime /\ t + Lifetime < Second * e + Second
    BY <1>1
  <1>3. GenerateToken(name, t) = [exp |-> e, iss |-> name] /\ GenerateToken(name, t) \in Token
    BY Validity DEF GenerateToken, Unix
  <1> HIDE DEF e
  <1>4. u \in t + Lifetime .. t + Lifetime + Second - 1
    BY <1>1, <1>2
  <1>5. Shown(GenerateToken(name, t)) = [user |-> name, until |-> u]
    BY <1>3, ShownToken
  <1> QED
    BY <1>4, <1>5

(* What is compared is the first row of its name, still. *)
FirstOf(r, i) ==
    /\ users[i] = req[r].dbUser
    /\ users[i].username = req[r].body.username
    /\ \A j \in 1 .. i - 1 : users[j].username # req[r].body.username

ComparesFirst ==
    \A r \in Requests : req[r].pc = "compare" => \E i \in DOMAIN users : FirstOf(r, i)

LEMMA ComparesFirstNext ==
    ASSUME TypeOK, ComparesFirst, [Next]_vars
    PROVE  ComparesFirst'
  <1>0. users \in Seq(User)
    BY DEF TypeOK
  <1>1. \A i \in DOMAIN users : i \in DOMAIN users' /\ users'[i] = users[i]
    BY StepShape
  <1>2. ASSUME NEW x \in Requests, req'[x].pc = "compare", req'[x] = req[x]
        PROVE  \E i \in DOMAIN users' : FirstOf(x, i)'
    <2>1. PICK i \in DOMAIN users : FirstOf(x, i)
      BY <1>2 DEF ComparesFirst
    <2>2. i \in 1 .. Len(users) /\ \A j \in 1 .. i - 1 : j \in DOMAIN users
      BY <1>0
    <2> QED
      BY <1>1, <1>2, <2>1, <2>2 DEF FirstOf
  <1>3. ASSUME NEW r \in Requests, NEW b \in Credentials \cup {Malformed}, LoginHandler(r, b),
               req'[r].pc = "compare"
        PROVE  \E i \in DOMAIN users' : FirstOf(r, i)'
    <2>1. /\ req'[r].body = b /\ Taken(b.username) /\ UNCHANGED users
          /\ req'[r].dbUser = users[First(b.username)]
      BY <1>3 DEF LoginHandler, Becomes, Refused, TypeOK
    <2>2. /\ First(b.username) \in DOMAIN users
          /\ users[First(b.username)].username = b.username
          /\ \A j \in 1 .. First(b.username) - 1 : users[j].username # b.username
      BY <1>0, <2>1, FirstIsLeast
    <2> QED
      BY <2>1, <2>2 DEF FirstOf
  <1>4. ASSUME NEW x \in Requests, req'[x].pc = "compare", req'[x] # req[x]
        PROVE  \E b \in Credentials \cup {Malformed} : LoginHandler(x, b)
    BY <1>4 DEF Next, RegisterHandler, LoginHandler, LoginToken, JWTAuth, Tick, vars,
                Becomes, TypeOK
  <1> QED
    BY <1>2, <1>3, <1>4 DEF ComparesFirst

LEMMA ComparesFirstKept == Spec => []ComparesFirst
  <1>1. Init => ComparesFirst
    BY DEF Init, Idle, ComparesFirst
  <1> QED
    BY <1>1, ComparesFirstNext, TypeCorrect, PTL DEF Spec

(* An answer that is given is told. *)
LEMMA Tells ==
    ASSUME TypeOK, NEW r \in Requests, NEW s, Becomes(r, s)
    PROVE  Promised!Tell(r, Told(s))
  BY DEF TypeOK, Becomes, Promised!Tell

LEMMA Waits ==
    ASSUME NEW r \in Requests, req[r].pc \in {"idle", "compare"}
    PROVE  [x \in Requests |-> Told(req[x])][r] = Promised!Waiting
  BY DEF Told, Promised!Waiting

(* What the answers are in the words of the promise. *)
LEMMA ToldAnswers ==
    /\ \A b, n : Told([pc |-> "registered", body |-> b, id |-> n]) = Promised!Registered(b)
    /\ \A b : Told([pc |-> "unsaved", body |-> b]) = Promised!Unsaved(b)
    /\ \A b, n : Told([pc |-> "refused", body |-> b, seen |-> n]) = Promised!Refused(b)
    /\ Told([pc |-> "bad"]) = [pc |-> "bad"] /\ Told([pc |-> "error"]) = [pc |-> "error"]
    /\ \A b, t, token : Told([pc |-> "loggedin", body |-> b, at |-> t, token |-> token])
                           = Promised!LoggedIn(b, Shown(token))
    /\ \A t, token, name :
          Told([pc |-> "next", token |-> token, at |-> t, username |-> name])
             = Promised!LetIn(Shown(token))
    /\ \A t, token : Told([pc |-> "unauthorized", token |-> token, at |-> t])
                        = Promised!Unauthorized(Shown(token))
  BY DEF Told, Promised!Registered, Promised!Unsaved, Promised!Refused, Promised!LoggedIn,
         Promised!LetIn, Promised!Unauthorized

LEMMA AccountsUnchanged ==
    ASSUME UNCHANGED users
    PROVE  AccountsNow' = AccountsNow
  BY DEF AccountsNow, Account, First

LEMMA Fails ==
    ASSUME TypeOK, NEW r \in Requests, req[r].pc = "idle", UNCHANGED <<now, users>>,
           Becomes(r, [pc |-> "bad"]) \/ Becomes(r, [pc |-> "error"])
    PROVE  Promised!Answer(r)
  <1>1. Promised!Tell(r, [pc |-> "bad"]) \/ Promised!Tell(r, [pc |-> "error"])
    <2>1. ASSUME Becomes(r, [pc |-> "bad"])
          PROVE  Promised!Tell(r, [pc |-> "bad"])
      BY <2>1, Tells, ToldAnswers
    <2>2. ASSUME Becomes(r, [pc |-> "error"])
          PROVE  Promised!Tell(r, [pc |-> "error"])
      BY <2>2, Tells, ToldAnswers
    <2> QED
      BY <2>1, <2>2
  <1> QED
    BY <1>1, Waits, AccountsUnchanged DEF Promised!Answer, Promised!Fail

LEMMA RegisterKeeps ==
    ASSUME TypeOK, NEW r \in Requests, NEW b \in Credentials \cup {Malformed},
           RegisterHandler(r, b)
    PROVE  Promised!Answer(r)
  <1>1. req[r].pc = "idle" /\ now' = now /\ users \in Seq(User)
    BY DEF RegisterHandler, Idle, TypeOK
  <1>2. CASE /\ UNCHANGED users
             /\ Becomes(r, [pc |-> "bad"]) \/ Becomes(r, [pc |-> "error"])
    BY <1>1, <1>2, Fails
  <1>3. CASE /\ Required(b) /\ Insertable(b) /\ users' = Append(users, Row(b))
             /\ \/ Becomes(r, [pc |-> "registered", body |-> b, id |-> Len(users) + 1])
                \/ DBFaults /\ Becomes(r, [pc |-> "unsaved", body |-> b])
    <2>1. \/ Promised!Tell(r, Promised!Registered(b))
          \/ DBFaults /\ Promised!Tell(r, Promised!Unsaved(b))
      BY <1>3, Tells, ToldAnswers
    <2>2. b \in Promised!Credentials /\ b.username # Blank /\ b.password # Blank
      BY <1>3 DEF Required, Credentials, Promised!Credentials
    <2>3. UniqueIndex => ~Promised!Known(b.username)
      BY <1>3, AccountsAre DEF Insertable, Promised!Known
    <2>4. AccountsNow' = [name \in DOMAIN AccountsNow \cup {b.username} |->
                            IF Promised!Known(name) THEN AccountsNow[name] ELSE Key[b.password]]
      BY <1>1, <1>3, AccountsGrow DEF Promised!Known
    <2>5. Promised!Register(r, b)
      BY <1>1, <2>1, <2>2, <2>3, <2>4 DEF Promised!Register
    <2> QED
      BY <1>1, <2>2, <2>5, Waits DEF Promised!Answer
  <1>4. CASE /\ Required(b) /\ UNCHANGED users
             /\ ~Insertable(b) \/ DBFaults
             /\ Becomes(r, [pc |-> "unsaved", body |-> b])
    <2>1. Promised!Tell(r, Promised!Unsaved(b))
      BY <1>4, Tells, ToldAnswers
    <2>2. b \in Promised!Credentials
      BY <1>4 DEF Required, Credentials, Promised!Credentials
    <2>3. (UniqueIndex /\ Promised!Known(b.username)) \/ DBFaults
      BY <1>4, AccountsAre DEF Insertable, Promised!Known
    <2>4. Promised!Reject(r, b)
      BY <1>1, <1>4, <2>1, <2>3, AccountsUnchanged DEF Promised!Reject
    <2> QED
      BY <1>1, <2>2, <2>4, Waits DEF Promised!Answer
  <1> QED
    BY <1>2, <1>3, <1>4 DEF RegisterHandler

(* A login that goes to bcrypt is not answered yet. *)
LEMMA LoginKeeps ==
    ASSUME TypeOK, NEW r \in Requests, NEW b \in Credentials \cup {Malformed},
           LoginHandler(r, b)
    PROVE  Promised!Answer(r) \/ UNCHANGED Promised!vars
  <1>1. req[r].pc = "idle" /\ UNCHANGED <<now, users>>
    BY DEF LoginHandler, Idle
  <1>2. CASE Becomes(r, [pc |-> "bad"]) \/ Becomes(r, [pc |-> "error"])
    BY <1>1, <1>2, Fails
  <1>3. ASSUME NEW s, s.pc = "compare", Becomes(r, s)
        PROVE  UNCHANGED Promised!vars
    <2>1. \A x \in Requests : Told(req'[x]) = Told(req[x])
      BY <1>1, <1>3 DEF Becomes, TypeOK, Told
    <2> QED
      BY <1>1, <2>1, AccountsUnchanged DEF Promised!vars
  <1>4. CASE b # Malformed /\ ~Taken(b.username) /\ Becomes(r, Refused(b))
    <2>1. Promised!Tell(r, Promised!Refused(b))
      BY <1>4, Tells, ToldAnswers DEF Refused
    <2>2. ~Promised!Opens(b) /\ b \in Promised!Credentials
      BY <1>4, AccountsAre DEF Promised!Opens, Promised!Known, Credentials, Promised!Credentials
    <2>3. Promised!Refuse(r, b)
      BY <1>1, <2>1, <2>2, AccountsUnchanged DEF Promised!Refuse
    <2> QED
      BY <1>1, <2>2, <2>3, Waits DEF Promised!Answer
  <1> QED
    BY <1>2, <1>3, <1>4 DEF LoginHandler

(* The answer agrees with the account as it is when bcrypt is done: the row *)
(* compared is the first of its name still.                                 *)
LEMMA LoginTokenKeeps ==
    ASSUME TypeOK, Inv, ComparesFirst, NEW r \in Requests, LoginToken(r)
    PROVE  Promised!Answer(r)
  <1> DEFINE c == req[r]
             b == req[r].body
  <1>1. /\ c \in Request(Len(users), now) /\ c.pc = "compare" /\ users \in Seq(User)
        /\ UNCHANGED <<now, users>> /\ now \in Nat
    BY UsersAssumption DEF TypeOK, LoginToken
  <1>2. b \in Credentials /\ b \in Promised!Credentials
    BY <1>1 DEF Request, Credentials, Promised!Credentials
  <1>3. PICK i \in DOMAIN users : FirstOf(r, i)
    BY <1>1 DEF ComparesFirst
  <1>4. First(b.username) = i /\ Taken(b.username)
    BY <1>1, <1>3, LeastIsUnique DEF FirstOf, First, Taken
  <1>5. /\ Promised!Known(b.username) /\ AccountsNow[b.username] = Account(b.username)
        /\ c.dbUser.password = [bcrypt |-> Account(b.username)]
        /\ c.dbUser.username = b.username /\ c.dbUser \in User
    BY <1>1, <1>3, <1>4, AccountsAre, AccountIs DEF FirstOf, Promised!Known
  <1>6. CompareHashAndPassword(c.dbUser.password, b.password) <=> Promised!Opens(b)
    BY <1>5 DEF CompareHashAndPassword, HashPassword, Promised!Opens
  <1>7. CASE CompareHashAndPassword(c.dbUser.password, b.password)
    <2>1. Becomes(r, [pc |-> "loggedin", body |-> b, at |-> now,
                      token |-> GenerateToken(b.username, now)])
      BY <1>5, <1>7 DEF LoginToken
    <2>2. b.username \in Usernames
      BY <1>5 DEF User
    <2>3. PICK until \in now + Lifetime .. now + Lifetime + Second - 1 :
             Shown(GenerateToken(b.username, now)) = [user |-> b.username, until |-> until]
      BY <1>1, <2>2, NewToken
    <2>4. Promised!Tell(r, Promised!LoggedIn(b, [user |-> b.username, until |-> until]))
      BY <2>1, <2>3, Tells, ToldAnswers
    <2>5. Promised!LogIn(r, b)
      BY <1>1, <1>6, <1>7, <2>4, AccountsUnchanged DEF Promised!LogIn
    <2> QED
      BY <1>1, <1>2, <2>5, Waits DEF Promised!Answer
  <1>8. CASE ~CompareHashAndPassword(c.dbUser.password, b.password)
    <2>1. Becomes(r, [pc |-> "refused", body |-> b, seen |-> c.seen])
      BY <1>8 DEF LoginToken
    <2>2. Promised!Tell(r, Promised!Refused(b))
      BY <2>1, Tells, ToldAnswers
    <2>3. Promised!Refuse(r, b)
      BY <1>1, <1>6, <1>8, <2>2, AccountsUnchanged DEF Promised!Refuse
    <2> QED
      BY <1>1, <1>2, <2>3, Waits DEF Promised!Answer
  <1> QED
    BY <1>7, <1>8

LEMMA JWTAuthKeeps ==
    ASSUME TypeOK, NEW r \in Requests, JWTAuth(r)
    PROVE  Promised!Answer(r)
  <1>1. req[r].pc = "idle" /\ UNCHANGED <<now, users>> /\ now \in Nat
    BY UsersAssumption DEF JWTAuth, Idle, TypeOK
  <1>2. CASE Becomes(r, [pc |-> "unauthorized", token |-> Forged, at |-> now])
    <2>1. Promised!Tell(r, Promised!Unauthorized(Forged))
      BY <1>2, Tells, ToldAnswers DEF Shown
    <2>2. Promised!PresentForged(r)
      BY <1>1, <2>1, AccountsUnchanged DEF Promised!PresentForged
    <2> QED
      BY <1>1, <2>2, Waits DEF Promised!Answer
  <1>3. ASSUME NEW token \in Issued,
               IF Valid(token, now)
               THEN Becomes(r, [pc |-> "next", token |-> token, at |-> now,
                                username |-> UsernameOf(token)])
               ELSE Becomes(r, [pc |-> "unauthorized", token |-> token, at |-> now])
        PROVE  Promised!Answer(r)
    <2>1. token \in Token
      BY IssuedIsTyped
    <2>2. PICK l \in Requests : req[l].pc = "loggedin" /\ req[l].token = token
      BY IssuedIsTyped
    <2>3. Valid(token, now) <=> now <= Shown(token).until
      BY <1>1, <2>1, ShownToken
    <2>4. Shown(token) \in Promised!Granted
      <3>1. Told(req[l]) = [pc |-> "loggedin", body |-> req[l].body, token |-> Shown(token)]
        BY <2>2 DEF Told
      <3> QED
        BY <3>1 DEF Promised!Granted
    <2>5. Promised!Tell(r, IF now <= Shown(token).until THEN Promised!LetIn(Shown(token))
                                                       ELSE Promised!Unauthorized(Shown(token)))
      BY <1>3, <2>3, Tells, ToldAnswers
    <2>6. Promised!Present(r, Shown(token))
      BY <1>1, <2>5, AccountsUnchanged DEF Promised!Present
    <2> QED
      BY <1>1, <2>4, <2>6, Waits DEF Promised!Answer
  <1> QED
    BY <1>2, <1>3 DEF JWTAuth

(* The handlers and JWTAuth keep the promise, with Postgres failing or not, *)
(* and with the unique index or without: each request is answered by the    *)
(* accounts of one moment, and each token lasts as it should.               *)
THEOREM PromiseKept == Spec => AccountsImplemented
  <1>1. Init => Promised!Init
    <2> SUFFICES ASSUME Init
                 PROVE  Promised!Init
      OBVIOUS
    <2>1. users = << >> /\ now = 0 /\ req = [r \in Requests |-> Idle]
      BY DEF Init
    <2>2. AccountsNow = [name \in {} |-> Blank]
      BY <2>1 DEF AccountsNow
    <2>3. \A r \in Requests : Told(req[r]) = Promised!Waiting
      BY <2>1 DEF Idle, Told, Promised!Waiting
    <2> QED
      BY <2>1, <2>2, <2>3 DEF Promised!Init
  <1>2. TypeOK /\ Inv /\ ComparesFirst /\ [Next]_vars => [Promised!Next]_(Promised!vars)
    <2> SUFFICES ASSUME TypeOK, Inv, ComparesFirst, [Next]_vars
                 PROVE  Promised!Next \/ UNCHANGED Promised!vars
      OBVIOUS
    <2>1. CASE Tick
      BY <2>1, AccountsUnchanged DEF Tick, Promised!Next, Promised!Tick
    <2>2. CASE UNCHANGED vars
      BY <2>2, AccountsUnchanged DEF vars, Promised!vars
    <2>3. ASSUME NEW r \in Requests,
                 \/ \E b \in Credentials \cup {Malformed} :
                       RegisterHandler(r, b) \/ LoginHandler(r, b)
                 \/ LoginToken(r) \/ JWTAuth(r)
          PROVE  Promised!Answer(r) \/ UNCHANGED Promised!vars
      BY <2>3, RegisterKeeps, LoginKeeps, LoginTokenKeeps, JWTAuthKeeps
    <2> QED
      BY <2>1, <2>2, <2>3 DEF Next, Promised!Next
  <1> QED
    BY <1>1, <1>2, TypeCorrect, Invariance, ComparesFirstKept, PTL
       DEF Spec, AccountsImplemented, Promised!Spec

(* What anyone registers leaves the accounts of the others as they are: no  *)
(* account is lost, and none is given another key.                          *)
Stand ==
    \A name \in DOMAIN AccountsNow :
        name \in DOMAIN (AccountsNow') /\ (AccountsNow')[name] = AccountsNow[name]
PasswordsStand == [][Stand]_vars

(* PasswordsStand follows from the promise, which has no step that sets a   *)
(* key there is.                                                            *)
THEOREM PasswordsAreKept == Spec => PasswordsStand
  <1>1. [Promised!Next]_(Promised!vars) => [Stand]_vars
    <2> SUFFICES ASSUME Promised!Next \/ UNCHANGED Promised!vars
                 PROVE  Stand
      OBVIOUS
    <2>1. ASSUME NEW r \in Requests, NEW b, Promised!Register(r, b)
          PROVE  Stand
      BY <2>1 DEF Promised!Register, Promised!Known, Stand
    <2>2. CASE UNCHANGED AccountsNow
      BY <2>2 DEF Stand
    <2> QED
      BY <2>1, <2>2 DEF Promised!Next, Promised!Answer, Promised!Tick, Promised!Fail,
           Promised!Reject, Promised!LogIn, Promised!Refuse, Promised!Present,
           Promised!PresentForged, Promised!vars
  <1> QED
    BY <1>1, PromiseKept, PTL DEF AccountsImplemented, Promised!Spec, PasswordsStand
===============================================================================
