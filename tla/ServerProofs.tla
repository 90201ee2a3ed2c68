------------------------------ MODULE ServerProofs ----------------------------
(***************************************************************************)
(* Theorems about Server, for every value of the constants of its parts:   *)
(* any number of requests of any kind at once, Mongo and Postgres failing  *)
(* or not, handlers that panic or do not.                                  *)
(*                                                                         *)
(* Every step of Server is a step of each part or leaves it alone, so that *)
(* what is proved of the parts holds in it; Inv is what ties the state of  *)
(* one to that of another.                                                 *)
(***************************************************************************)
EXTENDS Server, FiniteSetTheorems, TLAPS

LP == INSTANCE RateLimiterProofs WITH req <- asks
UP == INSTANCE UserRepositoryProofs WITH req <- sessions
GP == INSTANCE GatewayProofs

(* Definitions and theorems of the parts come by LP, UP and GP; those of    *)
(* Server, by L, U and G, are the same ones.                                *)

-------------------------------------------------------------------------------
(* The limiter *)

LEMMA LimiterInit == Init => LP!Init
  BY DEF Init, L!Init, LP!Init, L!Full, LP!Full, L!Moments, LP!Moments

LEMMA LimiterNext == [Next]_vars => [LP!Next]_LP!vars
  <1> USE DEF bucket, accounts, router, L!Becomes, LP!Becomes
  <1>1. ASSUME NEW r \in Requests, L!ReadClock(r)
        PROVE  LP!ReadClock(r)
    BY <1>1 DEF L!ReadClock, LP!ReadClock
  <1>2. ASSUME NEW r \in Requests, L!AllowN(r)
        PROVE  LP!AllowN(r)
    BY <1>2 DEF L!AllowN, LP!AllowN, L!Admit, LP!Admit, L!Refuse, LP!Refuse, L!Level,
         LP!Level, L!Cost, LP!Cost, L!Full, LP!Full, L!Moments, LP!Moments
  <1>3. ASSUME NEW r \in Requests, RateLimiter(r)
        PROVE  LP!Next
    BY <1>1, <1>2, <1>3 DEF RateLimiter, LP!Next
  <1>4. CASE Tick
    BY <1>4 DEF Tick, L!Tick, LP!Tick, LP!Next
  <1> QED
    BY <1>3, <1>4 DEF Next, LP!vars, vars, Arrive, Step, Pass, JWTAuth, RegisterHandler,
         LoginHandler, OtherHandler, U!RegisterHandler, U!LoginHandler, U!LoginToken,
         U!JWTAuth

LEMMA LimiterSpec == Spec => LP!Spec
  BY LimiterInit, LimiterNext, PTL DEF Spec, LP!Spec

LEMMA LimiterKept == Spec => []LP!TypeOK /\ []LP!Paid
  <1>0. /\ Period \in Nat \ {0} /\ Burst \in Nat \ {0} /\ Horizon \in Nat
    BY ServerAssumption
  <1>1. LP!Spec => []LP!TypeOK
    BY <1>0, LP!TypeCorrect
  <1>2. LP!Spec => []LP!Paid
    BY <1>0, LP!AdmittedArePaid
  <1> QED
    BY <1>1, <1>2, LimiterSpec, PTL

-------------------------------------------------------------------------------
(* The accounts *)

LEMMA UsersInit == Init => UP!Init
  BY DEF Init, U!Init, UP!Init, U!Idle, UP!Idle

LEMMA UsersRegister ==
    ASSUME NEW r \in Requests, NEW b \in Bodies, U!RegisterHandler(r, b)
    PROVE  UP!RegisterHandler(r, b) /\ b \in UP!Credentials \cup {Malformed}
  BY DEF Bodies, U!Credentials, UP!Credentials, U!RegisterHandler, UP!RegisterHandler,
       U!Becomes, UP!Becomes,
         U!Required, UP!Required, U!Insertable, UP!Insertable, U!Taken, UP!Taken, U!Row, UP!Row,
         U!HashPassword, UP!HashPassword, U!Idle, UP!Idle

LEMMA UsersLogin ==
    ASSUME NEW r \in Requests, NEW b \in Bodies, U!LoginHandler(r, b)
    PROVE  UP!LoginHandler(r, b) /\ b \in UP!Credentials \cup {Malformed}
  BY DEF Bodies, U!Credentials, UP!Credentials, U!LoginHandler, UP!LoginHandler, U!Becomes,
       UP!Becomes,
         U!Taken, UP!Taken, U!First, UP!First, U!Refused, UP!Refused, U!Idle, UP!Idle

LEMMA UsersToken ==
    ASSUME NEW r \in Requests, U!LoginToken(r)
    PROVE  UP!LoginToken(r)
  BY DEF U!LoginToken, UP!LoginToken, U!Becomes, UP!Becomes, U!GenerateToken,
       UP!GenerateToken, U!Unix, UP!Unix,
         U!CompareHashAndPassword, UP!CompareHashAndPassword, U!HashPassword, UP!HashPassword

LEMMA UsersJWTAuth ==
    ASSUME NEW r \in Requests, U!JWTAuth(r)
    PROVE  UP!JWTAuth(r)
  BY DEF U!JWTAuth, UP!JWTAuth, U!Becomes, UP!Becomes, U!Issued, UP!Issued, U!Valid, UP!Valid,
         U!UsernameOf, UP!UsernameOf, U!Unix, UP!Unix, U!Idle, UP!Idle

LEMMA UsersNext == [Next]_vars => [UP!Next]_UP!vars
  <1> USE DEF bucket, accounts, router
  <1>1. ASSUME NEW r \in Requests, RegisterHandler(r)
        PROVE  UP!Next
    BY <1>1, UsersRegister DEF RegisterHandler, UP!Next
  <1>2. ASSUME NEW r \in Requests, LoginHandler(r)
        PROVE  UP!Next
    BY <1>2, UsersLogin, UsersToken DEF LoginHandler, UP!Next
  <1>3. ASSUME NEW r \in Requests, JWTAuth(r)
        PROVE  UP!Next
    BY <1>3, UsersJWTAuth DEF JWTAuth, UP!Next
  <1>4. CASE Tick
    BY <1>4 DEF Tick, U!Tick, UP!Tick, UP!Next
  <1>5. ASSUME NEW r \in Requests, Arrive(r) \/ Pass(r) \/ RateLimiter(r) \/ OtherHandler(r)
        PROVE  UNCHANGED UP!vars
    BY <1>5 DEF Arrive, Pass, RateLimiter, OtherHandler, L!ReadClock, L!AllowN, UP!vars
  <1>6. CASE UNCHANGED vars
    BY <1>6 DEF vars, UP!vars
  <1> QED
    BY <1>1, <1>2, <1>3, <1>4, <1>5, <1>6 DEF Next, Step

LEMMA UsersSpec == Spec => UP!Spec
  BY UsersInit, UsersNext, PTL DEF Spec, UP!Spec

LEMMA UsersFacts ==
    /\ Blank \notin Usernames \cup Passwords /\ TooLong \subseteq Passwords
    /\ DOMAIN Key = Passwords \cup {Blank}
    /\ Second \in Nat \ {0} /\ Lifetime \in Nat \ {0}
    /\ Names \subseteq Usernames \cup {Blank} /\ Secrets \subseteq Passwords \cup {Blank}
    /\ Malformed \notin UP!Credentials /\ Forged \notin UP!Token
    /\ Horizon \in Nat
    /\ UniqueIndex \in BOOLEAN /\ DBFaults \in BOOLEAN
  BY ServerAssumption DEF U!Credentials, UP!Credentials, U!Token, UP!Token

LEMMA UsersKept == Spec => []UP!TypeOK /\ []UP!Inv
  <1>1. UP!Spec => []UP!TypeOK
    BY UsersFacts, UP!TypeCorrect
  <1>2. UP!Spec => []UP!Inv
    BY UsersFacts, UP!Invariance
  <1> QED
    BY <1>1, <1>2, UsersSpec, PTL

LEMMA UsersRegistered ==
    ASSUME UniqueIndex
    PROVE  Spec => []UP!RegisteredCanLogin
  <1>1. UP!Spec => []UP!RegisteredCanLogin
    BY UsersFacts, UP!RegistrationHolds
  <1> QED
    BY <1>1, UsersSpec, PTL

-------------------------------------------------------------------------------
(* The router *)

LEMMA RouterInit == Init => GP!Init
  BY DEF Init, G!Init, GP!Init

LEMMA SameChain == \A route : G!Chain(route) = GP!Chain(route)
  BY DEF G!Chain, GP!Chain, G!Global, GP!Global, G!Keyed, GP!Keyed

LEMMA SameAt == \A r, name : G!At(r, name) <=> GP!At(r, name)
  BY SameChain DEF G!At, GP!At

LEMMA SameProceed ==
    /\ \A c : G!Proceed(c) = GP!Proceed(c)
    /\ \A c, status : G!Aborted(c, status) = GP!Aborted(c, status)
  BY SameChain DEF G!Proceed, GP!Proceed, G!Return, GP!Return, G!Aborted, GP!Aborted

LEMMA SameAnswers == \A route : G!Answers(route) = GP!Answers(route)
  BY DEF G!Answers, GP!Answers, G!SwaggerAnswers, GP!SwaggerAnswers,
         G!UserAnswers, GP!UserAnswers, G!BookAnswers, GP!BookAnswers

LEMMA SameSteps ==
    ASSUME NEW r \in Requests
    PROVE  /\ G!ContextMiddleware(r) <=> GP!ContextMiddleware(r)
           /\ G!Logger(r) <=> GP!Logger(r)
           /\ G!Cors(r) <=> GP!Cors(r)
           /\ G!RateLimiter(r) <=> GP!RateLimiter(r)
           /\ G!APIKeyAuth(r) <=> GP!APIKeyAuth(r)
           /\ G!JWTAuth(r) <=> GP!JWTAuth(r)
           /\ G!Handler(r) <=> GP!Handler(r)
           /\ G!LogRequest(r) <=> GP!LogRequest(r)
  <1> USE SameAt, SameProceed DEF G!Becomes, GP!Becomes
  <1>1. G!ContextMiddleware(r) <=> GP!ContextMiddleware(r)
    BY DEF G!ContextMiddleware, GP!ContextMiddleware
  <1>2. G!Logger(r) <=> GP!Logger(r)
    BY DEF G!Logger, GP!Logger
  <1>3. G!Cors(r) <=> GP!Cors(r)
    BY DEF G!Cors, GP!Cors
  <1>4. G!RateLimiter(r) <=> GP!RateLimiter(r)
    BY DEF G!RateLimiter, GP!RateLimiter
  <1>5. G!APIKeyAuth(r) <=> GP!APIKeyAuth(r)
    BY DEF G!APIKeyAuth, GP!APIKeyAuth
  <1>6. G!JWTAuth(r) <=> GP!JWTAuth(r)
    BY DEF G!JWTAuth, GP!JWTAuth
  <1>7. G!Handler(r) <=> GP!Handler(r)
    BY SameAnswers DEF G!Handler, GP!Handler
  <1>8. G!LogRequest(r) <=> GP!LogRequest(r)
    BY DEF G!LogRequest, GP!LogRequest
  <1> QED
    BY <1>1, <1>2, <1>3, <1>4, <1>5, <1>6, <1>7, <1>8

LEMMA RouterNext == [Next]_vars => [GP!Next]_GP!vars
  <1> USE DEF bucket, accounts, router
  <1>1. ASSUME NEW r \in Requests, Arrive(r)
        PROVE  GP!Next
    BY <1>1 DEF Arrive, G!Arrive, GP!Arrive, G!Becomes, GP!Becomes, GP!Next
  <1>2. ASSUME NEW r \in Requests, GP!Step(r)
        PROVE  GP!Next
    BY <1>2 DEF GP!Next
  <1>3. ASSUME NEW r \in Requests, Step(r)
        PROVE  GP!Step(r) \/ UNCHANGED router
    BY <1>3, SameSteps DEF Step, Pass, RateLimiter, JWTAuth, RegisterHandler, LoginHandler,
         OtherHandler, Answer, GP!Step
  <1>4. CASE Tick \/ UNCHANGED vars
    BY <1>4 DEF Tick, vars, GP!vars
  <1> QED
    BY <1>1, <1>2, <1>3, <1>4 DEF Next, GP!vars

LEMMA RouterFacts ==
    /\ Arrivals \subseteq GP!Arrival
    /\ Panics \in BOOLEAN /\ MongoFaults \in BOOLEAN
  BY ServerAssumption DEF G!Arrival, GP!Arrival, G!Routes, GP!Routes, G!Keyed, GP!Keyed

LEMMA RouterSpec == Spec => GP!Safety
  BY RouterInit, RouterNext, PTL DEF Spec, GP!Safety

LEMMA RouterKept == Spec => []GP!Typed /\ []GP!Inv /\ []GP!TypeOK /\ []GP!LoggedAsSent
  <1>1. GP!Safety => [](GP!Typed /\ GP!Inv)
    BY RouterFacts, GP!Invariance
  <1>2. GP!Safety => []GP!TypeOK
    BY RouterFacts, GP!TypeOfSafety
  <1>3. GP!Safety => []GP!LoggedAsSent
    BY RouterFacts, GP!LogOfSafety
  <1> QED
    BY <1>1, <1>2, <1>3, RouterSpec, PTL

-------------------------------------------------------------------------------
(* The parts together *)

(* Put together, the router, the bucket and the accounts each still behave  *)
(* as they do alone: a step of the server is one of each, or leaves it be.  *)
THEOREM Composition == Spec => GP!Safety /\ LP!Spec /\ UP!Spec
  BY LimiterSpec, UsersSpec, RouterSpec, PTL

(* The clients of the whole server, behind its router, its rate limit and   *)
(* its middleware, are given what Accounts promises.                        *)
THEOREM ServerKeepsPromise == Spec => UP!AccountsImplemented
  <1>1. UP!Spec => UP!AccountsImplemented
    BY UsersFacts, UP!PromiseKept
  <1> QED
    BY <1>1, UsersSpec, PTL

-------------------------------------------------------------------------------
(* What holds the parts together *)

Parts == GP!Typed /\ GP!Inv /\ UP!TypeOK /\ LP!TypeOK

(* A request that has not arrived has no session; ... *)
Fresh(x) == req[x].pc = "idle" => sessions[x].pc = "idle"

(* ... those heard of were answered; ... *)
Heard(x) == \A l \in heard[x] : l \in Requests /\ req[l].pc = "sent"

(* ... a token that was taken is that of a login heard of; ... *)
Told(x) ==
    sessions[x].pc = "next" =>
        \E l \in heard[x] : sessions[l].pc = "loggedin" /\ sessions[l].token = sessions[x].token

(* ... a login is answered as one; ... *)
LoggedIn(x) ==
    sessions[x].pc = "loggedin" =>
        req[x].pc \in {"log", "sent"} /\ req[x].status = 200 /\ ~req[x].panicked

(* ... and so is what LoginHandler ends with otherwise, but for a panic; ... *)
Ends == {"bad", "error", "refused", "loggedin"}
LoginAnswered(x) ==
    req[x].pc # "idle" /\ req[x].ran /\ req[x].in.route = "LoginHandler" =>
        req[x].status = 500 \/ (sessions[x].pc \in Ends /\ req[x].status = Status[sessions[x].pc])

(* ... the rows a login saw have that of a registration heard of; ... *)
Seen(x) ==
    sessions[x].pc \in {"compare", "refused"} =>
        \A g \in heard[x] : sessions[g].pc = "registered" => sessions[g].id <= sessions[x].seen

(* ... and who was let through was let through by the bucket. *)
LetThrough(x) == req[x].pc # "idle" /\ req[x].admitted => asks[x].pc = "next"

Joined(x) ==
    /\ Fresh(x) /\ Heard(x) /\ Told(x) /\ LoggedIn(x)
    /\ LoginAnswered(x) /\ Seen(x) /\ LetThrough(x)

Inv == \A x \in Requests : Joined(x)

(* The requests but r are where they were. *)
Only(r) ==
    \A x \in Requests \ {r} :
        /\ req'[x] = req[x] /\ heard'[x] = heard[x]
        /\ sessions'[x] = sessions[x] /\ asks'[x] = asks[x]

HeardTyped == heard \in [Requests -> SUBSET Requests]

(* A step of r is of r. *)
LEMMA OneMoves ==
    ASSUME Parts, HeardTyped, NEW r \in Requests, Arrive(r) \/ Step(r)
    PROVE  /\ Only(r) /\ HeardTyped'
           /\ req' = [req EXCEPT ![r] = req'[r]]
           /\ sessions' = [sessions EXCEPT ![r] = sessions'[r]]
           /\ asks' = [asks EXCEPT ![r] = asks'[r]]
           /\ req[r].pc # "sent"
  <1> USE DEF bucket, accounts, router
  <1>0. /\ req = [x \in Requests |-> req[x]]
        /\ sessions = [x \in Requests |-> sessions[x]]
        /\ asks = [x \in Requests |-> asks[x]]
    BY DEF Parts, GP!Typed, UP!TypeOK, LP!TypeOK
  <1>1. /\ req' = req \/ \E c : req' = [req EXCEPT ![r] = c]
        /\ req[r].pc # "sent"
    <2>1. ASSUME Arrive(r)
          PROVE  req[r].pc # "sent" /\ \E c : req' = [req EXCEPT ![r] = c]
      BY <2>1 DEF Arrive, G!Arrive, G!Becomes
    <2>2. ASSUME G!Handler(r)
          PROVE  req[r].pc # "sent" /\ \E c : req' = [req EXCEPT ![r] = c]
      BY <2>2 DEF G!Handler, G!At, G!Becomes
    <2>3. ASSUME Pass(r) \/ G!RateLimiter(r) \/ G!JWTAuth(r)
          PROVE  req[r].pc # "sent" /\ \E c : req' = [req EXCEPT ![r] = c]
      BY <2>3 DEF Pass, G!ContextMiddleware, G!Logger, G!Cors, G!APIKeyAuth, G!LogRequest,
                  G!RateLimiter, G!JWTAuth, G!At, G!Becomes
    <2>4. ASSUME RateLimiter(r) \/ JWTAuth(r) \/ RegisterHandler(r) \/ LoginHandler(r) \/ OtherHandler(r)
          PROVE  req[r].pc # "sent" /\ (req' = req \/ \E c : req' = [req EXCEPT ![r] = c])
      <3>1. ASSUME G!At(r, "limiter") \/ G!At(r, "handler")
            PROVE  req[r].pc # "sent"
        BY <3>1 DEF G!At
      <3> QED
        BY <2>2, <2>3, <2>4, <3>1 DEF RateLimiter, JWTAuth, RegisterHandler, LoginHandler,
             OtherHandler, Answer
    <2> QED
      BY <2>1, <2>3, <2>4 DEF Step
  <1>2. sessions' = sessions \/ \E c : sessions' = [sessions EXCEPT ![r] = c]
    <2>1. ASSUME NEW b, U!RegisterHandler(r, b) \/ U!LoginHandler(r, b)
          PROVE  \E c : sessions' = [sessions EXCEPT ![r] = c]
      BY <2>1 DEF U!RegisterHandler, U!LoginHandler, U!Becomes
    <2>2. ASSUME U!LoginToken(r)
          PROVE  \E c : sessions' = [sessions EXCEPT ![r] = c]
      BY <2>2 DEF U!LoginToken, U!Becomes
    <2>3. ASSUME U!JWTAuth(r)
          PROVE  \E c : sessions' = [sessions EXCEPT ![r] = c]
      <3>1. ASSUME NEW token \in U!Issued,
                   IF U!Valid(token, now)
                   THEN U!Becomes(r, [pc |-> "next", token |-> token, at |-> now,
                                      username |-> U!UsernameOf(token)])
                   ELSE U!Becomes(r, [pc |-> "unauthorized", token |-> token, at |-> now])
            PROVE  \E c : sessions' = [sessions EXCEPT ![r] = c]
        <4>1. CASE U!Valid(token, now)
          BY <3>1, <4>1 DEF U!Becomes
        <4>2. CASE ~U!Valid(token, now)
          BY <3>1, <4>2 DEF U!Becomes
        <4> QED
          BY <4>1, <4>2
      <3> QED
        BY <2>3, <3>1 DEF U!JWTAuth, U!Becomes
    <2> QED
      BY <2>1, <2>2, <2>3 DEF Step, Arrive, Pass, RateLimiter, JWTAuth, RegisterHandler,
           LoginHandler, OtherHandler
  <1>3. asks' = asks \/ \E c : asks' = [asks EXCEPT ![r] = c]
    BY DEF Step, Arrive, Pass, RateLimiter, JWTAuth, RegisterHandler, LoginHandler, OtherHandler,
           L!ReadClock, L!AllowN, L!Admit, L!Refuse, L!Becomes
  <1>4. heard' = heard \/ heard' = [heard EXCEPT ![r] = {x \in Requests : req[x].pc = "sent"}]
    BY DEF Step, Arrive, Pass, RateLimiter, JWTAuth, RegisterHandler, LoginHandler, OtherHandler
  <1>5. HeardTyped'
    BY <1>4 DEF HeardTyped
  <1>6. Only(r)
    BY <1>0, <1>1, <1>2, <1>3, <1>4 DEF Only, HeardTyped
  <1> QED
    BY <1>0, <1>1, <1>2, <1>3, <1>5, <1>6

(* Nothing happens to a request that was answered. *)
LEMMA SentStays ==
    ASSUME Parts, HeardTyped, NEW r \in Requests, Arrive(r) \/ Step(r),
           NEW l \in Requests, req[l].pc = "sent"
    PROVE  /\ req'[l] = req[l] /\ sessions'[l] = sessions[l]
           /\ heard'[l] = heard[l] /\ asks'[l] = asks[l]
  BY OneMoves DEF Only

LEMMA OthersStayJoined ==
    ASSUME Parts, HeardTyped, Inv, NEW r \in Requests, Arrive(r) \/ Step(r),
           NEW x \in Requests \ {r}
    PROVE  Joined(x)'
  <1>1. /\ req'[x] = req[x] /\ heard'[x] = heard[x]
        /\ sessions'[x] = sessions[x] /\ asks'[x] = asks[x]
    BY OneMoves DEF Only
  <1>2. Joined(x)
    BY DEF Inv
  <1>3. \A l \in heard[x] : l \in Requests /\ req'[l] = req[l] /\ sessions'[l] = sessions[l]
    BY <1>2, SentStays DEF Joined, Heard
  <1>4. Fresh(x)' /\ LoggedIn(x)' /\ LetThrough(x)'
    BY <1>1, <1>2 DEF Joined, Fresh, LoggedIn, LetThrough
  <1>5. LoginAnswered(x)'
    BY <1>1, <1>2 DEF Joined, LoginAnswered, Status
  <1>6. Heard(x)' /\ Told(x)' /\ Seen(x)'
    BY <1>1, <1>2, <1>3 DEF Joined, Heard, Told, Seen
  <1> QED
    BY <1>4, <1>5, <1>6 DEF Joined

-------------------------------------------------------------------------------
(* What a step of the router leaves in its context *)

Same(c, d) ==
    /\ d.in = c.in /\ d.ran = c.ran /\ d.admitted = c.admitted /\ d.panicked = c.panicked

LEMMA Turns ==
    ASSUME NEW c \in GP!Context
    PROVE  /\ Same(c, G!Proceed(c)) /\ G!Proceed(c).status = c.status
           /\ G!Proceed(c).pc # "idle"
           /\ c.index = Len(G!Chain(c.in.route)) => G!Proceed(c).pc \in {"log", "sent"}
           /\ \A status : Same(c, G!Aborted(c, status)) /\ G!Aborted(c, status).pc # "idle"
  <1> DEFINE d == [c EXCEPT !.pc = IF c.logging THEN "log" ELSE "sent"]
             e == [c EXCEPT !.index = @ + 1]
  <1>1. Same(c, d) /\ d.status = c.status /\ d.pc \in {"log", "sent"}
    BY DEF GP!Context, Same
  <1>2. Same(c, e) /\ e.status = c.status /\ e.pc # "idle"
    BY DEF GP!Context, Same
  <1>3. G!Proceed(c) = IF c.index = Len(G!Chain(c.in.route)) THEN d ELSE e
    BY DEF G!Proceed, G!Return
  <1>4. ASSUME NEW status
        PROVE  Same(c, G!Aborted(c, status)) /\ G!Aborted(c, status).pc # "idle"
    BY DEF G!Aborted, G!Return, GP!Context, Same
  <1> QED
    BY <1>1, <1>2, <1>3, <1>4

(* A request at a function of its chain. *)
LEMMA AtStands ==
    ASSUME Parts, NEW r \in Requests, NEW name, G!At(r, name)
    PROVE  /\ req[r] \in GP!Context /\ req[r].pc = "run" /\ ~req[r].ran
           /\ name = "handler" => req[r].index = Len(G!Chain(req[r].in.route))
  <1>1. GP!At(r, name)
    BY SameAt
  <1>2. /\ req[r] \in GP!Context /\ req[r].pc = "run" /\ GP!Running(req[r])
        /\ req[r].in.route \in GP!Routes
        /\ req[r].index \in 1 .. GP!Length(req[r].in.route)
        /\ GP!Chain(req[r].in.route)[req[r].index] = name
    BY <1>1, RouterFacts, GP!Standing DEF Parts
  <1>3. name = "handler" => req[r].index = GP!Length(req[r].in.route)
    BY <1>2, RouterFacts, GP!Places
  <1> QED
    BY <1>2, <1>3, SameChain DEF GP!Running, GP!Length

LEMMA PassLeaves ==
    ASSUME Parts, NEW r \in Requests, Pass(r) \/ G!RateLimiter(r) \/ G!JWTAuth(r)
    PROVE  /\ req[r].pc # "idle" /\ req'[r].pc # "idle"
           /\ req'[r].in = req[r].in /\ req'[r].ran = req[r].ran
           /\ req'[r].panicked = req[r].panicked
           /\ Pass(r) \/ G!JWTAuth(r) => req'[r].admitted = req[r].admitted
           /\ \/ req[r].pc = "run" /\ ~req[r].ran
              \/ req[r].pc = "log" /\ req'[r].pc = "sent" /\ req'[r].status = req[r].status
  <1>0. req = [x \in Requests |-> req[x]]
    BY DEF Parts, GP!Typed
  <1> DEFINE c == req[r]
  <1>1. ASSUME G!ContextMiddleware(r) \/ G!Logger(r) \/ G!Cors(r) \/ G!APIKeyAuth(r)
        PROVE  /\ c \in GP!Context /\ c.pc = "run" /\ ~c.ran
               /\ Same(c, req'[r]) /\ req'[r].pc # "idle"
    <2>1. c \in GP!Context /\ c.pc = "run" /\ ~c.ran
      BY <1>1, AtStands DEF G!ContextMiddleware, G!Logger, G!Cors, G!APIKeyAuth
    <2>2. CASE G!ContextMiddleware(r)
      <3>1. req'[r] = G!Proceed([c EXCEPT !.appCtx = TRUE])
        BY <1>0, <2>2 DEF G!ContextMiddleware, G!Becomes
      <3>2. [c EXCEPT !.appCtx = TRUE] \in GP!Context /\ Same(c, [c EXCEPT !.appCtx = TRUE])
        BY <2>1 DEF GP!Context, Same
      <3> QED
        BY <2>1, <3>1, <3>2, Turns DEF Same
    <2>3. CASE G!Logger(r)
      <3>1. req'[r] = G!Proceed([c EXCEPT !.logging = TRUE])
        BY <1>0, <2>3 DEF G!Logger, G!Becomes
      <3>2. [c EXCEPT !.logging = TRUE] \in GP!Context /\ Same(c, [c EXCEPT !.logging = TRUE])
        BY <2>1 DEF GP!Context, Same
      <3> QED
        BY <2>1, <3>1, <3>2, Turns DEF Same
    <2>4. CASE G!Cors(r) \/ G!APIKeyAuth(r)
      <3>1. req'[r] = G!Proceed(c) \/ \E status : req'[r] = G!Aborted(c, status)
        BY <1>0, <2>4 DEF G!Cors, G!APIKeyAuth, G!Becomes
      <3> QED
        BY <2>1, <3>1, Turns
    <2> QED
      BY <1>1, <2>2, <2>3, <2>4
  <1>2. ASSUME G!JWTAuth(r)
        PROVE  /\ c \in GP!Context /\ c.pc = "run" /\ ~c.ran
               /\ Same(c, req'[r]) /\ req'[r].pc # "idle"
    <2>1. c \in GP!Context /\ c.pc = "run" /\ ~c.ran
      BY <1>2, AtStands DEF G!JWTAuth
    <2> DEFINE d == [c EXCEPT !.username = TRUE]
    <2>2. d \in GP!Context /\ Same(c, d)
      BY <2>1 DEF GP!Context, Same
    <2>3. req'[r] = G!Proceed(d) \/ req'[r] = G!Aborted(c, 401)
      BY <1>0, <1>2 DEF G!JWTAuth, G!Becomes
    <2>4. Same(d, G!Proceed(d)) /\ G!Proceed(d).pc # "idle"
      BY <2>2, Turns
    <2>5. Same(c, G!Aborted(c, 401)) /\ G!Aborted(c, 401).pc # "idle"
      BY <2>1, Turns
    <2> HIDE DEF d
    <2> QED
      BY <2>1, <2>2, <2>3, <2>4, <2>5 DEF Same
  <1>3. ASSUME G!RateLimiter(r)
        PROVE  /\ c \in GP!Context /\ c.pc = "run" /\ ~c.ran
               /\ req'[r].in = c.in /\ req'[r].ran = c.ran /\ req'[r].panicked = c.panicked
               /\ req'[r].pc # "idle"
    <2>1. c \in GP!Context /\ c.pc = "run" /\ ~c.ran
      BY <1>3, AtStands DEF G!RateLimiter
    <2> DEFINE d == [c EXCEPT !.admitted = TRUE]
    <2>2. d \in GP!Context /\ d.in = c.in /\ d.ran = c.ran /\ d.panicked = c.panicked
      BY <2>1 DEF GP!Context
    <2>3. req'[r] = G!Proceed(d) \/ req'[r] = G!Aborted(c, 429)
      BY <1>0, <1>3 DEF G!RateLimiter, G!Becomes
    <2>4. Same(d, G!Proceed(d)) /\ G!Proceed(d).pc # "idle"
      BY <2>2, Turns
    <2>5. Same(c, G!Aborted(c, 429)) /\ G!Aborted(c, 429).pc # "idle"
      BY <2>1, Turns
    <2> HIDE DEF d
    <2> QED
      BY <2>1, <2>2, <2>3, <2>4, <2>5 DEF Same
  <1>4. ASSUME G!LogRequest(r)
        PROVE  /\ c \in GP!Context /\ c.pc = "log" /\ req'[r].pc = "sent"
               /\ Same(c, req'[r]) /\ req'[r].status = c.status
    <2>1. c.pc = "log" /\ c \in GP!Context
      BY <1>4 DEF G!LogRequest, Parts, GP!Typed
    <2>2. \/ req'[r] = [c EXCEPT !.pc = "sent"]
          \/ req'[r] = [c EXCEPT !.pc = "sent", !.unlogged = TRUE]
      BY <1>0, <1>4 DEF G!LogRequest, G!Becomes
    <2> QED
      BY <2>1, <2>2 DEF GP!Context, Same
  <1> QED
    BY <1>1, <1>2, <1>3, <1>4 DEF Pass, Same

LEMMA HandlerLeaves ==
    ASSUME Parts, NEW r \in Requests, G!Handler(r)
    PROVE  /\ req[r].pc = "run" /\ ~req[r].ran
           /\ req'[r].pc \in {"log", "sent"} /\ req'[r].in = req[r].in
           /\ req'[r].admitted = req[r].admitted
           /\ req'[r].panicked => req'[r].status = 500
  <1>0. req = [x \in Requests |-> req[x]]
    BY DEF Parts, GP!Typed
  <1> DEFINE c == [req[r] EXCEPT !.ran = TRUE]
             d == [c EXCEPT !.pc = "sent", !.status = 500, !.panicked = TRUE]
  <1>1. /\ req[r] \in GP!Context /\ req[r].pc = "run" /\ ~req[r].ran
        /\ req[r].index = Len(G!Chain(req[r].in.route))
    BY AtStands DEF G!Handler
  <1>2. ~req[r].panicked
    <2>1. GP!Running(req[r])
      BY <1>1 DEF Parts, GP!Inv, GP!Sound
    <2> QED
      BY <2>1 DEF GP!Running
  <1>3. CASE req' = [req EXCEPT ![r] = d]
    BY <1>0, <1>1, <1>3 DEF GP!Context
  <1>4. ASSUME NEW status \in G!Answers(c.in.route),
               req' = [req EXCEPT ![r] = G!Proceed([c EXCEPT !.status = status])]
        PROVE  /\ req'[r].pc \in {"log", "sent"} /\ req'[r].in = req[r].in
               /\ req'[r].admitted = req[r].admitted /\ ~req'[r].panicked
    <2> DEFINE e == [c EXCEPT !.status = status]
    <2>1. status \in GP!Statuses
      <3>1. c.in.route \in GP!Routes \ {"unknown"}
        <4>1. GP!At(r, "handler")
          BY SameAt DEF G!Handler
        <4>2. /\ req[r].in.route \in GP!Routes /\ req[r].index \in 1 .. GP!Length(req[r].in.route)
              /\ GP!Chain(req[r].in.route)[req[r].index] = "handler"
          BY <4>1, RouterFacts, GP!Standing DEF Parts
        <4>3. req[r].in.route # "unknown"
          BY <4>2, RouterFacts, GP!Places
        <4> QED
          BY <1>1, <4>2, <4>3 DEF GP!Context
      <3> QED
        BY <3>1 DEF G!Answers, G!UserAnswers, G!BookAnswers, G!SwaggerAnswers, GP!Routes, GP!Keyed,
               GP!Statuses
    <2>2. /\ e \in GP!Context /\ e.in = req[r].in /\ e.admitted = req[r].admitted /\ ~e.panicked
          /\ e.index = req[r].index
      BY <1>1, <1>2, <2>1 DEF GP!Context
    <2>3. req'[r] = G!Proceed(e)
      BY <1>0, <1>4
    <2>4. /\ Same(e, G!Proceed(e))
          /\ e.index = Len(G!Chain(e.in.route)) => G!Proceed(e).pc \in {"log", "sent"}
      BY <2>2, Turns
    <2> HIDE DEF e
    <2> QED
      BY <1>1, <2>2, <2>3, <2>4 DEF Same
  <1> QED
    BY <1>1, <1>3, <1>4 DEF G!Handler, G!Becomes

-------------------------------------------------------------------------------
(* The request a step is of *)

LEMMA ArriveJoins ==
    ASSUME Parts, HeardTyped, Inv, NEW r \in Requests, Arrive(r)
    PROVE  Joined(r)'
  <1>0. Joined(r)
    BY DEF Inv
  <1>1. /\ req[r].pc = "idle" /\ sessions' = sessions /\ asks' = asks
        /\ heard'[r] = {x \in Requests : req[x].pc = "sent"}
    BY DEF Arrive, G!Arrive, accounts, bucket, HeardTyped
  <1>2. req'[r].pc = "run" /\ ~req'[r].ran /\ ~req'[r].admitted
    <2>1. req = [x \in Requests |-> req[x]]
      BY DEF Parts, GP!Typed
    <2> QED
      BY <2>1 DEF Arrive, G!Arrive, G!Becomes
  <1>3. sessions'[r].pc = "idle"
    BY <1>0, <1>1 DEF Joined, Fresh
  <1>4. Heard(r)'
    BY <1>1, SentStays DEF Heard
  <1> QED
    BY <1>2, <1>3, <1>4 DEF Joined, Fresh, Told, LoggedIn, LoginAnswered, Seen, LetThrough

(* The requests r has heard of stay as they are. *)
LEMMA HearsTheSame ==
    ASSUME Parts, HeardTyped, Inv, NEW r \in Requests, Step(r)
    PROVE  /\ heard'[r] = heard[r] /\ Heard(r)'
           /\ \A l \in heard[r] : l \in Requests /\ l # r /\ req'[l] = req[l] /\ sessions'[l] = sessions[l]
  <1>1. Heard(r)
    BY DEF Inv, Joined
  <1>2. \A l \in heard[r] : l \in Requests /\ l # r /\ req'[l] = req[l] /\ sessions'[l] = sessions[l]
    BY <1>1, SentStays, OneMoves DEF Heard
  <1>3. heard' = heard
    BY DEF Step, Pass, RateLimiter, JWTAuth, RegisterHandler, LoginHandler, OtherHandler
  <1> QED
    BY <1>1, <1>2, <1>3 DEF Heard

LEMMA PassJoins ==
    ASSUME Parts, HeardTyped, Inv, NEW r \in Requests, Pass(r)
    PROVE  Joined(r)'
  <1>0. Joined(r) /\ Step(r)
    BY DEF Inv, Step
  <1>1. sessions' = sessions /\ asks' = asks
    BY DEF Pass, bucket, accounts
  <1>2. /\ heard'[r] = heard[r] /\ Heard(r)'
        /\ \A l \in heard[r] : l \in Requests /\ l # r /\ req'[l] = req[l] /\ sessions'[l] = sessions[l]
    BY <1>0, HearsTheSame
  <1>3. /\ req[r].pc # "idle" /\ req'[r].pc # "idle"
        /\ req'[r].in = req[r].in /\ req'[r].ran = req[r].ran
        /\ req'[r].panicked = req[r].panicked /\ req'[r].admitted = req[r].admitted
        /\ \/ req[r].pc = "run" /\ ~req[r].ran
           \/ req[r].pc = "log" /\ req'[r].pc = "sent" /\ req'[r].status = req[r].status
    BY PassLeaves
  <1>4. Fresh(r)' /\ LoggedIn(r)' /\ LetThrough(r)'
    BY <1>0, <1>1, <1>3 DEF Joined, Fresh, LoggedIn, LetThrough
  <1>5. LoginAnswered(r)'
    BY <1>0, <1>1, <1>3 DEF Joined, LoginAnswered, Status
  <1>6. Told(r)' /\ Seen(r)'
    BY <1>0, <1>1, <1>2 DEF Joined, Told, Seen
  <1> QED
    BY <1>2, <1>4, <1>5, <1>6 DEF Joined

LEMMA LimiterJoins ==
    ASSUME Parts, HeardTyped, Inv, NEW r \in Requests, RateLimiter(r)
    PROVE  Joined(r)'
  <1>0. Joined(r) /\ Step(r)
    BY DEF Inv, Step
  <1>1. sessions' = sessions
    BY DEF RateLimiter, accounts
  <1>2. /\ heard'[r] = heard[r] /\ Heard(r)'
        /\ \A l \in heard[r] : l \in Requests /\ l # r /\ req'[l] = req[l] /\ sessions'[l] = sessions[l]
    BY <1>0, HearsTheSame
  <1>3. req[r].pc = "run" /\ ~req[r].ran
    BY AtStands DEF RateLimiter
  <1>4. \/ req' = req /\ asks[r].pc = "idle"
        \/ /\ req'[r].pc # "idle" /\ req'[r].ran = req[r].ran
           /\ req'[r].admitted <=> asks'[r].pc = "next"
    BY PassLeaves DEF RateLimiter, L!ReadClock, router
  <1>5. sessions[r].pc # "loggedin"
    BY <1>0, <1>3 DEF Joined, LoggedIn
  <1>6. Fresh(r)' /\ LoggedIn(r)' /\ LoginAnswered(r)' /\ LetThrough(r)'
    BY <1>0, <1>1, <1>3, <1>4, <1>5 DEF Joined, Fresh, LoggedIn, LoginAnswered, LetThrough
  <1>7. Told(r)' /\ Seen(r)'
    BY <1>0, <1>1, <1>2 DEF Joined, Told, Seen
  <1> QED
    BY <1>2, <1>6, <1>7 DEF Joined

LEMMA JWTAuthJoins ==
    ASSUME Parts, HeardTyped, Inv, NEW r \in Requests, JWTAuth(r)
    PROVE  Joined(r)'
  <1>0. Joined(r) /\ Step(r)
    BY DEF Inv, Step
  <1>1. asks' = asks
    BY DEF JWTAuth, bucket
  <1>2. /\ heard'[r] = heard[r] /\ Heard(r)'
        /\ \A l \in heard[r] : l \in Requests /\ l # r /\ req'[l] = req[l] /\ sessions'[l] = sessions[l]
    BY <1>0, HearsTheSame
  <1>3. /\ req[r].pc = "run" /\ ~req[r].ran
        /\ req'[r].pc # "idle" /\ ~req'[r].ran /\ req'[r].admitted = req[r].admitted
    <2>1. req[r].pc = "run" /\ ~req[r].ran
      BY AtStands DEF JWTAuth, G!JWTAuth
    <2> QED
      BY <2>1, PassLeaves DEF JWTAuth
  <1>4. /\ sessions'[r].pc \in {"next", "unauthorized"}
        /\ sessions'[r].pc = "next" => sessions'[r].token # Forged
    <2>1. UP!JWTAuth(r) /\ UP!TypeOK
      BY UsersJWTAuth DEF JWTAuth, Parts
    <2>2. sessions = [x \in Requests |-> sessions[x]]
      BY DEF Parts, UP!TypeOK
    <2>3. ASSUME NEW token \in UP!Issued
          PROVE  token # Forged
      BY <2>1, <2>3, UsersFacts, UP!IssuedIsTyped
    <2> QED
      BY <2>1, <2>2, <2>3 DEF UP!JWTAuth, UP!Becomes
  <1>5. Told(r)'
    <2> SUFFICES ASSUME sessions'[r].pc = "next"
                 PROVE  \E l \in heard'[r] : /\ sessions'[l].pc = "loggedin"
                                             /\ sessions'[l].token = sessions'[r].token
      BY DEF Told
    <2>1. sessions'[r].token \in Known(r)
      BY <1>4 DEF JWTAuth
    <2>2. PICK l \in heard[r] : sessions[l].pc = "loggedin" /\ sessions[l].token = sessions'[r].token
      BY <2>1 DEF Known
    <2> QED
      BY <1>2, <2>2
  <1>6. Fresh(r)' /\ LoggedIn(r)' /\ LoginAnswered(r)' /\ Seen(r)' /\ LetThrough(r)'
    BY <1>0, <1>1, <1>3, <1>4 DEF Joined, Fresh, LoggedIn, LoginAnswered, Seen, LetThrough
  <1> QED
    BY <1>2, <1>5, <1>6 DEF Joined

(* How a handler of accounts is answered. *)
LEMMA AnswerJoins ==
    ASSUME Parts, HeardTyped, Inv, NEW r \in Requests, Step(r), asks' = asks, Answer(r),
           sessions'[r].pc \in DOMAIN Status \ {"next"},
           req[r].in.route = "LoginHandler" => sessions'[r].pc \in Ends
    PROVE  Fresh(r)' /\ LoggedIn(r)' /\ LoginAnswered(r)' /\ LetThrough(r)'
  <1>0. Joined(r)
    BY DEF Inv
  <1>1. /\ req[r].pc = "run"
        /\ req'[r].pc \in {"log", "sent"} /\ req'[r].in = req[r].in
        /\ req'[r].admitted = req[r].admitted
    BY HandlerLeaves DEF Answer
  <1>2. ~req'[r].panicked /\ req'[r].status = Status[sessions'[r].pc]
    BY DEF Answer
  <1>3. sessions'[r].pc = "loggedin" => req'[r].status = 200
    BY <1>2 DEF Status
  <1> QED
    BY <1>0, <1>1, <1>2, <1>3 DEF Joined, Fresh, LoggedIn, LoginAnswered, LetThrough, Status

LEMMA RegisterJoins ==
    ASSUME Parts, HeardTyped, Inv, NEW r \in Requests, RegisterHandler(r)
    PROVE  Joined(r)'
  <1>0. Step(r) /\ asks' = asks
    BY DEF Step, RegisterHandler, bucket
  <1>1. Heard(r)'
    BY <1>0, HearsTheSame
  <1>2. sessions'[r].pc \in {"bad", "error", "registered", "unsaved"}
    <2>1. sessions = [x \in Requests |-> sessions[x]]
      BY DEF Parts, UP!TypeOK
    <2> QED
      BY <2>1 DEF RegisterHandler, U!RegisterHandler, U!Becomes
  <1>3. sessions'[r].pc \in DOMAIN Status \ {"next"}
    BY <1>2 DEF Status
  <1>4. Fresh(r)' /\ LoggedIn(r)' /\ LoginAnswered(r)' /\ LetThrough(r)'
    BY <1>0, <1>3, AnswerJoins DEF RegisterHandler
  <1> QED
    BY <1>1, <1>2, <1>4 DEF Joined, Told, Seen

LEMMA OtherJoins ==
    ASSUME Parts, HeardTyped, Inv, NEW r \in Requests, OtherHandler(r)
    PROVE  Joined(r)'
  <1>0. Joined(r) /\ Step(r)
    BY DEF Inv, Step
  <1>1. sessions' = sessions /\ asks' = asks
    BY DEF OtherHandler, bucket, accounts
  <1>2. /\ heard'[r] = heard[r] /\ Heard(r)'
        /\ \A l \in heard[r] : l \in Requests /\ l # r /\ req'[l] = req[l] /\ sessions'[l] = sessions[l]
    BY <1>0, HearsTheSame
  <1>3. /\ req[r].pc = "run"
        /\ req'[r].pc \in {"log", "sent"} /\ req'[r].in = req[r].in
        /\ req'[r].admitted = req[r].admitted
        /\ req'[r].panicked => req'[r].status = 500
    BY HandlerLeaves DEF OtherHandler
  <1>4. req'[r].panicked \/ req'[r].in.route # "LoginHandler"
    BY <1>3 DEF OtherHandler
  <1>5. Fresh(r)' /\ LoggedIn(r)' /\ LoginAnswered(r)' /\ LetThrough(r)'
    BY <1>0, <1>1, <1>3, <1>4 DEF Joined, Fresh, LoggedIn, LoginAnswered, LetThrough
  <1>6. Told(r)' /\ Seen(r)'
    BY <1>0, <1>1, <1>2 DEF Joined, Told, Seen
  <1> QED
    BY <1>2, <1>5, <1>6 DEF Joined

LEMMA LoginJoins ==
    ASSUME Parts, HeardTyped, Inv, NEW r \in Requests, LoginHandler(r)
    PROVE  Joined(r)'
  <1>0. Joined(r) /\ Step(r) /\ asks' = asks
    BY DEF Inv, Step, LoginHandler, bucket
  <1>1. /\ heard'[r] = heard[r] /\ Heard(r)'
        /\ \A l \in heard[r] : l \in Requests /\ l # r /\ req'[l] = req[l] /\ sessions'[l] = sessions[l]
    BY <1>0, HearsTheSame
  <1>2. sessions = [x \in Requests |-> sessions[x]]
    BY DEF Parts, UP!TypeOK
  <1>3. req[r].pc = "run" /\ ~req[r].ran
    BY AtStands DEF LoginHandler
  <1>4. /\ sessions'[r].pc \in Ends \cup {"compare"}
        /\ sessions'[r].pc \in {"compare", "refused"} =>
              \/ sessions'[r].seen = Len(users)
              \/ sessions[r].pc = "compare" /\ sessions'[r].seen = sessions[r].seen
    <2>1. ASSUME U!LoginToken(r)
          PROVE  /\ sessions'[r].pc \in {"loggedin", "refused"}
                 /\ sessions'[r].pc = "refused" =>
                       sessions[r].pc = "compare" /\ sessions'[r].seen = sessions[r].seen
      BY <1>2, <2>1 DEF U!LoginToken, U!Becomes
    <2>2. ASSUME NEW b, U!LoginHandler(r, b)
          PROVE  /\ sessions'[r].pc \in {"bad", "compare", "refused", "error"}
                 /\ sessions'[r].pc \in {"compare", "refused"} => sessions'[r].seen = Len(users)
      BY <1>2, <2>2 DEF U!LoginHandler, U!Refused, U!Becomes
    <2> QED
      BY <2>1, <2>2 DEF LoginHandler, Ends
  <1>5. Seen(r)'
    <2> SUFFICES ASSUME sessions'[r].pc \in {"compare", "refused"}, NEW g \in heard[r],
                        sessions'[g].pc = "registered"
                 PROVE  sessions'[g].id <= sessions'[r].seen
      BY <1>1 DEF Seen
    <2>1. sessions[g].pc = "registered" /\ sessions'[g] = sessions[g] /\ g \in Requests
      BY <1>1
    <2>2. CASE sessions'[r].seen = Len(users)
      <3>1. sessions[g] \in UP!Request(Len(users), now) /\ Len(users) \in Nat
        BY <2>1 DEF Parts, UP!TypeOK
      <3>2. sessions[g].id \in 1 .. Len(users)
        BY <2>1, <3>1 DEF UP!Request
      <3> QED
        BY <2>1, <2>2, <3>1, <3>2
    <2>3. CASE sessions[r].pc = "compare" /\ sessions'[r].seen = sessions[r].seen
      BY <1>0, <2>1, <2>3 DEF Joined, Seen
    <2> QED
      BY <1>4, <2>2, <2>3
  <1>6. Told(r)'
    BY <1>4 DEF Told, Ends
  <1>7. CASE sessions'[r].pc = "compare"
    <2>1. req' = req
      BY <1>7 DEF LoginHandler, router
    <2> QED
      BY <1>0, <1>1, <1>3, <1>5, <1>6, <1>7, <2>1
         DEF Joined, Fresh, LoggedIn, LoginAnswered, LetThrough
  <1>8. CASE sessions'[r].pc # "compare"
    <2>1. sessions'[r].pc \in Ends /\ Answer(r)
      BY <1>4, <1>8 DEF LoginHandler
    <2>2. sessions'[r].pc \in DOMAIN Status \ {"next"}
      BY <2>1 DEF Ends, Status
    <2>3. Fresh(r)' /\ LoggedIn(r)' /\ LoginAnswered(r)' /\ LetThrough(r)'
      BY <1>0, <2>1, <2>2, AnswerJoins
    <2> QED
      BY <1>1, <1>5, <1>6, <2>3 DEF Joined
  <1> QED
    BY <1>7, <1>8

LEMMA JoinedNext ==
    ASSUME Parts, HeardTyped, Inv, [Next]_vars
    PROVE  HeardTyped' /\ Inv'
  <1>1. ASSUME NEW r \in Requests, Arrive(r) \/ Step(r)
        PROVE  HeardTyped' /\ Inv'
    <2>1. HeardTyped'
      BY <1>1, OneMoves
    <2>2. Joined(r)'
      BY <1>1, ArriveJoins, PassJoins, LimiterJoins, JWTAuthJoins, RegisterJoins,
           LoginJoins, OtherJoins
         DEF Step
    <2>3. \A x \in Requests \ {r} : Joined(x)'
      BY <1>1, OthersStayJoined
    <2> QED
      BY <2>1, <2>2, <2>3 DEF Inv
  <1>2. CASE Tick \/ UNCHANGED vars
    <2>1. UNCHANGED <<req, sessions, heard, asks>>
      BY <1>2 DEF Tick, L!Tick, U!Tick, vars, router, bucket, accounts
    <2> QED
      BY <2>1 DEF HeardTyped, Inv, Joined, Fresh, Heard, Told, LoggedIn, LoginAnswered,
           Seen, LetThrough, Status
  <1> QED
    BY <1>1, <1>2 DEF Next

LEMMA PartsKept == Spec => []Parts
  BY RouterKept, UsersKept, LimiterKept, PTL DEF Parts

LEMMA Invariance == Spec => [](HeardTyped /\ Inv)
  <1>1. Init => HeardTyped /\ Inv
    BY DEF Init, G!Init, U!Init, U!Idle, HeardTyped, Inv, Joined, Fresh, Heard, Told,
         LoggedIn, LoginAnswered,
           Seen, LetThrough
  <1>2. Parts /\ HeardTyped /\ Inv /\ [Next]_vars => (HeardTyped /\ Inv)'
    BY JoinedNext
  <1> QED
    BY <1>1, <1>2, PartsKept, PTL DEF Spec

-------------------------------------------------------------------------------
(* The theorems *)

(* The types of the components are kept, whatever they share. *)
THEOREM TypeCorrect == Spec => []TypeOK
  <1>1. GP!TypeOK => G!TypeOK
    BY SameChain DEF G!TypeOK, GP!TypeOK, G!Context, GP!Context, G!Arrival, GP!Arrival,
       G!Routes, GP!Routes, G!Keyed, GP!Keyed, G!Global, GP!Global, G!Statuses, GP!Statuses
  <1>2. LP!TypeOK => L!TypeOK
    BY DEF L!TypeOK, LP!TypeOK, L!Asked, LP!Asked, L!Moments, LP!Moments, L!Full, LP!Full
  <1>3. UP!TypeOK => U!TypeOK
    BY DEF U!TypeOK, UP!TypeOK, U!Request, UP!Request, U!User, UP!User, U!Credentials,
         UP!Credentials,
       U!Token, UP!Token, U!Hashes, UP!Hashes, U!HashPassword, UP!HashPassword
  <1>4. GP!TypeOK /\ LP!TypeOK /\ UP!TypeOK /\ HeardTyped => TypeOK
    BY <1>1, <1>2, <1>3 DEF TypeOK, HeardTyped
  <1> QED
    BY <1>4, RouterKept, LimiterKept, UsersKept, Invariance, PTL

LEMMA MoreCostMore ==
    ASSUME NEW c \in Nat, NEW m \in Nat, NEW n \in Nat, m <= n
    PROVE  c * m <= c * n
  <1>1. PICK d \in Nat : n = m + d
    <2>1. n - m \in Nat /\ n = m + (n - m)
      OBVIOUS
    <2> QED
      BY <2>1
  <1>2. c * n = c * m + c * d /\ c * d \in Nat /\ c * m \in Nat
    BY <1>1
  <1> QED
    BY <1>2

(* The handlers that run since any moment had a token of the bucket each,   *)
(* for every chain, whatever runs before the limiter and after it.          *)
THEOREM HandlersArePaidFor == Spec => []HandlersPaidFor
  <1>1. Parts /\ LP!Paid /\ Inv => HandlersPaidFor
    <2> SUFFICES ASSUME Parts, LP!Paid, Inv, NEW s \in 0 .. now
                 PROVE  Period * Cardinality({r \in Requests : G!Ran(r) /\ asks[r].at >= s})
                            <= Burst * Period + (now - s) + late[s]
      BY DEF HandlersPaidFor
    <2> DEFINE Runners == {r \in Requests : G!Ran(r) /\ asks[r].at >= s}
    <2>1. ASSUME NEW r \in Requests, G!Ran(r)
          PROVE  asks[r].pc = "next"
      <3>1. req[r].pc # "idle" /\ req[r].ran /\ GP!Sound(req[r])
        BY <2>1 DEF G!Ran, Parts, GP!Inv
      <3>2. req[r].admitted
        BY <3>1 DEF GP!Sound, GP!Running, GP!Answered, GP!Passed
      <3> QED
        BY <3>1, <3>2 DEF Inv, Joined, LetThrough
    <2>2. Runners \subseteq LP!Since(s)
      BY <2>1 DEF LP!Since
    <2>3. /\ IsFiniteSet(LP!Since(s))
          /\ Period * Cardinality(LP!Since(s)) <= Burst * Period + (now - s) + late[s]
      <3>1. \A S : (LP!IsFiniteSet(S) <=> IsFiniteSet(S)) /\ LP!Cardinality(S) = Cardinality(S)
        BY DEF LP!IsFiniteSet, IsFiniteSet, LP!Cardinality, Cardinality
      <3> QED
        BY <3>1 DEF LP!Paid, LP!Cost, LP!Full
    <2>4. /\ Cardinality(Runners) \in Nat /\ Cardinality(LP!Since(s)) \in Nat
          /\ Cardinality(Runners) <= Cardinality(LP!Since(s))
      BY <2>2, <2>3, FS_Subset, FS_CardinalityType
    <2>5. Period \in Nat
      BY ServerAssumption
    <2>6. Period * Cardinality(Runners) <= Period * Cardinality(LP!Since(s))
      BY <2>4, <2>5, MoreCostMore
    <2>7. Burst * Period + (now - s) + late[s] \in Int
      <3>1. now \in Nat /\ s \in LP!Moments /\ late[s] \in Nat
        BY ServerAssumption DEF Parts, LP!TypeOK, LP!Moments
      <3> QED
        BY <2>5, <3>1, ServerAssumption
    <2>8. Period * Cardinality(Runners) \in Int /\ Period * Cardinality(LP!Since(s)) \in Int
      BY <2>4, <2>5
    <2> HIDE DEF Runners
    <2>9. Period * Cardinality(Runners) <= Burst * Period + (now - s) + late[s]
      BY <2>3, <2>6, <2>7, <2>8
    <2> QED
      BY <2>9 DEF Runners
  <1> QED
    BY <1>1, PartsKept, LimiterKept, Invariance, PTL

(* Where Postgres holds names unique, a client that was told it is          *)
(* registered and logs in after that is not refused.                        *)
THEOREM RegisteredLogInAfterwards ==
    ASSUME UniqueIndex
    PROVE  Spec => []RegisteredLogsIn
  <1>1. Parts /\ UP!RegisteredCanLogin /\ HeardTyped /\ Inv => RegisteredLogsIn
    <2> SUFFICES ASSUME Parts, UP!RegisteredCanLogin, HeardTyped, Inv,
                        NEW l \in Requests, NEW g \in heard[l],
                        Sent(g, 201), sessions[g].pc = "registered",
                        req[l].pc # "idle", req[l].in.route = "LoginHandler", req[l].ran,
                        "body" \in DOMAIN sessions[l], sessions[l].body = sessions[g].body
                 PROVE  req[l].status \in {200, 500}
      BY DEF RegisteredLogsIn
    <2>1. Joined(l) /\ g \in Requests
      BY DEF Inv, HeardTyped
    <2>2. \/ req[l].status = 500
          \/ sessions[l].pc \in Ends /\ req[l].status = Status[sessions[l].pc]
      BY <2>1 DEF Joined, LoginAnswered
    <2>3. ASSUME sessions[l].pc = "refused"
          PROVE  FALSE
      <3>1. sessions[g].id > sessions[l].seen
        BY <2>1, <2>3 DEF UP!RegisteredCanLogin
      <3>2. sessions[g].id <= sessions[l].seen
        BY <2>1, <2>3 DEF Joined, Seen
      <3>3. sessions[g].id \in Int /\ sessions[l].seen \in Int
        BY <2>1, <2>3 DEF Parts, UP!TypeOK, UP!Request
      <3> QED
        BY <3>1, <3>2, <3>3
    <2>4. sessions[l].pc # "bad"
      BY <2>1 DEF Parts, UP!TypeOK, UP!Request
    <2> QED
      BY <2>2, <2>3, <2>4 DEF Ends, Status
  <1> QED
    BY <1>1, PartsKept, UsersRegistered, Invariance, PTL

(* LoginLoggedBeforeUse, of the entry i, which is of x. *)
LoggedBefore(i, x) ==
    sessions[x].pc = "next" =>
        \E l \in heard[x] :
            /\ sessions[l].pc = "loggedin" /\ sessions[l].token = sessions[x].token
            /\ req[l].unlogged \/ \E j \in 1 .. i - 1 : logs[j] = [request |-> l, status |-> 200]

UseLogged == \A i \in DOMAIN logs : \A x \in Requests : logs[i].request = x => LoggedBefore(i, x)

LogFacts == GP!TypeOK /\ GP!LoggedAsSent

Entry == [request : Requests, status : GP!Statuses]

(* The entry of a login that was answered. *)
LEMMA LoginHasEntry ==
    ASSUME LogFacts, Inv, NEW l \in Requests, req[l].pc = "sent", sessions[l].pc = "loggedin"
    PROVE  req[l].unlogged \/ \E j \in 1 .. Len(logs) : logs[j] = [request |-> l, status |-> 200]
  <1>1. req[l].status = 200 /\ ~req[l].panicked
    BY DEF Inv, Joined, LoggedIn
  <1>2. \/ \E j \in GP!EntriesOf(l) : logs[j].status = 200
        \/ req[l].unlogged
    BY <1>1 DEF LogFacts, GP!LoggedAsSent
  <1>3. ASSUME NEW j \in GP!EntriesOf(l), logs[j].status = 200
        PROVE  j \in 1 .. Len(logs) /\ logs[j] = [request |-> l, status |-> 200]
    <2>1. logs \in Seq(Entry) /\ j \in DOMAIN logs /\ logs[j].request = l
      BY <1>3 DEF GP!EntriesOf, LogFacts, GP!TypeOK, Entry
    <2>2. j \in 1 .. Len(logs) /\ logs[j] \in Entry
      BY <2>1
    <2> QED
      BY <1>3, <2>1, <2>2 DEF Entry
  <1> QED
    BY <1>2, <1>3

(* What a step does to the log. *)
LEMMA LogGrows ==
    ASSUME [Next]_vars
    PROVE  \/ logs' = logs
           \/ \E r \in Requests :
                 Pass(r) /\ logs' = Append(logs, [request |-> r, status |-> req[r].status])
  <1> USE DEF router
  <1>1. ASSUME NEW r \in Requests, Pass(r)
        PROVE  logs' = logs \/ logs' = Append(logs, [request |-> r, status |-> req[r].status])
    BY <1>1 DEF Pass, G!ContextMiddleware, G!Logger, G!Cors, G!APIKeyAuth, G!LogRequest
  <1>2. ASSUME NEW r \in Requests, Arrive(r) \/ RateLimiter(r) \/ JWTAuth(r) \/ RegisterHandler(r)
                                   \/ LoginHandler(r) \/ OtherHandler(r)
        PROVE  logs' = logs
    BY <1>2 DEF Arrive, G!Arrive, RateLimiter, G!RateLimiter, JWTAuth, G!JWTAuth, RegisterHandler,
                LoginHandler, OtherHandler, Answer, G!Handler
  <1> QED
    BY <1>1, <1>2 DEF Next, Step, Tick, vars

LEMMA LoggedBeforeNext ==
    ASSUME Parts, LogFacts, HeardTyped, Inv, UseLogged, [Next]_vars
    PROVE  UseLogged'
  <1>0. logs \in Seq(Entry)
    BY DEF LogFacts, GP!TypeOK, Entry
  <1>1. Len(logs) \in Nat /\ DOMAIN logs = 1 .. Len(logs)
    BY <1>0
  <1>2. ASSUME NEW l \in Requests, req[l].pc = "sent"
        PROVE  req'[l] = req[l] /\ sessions'[l] = sessions[l] /\ heard'[l] = heard[l]
    <2>1. CASE Tick \/ UNCHANGED vars
      BY <2>1 DEF Tick, U!Tick, vars, router, accounts
    <2> QED
      BY <1>2, <2>1, SentStays DEF Next
  <1>3. ASSUME NEW x \in Requests, NEW l \in heard[x]
        PROVE  l \in Requests /\ req[l].pc = "sent"
    BY DEF Inv, Joined, Heard
  <1>4. ASSUME NEW i \in DOMAIN logs, \A j \in 1 .. i : logs'[j] = logs[j],
               NEW x \in Requests, logs[i].request = x
        PROVE  LoggedBefore(i, x)'
    <2>1. req[x].pc = "sent"
      <3>1. i \in GP!EntriesOf(x)
        BY <1>4 DEF GP!EntriesOf
      <3>2. req[x].pc \in {"idle", "run", "log", "sent"}
        BY DEF Parts, GP!Typed, GP!Context
      <3> QED
        BY <3>1, <3>2 DEF LogFacts, GP!LoggedAsSent
    <2>2. sessions'[x] = sessions[x] /\ heard'[x] = heard[x]
      BY <1>2, <2>1
    <2> SUFFICES ASSUME sessions[x].pc = "next"
                 PROVE  \E l \in heard[x] :
                           /\ sessions'[l].pc = "loggedin" /\ sessions'[l].token = sessions[x].token
                           /\ req'[l].unlogged \/ \E j \in 1 .. i - 1 :
                                                     logs'[j] = [request |-> l, status |-> 200]
      BY <2>2 DEF LoggedBefore
    <2>3. PICK l \in heard[x] :
             /\ sessions[l].pc = "loggedin" /\ sessions[l].token = sessions[x].token
             /\ req[l].unlogged \/ \E j \in 1 .. i - 1 : logs[j] = [request |-> l, status |-> 200]
      BY <1>4 DEF UseLogged, LoggedBefore
    <2>4. sessions'[l] = sessions[l] /\ req'[l] = req[l]
      BY <1>2, <1>3
    <2>5. \A j \in 1 .. i - 1 : logs'[j] = logs[j]
      BY <1>1, <1>4
    <2> QED
      BY <2>3, <2>4, <2>5
  <1>5. CASE logs' = logs
    BY <1>1, <1>4, <1>5 DEF UseLogged
  <1>6. ASSUME NEW r \in Requests, Pass(r),
               logs' = Append(logs, [request |-> r, status |-> req[r].status])
        PROVE  UseLogged'
    <2> DEFINE entry == [request |-> r, status |-> req[r].status]
    <2>1. PICK n \in Nat : n = Len(logs)
      BY <1>1
    <2>2. /\ DOMAIN logs' = 1 .. n + 1 /\ logs'[n + 1] = entry
          /\ \A i \in 1 .. n : logs'[i] = logs[i]
      BY <1>0, <1>6, <2>1
    <2>3. entry.request = r
      OBVIOUS
    <2> HIDE DEF entry
    <2>4. ASSUME NEW i \in 1 .. n, NEW x \in Requests, logs'[i].request = x
          PROVE  LoggedBefore(i, x)'
      <3>1. i \in DOMAIN logs /\ logs[i].request = x /\ \A j \in 1 .. i : logs'[j] = logs[j]
        BY <1>1, <2>1, <2>2, <2>4
      <3> QED
        BY <1>4, <3>1
    <2>5. LoggedBefore(n + 1, r)'
      <3>1. sessions' = sessions /\ heard' = heard
        BY <1>6 DEF Pass, accounts
      <3>2. ASSUME sessions[r].pc = "next"
            PROVE  \E l \in heard[r] :
                      /\ sessions[l].pc = "loggedin" /\ sessions[l].token = sessions[r].token
                      /\ req'[l].unlogged \/ \E j \in 1 .. (n + 1) - 1 :
                                                logs'[j] = [request |-> l, status |-> 200]
        <4>1. PICK l \in heard[r] : sessions[l].pc = "loggedin" /\ sessions[l].token = sessions[r].token
          BY <3>2 DEF Inv, Joined, Told
        <4>2. l \in Requests /\ req[l].pc = "sent" /\ req'[l] = req[l]
          BY <1>2, <1>3
        <4>3. req[l].unlogged \/ \E j \in 1 .. n : logs[j] = [request |-> l, status |-> 200]
          BY <2>1, <4>1, <4>2, LoginHasEntry
        <4>4. (n + 1) - 1 = n
          OBVIOUS
        <4> QED
          BY <2>2, <4>1, <4>2, <4>3, <4>4
      <3> QED
        BY <3>1, <3>2 DEF LoggedBefore
    <2>6. ASSUME NEW i \in DOMAIN logs', NEW x \in Requests, logs'[i].request = x
          PROVE  LoggedBefore(i, x)'
      <3>1. CASE i \in 1 .. n
        BY <2>4, <2>6, <3>1
      <3>2. CASE i = n + 1
        <4>1. x = r
          BY <2>2, <2>3, <2>6, <3>2
        <4> QED
          BY <2>5, <3>2, <4>1
      <3> QED
        BY <2>2, <3>1, <3>2
    <2> QED
      BY <2>6 DEF UseLogged
  <1> QED
    BY <1>5, <1>6, LogGrows

(* The log tells a login before whatever was done with its token. *)
THEOREM LoginsAreLoggedBeforeUse == Spec => []LoginLoggedBeforeUse
  <1>1. Init => UseLogged
    BY DEF Init, G!Init, UseLogged
  <1>2. Parts /\ LogFacts /\ HeardTyped /\ Inv /\ UseLogged /\ [Next]_vars => UseLogged'
    BY LoggedBeforeNext
  <1>3. LogFacts /\ UseLogged => LoginLoggedBeforeUse
    <2> SUFFICES ASSUME LogFacts, UseLogged, NEW i \in DOMAIN logs
                 PROVE  LoggedBefore(i, logs[i].request)
      BY DEF LoginLoggedBeforeUse, LoggedBefore
    <2>1. logs \in Seq(Entry)
      BY DEF LogFacts, GP!TypeOK, Entry
    <2>2. logs[i] \in Entry
      BY <2>1
    <2>3. logs[i].request \in Requests
      BY <2>2 DEF Entry
    <2> QED
      BY <2>3 DEF UseLogged
  <1>4. Spec => []LogFacts
    BY RouterKept, PTL DEF LogFacts
  <1> QED
    BY <1>1, <1>2, <1>3, <1>4, PartsKept, Invariance, PTL DEF Spec
===============================================================================
