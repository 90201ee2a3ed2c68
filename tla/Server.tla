-------------------------------- MODULE Server --------------------------------
(***************************************************************************)
(* The router with the components it calls in place of the choices Gateway *)
(* makes: the bucket behind RateLimiter, the accounts behind /login and    *)
(* /register, and their tokens behind JWTAuth. They share one clock.       *)
(*                                                                         *)
(* A step is a step of Gateway together with the step of the component it  *)
(* is about, or a step inside a function of the chain, which Gateway does  *)
(* not see: time.Now() before the bucket is asked, and First before bcrypt.*)
(* The handlers of books remain choices.                                   *)
(***************************************************************************)
EXTENDS Integers, Sequences, FiniteSets

CONSTANTS
    Requests, Horizon,
    Parallel,  \* how many requests may be on their way at once: a bound
    Arrivals, Panics, MongoFaults,                        \* of Gateway
    Period, Burst,                                        \* of RateLimiter
    Usernames, Passwords, Blank, TooLong, Key, Second, Lifetime,
    Names, Secrets, Malformed, Forged, UniqueIndex, DBFaults  \* of UserRepository

VARIABLES
    now,                               \* the clock of all
    req, logs,                         \* of Gateway
    tokens, last, asks, spent, late,   \* of RateLimiter, asks its goroutines
    users, sessions,                   \* of UserRepository, sessions its goroutines
    heard   \* for each request, those that had been answered when it was sent

bucket   == <<tokens, last, asks, spent, late>>
accounts == <<users, sessions>>
router   == <<req, logs>>
vars == <<now, router, bucket, accounts, heard>>

G == INSTANCE Gateway
L == INSTANCE RateLimiter WITH req <- asks
U == INSTANCE UserRepository WITH req <- sessions

(* What each of them assumes. *)
ASSUME ServerAssumption ==
    /\ Arrivals \subseteq G!Arrival
    /\ Panics \in BOOLEAN /\ MongoFaults \in BOOLEAN
    /\ Period \in Nat \ {0} /\ Burst \in Nat \ {0} /\ Horizon \in Nat
    /\ Blank \notin Usernames \cup Passwords /\ TooLong \subseteq Passwords
    /\ DOMAIN Key = Passwords \cup {Blank}
    /\ Second \in Nat \ {0} /\ Lifetime \in Nat \ {0}
    /\ Names \subseteq Usernames \cup {Blank} /\ Secrets \subseteq Passwords \cup {Blank}
    /\ Malformed \notin U!Credentials /\ Forged \notin U!Token
    /\ UniqueIndex \in BOOLEAN /\ DBFaults \in BOOLEAN

-------------------------------------------------------------------------------
(* A client sends what it likes, and of tokens those it has heard of. *)
Arrive(r) ==
    /\ Cardinality({x \in Requests : req[x].pc \in {"run", "log"}}) < Parallel
    /\ \E a \in Arrivals : G!Arrive(r, a)
    /\ heard' = [heard EXCEPT ![r] = {x \in Requests : req[x].pc = "sent"}]
    /\ UNCHANGED <<now, bucket, accounts>>

(* The functions that ask nobody. *)
Pass(r) ==
    /\ G!ContextMiddleware(r) \/ G!Logger(r) \/ G!Cors(r) \/ G!APIKeyAuth(r) \/ G!LogRequest(r)
    /\ UNCHANGED <<now, bucket, accounts, heard>>

(* The arguments of AllowN are evaluated first. *)
RateLimiter(r) ==
    /\ G!At(r, "limiter")
    /\ \/ L!ReadClock(r) /\ UNCHANGED router
       \/ /\ L!AllowN(r) /\ G!RateLimiter(r)
          /\ req'[r].admitted <=> asks'[r].pc = "next"
    /\ UNCHANGED <<accounts, heard>>

Known(r) == {sessions[l].token : l \in {x \in heard[r] : sessions[x].pc = "loggedin"}}

JWTAuth(r) ==
    /\ U!JWTAuth(r) /\ G!JWTAuth(r)
    /\ sessions'[r].token \in {Forged} \cup (IF req[r].in.bearer THEN Known(r) ELSE {})
    /\ req'[r].username <=> sessions'[r].pc = "next"
    /\ UNCHANGED <<bucket, heard>>

-------------------------------------------------------------------------------
(* The status each end of a handler of accounts is answered with. *)
Status ==
    [bad |-> 400, error |-> 500, unsaved |-> 500, registered |-> 201,
     refused |-> 401, loggedin |-> 200]

Answer(r) ==
    /\ G!Handler(r)
    /\ ~req'[r].panicked /\ req'[r].status = Status[sessions'[r].pc]

Bodies == U!Credentials \cup {Malformed}

RegisterHandler(r) ==
    /\ G!At(r, "handler") /\ req[r].in.route = "RegisterHandler"
    /\ \E b \in Bodies : U!RegisterHandler(r, b)
    /\ Answer(r)
    /\ UNCHANGED <<bucket, heard>>

LoginHandler(r) ==
    /\ G!At(r, "handler") /\ req[r].in.route = "LoginHandler"
    /\ U!LoginToken(r) \/ \E b \in Bodies : U!LoginHandler(r, b)
    /\ IF sessions'[r].pc = "compare" THEN UNCHANGED router ELSE Answer(r)
    /\ UNCHANGED <<bucket, heard>>

(* The other handlers, and a panic in any. *)
OtherHandler(r) ==
    /\ G!Handler(r)
    /\ req'[r].panicked \/ req[r].in.route \notin {"RegisterHandler", "LoginHandler"}
    /\ UNCHANGED <<now, bucket, accounts, heard>>

Tick == L!Tick /\ U!Tick /\ UNCHANGED <<router, heard>>

-------------------------------------------------------------------------------
Init ==
    /\ G!Init /\ L!Init /\ U!Init
    /\ heard = [r \in Requests |-> {}]

Step(r) ==
    \/ Pass(r) \/ RateLimiter(r) \/ JWTAuth(r)
    \/ RegisterHandler(r) \/ LoginHandler(r) \/ OtherHandler(r)

Next == (\E r \in Requests : Arrive(r) \/ Step(r)) \/ Tick

Spec == Init /\ [][Next]_vars

-------------------------------------------------------------------------------
(* The type invariant: those of the components, whatever they share. *)
TypeOK ==
    /\ G!TypeOK /\ L!TypeOK /\ U!TypeOK
    /\ heard \in [Requests -> SUBSET Requests]

Sent(r, status) == req[r].pc = "sent" /\ req[r].status = status

(* A client that was told it is registered and logs in after that with the *)
(* same name and password is not told they are wrong, nor that they cannot *)
(* be read, by any handler that runs.                                      *)
RegisteredLogsIn ==
    \A l \in Requests : \A g \in heard[l] :
        /\ Sent(g, 201) /\ sessions[g].pc = "registered"
        /\ req[l].pc # "idle" /\ req[l].in.route = "LoginHandler" /\ req[l].ran
        /\ "body" \in DOMAIN sessions[l] /\ sessions[l].body = sessions[g].body
        => req[l].status \in {200, 500}

(* The log tells a login before whatever was done with its token: its      *)
(* answer is not sent before its entry is written, or has failed to be.    *)
LoginLoggedBeforeUse ==
    \A i \in DOMAIN logs : sessions[logs[i].request].pc = "next" =>
        \E l \in heard[logs[i].request] :
            /\ sessions[l].pc = "loggedin"
            /\ sessions[l].token = sessions[logs[i].request].token
            /\ req[l].unlogged \/ \E j \in 1 .. i - 1 : logs[j] = [request |-> l, status |-> 200]

(* The handlers that run since any moment had a token of the bucket each:  *)
(* there are as many as it held, and came up in the time since, and were   *)
(* counted twice by requests that asked late.                              *)
HandlersPaidFor ==
    \A s \in 0 .. now :
        Period * Cardinality({r \in Requests : G!Ran(r) /\ asks[r].at >= s})
            <= Burst * Period + (now - s) + late[s]
===============================================================================
