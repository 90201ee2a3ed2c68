-------------------------------- MODULE Gateway -------------------------------
(***************************************************************************)
(* The way of a request through the router of pkg/api/router.go: the       *)
(* middlewares gin runs before a handler, and what happens on the way back *)
(* when one of them aborts, the handler answers, or the handler panics.    *)
(*                                                                         *)
(* gin calls the functions of a chain one after the other. A function that *)
(* returns without c.Abort() lets the chain go on, whatever it answered.   *)
(* The Logger alone has something to do after c.Next(): the answer of      *)
(* gin's writer is not on the wire before the Logger is done with Mongo.   *)
(* A panic unwinds all of it up to gin's Recovery, the outermost function. *)
(*                                                                         *)
(* The bucket of the limiter, whether a bearer token is good, and what a   *)
(* handler answers of the statuses it has are choices here: their modules  *)
(* have the detail, and Server puts them together.                         *)
(***************************************************************************)
EXTENDS Integers, Sequences

CONSTANTS
    Requests,    \* the requests the server receives
    Arrivals,    \* what they may be
    Panics,      \* may a handler panic?
    MongoFaults  \* may InsertOne fail?

Doc == INSTANCE ApiDocument

(* The routes that want a key, one that wants a token too, and the others:  *)
(* no route has the method OPTIONS, so a preflight is of no route.          *)
Keyed == {"FindBooks", "CreateBook", "FindBook", "UpdateBook", "DeleteBook",
          "LoginHandler", "RegisterHandler"}
Routes == Keyed \cup {"Healthcheck", "swagger", "unknown"}

(* key: does X-API-Key compare equal to the secret? (With API_SECRET_KEY    *)
(* unset the secret is empty, and so is a header that is not there.)        *)
(* bearer: does Authorization carry a bearer token?                         *)
Arrival ==
    {a \in [route : Routes, origin : {"none", "allowed", "foreign"},
            preflight : BOOLEAN, key : BOOLEAN, bearer : BOOLEAN] :
        a.preflight => a.route = "unknown"}

ASSUME GatewayAssumption ==
    /\ Arrivals \subseteq Arrival
    /\ Panics \in BOOLEAN /\ MongoFaults \in BOOLEAN

VARIABLES
    req,   \* the gin.Context of each request
    logs   \* the entries of the Mongo collection, oldest first

vars == <<req, logs>>

-------------------------------------------------------------------------------
GlobalLoggerLast == <<"context", "cors", "limiter", "logger">>  \* mutant
Global == <<"context", "logger", "cors", "limiter">>

Chain(route) ==
    Global \o CASE route = "CreateBook"               -> <<"apikey", "jwt", "handler">>
                [] route \in Keyed \ {"CreateBook"}   -> <<"apikey", "handler">>
                [] route \in {"Healthcheck", "swagger"} -> <<"handler">>
                [] route = "unknown"                  -> << >>

(* Mutant: a new book is answered with http.StatusOK. *)
BookAnswersOk ==
    [Healthcheck |-> {200}, FindBooks |-> {200, 400, 500}, CreateBook |-> {200, 400},
     FindBook |-> {200, 404}, UpdateBook |-> {200, 400, 404}, DeleteBook |-> {204, 404}]

(* The statuses a handler answers with. *)
BookAnswers ==
    [Healthcheck |-> {200},
     FindBooks   |-> {200, 400, 500},
     CreateBook  |-> {201, 400},
     FindBook    |-> {200, 404},
     UpdateBook  |-> {200, 400, 404},
     DeleteBook  |-> {204, 404}]
UserAnswers ==
    [LoginHandler    |-> {200, 400, 401, 500},
     RegisterHandler |-> {201, 400, 500}]
SwaggerAnswers == {200, 404}

Answers(route) ==
    IF route = "swagger" THEN SwaggerAnswers
    ELSE IF route \in DOMAIN UserAnswers THEN UserAnswers[route]
    ELSE BookAnswers[route]

Becomes(r, s) == req' = [req EXCEPT ![r] = s]

(* The function at the index of r's context is name. *)
At(r, name) ==
    req[r].pc = "run" /\ Chain(req[r].in.route)[req[r].index] = name

(* Mutant: only failures are logged. *)
ReturnOfFailures(c) ==
    [c EXCEPT !.pc = IF c.logging /\ c.status >= 400 THEN "log" ELSE "sent"]

(* On the way back: to the Logger when c.Next() was called in it. *)
Return(c) == [c EXCEPT !.pc = IF c.logging THEN "log" ELSE "sent"]

(* The function at hand returned, leaving its context as c. *)
Proceed(c) ==
    IF c.index = Len(Chain(c.in.route)) THEN Return(c)
    ELSE [c EXCEPT !.index = @ + 1]

(* The function at hand answered, and called c.Abort(). *)
Aborted(c, status) == Return([c EXCEPT !.status = status])

(* gin finds the chain of the route, or the one of no route, which answers  *)
(* 404 when nothing in it answers.                                          *)
Arrive(r, a) ==
    /\ req[r].pc = "idle"
    /\ Becomes(r, [pc |-> "run", in |-> a, index |-> 1,
                   status |-> IF a.route = "unknown" THEN 404 ELSE 200,
                   appCtx |-> FALSE, logging |-> FALSE, admitted |-> FALSE,
                   username |-> FALSE, ran |-> FALSE, panicked |-> FALSE, unlogged |-> FALSE])
    /\ UNCHANGED logs

ContextMiddleware(r) ==
    /\ At(r, "context")
    /\ Becomes(r, Proceed([req[r] EXCEPT !.appCtx = TRUE]))
    /\ UNCHANGED logs

Logger(r) ==
    /\ At(r, "logger")
    /\ Becomes(r, Proceed([req[r] EXCEPT !.logging = TRUE]))
    /\ UNCHANGED logs

(* A foreign origin is refused, a preflight is answered. *)
Cors(r) ==
    LET in == req[r].in
    IN  /\ At(r, "cors")
        /\ Becomes(r, IF in.origin = "foreign" THEN Aborted(req[r], 403)
                      ELSE IF in.origin = "allowed" /\ in.preflight THEN Aborted(req[r], 204)
                      ELSE Proceed(req[r]))
        /\ UNCHANGED logs

(* Mutant: a refusal is answered with http.StatusServiceUnavailable. *)
RateLimiterUnavailable(r) ==
    /\ At(r, "limiter")
    /\ \/ Becomes(r, Proceed([req[r] EXCEPT !.admitted = TRUE]))
       \/ Becomes(r, Aborted(req[r], 503))
    /\ UNCHANGED logs

(* Mutant: the answer without the c.Abort(). *)
RateLimiterGoingOn(r) ==
    /\ At(r, "limiter")
    /\ \/ Becomes(r, Proceed([req[r] EXCEPT !.admitted = TRUE]))
       \/ Becomes(r, Proceed([req[r] EXCEPT !.status = 429]))
    /\ UNCHANGED logs

RateLimiter(r) ==
    /\ At(r, "limiter")
    /\ \/ Becomes(r, Proceed([req[r] EXCEPT !.admitted = TRUE]))
       \/ Becomes(r, Aborted(req[r], 429))
    /\ UNCHANGED logs

(* Mutant: the answer without the c.Abort(). *)
APIKeyAuthGoingOn(r) ==
    /\ At(r, "apikey")
    /\ Becomes(r, IF req[r].in.key THEN Proceed(req[r])
                  ELSE Proceed([req[r] EXCEPT !.status = 401]))
    /\ UNCHANGED logs

APIKeyAuth(r) ==
    /\ At(r, "apikey")
    /\ Becomes(r, IF req[r].in.key THEN Proceed(req[r]) ELSE Aborted(req[r], 401))
    /\ UNCHANGED logs

(* Mutant: the answer without the c.Abort(). *)
JWTAuthGoingOn(r) ==
    /\ At(r, "jwt")
    /\ \/ req[r].in.bearer /\ Becomes(r, Proceed([req[r] EXCEPT !.username = TRUE]))
       \/ Becomes(r, Proceed([req[r] EXCEPT !.status = 401]))
    /\ UNCHANGED logs

(* Only a bearer token may be good; the name in a good one is put into the  *)
(* context.                                                                 *)
JWTAuth(r) ==
    /\ At(r, "jwt")
    /\ \/ req[r].in.bearer /\ Becomes(r, Proceed([req[r] EXCEPT !.username = TRUE]))
       \/ Becomes(r, Aborted(req[r], 401))
    /\ UNCHANGED logs

(* A handler answers, or panics: c.MustGet in CreateBook panics where       *)
(* appCtx was not set.                                                      *)
Handler(r) ==
    LET c == [req[r] EXCEPT !.ran = TRUE]
    IN  /\ At(r, "handler")
        /\ \/ \E status \in Answers(c.in.route) :
                 Becomes(r, Proceed([c EXCEPT !.status = status]))
           \/ /\ Panics \/ (c.in.route = "CreateBook" /\ ~c.appCtx)
              /\ Becomes(r, [c EXCEPT !.pc = "sent", !.status = 500, !.panicked = TRUE])
        /\ UNCHANGED logs

(* Mutant: the insert is tried again until it succeeds. (unlogged is turned *)
(* over so that an attempt is a step.)                                      *)
LogRequestRetrying(r) ==
    /\ req[r].pc = "log"
    /\ \/ /\ logs' = Append(logs, [request |-> r, status |-> req[r].status])
          /\ Becomes(r, [req[r] EXCEPT !.pc = "sent"])
       \/ /\ MongoFaults
          /\ Becomes(r, [req[r] EXCEPT !.unlogged = ~@])
          /\ UNCHANGED logs

(* The Logger's entry: an InsertOne that fails is told to zap only, which   *)
(* the auxiliary unlogged keeps.                                            *)
LogRequest(r) ==
    /\ req[r].pc = "log"
    /\ \/ /\ logs' = Append(logs, [request |-> r, status |-> req[r].status])
          /\ Becomes(r, [req[r] EXCEPT !.pc = "sent"])
       \/ /\ MongoFaults
          /\ Becomes(r, [req[r] EXCEPT !.pc = "sent", !.unlogged = TRUE])
          /\ UNCHANGED logs

-------------------------------------------------------------------------------
Init ==
    /\ req = [r \in Requests |-> [pc |-> "idle"]]
    /\ logs = << >>

Step(r) ==
    \/ ContextMiddleware(r) \/ Logger(r) \/ Cors(r) \/ RateLimiter(r)
    \/ APIKeyAuth(r) \/ JWTAuth(r) \/ Handler(r) \/ LogRequest(r)

Next == \E r \in Requests : (\E a \in Arrivals : Arrive(r, a)) \/ Step(r)

(* A goroutine that can go on does: no function of the chain waits for      *)
(* anything but a call that returns.                                        *)
Safety == Init /\ [][Next]_vars
Spec == Safety /\ \A r \in Requests : WF_vars(Step(r))

-------------------------------------------------------------------------------
Statuses == {200, 201, 204, 400, 401, 403, 404, 429, 500}

Context ==
    [pc : {"run", "log", "sent"}, in : Arrival, index : 1 .. Len(Global) + 3,
     status : Statuses, appCtx : BOOLEAN, logging : BOOLEAN, admitted : BOOLEAN,
     username : BOOLEAN, ran : BOOLEAN, panicked : BOOLEAN, unlogged : BOOLEAN]

(* The type invariant: a chain that runs is at one of its functions, and no *)
(* status is answered or logged but those the functions name.               *)
TypeOK ==
    /\ req \in [Requests -> [pc : {"idle"}] \cup Context]
    /\ \A r \in Requests : req[r].pc = "run" =>
          req[r].index <= Len(Chain(req[r].in.route))
    /\ logs \in Seq([request : Requests, status : Statuses])

(* No handler runs, whatever it would have answered, for a request from a   *)
(* foreign origin or one the limiter refused; and CreateBook finds its      *)
(* repository in the context, and that a token was good and c.Set called    *)
(* for its name. (username says no more: what is set is always empty.)      *)
Ran(r) == req[r].pc # "idle" /\ req[r].ran

HandlerGuarded ==
    \A r \in Requests : Ran(r) =>
        /\ req[r].admitted /\ req[r].appCtx
        /\ req[r].in.origin # "foreign"
        /\ req[r].in.route = "CreateBook" => req[r].username

(* The schemes of the document that a request has what they want for. *)
Headers(in) ==
    (IF in.key THEN {"X-API-Key"} ELSE {}) \cup (IF in.bearer THEN {"Authorization"} ELSE {})
Carries(in) ==
    {s \in DOMAIN Doc!SecurityDefinitions : Doc!SecurityDefinitions[s] \in Headers(in)}
Meets(in, alternatives) ==
    alternatives = << >> \/ \E i \in DOMAIN alternatives : alternatives[i] \subseteq Carries(in)

(* The security of the document (docs.go:52) is enforced: the handler of a  *)
(* documented operation runs only for a request that meets an alternative   *)
(* of its list. (The code wants all of POST /books's, one after the other.) *)
DocumentedSecurity ==
    \A r \in Requests : Ran(r) /\ req[r].in.route \in Doc!Operations =>
        Meets(req[r].in, Doc!Paths[req[r].in.route].security)

(* What may be sent for a documented operation that its document does not   *)
(* list: the refusals of the middlewares, each to those it is meant for,    *)
(* what FindBooks answers to a bad number or without Redis, and a panic.    *)
Explained(c) ==
    \/ c.status \in Doc!Paths[c.in.route].responses
    \/ c.status = 403 /\ c.in.origin = "foreign" /\ ~c.ran
    \/ c.status = 429 /\ ~c.admitted /\ ~c.ran
    \/ c.status = 401 /\ ~c.in.key /\ ~c.ran
    \/ c.status \in {400, 500} /\ c.in.route = "FindBooks" /\ c.ran
    \/ c.status = 500 /\ c.panicked

DocumentedAnswers ==
    \A r \in Requests :
        req[r].pc = "sent" /\ req[r].in.route \in Doc!Operations => Explained(req[r])

(* What was sent is what was logged: one entry of every request that went   *)
(* through the router, refused or not, with the status the client got. Only *)
(* a panic, which skips the Logger, and a failed insert leave none.         *)
EntriesOf(r) == {i \in DOMAIN logs : logs[i].request = r}
LoggedAsSent ==
    \A r \in Requests :
        /\ req[r].pc \in {"idle", "run", "log"} => EntriesOf(r) = {}
        /\ req[r].pc = "sent" =>
              \/ \E i \in EntriesOf(r) : /\ EntriesOf(r) = {i}
                                        /\ logs[i].status = req[r].status
              \/ EntriesOf(r) = {} /\ (req[r].unlogged \/ req[r].panicked)

(* Every request that arrives is answered, Mongo failing or not. *)
EveryRequestSent == \A r \in Requests : req[r].pc = "run" ~> req[r].pc = "sent"
===============================================================================
