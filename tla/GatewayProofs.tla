----------------------------- MODULE GatewayProofs ----------------------------
(***************************************************************************)
(* Theorems about Gateway, for any number of requests, whatever they are,  *)
(* and with handlers that panic and a Mongo that fails.                    *)
(***************************************************************************)
EXTENDS Gateway, TLAPS

Length(route) == Len(Chain(route))

(* The functions before place i of its chain are behind c, and did what     *)
(* they are there for.                                                      *)
Passed(c, i) ==
    /\ i > 1 => c.appCtx
    /\ i > 2 => c.logging
    /\ i > 3 => c.in.origin # "foreign"
    /\ i > 4 => c.admitted
    /\ i > 5 /\ c.in.route \in Keyed => c.in.key
    /\ i > 6 /\ c.in.route = "CreateBook" => c.in.bearer /\ c.username

Running(c) ==
    /\ c.index \in 1 .. Length(c.in.route)
    /\ Passed(c, c.index)
    /\ c.index <= 4 => ~c.admitted
    /\ ~c.ran /\ ~c.panicked /\ ~c.unlogged

Answered(c) ==
    /\ c.ran => Passed(c, 8)
    /\ c.in.route \in Doc!Operations => Explained(c)

(* The inductive invariant, of one context.                                 *)
Sound(c) == c.pc # "idle" => IF c.pc = "run" THEN Running(c) ELSE Answered(c)

-------------------------------------------------------------------------------
(* The chains, place by place *)

LEMMA ChainPlaces ==
    ASSUME NEW route \in Routes
    PROVE  /\ Length(route) \in 4 .. 7
           /\ Chain(route)[1] = "context" /\ Chain(route)[2] = "logger"
           /\ Chain(route)[3] = "cors" /\ Chain(route)[4] = "limiter"
           /\ route = "CreateBook" =>
                 /\ Length(route) = 7
                 /\ Chain(route)[5] = "apikey" /\ Chain(route)[6] = "jwt"
                 /\ Chain(route)[7] = "handler"
           /\ route \in Keyed \ {"CreateBook"} =>
                 /\ Length(route) = 6
                 /\ Chain(route)[5] = "apikey" /\ Chain(route)[6] = "handler"
           /\ route \in {"Healthcheck", "swagger"} =>
                 Length(route) = 5 /\ Chain(route)[5] = "handler"
           /\ route = "unknown" => Length(route) = 4
  <1>1. CASE route = "CreateBook"
    <2>1. Chain(route) = Global \o <<"apikey", "jwt", "handler">>
      BY <1>1 DEF Chain, Keyed
    <2> QED
      BY <1>1, <2>1 DEF Length, Global
  <1>2. CASE route \in Keyed \ {"CreateBook"}
    <2>1. Chain(route) = Global \o <<"apikey", "handler">>
      BY <1>2 DEF Chain, Keyed
    <2> QED
      BY <1>2, <2>1 DEF Length, Global, Keyed
  <1>3. CASE route \in {"Healthcheck", "swagger"}
    <2>1. Chain(route) = Global \o <<"handler">>
      BY <1>3 DEF Chain, Keyed
    <2> QED
      BY <1>3, <2>1 DEF Length, Global, Keyed
  <1>4. CASE route = "unknown"
    <2>1. Chain(route) = Global \o << >>
      BY <1>4 DEF Chain, Keyed
    <2> QED
      BY <1>4, <2>1 DEF Length, Global, Keyed
  <1> QED
    BY <1>1, <1>2, <1>3, <1>4 DEF Routes

(* Where the function called name stands. *)
LEMMA Places ==
    ASSUME NEW route \in Routes, NEW i \in 1 .. Length(route)
    PROVE  /\ Chain(route)[i] = "context" => i = 1
           /\ Chain(route)[i] = "logger" => i = 2
           /\ Chain(route)[i] = "cors" => i = 3
           /\ Chain(route)[i] = "limiter" => i = 4
           /\ Chain(route)[i] = "apikey" => i = 5 /\ route \in Keyed
           /\ Chain(route)[i] = "jwt" => i = 6 /\ route = "CreateBook"
           /\ Chain(route)[i] = "handler" =>
                 /\ i = Length(route) /\ i > 4 /\ route # "unknown"
                 /\ route \in Keyed => i > 5
                 /\ route = "CreateBook" => i > 6
  <1>0. PICK n \in 4 .. 7 : n = Length(route)
    BY ChainPlaces
  <1>1. i \in {1, 2, 3, 4, 5, 6, 7}
    BY <1>0
  <1>2. \/ route = "CreateBook" /\ route \in Keyed
        \/ route \in Keyed \ {"CreateBook"}
        \/ route \in {"Healthcheck", "swagger"} /\ route \notin Keyed
        \/ route = "unknown" /\ route \notin Keyed
    BY DEF Keyed, Routes
  <1>3. CASE i <= 4
    <2>1. i \in {1, 2, 3, 4}
      BY <1>1, <1>3
    <2> QED
      BY <2>1, ChainPlaces
  <1>4. CASE i > 4 /\ route = "CreateBook"
    <2>1. i \in {5, 6, 7} /\ Length(route) = 7 /\ route \in Keyed
      BY <1>1, <1>4, ChainPlaces DEF Keyed
    <2>2. Chain(route)[5] = "apikey" /\ Chain(route)[6] = "jwt" /\ Chain(route)[7] = "handler"
      BY <1>4, ChainPlaces
    <2>3. CASE i = 5
      BY <1>4, <2>1, <2>2, <2>3
    <2>4. CASE i = 6
      BY <1>4, <2>1, <2>2, <2>4
    <2>5. CASE i = 7
      BY <1>4, <2>1, <2>2, <2>5
    <2> QED
      BY <2>1, <2>3, <2>4, <2>5
  <1>5. CASE i > 4 /\ route \in Keyed \ {"CreateBook"}
    <2>1. Length(route) = 6 /\ route # "unknown"
      BY <1>5, ChainPlaces DEF Keyed
    <2>2. Chain(route)[5] = "apikey" /\ Chain(route)[6] = "handler"
      BY <1>5, ChainPlaces
    <2>3. i \in {5, 6}
      BY <1>1, <1>5, <2>1
    <2> QED
      BY <1>5, <2>1, <2>2, <2>3
  <1>6. CASE i > 4 /\ route \in {"Healthcheck", "swagger"}
    <2>1. Length(route) = 5 /\ Chain(route)[5] = "handler"
      BY <1>6, ChainPlaces
    <2>2. i = 5
      BY <1>0, <1>6, <2>1
    <2>3. route \notin Keyed /\ route # "unknown" /\ route # "CreateBook"
      BY <1>6 DEF Keyed
    <2> QED
      BY <2>1, <2>2, <2>3
  <1>7. CASE i > 4 /\ route = "unknown"
    BY <1>0, <1>1, <1>7, ChainPlaces
  <1> QED
    BY <1>1, <1>2, <1>3, <1>4, <1>5, <1>6, <1>7

(* What the document has of the operations the router routes. *)
LEMMA Document ==
    ASSUME NEW route \in Doc!Operations
    PROVE  /\ route \in Routes \ {"swagger", "unknown"}
           /\ \A s \in Answers(route) :
                 \/ s \in Doc!Paths[route].responses
                 \/ route = "FindBooks" /\ s \in {400, 500}
           /\ route = "CreateBook" => 401 \in Doc!Paths[route].responses
           /\ route = "Healthcheck" => Doc!Paths[route].security = << >>
  <1> USE DEF Doc!Healthcheck, Doc!FindBooks, Doc!CreateBook, Doc!FindBook, Doc!UpdateBook,
              Doc!DeleteBook, Doc!LoginHandler, Doc!RegisterHandler, Doc!Operation, Doc!Nobody,
              Doc!KeyAlone, Doc!KeyOrToken
  <1>1. route \in {"Healthcheck"} \cup Keyed
    BY DEF Doc!Operations, Doc!Paths, Keyed
  <1>2. CASE route = "Healthcheck"
    BY <1>2 DEF Doc!Paths, Answers, BookAnswers, UserAnswers, Keyed, Routes
  <1>3. CASE route = "FindBooks"
    BY <1>3 DEF Doc!Paths, Answers, BookAnswers, UserAnswers, Keyed, Routes
  <1>4. CASE route = "CreateBook"
    BY <1>4 DEF Doc!Paths, Answers, BookAnswers, UserAnswers, Keyed, Routes
  <1>5. CASE route = "FindBook"
    BY <1>5 DEF Doc!Paths, Answers, BookAnswers, UserAnswers, Keyed, Routes
  <1>6. CASE route = "UpdateBook"
    BY <1>6 DEF Doc!Paths, Answers, BookAnswers, UserAnswers, Keyed, Routes
  <1>7. CASE route = "DeleteBook"
    BY <1>7 DEF Doc!Paths, Answers, BookAnswers, UserAnswers, Keyed, Routes
  <1>8. CASE route = "LoginHandler"
    BY <1>8 DEF Doc!Paths, Answers, BookAnswers, UserAnswers, Keyed, Routes
  <1>9. CASE route = "RegisterHandler"
    BY <1>9 DEF Doc!Paths, Answers, BookAnswers, UserAnswers, Keyed, Routes
  <1> QED
    BY <1>1, <1>2, <1>3, <1>4, <1>5, <1>6, <1>7, <1>8, <1>9 DEF Keyed

(* A key alone is an alternative of every operation whose chain asks for it. *)
LEMMA KeyIsAnAlternative ==
    ASSUME NEW route \in Keyed
    PROVE  \E i \in DOMAIN Doc!Paths[route].security :
              Doc!Paths[route].security[i] = {"ApiKeyAuth"}
  <1> USE DEF Doc!FindBooks, Doc!CreateBook, Doc!FindBook, Doc!UpdateBook,
              Doc!DeleteBook, Doc!LoginHandler, Doc!RegisterHandler, Doc!Operation,
              Doc!KeyAlone, Doc!KeyOrToken
  <1>1. CASE route = "FindBooks"
    BY <1>1 DEF Doc!Paths
  <1>2. CASE route = "CreateBook"
    BY <1>2 DEF Doc!Paths
  <1>3. CASE route = "FindBook"
    BY <1>3 DEF Doc!Paths
  <1>4. CASE route = "UpdateBook"
    BY <1>4 DEF Doc!Paths
  <1>5. CASE route = "DeleteBook"
    BY <1>5 DEF Doc!Paths
  <1>6. CASE route = "LoginHandler"
    BY <1>6 DEF Doc!Paths
  <1>7. CASE route = "RegisterHandler"
    BY <1>7 DEF Doc!Paths
  <1> QED
    BY <1>1, <1>2, <1>3, <1>4, <1>5, <1>6, <1>7 DEF Keyed

-------------------------------------------------------------------------------
(* What the functions do to a context *)

LEMMA RunningContext ==
    ASSUME NEW c \in Context, c.pc = "run", Running(c)
    PROVE  /\ c.in.route \in Routes
           /\ c.index \in 1 .. 7 /\ Length(c.in.route) \in 4 .. 7
           /\ c.index \in 1 .. Length(c.in.route)
  <1>1. c.in.route \in Routes
    BY DEF Context, Arrival
  <1>2. PICK n \in 4 .. 7 : n = Length(c.in.route)
    BY <1>1, ChainPlaces
  <1>3. c.index \in 1 .. n
    BY <1>2 DEF Running
  <1>4. c.index \in 1 .. 7
    BY <1>3
  <1>5. Length(c.in.route) \in 4 .. 7
    BY <1>2
  <1> QED
    BY <1>1, <1>4, <1>5 DEF Running

LEMMA Refusals == 401 \in Statuses /\ 403 \in Statuses /\ 429 \in Statuses
  BY DEF Statuses

(* A function that answers and aborts: it did not let a handler run, and    *)
(* what it answers is explained.                                            *)
LEMMA Aborting ==
    ASSUME NEW c \in Context, c.pc = "run", Running(c), c.logging, NEW status \in Statuses,
           c.in.route \in Doc!Operations => Explained([c EXCEPT !.status = status])
    PROVE  /\ Aborted(c, status) \in Context
           /\ Aborted(c, status).pc = "log"
           /\ Sound(Aborted(c, status))
  <1> DEFINE d == [c EXCEPT !.status = status]
             e == [d EXCEPT !.pc = "log"]
  <1>1. Aborted(c, status) = e
    BY DEF Aborted, Return, Context
  <1>2. d \in Context /\ e \in Context
    BY DEF Context
  <1>3. e.pc = "log" /\ ~e.ran
    BY DEF Context, Running
  <1>4. Explained(d) => Explained(e)
    BY DEF Explained, Context
  <1>5. e.in.route = c.in.route
    BY DEF Context
  <1> QED
    BY <1>1, <1>2, <1>3, <1>4, <1>5 DEF Sound, Answered

(* A function that lets the chain go on, and is not the last of it.         *)
LEMMA Proceeding ==
    ASSUME NEW c \in Context, c.pc = "run", c.in.route \in Routes,
           c.index \in 1 .. Length(c.in.route),
           c.index < Length(c.in.route),
           Passed(c, c.index + 1), c.index + 1 <= 4 => ~c.admitted,
           ~c.ran, ~c.panicked, ~c.unlogged
    PROVE  /\ Proceed(c) \in Context
           /\ Proceed(c).pc = "run"
           /\ Sound(Proceed(c))
  <1> DEFINE d == [c EXCEPT !.index = @ + 1]
  <1>0. PICK n \in 4 .. 7 : n = Length(c.in.route)
    BY ChainPlaces
  <1>1. c.index \in Nat /\ c.index + 1 \in 1 .. n /\ n \in 4 .. 7
    BY <1>0 DEF Context
  <1>2. Proceed(c) = d
    BY <1>0, <1>1 DEF Proceed, Length
  <1>3. c.index + 1 \in 1 .. Len(Global) + 3
    BY <1>1 DEF Global
  <1>4. d \in Context /\ d.index = c.index + 1 /\ d.in = c.in /\ d.pc = "run"
    BY <1>3 DEF Context
  <1>5. Passed(d, d.index)
    BY <1>4 DEF Passed, Context
  <1>6. d.index <= 4 => ~d.admitted
    BY <1>4 DEF Context
  <1>7. ~d.ran /\ ~d.panicked /\ ~d.unlogged
    BY DEF Context
  <1> QED
    BY <1>0, <1>1, <1>2, <1>4, <1>5, <1>6, <1>7 DEF Sound, Running

(* The last function of a chain, which answered with status.                *)
LEMMA Ending ==
    ASSUME NEW c \in Context, c.pc = "run", c.index = Length(c.in.route),
           c.logging, c.ran => Passed(c, 8), c.in.route \in Doc!Operations => Explained(c)
    PROVE  /\ Proceed(c) \in Context
           /\ Proceed(c).pc = "log"
           /\ Sound(Proceed(c))
  <1> DEFINE e == [c EXCEPT !.pc = "log"]
  <1>1. Proceed(c) = e
    BY DEF Proceed, Return, Length
  <1>2. e \in Context /\ e.pc = "log" /\ e.in = c.in /\ e.ran = c.ran
    BY DEF Context
  <1>3. Passed(c, 8) => Passed(e, 8)
    BY DEF Passed, Context
  <1>4. Explained(c) => Explained(e)
    BY DEF Explained, Context
  <1> QED
    BY <1>1, <1>2, <1>3, <1>4 DEF Sound, Answered

-------------------------------------------------------------------------------
(* The steps *)

Typed == req \in [Requests -> [pc : {"idle"}] \cup Context]
Inv == \A r \in Requests : Sound(req[r])

(* A step of r but the last makes its context c, of type and sound, and     *)
(* does not touch the log.                                                  *)
Made(r, c) ==
    /\ req' = [req EXCEPT ![r] = c]
    /\ c \in Context /\ Sound(c)
    /\ c.pc \in {"run", "log"} \/ (c.pc = "sent" /\ c.panicked)
    /\ UNCHANGED logs

LEMMA Arriving ==
    ASSUME NEW r \in Requests, NEW a \in Arrivals, Arrive(r, a)
    PROVE  \E c : Made(r, c)
  <1> DEFINE c == [pc |-> "run", in |-> a, index |-> 1,
                   status |-> IF a.route = "unknown" THEN 404 ELSE 200,
                   appCtx |-> FALSE, logging |-> FALSE, admitted |-> FALSE,
                   username |-> FALSE, ran |-> FALSE, panicked |-> FALSE, unlogged |-> FALSE]
  <1>1. a \in Arrival /\ a.route \in Routes
    BY GatewayAssumption DEF Arrival
  <1>2. c \in Context
    BY <1>1 DEF Context, Global, Statuses
  <1>3. PICK n \in 4 .. 7 : n = Length(a.route)
    BY <1>1, ChainPlaces
  <1>4. c.index = 1 /\ c.in = a /\ ~c.admitted /\ ~c.ran /\ ~c.panicked /\ ~c.unlogged
    OBVIOUS
  <1>5. 1 \in 1 .. Length(c.in.route)
    BY <1>3, <1>4
  <1>6. Passed(c, 1)
    BY DEF Passed
  <1>7. Running(c)
    BY <1>4, <1>5, <1>6 DEF Running
  <1> QED
    BY <1>2, <1>7 DEF Arrive, Becomes, Made, Sound

(* At the function of a name, a context is where that name stands. *)
LEMMA Standing ==
    ASSUME Typed, Inv, NEW r \in Requests, NEW name, At(r, name)
    PROVE  /\ req[r] \in Context /\ req[r].pc = "run" /\ Running(req[r])
           /\ req[r].in.route \in Routes
           /\ req[r].index \in 1 .. Length(req[r].in.route)
           /\ Chain(req[r].in.route)[req[r].index] = name
  <1>1. req[r] \in Context /\ req[r].pc = "run"
    BY DEF Typed, At
  <1>2. Running(req[r])
    BY <1>1 DEF Inv, Sound
  <1> QED
    BY <1>1, <1>2, RunningContext DEF At

LEMMA ContextStep ==
    ASSUME Typed, Inv, NEW r \in Requests, ContextMiddleware(r)
    PROVE  \E c : Made(r, c)
  <1> DEFINE d == [req[r] EXCEPT !.appCtx = TRUE]
  <1>1. At(r, "context")
    BY DEF ContextMiddleware
  <1>2. req[r] \in Context /\ req[r].pc = "run" /\ Running(req[r]) /\ req[r].in.route \in Routes
    BY <1>1, Standing
  <1>3. req[r].index = 1
    BY <1>1, Standing, Places
  <1>4. PICK n \in 4 .. 7 : n = Length(req[r].in.route)
    BY <1>2, ChainPlaces
  <1>5. ~req[r].admitted /\ ~req[r].ran /\ ~req[r].panicked /\ ~req[r].unlogged
    BY <1>2, <1>3 DEF Running
  <1>6. /\ d \in Context /\ d.pc = "run" /\ d.index = 1 /\ d.in = req[r].in /\ d.appCtx
        /\ ~d.admitted /\ ~d.ran /\ ~d.panicked /\ ~d.unlogged
    BY <1>2, <1>3, <1>5 DEF Context
  <1>7. d.index \in 1 .. Length(d.in.route) /\ d.index < Length(d.in.route)
    BY <1>4, <1>6
  <1>8. Passed(d, d.index + 1)
    BY <1>6 DEF Passed
  <1>9. Proceed(d) \in Context /\ Proceed(d).pc = "run" /\ Sound(Proceed(d))
    BY <1>2, <1>6, <1>7, <1>8, Proceeding
  <1> QED
    BY <1>9 DEF ContextMiddleware, Becomes, Made

LEMMA LoggerStep ==
    ASSUME Typed, Inv, NEW r \in Requests, Logger(r)
    PROVE  \E c : Made(r, c)
  <1> DEFINE d == [req[r] EXCEPT !.logging = TRUE]
  <1>1. At(r, "logger")
    BY DEF Logger
  <1>2. req[r] \in Context /\ req[r].pc = "run" /\ Running(req[r]) /\ req[r].in.route \in Routes
    BY <1>1, Standing
  <1>3. req[r].index = 2
    BY <1>1, Standing, Places
  <1>4. PICK n \in 4 .. 7 : n = Length(req[r].in.route)
    BY <1>2, ChainPlaces
  <1>5. /\ req[r].appCtx
        /\ ~req[r].admitted /\ ~req[r].ran /\ ~req[r].panicked /\ ~req[r].unlogged
    BY <1>2, <1>3 DEF Running, Passed
  <1>6. /\ d \in Context /\ d.pc = "run" /\ d.index = 2 /\ d.in = req[r].in
        /\ d.appCtx /\ d.logging /\ ~d.admitted /\ ~d.ran /\ ~d.panicked /\ ~d.unlogged
    BY <1>2, <1>3, <1>5 DEF Context
  <1>7. d.index \in 1 .. Length(d.in.route) /\ d.index < Length(d.in.route)
    BY <1>4, <1>6
  <1>8. Passed(d, d.index + 1)
    BY <1>6 DEF Passed
  <1>9. Proceed(d) \in Context /\ Proceed(d).pc = "run" /\ Sound(Proceed(d))
    BY <1>2, <1>6, <1>7, <1>8, Proceeding
  <1> QED
    BY <1>9 DEF Logger, Becomes, Made

LEMMA CorsStep ==
    ASSUME Typed, Inv, NEW r \in Requests, Cors(r)
    PROVE  \E c : Made(r, c)
  <1> DEFINE d == req[r]
  <1>1. At(r, "cors")
    BY DEF Cors
  <1>2. d \in Context /\ d.pc = "run" /\ Running(d) /\ d.in.route \in Routes
    BY <1>1, Standing
  <1>3. d.index = 3
    BY <1>1, Standing, Places
  <1>4. PICK n \in 4 .. 7 : n = Length(d.in.route)
    BY <1>2, ChainPlaces
  <1>5. d.appCtx /\ d.logging /\ ~d.admitted /\ ~d.ran /\ ~d.panicked /\ ~d.unlogged
    BY <1>2, <1>3 DEF Running, Passed
  <1>6. CASE d.in.origin = "foreign"
    <2>1. Explained([d EXCEPT !.status = 403])
      BY <1>2, <1>5, <1>6 DEF Explained, Context
    <2>2. Made(r, Aborted(d, 403))
      BY <1>2, <1>5, <1>6, <2>1, Aborting, Refusals DEF Cors, Becomes, Made
    <2> QED
      BY <2>2
  <1>7. CASE d.in.origin = "allowed" /\ d.in.preflight
    <2>1. d.in.route = "unknown"
      BY <1>2, <1>7 DEF Context, Arrival
    <2>2. d.in.route \notin Doc!Operations
      BY <2>1, Document
    <2>3. Becomes(r, Aborted(d, 204)) /\ UNCHANGED logs
      BY <1>7 DEF Cors
    <2>4. /\ Aborted(d, 204) \in Context /\ Aborted(d, 204).pc = "log"
          /\ Sound(Aborted(d, 204))
      <3>1. d.in.route \in Doc!Operations => Explained([d EXCEPT !.status = 204])
        BY <2>2
      <3>2. 204 \in Statuses
        BY DEF Statuses
      <3> QED
        BY <1>2, <1>5, <3>1, <3>2, Aborting
    <2> QED
      BY <2>3, <2>4 DEF Becomes, Made
  <1>8. CASE d.in.origin # "foreign" /\ ~(d.in.origin = "allowed" /\ d.in.preflight)
    <2>0. d.index \in 1 .. Length(d.in.route) /\ d.index < Length(d.in.route)
      BY <1>3, <1>4
    <2>1. Passed(d, d.index + 1)
      BY <1>3, <1>5, <1>8 DEF Passed
    <2>2. Proceed(d) \in Context /\ Proceed(d).pc = "run" /\ Sound(Proceed(d))
      BY <1>2, <1>5, <2>0, <2>1, Proceeding
    <2>3. Made(r, Proceed(d))
      BY <1>8, <2>2 DEF Cors, Becomes, Made
    <2> QED
      BY <2>3
  <1> QED
    BY <1>6, <1>7, <1>8

LEMMA LimiterStep ==
    ASSUME Typed, Inv, NEW r \in Requests, RateLimiter(r)
    PROVE  \E c : Made(r, c)
  <1> DEFINE d == [req[r] EXCEPT !.admitted = TRUE]
  <1>1. At(r, "limiter")
    BY DEF RateLimiter
  <1>2. req[r] \in Context /\ req[r].pc = "run" /\ Running(req[r]) /\ req[r].in.route \in Routes
    BY <1>1, Standing
  <1>3. req[r].index = 4
    BY <1>1, Standing, Places
  <1>4. /\ req[r].appCtx /\ req[r].logging /\ req[r].in.origin # "foreign"
        /\ ~req[r].admitted /\ ~req[r].ran /\ ~req[r].panicked /\ ~req[r].unlogged
    BY <1>2, <1>3 DEF Running, Passed
  <1>5. CASE Becomes(r, Aborted(req[r], 429))
    <2>1. Explained([req[r] EXCEPT !.status = 429])
      BY <1>2, <1>4 DEF Explained, Context
    <2>2. Made(r, Aborted(req[r], 429))
      BY <1>2, <1>4, <1>5, <2>1, Aborting, Refusals DEF RateLimiter, Becomes, Made
    <2> QED
      BY <2>2
  <1>6. CASE Becomes(r, Proceed(d))
    <2>1. /\ d \in Context /\ d.pc = "run" /\ d.index = 4 /\ d.in = req[r].in
          /\ d.appCtx /\ d.logging /\ d.admitted /\ ~d.ran /\ ~d.panicked /\ ~d.unlogged
      BY <1>2, <1>3, <1>4 DEF Context
    <2>2. PICK n \in 4 .. 7 : n = Length(d.in.route)
      BY <1>2, <2>1, ChainPlaces
    <2>3. CASE n = 4
      <3>1. d.in.route = "unknown"
        BY <1>2, <2>1, <2>2, <2>3, ChainPlaces DEF Routes
      <3>2. d.in.route \notin Doc!Operations
        BY <3>1, Document
      <3>3. Proceed(d) \in Context /\ Proceed(d).pc = "log" /\ Sound(Proceed(d))
        BY <2>1, <2>2, <2>3, <3>2, Ending
      <3> QED
        BY <1>6, <3>3 DEF RateLimiter, Becomes, Made
    <2>4. CASE n > 4
      <3>0. d.index \in 1 .. Length(d.in.route) /\ d.index < Length(d.in.route)
        BY <2>1, <2>2, <2>4
      <3>1. Passed(d, d.index + 1) /\ ~(d.index + 1 <= 4)
        BY <1>4, <2>1 DEF Passed
      <3>2. Proceed(d) \in Context /\ Proceed(d).pc = "run" /\ Sound(Proceed(d))
        BY <1>2, <2>1, <3>0, <3>1, Proceeding
      <3> QED
        BY <1>6, <3>2 DEF RateLimiter, Becomes, Made
    <2> QED
      BY <2>3, <2>4
  <1> QED
    BY <1>5, <1>6 DEF RateLimiter

LEMMA APIKeyStep ==
    ASSUME Typed, Inv, NEW r \in Requests, APIKeyAuth(r)
    PROVE  \E c : Made(r, c)
  <1> DEFINE d == req[r]
  <1>1. At(r, "apikey")
    BY DEF APIKeyAuth
  <1>2. d \in Context /\ d.pc = "run" /\ Running(d) /\ d.in.route \in Routes
    BY <1>1, Standing
  <1>3. d.index = 5 /\ d.in.route \in Keyed
    BY <1>1, Standing, Places
  <1>4. Length(d.in.route) \in {6, 7}
    BY <1>2, <1>3, ChainPlaces
  <1>5. /\ d.appCtx /\ d.logging /\ d.in.origin # "foreign" /\ d.admitted
        /\ ~d.ran /\ ~d.panicked /\ ~d.unlogged
    BY <1>2, <1>3 DEF Running, Passed
  <1>6. CASE d.in.key
    <2>1. d.index \in 1 .. Length(d.in.route) /\ d.index < Length(d.in.route)
      BY <1>3, <1>4
    <2>2. Passed(d, d.index + 1) /\ ~(d.index + 1 <= 4)
      BY <1>3, <1>5, <1>6 DEF Passed
    <2>3. Proceed(d) \in Context /\ Proceed(d).pc = "run" /\ Sound(Proceed(d))
      BY <1>2, <1>5, <2>1, <2>2, Proceeding
    <2>4. Made(r, Proceed(d))
      BY <1>6, <2>3 DEF APIKeyAuth, Becomes, Made
    <2> QED
      BY <2>4
  <1>7. CASE ~d.in.key
    <2>1. Explained([d EXCEPT !.status = 401])
      BY <1>2, <1>5, <1>7 DEF Explained, Context
    <2>2. Made(r, Aborted(d, 401))
      BY <1>2, <1>5, <1>7, <2>1, Aborting, Refusals DEF APIKeyAuth, Becomes, Made
    <2> QED
      BY <2>2
  <1> QED
    BY <1>6, <1>7

LEMMA JWTStep ==
    ASSUME Typed, Inv, NEW r \in Requests, JWTAuth(r)
    PROVE  \E c : Made(r, c)
  <1> DEFINE d == [req[r] EXCEPT !.username = TRUE]
  <1>1. At(r, "jwt")
    BY DEF JWTAuth
  <1>2. req[r] \in Context /\ req[r].pc = "run" /\ Running(req[r]) /\ req[r].in.route \in Routes
    BY <1>1, Standing
  <1>3. req[r].index = 6 /\ req[r].in.route = "CreateBook"
    BY <1>1, Standing, Places
  <1>4. Length(req[r].in.route) = 7 /\ "CreateBook" \in Keyed
    BY <1>2, <1>3, ChainPlaces DEF Keyed
  <1>5. /\ req[r].appCtx /\ req[r].logging /\ req[r].in.origin # "foreign" /\ req[r].admitted
        /\ req[r].in.key /\ ~req[r].ran /\ ~req[r].panicked /\ ~req[r].unlogged
    BY <1>2, <1>3, <1>4 DEF Running, Passed
  <1>6. CASE req[r].in.bearer /\ Becomes(r, Proceed(d))
    <2>1. /\ d \in Context /\ d.pc = "run" /\ d.index = 6 /\ d.in = req[r].in
          /\ d.appCtx /\ d.logging /\ d.admitted /\ d.username
          /\ ~d.ran /\ ~d.panicked /\ ~d.unlogged
      BY <1>2, <1>3, <1>5 DEF Context
    <2>2. d.index \in 1 .. Length(d.in.route) /\ d.index < Length(d.in.route)
      BY <1>4, <2>1
    <2>3. Passed(d, d.index + 1) /\ ~(d.index + 1 <= 4)
      BY <1>5, <1>6, <2>1 DEF Passed
    <2>4. Proceed(d) \in Context /\ Proceed(d).pc = "run" /\ Sound(Proceed(d))
      BY <1>2, <2>1, <2>2, <2>3, Proceeding
    <2> QED
      BY <1>6, <2>4 DEF JWTAuth, Becomes, Made
  <1>7. CASE Becomes(r, Aborted(req[r], 401))
    <2>1. Explained([req[r] EXCEPT !.status = 401])
      <3>1. "CreateBook" \in Doc!Operations
        BY DEF Doc!Operations, Doc!Paths
      <3>2. 401 \in Doc!Paths["CreateBook"].responses
        BY <3>1, Document
      <3> QED
        BY <1>2, <1>3, <3>2 DEF Explained, Context
    <2>2. Made(r, Aborted(req[r], 401))
      BY <1>2, <1>5, <1>7, <2>1, Aborting, Refusals DEF JWTAuth, Becomes, Made
    <2> QED
      BY <2>2
  <1> QED
    BY <1>6, <1>7 DEF JWTAuth

LEMMA AnswersAreStatuses ==
    ASSUME NEW route \in Routes \ {"unknown"}
    PROVE  Answers(route) \subseteq Statuses
  <1> USE DEF Answers, SwaggerAnswers, UserAnswers, BookAnswers
  <1>1. CASE route = "swagger"
    BY <1>1 DEF Statuses
  <1>2. CASE route \in {"LoginHandler", "RegisterHandler"}
    BY <1>2 DEF Statuses
  <1>3. CASE route \in {"Healthcheck", "FindBooks", "CreateBook"}
    BY <1>3 DEF Statuses
  <1>4. CASE route \in {"FindBook", "UpdateBook", "DeleteBook"}
    BY <1>4 DEF Statuses
  <1> QED
    BY <1>1, <1>2, <1>3, <1>4 DEF Routes, Keyed

LEMMA HandlerStep ==
    ASSUME Typed, Inv, NEW r \in Requests, Handler(r)
    PROVE  \E c : Made(r, c)
  <1> DEFINE d == [req[r] EXCEPT !.ran = TRUE]
             route == req[r].in.route
  <1>1. At(r, "handler")
    BY DEF Handler
  <1>2. req[r] \in Context /\ req[r].pc = "run" /\ Running(req[r]) /\ route \in Routes
    BY <1>1, Standing
  <1>3. /\ req[r].index = Length(route) /\ req[r].index > 4 /\ route # "unknown"
        /\ route \in Keyed => req[r].index > 5
        /\ route = "CreateBook" => req[r].index > 6
    BY <1>1, Standing, Places
  <1>4. Passed(req[r], req[r].index) /\ req[r].index \in Nat
    BY <1>2 DEF Running, Context
  <1>5. /\ d \in Context /\ d.pc = "run" /\ d.index = Length(d.in.route) /\ d.in = req[r].in
        /\ d.logging /\ d.ran
    <2>1. req[r].logging
      BY <1>3, <1>4 DEF Passed
    <2>2. d \in Context /\ d.pc = "run" /\ d.index = req[r].index /\ d.in = req[r].in
      BY <1>2 DEF Context
    <2>3. d.logging /\ d.ran
      BY <1>2, <2>1 DEF Context
    <2> QED
      BY <1>3, <2>2, <2>3
  <1>6. Passed(d, 8)
    <2>1. Passed(req[r], 8)
      BY <1>3, <1>4 DEF Passed
    <2> QED
      BY <1>2, <2>1 DEF Passed, Context
  <1>7. ASSUME NEW status \in Answers(route), Becomes(r, Proceed([d EXCEPT !.status = status]))
        PROVE  \E c : Made(r, c)
    <2> DEFINE e == [d EXCEPT !.status = status]
    <2>1. status \in Statuses
      BY <1>2, <1>3, AnswersAreStatuses
    <2>2. /\ e \in Context /\ e.pc = "run" /\ e.index = Length(e.in.route) /\ e.in = req[r].in
          /\ e.logging /\ e.ran /\ e.status = status
      BY <1>5, <2>1 DEF Context
    <2>3. Passed(e, 8)
      BY <1>5, <1>6 DEF Passed, Context
    <2>4. route \in Doc!Operations => Explained(e)
      BY <2>2, Document DEF Explained
    <2>5. Proceed(e) \in Context /\ Proceed(e).pc = "log" /\ Sound(Proceed(e))
      BY <2>2, <2>3, <2>4, Ending
    <2>6. Made(r, Proceed(e))
      BY <1>7, <2>5 DEF Handler, Becomes, Made
    <2> QED
      BY <2>6
  <1>8. ASSUME Becomes(r, [d EXCEPT !.pc = "sent", !.status = 500, !.panicked = TRUE])
        PROVE  \E c : Made(r, c)
    <2> DEFINE e == [d EXCEPT !.pc = "sent", !.status = 500, !.panicked = TRUE]
    <2> DEFINE a == [d EXCEPT !.pc = "sent"]
               b == [a EXCEPT !.status = 500]
               f == [b EXCEPT !.panicked = TRUE]
    <2>0. d \in Context
      BY <1>5
    <2>1. a \in Context /\ a.pc = "sent"
      BY <2>0 DEF Context
    <2> HIDE DEF a
    <2>2. 500 \in Statuses
      BY DEF Statuses
    <2>3. b \in Context /\ b.pc = "sent" /\ b.status = 500
      BY <2>1, <2>2 DEF Context
    <2> HIDE DEF b
    <2>4. f \in Context /\ f.pc = "sent" /\ f.panicked /\ f.status = 500
      BY <2>3 DEF Context
    <2>5. e = f
      BY DEF a, b
    <2>6. Passed(e, 8)
      BY <1>5, <1>6 DEF Passed, Context
    <2>7. Sound(e)
      BY <2>4, <2>5, <2>6 DEF Sound, Answered, Explained
    <2>8. Made(r, e)
      BY <1>8, <2>4, <2>5, <2>7 DEF Handler, Becomes, Made
    <2> QED
      BY <2>8
  <1>9. \/ \E status \in Answers(d.in.route) : Becomes(r, Proceed([d EXCEPT !.status = status]))
        \/ Becomes(r, [d EXCEPT !.pc = "sent", !.status = 500, !.panicked = TRUE])
    BY DEF Handler
  <1> QED
    BY <1>5, <1>7, <1>8, <1>9

(* The Logger's entry is the last step of a context, and changes it by its  *)
(* pc and unlogged only.                                                    *)
LEMMA LogStep ==
    ASSUME Typed, Inv, NEW r \in Requests, LogRequest(r)
    PROVE  \E c \in Context :
              /\ req' = [req EXCEPT ![r] = c] /\ Sound(c)
              /\ c.pc = "sent" /\ c.status = req[r].status
              /\ \/ logs' = Append(logs, [request |-> r, status |-> c.status])
                 \/ UNCHANGED logs /\ c.unlogged
  <1> DEFINE d == [req[r] EXCEPT !.pc = "sent"]
             e == [d EXCEPT !.unlogged = TRUE]
  <1>1. req[r].pc = "log" /\ req[r] \in Context
    BY DEF LogRequest, Typed
  <1>2. Answered(req[r])
    BY <1>1 DEF Inv, Sound
  <1>3. /\ d \in Context /\ d.pc = "sent" /\ d.status = req[r].status
        /\ d.in = req[r].in /\ d.ran = req[r].ran
    BY <1>1 DEF Context
  <1>4. /\ e \in Context /\ e.pc = "sent" /\ e.status = req[r].status /\ e.unlogged
        /\ e.in = req[r].in /\ e.ran = req[r].ran
    BY <1>3 DEF Context
  <1>5. Sound(d) /\ Sound(e)
    <2>1. Passed(req[r], 8) => Passed(d, 8) /\ Passed(e, 8)
      BY <1>1, <1>3 DEF Passed, Context
    <2>2. Explained(req[r]) => Explained(d) /\ Explained(e)
      BY <1>1, <1>3 DEF Explained, Context
    <2> QED
      BY <1>2, <1>3, <1>4, <2>1, <2>2 DEF Sound, Answered
  <1>6. CASE logs' = Append(logs, [request |-> r, status |-> req[r].status]) /\ Becomes(r, d)
    BY <1>3, <1>5, <1>6 DEF Becomes
  <1>7. CASE Becomes(r, [req[r] EXCEPT !.pc = "sent", !.unlogged = TRUE]) /\ UNCHANGED logs
    <2>1. [req[r] EXCEPT !.pc = "sent", !.unlogged = TRUE] = e
      OBVIOUS
    <2> QED
      BY <1>4, <1>5, <1>7, <2>1 DEF Becomes
  <1> QED
    BY <1>6, <1>7 DEF LogRequest

-------------------------------------------------------------------------------
(* The theorems *)

(* A step is one of a request's that leaves the log alone, or its last. *)
LEMMA Steps ==
    ASSUME Typed, Inv, Next
    PROVE  \E r \in Requests : LogRequest(r) \/
              (req[r].pc \in {"idle", "run"} /\ \E c : Made(r, c))
  <1>1. PICK r \in Requests : (\E a \in Arrivals : Arrive(r, a)) \/ Step(r)
    BY DEF Next
  <1>2. ASSUME NEW a \in Arrivals, Arrive(r, a)
        PROVE  req[r].pc \in {"idle", "run"} /\ \E c : Made(r, c)
    BY <1>2, Arriving DEF Arrive
  <1>3. ASSUME Step(r), ~LogRequest(r)
        PROVE  req[r].pc \in {"idle", "run"} /\ \E c : Made(r, c)
    <2>1. req[r].pc = "run"
      BY <1>3 DEF Step, ContextMiddleware, Logger, Cors, RateLimiter, APIKeyAuth, JWTAuth, Handler, At
    <2>2. \E c : Made(r, c)
      BY <1>3, ContextStep, LoggerStep, CorsStep, LimiterStep, APIKeyStep, JWTStep, HandlerStep DEF Step
    <2> QED
      BY <2>1, <2>2
  <1> QED
    BY <1>1, <1>2, <1>3

LEMMA InvNext ==
    ASSUME Typed, Inv, [Next]_vars
    PROVE  Typed' /\ Inv'
  <1>1. CASE Next
    <2>1. PICK r \in Requests : LogRequest(r) \/ \E c : Made(r, c)
      BY <1>1, Steps
    <2>2. PICK c \in Context : req' = [req EXCEPT ![r] = c] /\ Sound(c)
      BY <2>1, LogStep DEF Made
    <2> QED
      BY <2>2 DEF Typed, Inv
  <1>2. CASE UNCHANGED vars
    BY <1>2 DEF vars, Typed, Inv
  <1> QED
    BY <1>1, <1>2

(* Without any fairness, as the rest but liveness. *)
LEMMA Invariance == Safety => [](Typed /\ Inv)
  <1>1. Init => Typed /\ Inv
    BY DEF Init, Typed, Inv, Sound
  <1>2. Typed /\ Inv /\ [Next]_vars => (Typed /\ Inv)'
    BY InvNext
  <1> QED
    BY <1>1, <1>2, PTL DEF Safety

(* No handler runs for a request from a foreign origin or one the limiter   *)
(* refused; CreateBook finds its repository and the name from a good token. *)
THEOREM HandlersAreGuarded == Spec => []HandlerGuarded
  <1>1. Typed /\ Inv => HandlerGuarded
    <2> SUFFICES ASSUME Typed, Inv, NEW r \in Requests, Ran(r)
                 PROVE  /\ req[r].admitted /\ req[r].appCtx
                        /\ req[r].in.origin # "foreign"
                        /\ req[r].in.route = "CreateBook" => req[r].username
      BY DEF HandlerGuarded
    <2>1. req[r].pc # "idle" /\ req[r].ran /\ Sound(req[r])
      BY DEF Ran, Inv
    <2>2. Passed(req[r], 8)
      BY <2>1 DEF Sound, Running, Answered
    <2> QED
      BY <2>2 DEF Passed
  <1> QED
    BY <1>1, Invariance, PTL DEF Spec

(* The handler of a documented operation runs only for a request that       *)
(* carries what an alternative of the document's security asks for.         *)
THEOREM SecurityIsEnforced == Spec => []DocumentedSecurity
  <1>1. Typed /\ Inv => DocumentedSecurity
    <2> SUFFICES ASSUME Typed, Inv, NEW r \in Requests, Ran(r), req[r].in.route \in Doc!Operations
                 PROVE  Meets(req[r].in, Doc!Paths[req[r].in.route].security)
      BY DEF DocumentedSecurity
    <2> DEFINE route == req[r].in.route
               security == Doc!Paths[route].security
    <2>1. req[r].pc # "idle" /\ req[r].ran /\ Sound(req[r])
      BY DEF Ran, Inv
    <2>2. Passed(req[r], 8)
      BY <2>1 DEF Sound, Running, Answered
    <2>3. CASE route = "Healthcheck"
      BY <2>3, Document DEF Meets
    <2>4. CASE route \in Keyed
      <3>1. req[r].in.key
        BY <2>2, <2>4 DEF Passed
      <3>2. "ApiKeyAuth" \in Carries(req[r].in)
        BY <3>1 DEF Carries, Headers, Doc!SecurityDefinitions
      <3>3. PICK t \in Keyed : t = route
        BY <2>4
      <3>4. PICK i \in DOMAIN Doc!Paths[t].security : Doc!Paths[t].security[i] = {"ApiKeyAuth"}
        BY KeyIsAnAlternative
      <3>5. security[i] = {"ApiKeyAuth"} /\ i \in DOMAIN security
        BY <3>3, <3>4
      <3> QED
        BY <3>2, <3>5 DEF Meets
    <2>5. route = "Healthcheck" \/ route \in Keyed
      BY Document DEF Routes
    <2> QED
      BY <2>3, <2>4, <2>5
  <1> QED
    BY <1>1, Invariance, PTL DEF Spec

(* What is sent for a documented operation is in its document, or is a      *)
(* refusal meant for that request.                                          *)
THEOREM AnswersAreDocumented == Spec => []DocumentedAnswers
  <1>1. Typed /\ Inv => DocumentedAnswers
    BY DEF Inv, Sound, Answered, DocumentedAnswers
  <1> QED
    BY <1>1, Invariance, PTL DEF Spec

(* Types: the log grows by entries of requests there are. *)
LogTyped == logs \in Seq([request : Requests, status : Statuses])

LEMMA LogTypedNext ==
    ASSUME Typed, Inv, LogTyped, [Next]_vars
    PROVE  LogTyped'
  <1>1. CASE Next
    <2>1. PICK r \in Requests : LogRequest(r) \/ \E c : Made(r, c)
      BY <1>1, Steps
    <2>2. CASE \E c : Made(r, c)
      BY <2>2 DEF Made, LogTyped
    <2>3. CASE LogRequest(r)
      <3>1. PICK c \in Context :
               \/ logs' = Append(logs, [request |-> r, status |-> c.status])
               \/ UNCHANGED logs
        BY <2>3, LogStep
      <3> DEFINE entry == [request |-> r, status |-> c.status]
                 Entries == [request : Requests, status : Statuses]
      <3>2. entry \in Entries /\ logs \in Seq(Entries)
        BY DEF Context, LogTyped
      <3>3. logs' = Append(logs, entry) \/ logs' = logs
        BY <3>1
      <3> HIDE DEF entry, Entries
      <3>4. logs' \in Seq(Entries)
        BY <3>2, <3>3
      <3> QED
        BY <3>4 DEF Entries, LogTyped
    <2> QED
      BY <2>1, <2>2, <2>3
  <1>2. CASE UNCHANGED vars
    BY <1>2 DEF vars, LogTyped
  <1> QED
    BY <1>1, <1>2

LEMMA TypesKept == Safety => []LogTyped
  <1>1. Init => LogTyped
    BY DEF Init, LogTyped
  <1>2. Typed /\ Inv /\ LogTyped /\ [Next]_vars => LogTyped'
    BY LogTypedNext
  <1> QED
    BY <1>1, <1>2, Invariance, PTL DEF Safety

LEMMA TypeOfSafety == Safety => []TypeOK
  <1>1. Typed /\ Inv /\ LogTyped => TypeOK
    <2> SUFFICES ASSUME Typed, Inv, LogTyped
                 PROVE  TypeOK
      OBVIOUS
    <2>1. ASSUME NEW r \in Requests, req[r].pc = "run"
          PROVE  req[r].index <= Len(Chain(req[r].in.route))
      <3>1. req[r].index \in 1 .. Length(req[r].in.route)
        BY <2>1 DEF Inv, Sound, Running
      <3>2. req[r].in.route \in Routes
        BY <2>1 DEF Typed, Context, Arrival
      <3>3. PICK n \in 4 .. 7 : n = Length(req[r].in.route)
        BY <3>2, ChainPlaces
      <3>4. req[r].index <= Length(req[r].in.route)
        BY <3>1, <3>3
      <3> QED
        BY <3>4 DEF Length
    <2> QED
      BY <2>1 DEF Typed, LogTyped, TypeOK
  <1> QED
    BY <1>1, Invariance, TypesKept, PTL

(* Whoever sends whatever, a chain that runs is at one of its functions. *)
THEOREM TypeCorrect == Spec => []TypeOK
  BY TypeOfSafety, PTL DEF Spec

(* A step of r leaves the entries of the others as they are. *)
LEMMA EntriesKept ==
    ASSUME LogTyped, NEW r \in Requests, NEW status \in Statuses,
           logs' = Append(logs, [request |-> r, status |-> status])
    PROVE  /\ \A x \in Requests \ {r} : EntriesOf(x)' = EntriesOf(x)
           /\ \A x \in Requests : \A i \in EntriesOf(x) : logs'[i] = logs[i]
           /\ EntriesOf(r)' = EntriesOf(r) \cup {Len(logs) + 1}
           /\ logs'[Len(logs) + 1].status = status
  <1> DEFINE entry == [request |-> r, status |-> status]
             n == Len(logs)
  <1>1. logs \in Seq([request : Requests, status : Statuses]) /\ n \in Nat /\ DOMAIN logs = 1 .. n
    BY DEF LogTyped
  <1>2. /\ DOMAIN logs' = 1 .. n + 1 /\ logs'[n + 1] = entry
        /\ \A i \in 1 .. n : logs'[i] = logs[i]
    BY <1>1
  <1>3. 1 .. n + 1 = 1 .. n \cup {n + 1} /\ n + 1 \notin 1 .. n
    BY <1>1
  <1>4. entry.request = r /\ entry.status = status
    OBVIOUS
  <1> HIDE DEF n, entry
  <1>5. ASSUME NEW x \in Requests \ {r}
        PROVE  EntriesOf(x)' = EntriesOf(x)
    BY <1>1, <1>2, <1>3, <1>4, <1>5 DEF EntriesOf
  <1>6. EntriesOf(r)' = EntriesOf(r) \cup {n + 1}
    BY <1>1, <1>2, <1>3, <1>4 DEF EntriesOf
  <1>7. ASSUME NEW x \in Requests, NEW i \in EntriesOf(x)
        PROVE  logs'[i] = logs[i]
    BY <1>1, <1>2, <1>7 DEF EntriesOf
  <1> QED
    BY <1>2, <1>4, <1>5, <1>6, <1>7 DEF n

(* LoggedAsSent, of one request. *)
Logged(r) ==
    /\ req[r].pc \in {"idle", "run", "log"} => EntriesOf(r) = {}
    /\ req[r].pc = "sent" =>
          \/ \E i \in EntriesOf(r) : EntriesOf(r) = {i} /\ logs[i].status = req[r].status
          \/ EntriesOf(r) = {} /\ (req[r].unlogged \/ req[r].panicked)

LEMMA LoggedNext ==
    ASSUME Typed, Inv, LogTyped, \A r \in Requests : Logged(r), Next
    PROVE  (\A r \in Requests : Logged(r))'
  <1> SUFFICES ASSUME NEW x \in Requests
               PROVE  Logged(x)'
    OBVIOUS
  <1>0. Logged(x)
    OBVIOUS
  <1>1. PICK r \in Requests :
           LogRequest(r) \/ (req[r].pc \in {"idle", "run"} /\ \E c : Made(r, c))
    BY Steps
  <1>2. CASE req[r].pc \in {"idle", "run"} /\ \E c : Made(r, c)
    <2>1. PICK c : Made(r, c)
      BY <1>2
    <2>2. EntriesOf(x)' = EntriesOf(x) /\ logs' = logs
      BY <2>1 DEF Made, EntriesOf
    <2>3. CASE x = r
      <3>1. req'[x] = c /\ (c.pc \in {"run", "log"} \/ (c.pc = "sent" /\ c.panicked))
        BY <2>1, <2>3 DEF Made, Typed
      <3>2. EntriesOf(x) = {}
        BY <1>0, <1>2, <2>3 DEF Logged
      <3> QED
        BY <2>2, <3>1, <3>2 DEF Logged
    <2>4. CASE x # r
      <3>1. req'[x] = req[x]
        BY <2>1, <2>4 DEF Made, Typed
      <3> QED
        BY <1>0, <2>2, <3>1 DEF Logged
    <2> QED
      BY <2>3, <2>4
  <1>3. CASE LogRequest(r)
    <2>1. PICK c \in Context :
             /\ req' = [req EXCEPT ![r] = c] /\ c.pc = "sent"
             /\ \/ logs' = Append(logs, [request |-> r, status |-> c.status])
                \/ UNCHANGED logs /\ c.unlogged
      BY <1>3, LogStep
    <2>2. EntriesOf(r) = {}
      BY <1>3 DEF Logged, LogRequest
    <2>3. CASE logs' = Append(logs, [request |-> r, status |-> c.status])
      <3>1. c.status \in Statuses
        BY DEF Context
      <3>2. CASE x = r
        <4>1. req'[x] = c /\ c.pc = "sent"
          BY <2>1, <3>2 DEF Typed
        <4>2. EntriesOf(x)' = {Len(logs) + 1} /\ logs'[Len(logs) + 1].status = c.status
          BY <2>2, <2>3, <3>1, <3>2, EntriesKept
        <4> QED
          BY <4>1, <4>2 DEF Logged
      <3>3. CASE x # r
        <4>1. req'[x] = req[x]
          BY <2>1, <3>3 DEF Typed
        <4>2. EntriesOf(x)' = EntriesOf(x) /\ \A i \in EntriesOf(x) : logs'[i] = logs[i]
          BY <2>3, <3>1, <3>3, EntriesKept
        <4> QED
          BY <1>0, <4>1, <4>2 DEF Logged
      <3> QED
        BY <3>2, <3>3
    <2>4. CASE UNCHANGED logs /\ c.unlogged
      <3>1. EntriesOf(x)' = EntriesOf(x) /\ logs' = logs
        BY <2>4 DEF EntriesOf
      <3>2. CASE x = r
        <4>1. req'[x] = c /\ c.pc = "sent" /\ c.unlogged
          BY <2>1, <2>4, <3>2 DEF Typed
        <4> QED
          BY <2>2, <3>1, <3>2, <4>1 DEF Logged
      <3>3. CASE x # r
        <4>1. req'[x] = req[x]
          BY <2>1, <3>3 DEF Typed
        <4> QED
          BY <1>0, <3>1, <4>1 DEF Logged
      <3> QED
        BY <3>2, <3>3
    <2> QED
      BY <2>1, <2>3, <2>4
  <1> QED
    BY <1>1, <1>2, <1>3

LEMMA LogOfSafety == Safety => []LoggedAsSent
  <1> DEFINE Strong == LogTyped /\ \A r \in Requests : Logged(r)
  <1>1. Init => Strong
    BY DEF Init, LogTyped, Logged, EntriesOf
  <1>2. Typed /\ Inv /\ Strong /\ [Next]_vars => Strong'
    <2>1. Strong /\ UNCHANGED vars => Strong'
      BY DEF vars, LogTyped, Logged, EntriesOf
    <2> QED
      BY <2>1, LogTypedNext, LoggedNext
  <1>3. Strong => LoggedAsSent
    BY DEF LoggedAsSent, Logged
  <1> QED
    BY <1>1, <1>2, <1>3, Invariance, PTL DEF Safety

(* One entry of every request that was sent, with the status that was sent, *)
(* and none before; a panic or a failed insert alone leaves none.           *)
THEOREM TheLogTellsWhatWasSent == Spec => []LoggedAsSent
  BY LogOfSafety, PTL DEF Spec
===============================================================================
