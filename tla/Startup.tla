-------------------------------- MODULE Startup -------------------------------
(***************************************************************************)
(* The start of the server: main of cmd/server/main.go with NewDatabase    *)
(* (pkg/database/db.go) and SetupMongoDB (pkg/database/mongo.go), next to  *)
(* a Postgres and a Mongo that come and go. docker-compose.yml starts all  *)
(* of them together and waits for none to be ready.                        *)
(*                                                                         *)
(* A connection is made, or refused, at one moment. The Redis client       *)
(* connects when it is first used, and has no part in the start.           *)
(*                                                                         *)
(* elapsed and down are auxiliary: the ticks since the process started, up *)
(* to End, and the last of them at which a service was down.               *)
(***************************************************************************)
EXTENDS Integers

CONSTANTS
    Pause,      \* ticks in the 3*time.Second between two attempts
    Selection,  \* ticks the Mongo driver looks for a server before it gives up
    Nil         \* the nil handle

ASSUME StartupAssumption ==
    /\ Pause \in Nat \ {0}
    /\ Selection \in Nat \ {0}
    /\ Nil # "handle"

VARIABLES
    up,       \* which of the two services answer
    proc,     \* the server process
    elapsed, down

vars == <<up, proc, elapsed, down>>

Services == {"postgres", "mongo"}
Attempts == 3
Never == -1

(* From here on elapsed does not count: the loop and the ping are over, had *)
(* every attempt been refused at once.                                      *)
End == Attempts * Pause + Selection

(* The process at pc, with the variables of NewDatabase and the ticks left  *)
(* of what it waits for.                                                    *)
Process(pc, i, database, err, timer) ==
    [pc |-> pc, i |-> i, database |-> database, err |-> err, timer |-> timer]

Off == Process("off", 0, Nil, FALSE, 0)
GoesTo(pc, timer) == proc' = Process(pc, proc.i, proc.database, proc.err, timer)

Booting == proc.pc \in {"open", "sleep", "check", "ping", "listen"}

-------------------------------------------------------------------------------
Start ==
    /\ proc = Off
    /\ proc' = Process("open", 1, Nil, FALSE, 0)
    /\ elapsed' = 0
    /\ down' = [s \in Services |-> IF up[s] THEN Never ELSE 0]
    /\ UNCHANGED up

(* gorm.Open makes a handle, then pings with it: the handle is returned     *)
(* with or without an error.                                                *)
Open ==
    /\ proc.pc = "open"
    /\ proc' = IF up["postgres"] THEN Process("check", proc.i, "handle", FALSE, 0)
                                 ELSE Process("sleep", proc.i, "handle", TRUE, Pause)
    /\ UNCHANGED <<up, elapsed, down>>

(* The end of the sleep, and of the loop when its last attempt was made. *)
NextAttempt(again) ==
    proc' = Process(IF again THEN "open" ELSE "check",
                    proc.i + 1, proc.database, proc.err, 0)
WakeOneShort ==                                            \* mutant
    /\ proc.pc = "sleep" /\ proc.timer = 0
    /\ NextAttempt(proc.i + 1 < Attempts)
    /\ UNCHANGED <<up, elapsed, down>>
WakeForAnother ==                                          \* mutant
    /\ proc.pc = "sleep" /\ proc.timer = 0
    /\ NextAttempt(TRUE)
    /\ UNCHANGED <<up, elapsed, down>>
Wake ==
    /\ proc.pc = "sleep" /\ proc.timer = 0
    /\ NextAttempt(proc.i + 1 <= Attempts)
    /\ UNCHANGED <<up, elapsed, down>>

(* The handle is what is tested, not the error. *)
CheckHandle ==
    /\ proc.pc = "check"
    /\ IF proc.database = Nil THEN GoesTo("fatal", 0) ELSE GoesTo("ping", Selection)
    /\ UNCHANGED <<up, elapsed, down>>

(* The ping has no deadline of its own: it succeeds when a server is found, *)
(* and panics when the driver has looked for its time and there is none.    *)
PingForever ==                                             \* mutant
    /\ proc.pc = "ping" /\ up["mongo"] /\ GoesTo("listen", 0)
    /\ UNCHANGED <<up, elapsed, down>>
Ping ==
    /\ proc.pc = "ping"
    /\ \/ up["mongo"] /\ GoesTo("listen", 0)
       \/ ~up["mongo"] /\ proc.timer = 0 /\ GoesTo("panicked", 0)
    /\ UNCHANGED <<up, elapsed, down>>

(* r.Run(":8001"): the port is had, or was taken. *)
Run ==
    /\ proc.pc = "listen"
    /\ GoesTo("serving", 0) \/ GoesTo("fatal", 0)
    /\ UNCHANGED <<up, elapsed, down>>

(* The process is stopped, or what ended by itself is cleared away. *)
Stop ==
    /\ proc # Off
    /\ proc' = Off
    /\ elapsed' = 0
    /\ down' = [s \in Services |-> Never]
    /\ UNCHANGED up

-------------------------------------------------------------------------------
(* A service that is down at time t of a boot. *)
NotedDown(s, t) == [down EXCEPT ![s] = t]

ServiceStarts(s) ==
    /\ ~up[s]
    /\ up' = [up EXCEPT ![s] = TRUE]
    /\ UNCHANGED <<proc, elapsed, down>>

ServiceStops(s) ==
    /\ up[s]
    /\ up' = [up EXCEPT ![s] = FALSE]
    /\ down' = IF Booting THEN NotedDown(s, elapsed) ELSE down
    /\ UNCHANGED <<proc, elapsed>>

(* Time passes in a connection attempt, in the sleep and in the ping. *)
Tick ==
    /\ proc.pc \in {"open", "sleep", "ping"}
    /\ GoesTo(proc.pc, IF proc.timer = 0 THEN 0 ELSE proc.timer - 1)
    /\ elapsed' = IF elapsed = End THEN End ELSE elapsed + 1
    /\ down' = [s \in Services |-> IF up[s] THEN down[s] ELSE elapsed']
    /\ UNCHANGED up

-------------------------------------------------------------------------------
Init ==
    /\ up \in [Services -> BOOLEAN]
    /\ proc = Off
    /\ elapsed = 0
    /\ down = [s \in Services |-> Never]

Step == Open \/ Wake \/ CheckHandle \/ Ping \/ Run

Next ==
    \/ Start \/ Step \/ Stop \/ Tick
    \/ \E s \in Services : ServiceStarts(s) \/ ServiceStops(s)

(* The process runs, and time passes; services and operators do as they     *)
(* like.                                                                    *)
Spec == Init /\ [][Next]_vars /\ WF_vars(Step) /\ WF_vars(Tick)

-------------------------------------------------------------------------------
(* The type invariant: an attempt is one of three, and the handle is there  *)
(* once an attempt was made.                                                *)
TypeOK ==
    /\ up \in [Services -> BOOLEAN]
    /\ proc \in [pc : {"off", "open", "sleep", "check", "ping", "listen",
                       "serving", "fatal", "panicked"},
                 i : 0 .. Attempts + 1, database : {Nil, "handle"},
                 err : BOOLEAN, timer : 0 .. Pause + Selection]
    /\ proc.pc \in {"open", "sleep"} => proc.i \in 1 .. Attempts
    /\ proc.pc \notin {"off", "open"} => proc.database # Nil
    /\ elapsed \in 0 .. End
    /\ down \in [Services -> {Never} \cup 0 .. End]

(* How late a service may be. A server goes on without a connection only if *)
(* Postgres was down when two pauses were over or later, and panics only if *)
(* Mongo was down when the driver had looked for its time or later: one     *)
(* that is there by then, and stays, is found whenever the others start.    *)
SlowStartAwaited ==
    /\ proc.pc \in {"check", "ping", "listen", "serving"} /\ proc.err =>
          down["postgres"] >= (Attempts - 1) * Pause
    /\ proc.pc = "panicked" => down["mongo"] >= Selection

(* Why it holds: a service that is down was down last just now; the i-th    *)
(* attempt is made when i - 1 pauses are over, and what is left of a pause  *)
(* or of the ping brings the end of it no earlier.                          *)
Awaiting ==
    /\ Booting => \A s \in Services :
          down[s] <= elapsed /\ (~up[s] => down[s] = elapsed)
    /\ proc.pc = "open" => elapsed >= (proc.i - 1) * Pause
    /\ proc.pc = "sleep" =>
          /\ down["postgres"] >= (proc.i - 1) * Pause
          /\ elapsed + proc.timer >= proc.i * Pause
    /\ proc.pc = "ping" => elapsed + proc.timer >= Selection

(* A start ends, whatever the services do: the server serves, or its        *)
(* process is gone.                                                         *)
BootEnds == Booting ~> ~Booting
===============================================================================
