------------------------------ MODULE RateLimiter -----------------------------
(***************************************************************************)
(* The rate limiter of pkg/middleware/rate_limit.go: one token bucket of   *)
(* golang.org/x/time/rate, shared by all the requests of all the clients.  *)
(*                                                                         *)
(* A request reads the clock and then asks the bucket for a token. The     *)
(* bucket is behind a mutex, the clock is not: time.Now() is an argument   *)
(* of AllowN, evaluated before the lock is taken, and a request that read  *)
(* the clock first may ask last.                                           *)
(*                                                                         *)
(* Time is counted in ticks, and tokens in parts: a tick brings one part,  *)
(* a token is the parts of a Period. spent and late are auxiliary, indexed *)
(* by a moment s: the parts spent since s, and by how much in all the      *)
(* requests that spent them had read the clock too early.                  *)
(***************************************************************************)
EXTENDS Integers, FiniteSets

CONSTANTS
    Requests,  \* the requests that reach the limiter
    Period,    \* ticks in the time.Minute of rate.Every
    Burst,     \* the tokens a full bucket holds
    Horizon    \* the last tick considered: the clock of the model stops there

ASSUME LimiterAssumption ==
    /\ Period \in Nat \ {0}
    /\ Burst \in Nat \ {0}
    /\ Horizon \in Nat

VARIABLES
    now,     \* the clock
    tokens,  \* lim.tokens, in parts
    last,    \* lim.last
    req,     \* the goroutine of each request
    spent, late

vars == <<now, tokens, last, req, spent, late>>

Moments == 0 .. Horizon

(* rate.NewLimiter(rate.Every(1*time.Minute), 60) *)
Cost == Period
Full == Burst * Period

Becomes(r, s) == req' = [req EXCEPT ![r] = s]

-------------------------------------------------------------------------------
(* advance() of the bucket: what it holds at the time t a caller gives. A   *)
(* time before last brings nothing.                                         *)
Level(t) ==
    LET level == tokens + (IF t < last THEN 0 ELSE t - last)
    IN  IF level > Full THEN Full ELSE level

(* time.Now() *)
ReadClock(r) ==
    /\ req[r].pc = "idle"
    /\ Becomes(r, [pc |-> "allow", t |-> now])
    /\ UNCHANGED <<now, tokens, last, spent, late>>

(* Mutant: what AllowN returns is not looked at. *)
AdmitUnchecked(r) ==
    LET t == req[r].t
    IN  /\ tokens' = Level(t) - Cost
        /\ last' = t
        /\ spent' = [s \in Moments |-> IF s <= now THEN spent[s] + Cost ELSE spent[s]]
        /\ late' = [s \in Moments |-> IF s <= now THEN late[s] + (now - t) ELSE late[s]]
        /\ Becomes(r, [pc |-> "next", t |-> t, at |-> now])

(* limiter.AllowN(t, 1), under the mutex of the bucket. A token is taken    *)
(* and t kept as last, even when it is earlier than last was ...            *)
Admit(r) ==
    LET t == req[r].t
    IN  /\ Level(t) >= Cost
        /\ tokens' = Level(t) - Cost
        /\ last' = t
        /\ spent' = [s \in Moments |-> IF s <= now THEN spent[s] + Cost ELSE spent[s]]
        /\ late' = [s \in Moments |-> IF s <= now THEN late[s] + (now - t) ELSE late[s]]
        /\ Becomes(r, [pc |-> "next", t |-> t, at |-> now])

(* Mutant: a refusal moves last on without keeping what the time brought. *)
RefuseForgetting(r) ==
    LET t == req[r].t
    IN  /\ Level(t) < Cost
        /\ last' = t
        /\ Becomes(r, [pc |-> "abort", t |-> t, at |-> now])
        /\ UNCHANGED <<tokens, spent, late>>

(* ... or there is none, the bucket is left as it was, and the request is   *)
(* aborted with a 429.                                                      *)
Refuse(r) ==
    LET t == req[r].t
    IN  /\ Level(t) < Cost
        /\ Becomes(r, [pc |-> "abort", t |-> t, at |-> now])
        /\ UNCHANGED <<tokens, last, spent, late>>

AllowN(r) ==
    /\ req[r].pc = "allow"
    /\ Admit(r) \/ Refuse(r)
    /\ UNCHANGED now

Tick ==
    /\ now < Horizon
    /\ now' = now + 1
    /\ UNCHANGED <<tokens, last, req, spent, late>>

-------------------------------------------------------------------------------
(* A new bucket is full. Its last is the zero time, long ago: whatever that *)
(* would bring is above Full.                                               *)
Init ==
    /\ now = 0
    /\ tokens = Full
    /\ last = 0
    /\ req = [r \in Requests |-> [pc |-> "idle"]]
    /\ spent = [s \in Moments |-> 0]
    /\ late = [s \in Moments |-> 0]

Next ==
    \/ \E r \in Requests : ReadClock(r) \/ AllowN(r)
    \/ Tick

Spec == Init /\ [][Next]_vars

-------------------------------------------------------------------------------
Asked(n) ==
    [pc : {"idle"}]
    \cup [pc : {"allow"}, t : 0 .. n]
    \cup [pc : {"next", "abort"}, t : 0 .. n, at : 0 .. n]

(* The type invariant: neither the bucket's time nor a request's is ahead   *)
(* of the clock, and the bucket is never overdrawn nor overfull.            *)
TypeOK ==
    /\ now \in Moments
    /\ tokens \in 0 .. Full
    /\ last \in 0 .. now
    /\ req \in [Requests -> Asked(now)]
    /\ spent \in [Moments -> Nat]
    /\ late \in [Moments -> Nat]

(* However the requests interleave between time.Now() and the mutex, those  *)
(* admitted since a moment s were in the bucket at s, or came with the time *)
(* since then, or were counted twice: a request that asks late puts last    *)
(* back, by no more than it was late.                                       *)
AdmissionBound ==
    \A s \in 0 .. now : spent[s] <= Full + (now - s) + late[s]

(* Why it holds: since the first admission after s, what the bucket holds   *)
(* and what was spent came no later than last, or was counted twice.        *)
Accounted ==
    \A s \in Moments :
        /\ s > now => spent[s] = 0 /\ late[s] = 0
        /\ spent[s] > 0 => tokens + spent[s] <= Full + (last - s) + late[s]

(* The requests admitted in the time that fills the bucket, up to t. *)
Recent(t) == {x \in Requests : req[x].pc = "next" /\ req[x].t > t - Full}

(* Nobody is refused before the burst is used up: when a request is, as     *)
(* many as the bucket holds were admitted in the time that fills it.        *)
RefusedAfterBurst ==
    \A r \in Requests : req[r].pc = "abort" => Cardinality(Recent(req[r].t)) >= Burst

(* Why it holds: what is missing from the bucket, at whatever time it is    *)
(* asked, went to those.                                                    *)
Missing ==
    \A t \in Moments : Level(t) + Cost * Cardinality(Recent(t)) >= Full

(* router.go:49 "60 requests per minute", for a bucket of 60: a request is  *)
(* refused only when the last minute has had its 60. What rate.Every gives  *)
(* back in a minute is one token.                                           *)
SixtyPerMinute ==
    \A r \in Requests : req[r].pc = "abort" =>
        Cardinality({x \in Requests : /\ req[x].pc = "next"
                                      /\ req[x].t > req[r].t - Period}) >= Burst

===============================================================================
