-------------------------- MODULE RateLimiterProofs ---------------------------
(***************************************************************************)
(* Theorems about RateLimiter, for every period, burst and horizon and any *)
(* number of requests.                                                     *)
(***************************************************************************)
EXTENDS RateLimiter, FiniteSetTheorems, TLAPS

LEMMA FullIsNatural == Full \in Nat /\ Cost \in Nat \ {0}
  BY LimiterAssumption DEF Full, Cost

(* What a request remembers stays well typed as the clock goes on. *)
LEMMA AskedGrows ==
    ASSUME NEW n \in Nat, NEW m \in Nat, n <= m
    PROVE  Asked(n) \subseteq Asked(m)
  <1>1. 0 .. n \subseteq 0 .. m
    OBVIOUS
  <1> QED
    BY <1>1 DEF Asked

(* The level of the bucket never exceeds Full, nor what the time brought. *)
LEMMA LevelBounds ==
    ASSUME TypeOK, NEW t \in 0 .. now
    PROVE  /\ Level(t) \in 0 .. Full
           /\ t >= last => Level(t) <= tokens + (t - last)
           /\ t < last => Level(t) <= tokens
  <1>1. Full \in Nat /\ tokens \in Int /\ tokens >= 0 /\ tokens <= Full /\ last \in Nat /\ now \in Nat
    BY FullIsNatural, LimiterAssumption DEF TypeOK, Moments
  <1> QED
    BY <1>1 DEF Level

(* What a request that asks has in hand. *)
LEMMA AskerHasRead ==
    ASSUME TypeOK, NEW r \in Requests, req[r].pc = "allow"
    PROVE  req[r].t \in 0 .. now
  BY DEF TypeOK, Asked

LEMMA AdmitTypes ==
    ASSUME TypeOK, NEW r \in Requests, req[r].pc = "allow", Admit(r), UNCHANGED now
    PROVE  TypeOK'
  <1> DEFINE t == req[r].t
  <1>1. t \in 0 .. now /\ now \in Nat
    BY AskerHasRead, LimiterAssumption DEF TypeOK, Moments
  <1>2. tokens' \in 0 .. Full
    BY <1>1, LevelBounds, FullIsNatural DEF Admit
  <1>3. [pc |-> "next", t |-> t, at |-> now] \in Asked(now)
    BY <1>1 DEF Asked
  <1>4. req' \in [Requests -> Asked(now')]
    BY <1>3 DEF TypeOK, Admit, Becomes
  <1>5. spent' \in [Moments -> Nat] /\ late' \in [Moments -> Nat]
    BY <1>1, FullIsNatural DEF TypeOK, Admit
  <1> QED
    BY <1>1, <1>2, <1>4, <1>5 DEF TypeOK, Admit

LEMMA TypeNext ==
    ASSUME TypeOK, [Next]_vars
    PROVE  TypeOK'
  <1>0. now \in Nat /\ Horizon \in Nat
    BY LimiterAssumption DEF TypeOK, Moments
  <1>1. ASSUME NEW r \in Requests, ReadClock(r)
        PROVE  TypeOK'
    <2>1. [pc |-> "allow", t |-> now] \in Asked(now)
      BY <1>0 DEF Asked
    <2> QED
      BY <1>1, <2>1 DEF TypeOK, ReadClock, Becomes
  <1>2. ASSUME NEW r \in Requests, AllowN(r)
        PROVE  TypeOK'
    <2>1. CASE Admit(r)
      BY <1>2, <2>1, AdmitTypes DEF AllowN
    <2>2. CASE Refuse(r)
      <3>1. [pc |-> "abort", t |-> req[r].t, at |-> now] \in Asked(now)
        BY <1>0, <1>2, AskerHasRead DEF Asked, AllowN
      <3> QED
        BY <1>2, <2>2, <3>1 DEF TypeOK, AllowN, Refuse, Becomes
    <2> QED
      BY <1>2, <2>1, <2>2 DEF AllowN
  <1>3. CASE Tick
    <2>1. Asked(now) \subseteq Asked(now')
      BY <1>0, <1>3, AskedGrows DEF Tick
    <2>2. now' \in Moments /\ last' \in 0 .. now'
      BY <1>0, <1>3 DEF TypeOK, Tick, Moments
    <2> QED
      BY <1>3, <2>1, <2>2 DEF TypeOK, Tick
  <1>4. CASE UNCHANGED vars
    BY <1>4 DEF vars, TypeOK
  <1> QED
    BY <1>1, <1>2, <1>3, <1>4 DEF Next

(* Every reachable state is well typed: the bucket is never overdrawn. *)
THEOREM TypeCorrect == Spec => []TypeOK
  <1>1. Init => TypeOK
    BY FullIsNatural, LimiterAssumption DEF Init, TypeOK, Moments, Asked
  <1>2. TypeOK /\ [Next]_vars => TypeOK'
    BY TypeNext
  <1> QED
    BY <1>1, <1>2, PTL DEF Spec

-------------------------------------------------------------------------------
(* An admission spends a token of what the bucket had, and what it puts     *)
(* last back it adds to late.                                               *)
LEMMA AdmitAccounted ==
    ASSUME TypeOK, Accounted, NEW r \in Requests, req[r].pc = "allow",
           Admit(r), UNCHANGED now
    PROVE  Accounted'
  <1> DEFINE t == req[r].t
  <1>1. /\ now \in Nat /\ t \in 0 .. now /\ last \in 0 .. now
        /\ Full \in Nat /\ Cost \in Nat \ {0} /\ tokens \in Int
    BY AskerHasRead, FullIsNatural, LimiterAssumption DEF TypeOK, Moments
  <1> SUFFICES ASSUME NEW s \in Moments
               PROVE  /\ s > now => spent'[s] = 0 /\ late'[s] = 0
                      /\ spent'[s] > 0 =>
                           tokens' + spent'[s] <= Full + (last' - s) + late'[s]
    BY DEF Accounted, Admit, Full
  <1>2. s \in Nat /\ spent[s] \in Nat /\ late[s] \in Nat
    BY LimiterAssumption DEF TypeOK, Moments
  <1>3. CASE s > now
    BY <1>1, <1>2, <1>3 DEF Accounted, Admit
  <1>4. CASE s <= now
    <2>1. spent'[s] = spent[s] + Cost /\ late'[s] = late[s] + (now - t)
      BY <1>4 DEF Admit
    <2>2. tokens' = Level(t) - Cost /\ last' = t
      BY DEF Admit
    <2>3. Level(t) \in 0 .. Full
          /\ (t >= last => Level(t) <= tokens + (t - last))
          /\ (t < last => Level(t) <= tokens)
      BY <1>1, LevelBounds
    <2>4. CASE spent[s] = 0
      BY <1>1, <1>2, <1>4, <2>1, <2>2, <2>3, <2>4
    <2>5. CASE spent[s] > 0
      <3>1. tokens + spent[s] <= Full + (last - s) + late[s]
        BY <2>5 DEF Accounted
      <3> QED
        BY <1>1, <1>2, <1>4, <2>1, <2>2, <2>3, <3>1
    <2> QED
      BY <1>2, <2>4, <2>5
  <1> QED
    BY <1>1, <1>2, <1>3, <1>4

LEMMA AccountedNext ==
    ASSUME TypeOK, Accounted, [Next]_vars
    PROVE  Accounted'
  <1>1. ASSUME NEW r \in Requests, AllowN(r), Admit(r)
        PROVE  Accounted'
    BY <1>1, AdmitAccounted DEF AllowN
  <1>2. CASE UNCHANGED <<now, tokens, last, spent, late>>
    BY <1>2 DEF Accounted, Full
  <1>3. CASE Tick
    BY <1>3, LimiterAssumption DEF Accounted, Tick, Full, TypeOK, Moments
  <1> QED
    BY <1>1, <1>2, <1>3 DEF Next, AllowN, Refuse, ReadClock, vars

(* In no interval does the limiter admit more than a full bucket, what the  *)
(* interval brings, and what its late requests made the bucket count twice. *)
THEOREM AdmissionIsBounded == Spec => []AdmissionBound
  <1>1. Init => Accounted
    BY LimiterAssumption DEF Init, Accounted, Moments
  <1>2. TypeOK /\ Accounted /\ [Next]_vars => Accounted'
    BY AccountedNext
  <1>3. TypeOK /\ Accounted => AdmissionBound
    <2> SUFFICES ASSUME TypeOK, Accounted, NEW s \in 0 .. now
                 PROVE  spent[s] <= Full + (now - s) + late[s]
      BY DEF AdmissionBound
    <2>1. /\ now \in Nat /\ s \in Moments /\ s <= now /\ last \in 0 .. now
          /\ Full \in Nat /\ tokens \in Nat /\ spent[s] \in Nat /\ late[s] \in Nat
      BY FullIsNatural, LimiterAssumption DEF TypeOK, Moments
    <2>2. spent[s] > 0 => tokens + spent[s] <= Full + (last - s) + late[s]
      BY <2>1 DEF Accounted
    <2> QED
      BY <2>1, <2>2
  <1> QED
    BY <1>1, <1>2, <1>3, TypeCorrect, PTL DEF Spec

-------------------------------------------------------------------------------
(* What is missing from the bucket *)

(* One more token is one more Cost. *)
LEMMA CostOfOneMore ==
    ASSUME NEW c \in Nat, NEW n \in Nat
    PROVE  c * n \in Nat /\ c * (n + 1) = c * n + c
  OBVIOUS

(* Tokens that cost more than all but one of b are b. *)
LEMMA TokensForCost ==
    ASSUME NEW c \in Nat \ {0}, NEW n \in Nat, NEW b \in Nat, c * n > b * c - c
    PROVE  n >= b
  <1> SUFFICES ASSUME n < b PROVE FALSE
    OBVIOUS
  <1>1. PICK d \in Nat : b = n + 1 + d
    <2>1. b - n - 1 \in Nat /\ b = n + 1 + (b - n - 1)
      OBVIOUS
    <2> QED
      BY <2>1
  <1>2. b * c = n * c + c + d * c
    BY <1>1
  <1>3. d * c \in Nat /\ n * c = c * n /\ c * n \in Nat
    OBVIOUS
  <1> QED
    BY <1>2, <1>3

(* Asked later the bucket holds more, by no more than the time between. *)
LEMMA LevelOverTime ==
    ASSUME TypeOK, NEW s \in Nat, NEW t \in Nat
    PROVE  /\ Level(s) \in 0 .. Full
           /\ s <= t => Level(s) <= Level(t) /\ Level(t) <= Level(s) + (t - s)
  <1>1. Full \in Nat /\ tokens \in 0 .. Full /\ last \in Nat
    BY FullIsNatural, LimiterAssumption DEF TypeOK, Moments
  <1> QED
    BY <1>1 DEF Level

(* The requests admitted so far are finitely many. *)
Admitted == {x \in Requests : req[x].pc = "next"}

MissingInv == IsFiniteSet(Admitted) /\ Missing

LEMMA RecentIsFinite ==
    ASSUME IsFiniteSet(Admitted), NEW t
    PROVE  IsFiniteSet(Recent(t)) /\ Cardinality(Recent(t)) \in Nat
  <1>1. Recent(t) \subseteq Admitted
    BY DEF Recent, Admitted
  <1>2. IsFiniteSet(Recent(t))
    BY <1>1, FS_Subset
  <1> QED
    BY <1>2, FS_CardinalityType

(* A step that admits nobody and leaves the bucket alone. *)
LEMMA NobodyAdmitted ==
    ASSUME MissingInv, UNCHANGED <<tokens, last>>,
           \A x \in Requests : req'[x] = req[x] \/ (req[x].pc # "next" /\ req'[x].pc # "next")
    PROVE  MissingInv'
  <1>1. Admitted' = Admitted /\ \A t : Recent(t)' = Recent(t)
    BY DEF Admitted, Recent, Full
  <1>2. \A t : Level(t)' = Level(t)
    BY DEF Level, Full
  <1> QED
    BY <1>1, <1>2 DEF MissingInv, Missing, Full, Cost

(* An admission at the time a takes a token and is one of the recent ones   *)
(* for as long as it takes to fill the bucket.                              *)
LEMMA AdmitMissing ==
    ASSUME TypeOK, MissingInv, NEW r \in Requests, req[r].pc = "allow",
           Admit(r), UNCHANGED now
    PROVE  MissingInv'
  <1> DEFINE a == req[r].t
  <1>1. /\ Full \in Nat /\ Cost \in Nat \ {0} /\ a \in Nat
        /\ Full' = Full /\ Cost' = Cost
    BY AskerHasRead, FullIsNatural, LimiterAssumption DEF TypeOK, Moments, Full, Cost
  <1>2. /\ req'[r].pc = "next" /\ req'[r].t = a
        /\ \A x \in Requests \ {r} : req'[x] = req[x]
    BY DEF Admit, Becomes, TypeOK
  <1>3. Level(a) >= Cost /\ tokens' = Level(a) - Cost /\ last' = a
    BY DEF Admit
  <1>4. IsFiniteSet(Admitted')
    <2>1. Admitted' = Admitted \cup {r}
      BY <1>2 DEF Admitted
    <2> QED
      BY <2>1, FS_AddElement DEF MissingInv
  <1>5. ASSUME NEW t \in Moments
        PROVE  Level(t)' + Cost * Cardinality(Recent(t)') >= Full
    <2> DEFINE n == Cardinality(Recent(t))
    <2>1. t \in Nat /\ n \in Nat /\ Cost * n \in Nat /\ Cost * (n + 1) = Cost * n + Cost
      BY <1>1, <1>5, RecentIsFinite, CostOfOneMore, LimiterAssumption DEF MissingInv, Moments
    <2>2. Level(t) + Cost * n >= Full
      BY <1>5 DEF MissingInv, Missing
    <2>3. /\ Level(t) \in Nat /\ Level(a) \in Nat
          /\ a <= t => Level(t) <= Level(a) + (t - a)
          /\ t < a => Level(t) <= Level(a)
      <3>1. Level(t) \in 0 .. Full /\ Level(a) \in 0 .. Full
        BY <1>1, <2>1, LevelOverTime
      <3>2. a <= t => Level(t) <= Level(a) + (t - a)
        BY <1>1, <2>1, LevelOverTime
      <3>3. t < a => Level(t) <= Level(a)
        <4>1. t <= a => Level(t) <= Level(a)
          BY <1>1, <2>1, LevelOverTime
        <4> QED
          BY <1>1, <2>1, <4>1
      <3> QED
        BY <1>1, <3>1, <3>2, <3>3
    <2>4. /\ t < a => Level(t)' = IF Level(a) - Cost > Full THEN Full ELSE Level(a) - Cost
          /\ t >= a => Level(t)' = IF Level(a) - Cost + (t - a) > Full THEN Full
                                   ELSE Level(a) - Cost + (t - a)
      BY <1>1, <1>3, <2>1 DEF Level
    <2>5. CASE a > t - Full
      <3>1. Recent(t)' = Recent(t) \cup {r} /\ r \notin Recent(t)
        BY <1>1, <1>2, <2>5 DEF Recent
      <3>2. Cardinality(Recent(t)') = n + 1
        BY <3>1, RecentIsFinite, FS_AddElement DEF MissingInv
      <3>3. Level(t)' + (Cost * n + Cost) >= Full
        BY <1>1, <1>3, <2>1, <2>2, <2>3, <2>4
      <3> QED
        BY <2>1, <3>2, <3>3
    <2>6. CASE a <= t - Full
      <3>1. Recent(t)' = Recent(t)
        BY <1>1, <1>2, <2>1, <2>6 DEF Recent
      <3>2. Level(t)' = Full
        <4>1. t >= a /\ t - a >= Full
          BY <1>1, <2>1, <2>6
        <4>2. Level(a) - Cost + (t - a) >= Full
          BY <1>1, <1>3, <2>1, <2>3, <4>1
        <4> QED
          BY <1>1, <2>1, <2>3, <2>4, <4>1, <4>2
      <3> QED
        BY <1>1, <2>1, <3>1, <3>2
    <2> QED
      BY <1>1, <2>1, <2>5, <2>6
  <1> QED
    BY <1>1, <1>4, <1>5 DEF MissingInv, Missing

LEMMA MissingInit ==
    ASSUME Init
    PROVE  MissingInv
  <1>1. Admitted = {} /\ \A t : Recent(t) = {}
    BY DEF Init, Admitted, Recent
  <1>2. IsFiniteSet(Admitted) /\ \A t : Cardinality(Recent(t)) = 0
    BY <1>1, FS_EmptySet
  <1>3. \A t \in Moments : Level(t) = Full
    BY FullIsNatural, LimiterAssumption DEF Init, Level, Moments
  <1> QED
    BY <1>2, <1>3, FullIsNatural DEF MissingInv, Missing

LEMMA MissingNext ==
    ASSUME TypeOK, MissingInv, [Next]_vars
    PROVE  MissingInv'
  <1>1. ASSUME NEW r \in Requests, AllowN(r), Admit(r)
        PROVE  MissingInv'
    BY <1>1, AdmitMissing DEF AllowN
  <1>2. ASSUME NEW r \in Requests, AllowN(r), Refuse(r)
        PROVE  MissingInv'
    BY <1>2, NobodyAdmitted DEF AllowN, Refuse, Becomes, TypeOK
  <1>3. ASSUME NEW r \in Requests, ReadClock(r)
        PROVE  MissingInv'
    BY <1>3, NobodyAdmitted DEF ReadClock, Becomes, TypeOK
  <1>4. CASE Tick \/ UNCHANGED vars
    BY <1>4, NobodyAdmitted DEF Tick, vars
  <1> QED
    BY <1>1, <1>2, <1>3, <1>4 DEF Next, AllowN

(* Those admitted stay admitted. *)
LEMMA RecentGrows ==
    ASSUME TypeOK, MissingInv, [Next]_vars, NEW t
    PROVE  Cardinality(Recent(t)) <= Cardinality(Recent(t)')
  <1>1. \A x \in Requests : req[x].pc = "next" => req'[x] = req[x]
    BY DEF Next, ReadClock, AllowN, Admit, Refuse, Becomes, Tick, vars, TypeOK
  <1>2. Recent(t) \subseteq Recent(t)'
    BY <1>1 DEF Recent, Full
  <1>3. IsFiniteSet(Recent(t)')
    <2>1. IsFiniteSet(Admitted')
      BY MissingNext DEF MissingInv
    <2>2. Recent(t)' \subseteq Admitted'
      BY DEF Recent, Admitted
    <2> QED
      BY <2>1, <2>2, FS_Subset
  <1> QED
    BY <1>2, <1>3, FS_Subset

(* A refusal finds what is missing with those admitted. *)
LEMMA RefusalFindsBurst ==
    ASSUME TypeOK, MissingInv, NEW t \in Moments, Level(t) < Cost
    PROVE  Cardinality(Recent(t)) >= Burst
  <1> DEFINE n == Cardinality(Recent(t))
  <1>1. Cost \in Nat \ {0} /\ Burst \in Nat /\ Full = Burst * Cost /\ n \in Nat
    BY RecentIsFinite, LimiterAssumption DEF MissingInv, Cost, Full
  <1>2. Level(t) + Cost * n >= Full
    BY DEF MissingInv, Missing
  <1>3. Level(t) \in Nat /\ Cost * n \in Nat
    <2>1. Level(t) \in 0 .. Full /\ Full \in Nat
      BY LevelOverTime, FullIsNatural, LimiterAssumption DEF Moments
    <2> QED
      BY <1>1, <2>1, CostOfOneMore
  <1>4. Cost * n > Burst * Cost - Cost
    BY <1>1, <1>2, <1>3, FullIsNatural
  <1> QED
    BY <1>1, <1>4, TokensForCost

LEMMA RefusedNext ==
    ASSUME TypeOK, MissingInv, RefusedAfterBurst, [Next]_vars
    PROVE  RefusedAfterBurst'
  <1> SUFFICES ASSUME NEW r \in Requests, req'[r].pc = "abort"
               PROVE  Cardinality(Recent(req[r].t)') >= Burst
    BY DEF RefusedAfterBurst
  <1>1. \/ req[r].pc = "abort" /\ req'[r] = req[r]
        \/ req[r].pc = "allow" /\ Level(req[r].t) < Cost /\ req'[r].t = req[r].t
    BY DEF Next, ReadClock, AllowN, Admit, Refuse, Becomes, Tick, vars, TypeOK
  <1>2. PICK t : t = req[r].t /\ t = req'[r].t
    BY <1>1
  <1>3. Cardinality(Recent(t)) >= Burst
    <2>1. CASE req[r].pc = "abort"
      BY <1>2, <2>1 DEF RefusedAfterBurst
    <2>2. CASE req[r].pc = "allow" /\ Level(t) < Cost
      <3>1. t \in Moments
        <4>1. req[r].t \in 0 .. now /\ now \in 0 .. Horizon
          BY <2>2, AskerHasRead DEF TypeOK, Moments
        <4> QED
          BY <1>2, <4>1, LimiterAssumption DEF Moments
      <3> QED
        BY <2>2, <3>1, RefusalFindsBurst
    <2> QED
      BY <1>1, <1>2, <2>1, <2>2
  <1>4. Cardinality(Recent(t)) <= Cardinality(Recent(t)')
    BY RecentGrows
  <1>5. /\ Cardinality(Recent(t)) \in Nat /\ Burst \in Nat
        /\ Cardinality(Recent(t)') \in Nat
    <2>1. IsFiniteSet(Admitted')
      BY MissingNext DEF MissingInv
    <2>2. Recent(t)' \subseteq Admitted'
      BY DEF Recent, Admitted
    <2>3. Cardinality(Recent(t)') \in Nat
      BY <2>1, <2>2, FS_Subset, FS_CardinalityType
    <2> QED
      BY <2>3, RecentIsFinite, LimiterAssumption DEF MissingInv
  <1>6. Recent(req[r].t)' = Recent(t)'
    BY <1>2 DEF Recent, Full
  <1> QED
    BY <1>3, <1>4, <1>5, <1>6

(* Nobody is refused before the burst was used up in the time that fills    *)
(* it, for every burst and period, and whoever reads the clock early.       *)
THEOREM RefusalIsJustified == Spec => []RefusedAfterBurst
  <1>1. Init => MissingInv /\ RefusedAfterBurst
    BY MissingInit DEF Init, RefusedAfterBurst
  <1>2. TypeOK /\ MissingInv /\ [Next]_vars => MissingInv'
    BY MissingNext
  <1>3. TypeOK /\ MissingInv /\ RefusedAfterBurst /\ [Next]_vars => RefusedAfterBurst'
    BY RefusedNext
  <1> QED
    BY <1>1, <1>2, <1>3, TypeCorrect, PTL DEF Spec

-------------------------------------------------------------------------------
(* What was spent, counted in requests *)

(* The requests admitted since s. *)
Since(s) == {x \in Requests : req[x].pc = "next" /\ req[x].at >= s}

Counted == \A s \in Moments : spent[s] = Cost * Cardinality(Since(s))

LEMMA SinceIsFinite ==
    ASSUME IsFiniteSet(Admitted), NEW s
    PROVE  IsFiniteSet(Since(s)) /\ Cardinality(Since(s)) \in Nat
  <1>1. Since(s) \subseteq Admitted
    BY DEF Since, Admitted
  <1>2. IsFiniteSet(Since(s))
    BY <1>1, FS_Subset
  <1> QED
    BY <1>2, FS_CardinalityType

LEMMA CountedNext ==
    ASSUME TypeOK, MissingInv, Counted, [Next]_vars
    PROVE  Counted'
  <1> SUFFICES ASSUME NEW s \in Moments
               PROVE  spent'[s] = Cost * Cardinality(Since(s)')
    BY DEF Counted, Cost
  <1>1. /\ spent[s] = Cost * Cardinality(Since(s))
        /\ now \in Nat /\ s \in Nat
    BY LimiterAssumption DEF Counted, TypeOK, Moments
  <1>2. ASSUME NEW r \in Requests, AllowN(r), Admit(r)
        PROVE  spent'[s] = Cost * Cardinality(Since(s)')
    <2>1. /\ req[r].pc # "next" /\ req'[r].pc = "next" /\ req'[r].at = now
          /\ \A x \in Requests \ {r} : req'[x] = req[x]
      BY <1>2 DEF AllowN, Admit, Becomes, TypeOK
    <2>2. spent'[s] = IF s <= now THEN spent[s] + Cost ELSE spent[s]
      BY <1>2 DEF Admit
    <2>3. CASE s <= now
      <3>1. Since(s)' = Since(s) \cup {r} /\ r \notin Since(s)
        BY <1>1, <2>1, <2>3 DEF Since
      <3>2. Cardinality(Since(s)') = Cardinality(Since(s)) + 1
        BY <3>1, SinceIsFinite, FS_AddElement DEF MissingInv
      <3> QED
        BY <1>1, <2>2, <2>3, <3>2, SinceIsFinite, CostOfOneMore, FullIsNatural DEF MissingInv
    <2>4. CASE ~(s <= now)
      <3>1. Since(s)' = Since(s)
        BY <1>1, <2>1, <2>4 DEF Since
      <3> QED
        BY <1>1, <2>2, <2>4, <3>1
    <2> QED
      BY <2>3, <2>4
  <1>3. ASSUME UNCHANGED spent,
               \A x \in Requests : req'[x] = req[x] \/ (req[x].pc # "next" /\ req'[x].pc # "next")
        PROVE  spent'[s] = Cost * Cardinality(Since(s)')
    <2>1. Since(s)' = Since(s)
      BY <1>3 DEF Since
    <2> QED
      BY <1>1, <1>3, <2>1
  <1>4. ASSUME NEW r \in Requests, (AllowN(r) /\ Refuse(r)) \/ ReadClock(r)
        PROVE  spent'[s] = Cost * Cardinality(Since(s)')
    BY <1>3, <1>4 DEF AllowN, Refuse, ReadClock, Becomes, TypeOK
  <1>5. CASE Tick \/ UNCHANGED vars
    BY <1>3, <1>5 DEF Tick, vars
  <1> QED
    BY <1>2, <1>4, <1>5 DEF Next, AllowN

(* In requests: those admitted since s, at the cost of a token each.        *)
Paid ==
    \A s \in 0 .. now :
        /\ IsFiniteSet(Since(s))
        /\ Cost * Cardinality(Since(s)) <= Full + (now - s) + late[s]

LEMMA AdmittedArePaid == Spec => []Paid
  <1>1. Init => MissingInv
    BY MissingInit
  <1>2. Init => Counted
    <2> SUFFICES ASSUME Init PROVE Counted
      OBVIOUS
    <2>1. \A s : Since(s) = {}
      BY DEF Init, Since
    <2>2. \A s : Cardinality(Since(s)) = 0
      BY <2>1, FS_EmptySet
    <2> QED
      BY <2>2, FullIsNatural DEF Init, Counted
  <1>3. TypeOK /\ MissingInv /\ [Next]_vars => MissingInv'
    BY MissingNext
  <1>4. TypeOK /\ MissingInv /\ Counted /\ [Next]_vars => Counted'
    BY CountedNext
  <1>5. TypeOK /\ MissingInv /\ Counted /\ AdmissionBound => Paid
    <2> SUFFICES ASSUME TypeOK, MissingInv, Counted, AdmissionBound, NEW s \in 0 .. now
                 PROVE  /\ IsFiniteSet(Since(s))
                        /\ Cost * Cardinality(Since(s)) <= Full + (now - s) + late[s]
      BY DEF Paid
    <2>1. s \in Moments
      BY LimiterAssumption DEF TypeOK, Moments
    <2> QED
      BY <2>1, SinceIsFinite DEF Counted, AdmissionBound, MissingInv
  <1> QED
    BY <1>1, <1>2, <1>3, <1>4, <1>5, TypeCorrect, AdmissionIsBounded, PTL DEF Spec
===============================================================================
