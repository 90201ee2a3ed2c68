------------------------------- MODULE Accounts -------------------------------
(***************************************************************************)
(* What the accounts promise their clients, whatever they do with Postgres *)
(* and bcrypt: the key of a password for each name, set once, and tokens   *)
(* good until a moment.                                                    *)
(*                                                                         *)
(*  - A registration and a login each happen at one moment, before their   *)
(*    answer. The first registration of a name sets its key; a later one   *)
(*    is told it was not saved or, with no unique index, is told that it   *)
(*    succeeded and sets nothing.                                          *)
(*  - A login succeeds with a password of the key of its name, and is      *)
(*    refused with one of any other: what it is told agrees with the       *)
(*    accounts of that moment. The password registered has that key, and   *)
(*    so has one that begins with its 72 bytes and goes on.                *)
(*  - A token is good from its login for Lifetime and less than a second   *)
(*    more, and JWTAuth tells good tokens from bad ones without error.     *)
(*                                                                         *)
(* No rows or hashes here, and no time between a lookup and its token.     *)
(***************************************************************************)
EXTENDS Integers

CONSTANTS Requests, Names, Secrets, Blank, Key, Forged, Second, Lifetime,
          Horizon, UniqueIndex, DBFaults

VARIABLES
    now,       \* the clock
    accounts,  \* name -> key
    out        \* what the client of each request was told

vars == <<now, accounts, out>>

Credentials == [username : Names, password : Secrets]

Waiting            == [pc |-> "waiting"]
Registered(b)      == [pc |-> "registered", body |-> b]
Unsaved(b)         == [pc |-> "unsaved", body |-> b]
LoggedIn(b, token) == [pc |-> "loggedin", body |-> b, token |-> token]
Refused(b)         == [pc |-> "refused", body |-> b]
LetIn(token)       == [pc |-> "next", token |-> token]
Unauthorized(t)    == [pc |-> "unauthorized", token |-> t]

Tell(r, o) == out' = [out EXCEPT ![r] = o]

Known(name) == name \in DOMAIN accounts
Opens(b) == Known(b.username) /\ accounts[b.username] = Key[b.password]

Granted == {out[l].token : l \in {x \in Requests : out[x].pc = "loggedin"}}

-------------------------------------------------------------------------------
(* A body that is not accepted, or a call that failed. *)
Fail(r) ==
    /\ Tell(r, [pc |-> "bad"]) \/ Tell(r, [pc |-> "error"])
    /\ UNCHANGED <<now, accounts>>

(* The reply of the insert may be lost. *)
Register(r, b) ==
    /\ Tell(r, Registered(b)) \/ (DBFaults /\ Tell(r, Unsaved(b)))
    /\ b.username # Blank /\ b.password # Blank
    /\ UniqueIndex => ~Known(b.username)
    /\ accounts' = [name \in DOMAIN accounts \cup {b.username} |->
                      IF Known(name) THEN accounts[name] ELSE Key[b.password]]
    /\ UNCHANGED now

Reject(r, b) ==
    /\ Tell(r, Unsaved(b))
    /\ (UniqueIndex /\ Known(b.username)) \/ DBFaults
    /\ UNCHANGED <<now, accounts>>

LogIn(r, b) ==
    /\ \E until \in now + Lifetime .. now + Lifetime + Second - 1 :
          Tell(r, LoggedIn(b, [user |-> b.username, until |-> until]))
    /\ Opens(b)
    /\ UNCHANGED <<now, accounts>>

Refuse(r, b) ==
    /\ Tell(r, Refused(b))
    /\ ~Opens(b)
    /\ UNCHANGED <<now, accounts>>

Present(r, token) ==
    /\ Tell(r, IF now <= token.until THEN LetIn(token) ELSE Unauthorized(token))
    /\ UNCHANGED <<now, accounts>>

PresentForged(r) ==
    /\ Tell(r, Unauthorized(Forged))
    /\ UNCHANGED <<now, accounts>>

Tick ==
    /\ now < Horizon
    /\ now' = now + 1
    /\ UNCHANGED <<accounts, out>>

-------------------------------------------------------------------------------
Init ==
    /\ now = 0
    /\ accounts = [name \in {} |-> Blank]
    /\ out = [r \in Requests |-> Waiting]

(* A request is answered once. *)
Answer(r) ==
    /\ out[r] = Waiting
    /\ \/ Fail(r) \/ PresentForged(r)
       \/ \E b \in Credentials :
             Register(r, b) \/ Reject(r, b) \/ LogIn(r, b) \/ Refuse(r, b)
       \/ \E token \in Granted : Present(r, token)

Next == (\E r \in Requests : Answer(r)) \/ Tick

Spec == Init /\ [][Next]_vars
===============================================================================
