----------------------------- MODULE BookCatalogue ----------------------------
(***************************************************************************)
(* What the book catalogue promises its clients, whatever it does with     *)
(* Postgres and Redis: a table, and for each request what the client can   *)
(* know of it.                                                             *)
(*                                                                         *)
(*  - A request changes the table at most once and before it is answered;  *)
(*    one that is refused has not changed it. A client that is told so may *)
(*    send its request again; one that is told nothing may find the book   *)
(*    in the table once for every time it was sent.                        *)
(*  - A book is found as it is. A listing is a page of a table of the      *)
(*    past, of one table, though it may be old; with Postgres failing,     *)
(*    rows may be missing from it, or all of it.                           *)
(*  - What a PUT or DELETE is told of is a book there was, and what a PUT  *)
(*    is shown is that book with its fields on top.                        *)
(*                                                                         *)
(* There is no cache here, and a request is one step, two for a POST. With *)
(* Postgres failing, a write may be lost and yet be told as done.          *)
(***************************************************************************)
EXTENDS BookModels, Sequences

CONSTANTS Requests, Queries, NewBooks, Patches, PathIds, InitialBooks, Nil,
          DBFaults, CacheFaults, Crashes

VARIABLES
    table,   \* the books: id -> row
    nextId,  \* the next id to be given out
    past,    \* the tables there have been, the one of now among them
    out      \* what the client of each request can know

vars == <<table, nextId, past, out>>

(* Not sent yet, on its way, and on its way with the book inserted. *)
Idle            == [pc |-> "idle"]
Open            == [pc |-> "open"]
Inserting(i, b) == [pc |-> "inserting", id |-> i, book |-> b]
Lost            == [pc |-> "lost"]

(* The answers. *)
Listed(q, p)  == [pc |-> "listed", query |-> q, page |-> p]
Created(i, b) == [pc |-> "created", id |-> i, book |-> b]
Found(i, b)   == [pc |-> "found", id |-> i, book |-> b]
Updated(i, b) == [pc |-> "updated", id |-> i, book |-> b]
Deleted(i)    == [pc |-> "deleted", id |-> i]
NotFound(i)   == [pc |-> "notfound", id |-> i]
Failed(s)     == [pc |-> "failed", status |-> s]

InFlight(r) == out[r].pc \in {"open", "inserting"}
Unwritten(r) == out[r] \in {Idle, Open}
Tell(r, o) == out' = [out EXCEPT ![r] = o]

(* The table becomes t, or its write is lost. *)
Write(t) ==
    \/ table' = t /\ past' = past \cup {t}
    \/ DBFaults /\ UNCHANGED <<table, past>>

(* A row that was at one time the one of id. *)
Was(id, row) == \E t \in past : id \in DOMAIN t /\ t[id] = row

-------------------------------------------------------------------------------
Begin(r) ==
    /\ out[r] = Idle
    /\ Tell(r, Open)
    /\ UNCHANGED <<table, nextId, past>>

(* An id may be given out in vain, or not at all, when the insert fails. *)
Insert(r, b) ==
    /\ Unwritten(r) /\ Bound(b)
    /\ \/ /\ table' = Inserted(table, nextId, b)
          /\ past' = past \cup {table'}
          /\ nextId' = nextId + 1
          /\ Tell(r, Inserting(nextId, b))
       \/ /\ DBFaults
          /\ \E id \in {0, nextId} : /\ nextId' = IF id = 0 THEN nextId ELSE nextId + 1
                                     /\ Tell(r, Inserting(id, b))
          /\ UNCHANGED <<table, past>>

Create(r) ==
    /\ out[r].pc = "inserting"
    /\ Tell(r, Created(out[r].id, out[r].book))
    /\ UNCHANGED <<table, nextId, past>>

List(r, q) ==
    /\ Unwritten(r) /\ WellFormed(q)
    /\ \E t \in past :
          \/ \E p \in Pages(t, q) : Tell(r, Listed(q, p))
          \/ DBFaults /\ \E p \in {Nil} \cup CutPages(t, q) : Tell(r, Listed(q, p))
    /\ UNCHANGED <<table, nextId, past>>

Find(r, id) ==
    /\ Unwritten(r) /\ id \in DOMAIN table
    /\ Tell(r, Found(id, table[id]))
    /\ UNCHANGED <<table, nextId, past>>

Patched(id, p) ==
    IF id \in DOMAIN table THEN [table EXCEPT ![id] = Merge(@, p)] ELSE table

Update(r, id, p) ==
    /\ Unwritten(r) /\ p # Malformed
    /\ \E row \in Book : Was(id, row) /\ Tell(r, Updated(id, Merge(row, p)))
    /\ Write(Patched(id, p))
    /\ UNCHANGED nextId

Delete(r, id) ==
    /\ Unwritten(r)
    /\ \E t \in past : id \in DOMAIN t
    /\ Tell(r, Deleted(id))
    /\ Write(Removed(table, id))
    /\ UNCHANGED nextId

Miss(r, id) ==
    /\ Unwritten(r)
    /\ id \notin DOMAIN table \/ DBFaults
    /\ Tell(r, NotFound(id))
    /\ UNCHANGED <<table, nextId, past>>

Refuse(r) ==
    /\ Unwritten(r)
    /\ Tell(r, Failed(400)) \/ (CacheFaults /\ Tell(r, Failed(500)))
    /\ UNCHANGED <<table, nextId, past>>

(* Nothing more is known of those that were on their way. *)
Crash ==
    /\ Crashes
    /\ out' = [r \in Requests |-> IF InFlight(r) THEN Lost ELSE out[r]]
    /\ UNCHANGED <<table, nextId, past>>

-------------------------------------------------------------------------------
Init ==
    /\ table = InitialBooks
    /\ nextId = Len(InitialBooks) + 1
    /\ past = {InitialBooks}
    /\ out = [r \in Requests |-> Idle]

Next ==
    \/ \E r \in Requests :
          \/ Begin(r) \/ Create(r) \/ Refuse(r)
          \/ \E b \in NewBooks : Insert(r, b)
          \/ \E q \in Queries : List(r, q)
          \/ \E id \in PathIds :
                \/ Find(r, id) \/ Delete(r, id) \/ Miss(r, id)
                \/ \E p \in Patches : Update(r, id, p)
    \/ Crash

Spec == Init /\ [][Next]_vars
===============================================================================
