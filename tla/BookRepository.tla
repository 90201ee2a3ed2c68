---------------------------- MODULE BookRepository ----------------------------
(***************************************************************************)
(* The book catalogue of pkg/api/books.go: a books table in Postgres, read *)
(* through a Redis cache of listings, and the handlers that share them.    *)
(*                                                                         *)
(* gin serves every request on a goroutine of its own, and a handler holds *)
(* no lock and opens no transaction across its calls. A handler is cut at  *)
(* each call it makes to Postgres or to Redis: one action per call, with   *)
(* the local code up to the next call. What a goroutine remembers between  *)
(* two calls is its entry of req, a record whose pc names the next call    *)
(* or, once the handler has answered, the answer.                          *)
(*                                                                         *)
(* history, and the fields ver, by, overlap and clean, are auxiliary: no   *)
(* guard reads them and no code keeps them. history is the sequence of the *)
(* values of the table, ver an index into it (of the table a page was read *)
(* from, of the table an insert produced), by the request that stored a    *)
(* page, overlap the requests that had read a page and not stored it when  *)
(* a book was inserted, clean whether Redis answered every call of an      *)
(* invalidation.                                                           *)
(***************************************************************************)
EXTENDS BookModels, Sequences

CONSTANTS
    Requests,      \* the requests the server receives
    Queries,       \* what GET /books may ask for
    NewBooks,      \* what POST /books may carry
    Patches,       \* what PUT /books/:id may carry
    PathIds,       \* what :id may be
    InitialBooks,  \* the rows of the table at the start, numbered from 1
    Nil,           \* the nil slice: json.Marshal makes null of it
    TTL,           \* ticks in the time.Minute of FindBooks
    DBFaults,      \* may a call to Postgres fail?
    CacheFaults,   \* may a call to Redis fail?
    Crashes        \* may the server process die and be started again?

ASSUME RepositoryAssumption ==
    /\ Queries \subseteq Query
    /\ NewBooks \subseteq Body \cup {Malformed}
    /\ Patches \subseteq Body \cup {Malformed}
    /\ PathIds \subseteq Nat
    /\ InitialBooks \in Seq(Book)
    /\ TTL \in Nat \ {0}
    /\ DBFaults \in BOOLEAN /\ CacheFaults \in BOOLEAN /\ Crashes \in BOOLEAN

VARIABLES
    table,    \* the books table: id -> row
    nextId,   \* the id sequence of the table
    cache,    \* the keys books_offset_* of Redis: key -> entry
    req,      \* the goroutine of each request
    history   \* the values table has had, the last one its value now

vars == <<table, nextId, cache, req, history>>

-------------------------------------------------------------------------------
(* The cache key "books_offset_" + offset + "_limit_" + limit is one to one *)
(* with the pair of strings it is made of.                                  *)
KeyWithoutOffset(q) == [q EXCEPT !.offset = q.limit]  \* mutant
CacheKey(q) == q

(* What a goroutine remembers between two calls. *)
Reading(q)         == [pc |-> "query", query |-> q]
Storing(q, p, v)   == [pc |-> "set", query |-> q, page |-> p, ver |-> v]
Listing(c)         == [pc |-> "keys", id |-> c.id, book |-> c.book,
                       ver |-> c.ver, overlap |-> c.overlap]
Deleting(c, ks, b) == [pc |-> "del", id |-> c.id, book |-> c.book,
                       ver |-> c.ver, overlap |-> c.overlap,
                       keys |-> ks, clean |-> b]
Updating(i, b, p)  == [pc |-> "update", id |-> i, book |-> b, patch |-> p]
Removing(i)        == [pc |-> "delete", id |-> i]

(* The answers: a pc that names the handler stands for its status 2xx. *)
Listed(q, p, v) == [pc |-> "listed", query |-> q, page |-> p, ver |-> v]
Created(c, b)   == [pc |-> "created", id |-> c.id, book |-> c.book,
                    ver |-> c.ver, overlap |-> c.overlap, clean |-> b]
Found(i, b)     == [pc |-> "found", id |-> i, book |-> b]
Updated(i, b)   == [pc |-> "updated", id |-> i, book |-> b]
Deleted(i)      == [pc |-> "deleted", id |-> i]
NotFound(i)     == [pc |-> "notfound", id |-> i]
Failed(status)  == [pc |-> "failed", status |-> status]
Idle            == [pc |-> "idle"]
Lost            == [pc |-> "lost"]

InFlight(r) == req[r].pc \in {"query", "set", "keys", "del", "update", "delete"}
Becomes(r, s) == req' = [req EXCEPT ![r] = s]

Version == Len(history)

Commit(t) ==
    /\ table' = t
    /\ history' = Append(history, t)

-------------------------------------------------------------------------------
(* FindBooks *)

(* Mutant: a hit gives the page its time again (GETEX for GET). *)
FindBooksRenewing(r, q) ==
    /\ req[r] = Idle /\ WellFormed(q)
    /\ \/ /\ CacheKey(q) \in DOMAIN cache
          /\ cache' = [cache EXCEPT ![CacheKey(q)].ttl = TTL]
          /\ Becomes(r, Listed(q, cache[CacheKey(q)].page, cache[CacheKey(q)].ver))
       \/ /\ CacheKey(q) \notin DOMAIN cache
          /\ Becomes(r, Reading(q)) /\ UNCHANGED cache
    /\ UNCHANGED <<table, nextId, history>>

(* The parameters are converted, then Redis is asked for the page: a hit is *)
(* answered, and a miss or any error sends the handler to the database.     *)
FindBooks(r, q) ==
    /\ req[r] = Idle
    /\ \/ /\ ~WellFormed(q)
          /\ Becomes(r, Failed(400))
       \/ /\ WellFormed(q)
          /\ CacheKey(q) \in DOMAIN cache
          /\ LET hit == cache[CacheKey(q)]
             IN  Becomes(r, Listed(q, hit.page, hit.ver))
       \/ /\ WellFormed(q)
          /\ CacheKey(q) \notin DOMAIN cache \/ CacheFaults
          /\ Becomes(r, Reading(q))
    /\ UNCHANGED <<table, nextId, cache, history>>

(* What a SELECT may leave in the slice: the page, or when it fails nothing *)
(* or, if it failed midway, less than the page.                             *)
Selected(t, q) ==
    Pages(t, q) \cup IF DBFaults THEN {Nil} \cup CutPages(t, q) ELSE {}

(* One SELECT. Its error is not looked at. *)
FindBooksQuery(r) ==
    /\ req[r].pc = "query"
    /\ \E p \in Selected(table, req[r].query) :
          Becomes(r, Storing(req[r].query, p, Version))
    /\ UNCHANGED <<table, nextId, cache, history>>

(* The expiration FindBooks gives SET; Redis keeps a key given 0 for ever. *)
NoExpiration == 0                                    \* also a mutant
Expiration == TTL

Stored(r) ==
    LET key   == CacheKey(req[r].query)
        entry == [page |-> req[r].page, ttl |-> Expiration,
                  ver |-> req[r].ver, by |-> r]
    IN  [k \in DOMAIN cache \cup {key} |-> IF k = key THEN entry ELSE cache[k]]

(* SET of the page. On an error the client gets a 500, and Redis may have   *)
(* done the SET whose reply was lost.                                       *)
FindBooksSet(r) ==
    /\ req[r].pc = "set"
    /\ \/ /\ cache' = Stored(r)
          /\ Becomes(r, Listed(req[r].query, req[r].page, req[r].ver))
       \/ /\ CacheFaults
          /\ cache' \in {cache, Stored(r)}
          /\ Becomes(r, Failed(500))
    /\ UNCHANGED <<table, nextId, history>>

-------------------------------------------------------------------------------
(* CreateBook *)

Filling == {s \in Requests : req[s].pc = "set"}

(* Binding, then one INSERT in a transaction of its own. Its error is not   *)
(* looked at: the book keeps id 0, or the id of an insert whose commit      *)
(* failed. (An insert that committed and then lost its reply is the first   *)
(* case: the handler goes on alike.)                                        *)
CreateBook(r, b) ==
    /\ req[r] = Idle
    /\ \/ /\ ~Bound(b)
          /\ Becomes(r, Failed(400))
          /\ UNCHANGED <<table, nextId, history>>
       \/ /\ Bound(b)
          /\ Commit(Inserted(table, nextId, b))
          /\ nextId' = nextId + 1
          /\ Becomes(r, Listing([id |-> nextId, book |-> b,
                                 ver |-> Version + 1, overlap |-> Filling]))
       \/ /\ Bound(b)
          /\ DBFaults
          /\ \E given \in {0, nextId} :
                /\ nextId' = IF given = 0 THEN nextId ELSE nextId + 1
                /\ Becomes(r, Listing([id |-> given, book |-> b,
                                       ver |-> 0, overlap |-> {}]))
          /\ UNCHANGED <<table, history>>
    /\ UNCHANGED cache

(* What KEYS books_offset_* returns, and the keys the loop has still to     *)
(* delete: with none left the handler answers 201.                          *)
FirstPages == {k \in DOMAIN cache : Atoi[k.offset] = 0}  \* mutant
Invalidated == DOMAIN cache

DeleteNext(r, keys, clean) ==
    Becomes(r, IF keys = {} THEN Created(req[r], clean)
                            ELSE Deleting(req[r], keys, clean))

(* KEYS. On an error nothing is invalidated, and the answer is 201 anyway. *)
CreateBookKeys(r) ==
    /\ req[r].pc = "keys"
    /\ \/ DeleteNext(r, Invalidated, TRUE)
       \/ CacheFaults /\ DeleteNext(r, {}, FALSE)
    /\ UNCHANGED <<table, nextId, cache, history>>

(* Mutant: a DEL that failed is tried again for as long as it fails. (clean *)
(* is turned over so that an attempt is a step.)                           *)
CreateBookDelRetrying(r) ==
    /\ req[r].pc = "del"
    /\ \E k \in req[r].keys :
          \/ /\ cache' = Restrict(cache, DOMAIN cache \ {k})
             /\ DeleteNext(r, req[r].keys \ {k}, req[r].clean)
          \/ CacheFaults /\ Becomes(r, [req[r] EXCEPT !.clean = ~@]) /\ UNCHANGED cache
    /\ UNCHANGED <<table, nextId, history>>

(* Mutant: KEYS is asked again after each DEL, until it gives none. *)
CreateBookDelRelisting(r) ==
    /\ req[r].pc = "del"
    /\ \E k \in req[r].keys : cache' = Restrict(cache, DOMAIN cache \ {k})
    /\ DeleteNext(r, DOMAIN cache', req[r].clean)
    /\ UNCHANGED <<table, nextId, history>>

(* One DEL, in the order KEYS gave. Its error is not looked at. *)
CreateBookDel(r) ==
    /\ req[r].pc = "del"
    /\ \E k \in req[r].keys :
          \/ /\ cache' = Restrict(cache, DOMAIN cache \ {k})
             /\ DeleteNext(r, req[r].keys \ {k}, req[r].clean)
          \/ /\ CacheFaults
             /\ DeleteNext(r, req[r].keys \ {k}, FALSE)
             /\ UNCHANGED cache
    /\ UNCHANGED <<table, nextId, history>>

-------------------------------------------------------------------------------
(* FindBook, UpdateBook, DeleteBook *)

(* Where("id = ?").First(&book): any error is answered as a missing book. *)
First(id) == id \in DOMAIN table
FirstFails(id) == ~First(id) \/ DBFaults

FindBook(r, id) ==
    /\ req[r] = Idle
    /\ \/ First(id) /\ Becomes(r, Found(id, table[id]))
       \/ FirstFails(id) /\ Becomes(r, NotFound(id))
    /\ UNCHANGED <<table, nextId, cache, history>>

(* The book is loaded before the body is bound: a 404 wins over a 400. *)
UpdateBook(r, id, p) ==
    /\ req[r] = Idle
    /\ \/ FirstFails(id) /\ Becomes(r, NotFound(id))
       \/ First(id) /\ p = Malformed /\ Becomes(r, Failed(400))
       \/ First(id) /\ p # Malformed /\ Becomes(r, Updating(id, table[id], p))
    /\ UNCHANGED <<table, nextId, cache, history>>

(* UPDATE ... SET the fields given WHERE id = book.id: the row as it is now, *)
(* and no row at all when it is gone.                                        *)
\* (Written to the table, the loaded book with the patch is also a mutant.)
RowFromLoaded(r) == Merge(req[r].book, req[r].patch)
UpdatedRow(r) == Merge(table[req[r].id], req[r].patch)

\* Mutant: gorm's Save, an upsert of the whole struct.
TableAfterSave(r) == Inserted(table, req[r].id, RowFromLoaded(r))
TableAfterUpdate(r) ==
    IF req[r].id \in DOMAIN table THEN [table EXCEPT ![req[r].id] = UpdatedRow(r)]
                                  ELSE table

(* Updates also sets the fields given in the struct it was called on, and   *)
(* that struct is the answer, whatever the statement did. The cache is left *)
(* alone.                                                                   *)
UpdateBookUpdates(r) ==
    /\ req[r].pc = "update"
    /\ Becomes(r, Updated(req[r].id, RowFromLoaded(r)))
    /\ \/ Commit(TableAfterUpdate(r))
       \/ DBFaults /\ UNCHANGED <<table, history>>
    /\ UNCHANGED <<nextId, cache>>

DeleteBook(r, id) ==
    /\ req[r] = Idle
    /\ \/ FirstFails(id) /\ Becomes(r, NotFound(id))
       \/ First(id) /\ Becomes(r, Removing(id))
    /\ UNCHANGED <<table, nextId, cache, history>>

(* DELETE ... WHERE id = book.id, its error not looked at. The cache is     *)
(* left alone.                                                              *)
DeleteBookDelete(r) ==
    /\ req[r].pc = "delete"
    /\ Becomes(r, Deleted(req[r].id))
    /\ \/ Commit(Removed(table, req[r].id))
       \/ DBFaults /\ UNCHANGED <<table, history>>
    /\ UNCHANGED <<nextId, cache>>

-------------------------------------------------------------------------------
(* Redis counts the time a page has left down, and forgets it at the end. *)
Tick ==
    /\ DOMAIN cache # {}
    /\ LET left == {k \in DOMAIN cache : cache[k].ttl # 1}
       IN  cache' = [k \in left |->
                       IF cache[k].ttl = NoExpiration THEN cache[k]
                       ELSE [cache[k] EXCEPT !.ttl = @ - 1]]
    /\ UNCHANGED <<table, nextId, req, history>>

(* The process dies with its goroutines; Postgres and Redis live on. *)
Crash ==
    /\ Crashes
    /\ \E r \in Requests : InFlight(r)
    /\ req' = [r \in Requests |-> IF InFlight(r) THEN Lost ELSE req[r]]
    /\ UNCHANGED <<table, nextId, cache, history>>

-------------------------------------------------------------------------------
Init ==
    /\ table = InitialBooks
    /\ nextId = Len(InitialBooks) + 1
    /\ cache = << >>
    /\ req = [r \in Requests |-> Idle]
    /\ history = <<InitialBooks>>

(* The router hands a request to its handler ... *)
Start(r) ==
    \/ \E q \in Queries : FindBooks(r, q)
    \/ \E b \in NewBooks : CreateBook(r, b)
    \/ \E id \in PathIds :
          \/ FindBook(r, id)
          \/ DeleteBook(r, id)
          \/ \E p \in Patches : UpdateBook(r, id, p)

(* ... and a handler that waited for Postgres or Redis goes on. *)
Continue(r) ==
    \/ FindBooksQuery(r)
    \/ FindBooksSet(r)
    \/ CreateBookKeys(r)
    \/ CreateBookDel(r)
    \/ UpdateBookUpdates(r)
    \/ DeleteBookDelete(r)

Next ==
    \/ \E r \in Requests : Start(r) \/ Continue(r)
    \/ Tick
    \/ Crash

(* Every call to Postgres or Redis returns, and time passes. *)
Fairness ==
    /\ \A r \in Requests : WF_vars(Continue(r))
    /\ WF_vars(Tick)

Spec == Init /\ [][Next]_vars /\ Fairness

-------------------------------------------------------------------------------
(* The types of a state in which the id sequence stands at n and the table  *)
(* has had v values: they grow with n and v.                                *)
Tables(n) == UNION {[S -> Book] : S \in SUBSET (1 .. n - 1)}
Page(n) == Tables(n) \cup {Nil}

Entry(n, v) == [page : Page(n), ttl : 1 .. TTL, ver : 1 .. v, by : Requests]

ReqState(n, v) ==
    [pc : {"idle", "lost"}]
    \cup [pc : {"query"}, query : Query]
    \cup [pc : {"set", "listed"}, query : Query, page : Page(n), ver : 1 .. v]
    \cup [pc : {"keys"}, id : 0 .. n - 1, book : Book,
          ver : 0 .. v, overlap : SUBSET Requests]
    \cup [pc : {"del"}, id : 0 .. n - 1, book : Book,
          ver : 0 .. v, overlap : SUBSET Requests,
          keys : (SUBSET Query) \ {{}}, clean : BOOLEAN]
    \cup [pc : {"created"}, id : 0 .. n - 1, book : Book,
          ver : 0 .. v, overlap : SUBSET Requests, clean : BOOLEAN]
    \cup [pc : {"update"}, id : 1 .. n - 1, book : Book, patch : Body]
    \cup [pc : {"found", "updated"}, id : 1 .. n - 1, book : Book]
    \cup [pc : {"delete", "deleted"}, id : 1 .. n - 1]
    \cup [pc : {"notfound"}, id : PathIds]
    \cup [pc : {"failed"}, status : {400, 500}]

(* The type invariant: a row's id was given out by the sequence, a cached   *)
(* page has time left to live, and the last value of history is the table.  *)
TypeOK ==
    /\ nextId \in Nat \ {0}
    /\ table \in Tables(nextId)
    /\ DOMAIN cache \subseteq Query
    /\ cache \in [DOMAIN cache -> Entry(nextId, Version)]
    /\ req \in [Requests -> ReqState(nextId, Version)]
    /\ history \in Seq(Tables(nextId)) /\ Version > 0
    /\ table = history[Version]

-------------------------------------------------------------------------------
(* Safety *)

(* Whatever is stored under a key of Redis, about to be stored, or answered *)
(* to GET /books is a page the table could have been asked for, with these  *)
(* parameters, at one moment of its past, or where reads fail less of such  *)
(* a page or nothing at all: never the page of another query, never more    *)
(* rows than it asks for, and never rows of two moments put together.       *)
IsSnapshot(page, ver, q) == page \in Selected(history[ver], q)

ServedPagesAreSnapshots ==
    /\ \A k \in DOMAIN cache : IsSnapshot(cache[k].page, cache[k].ver, k)
    /\ \A r \in Requests : req[r].pc \in {"set", "listed"} =>
          IsSnapshot(req[r].page, req[r].ver, req[r].query)

(* What "Invalidate cache" of CreateBook achieves. Once a POST /books whose *)
(* KEYS and DELs all succeeded is answered, a cached page older than its    *)
(* book can only have been stored by a GET that, when the book was          *)
(* inserted, had read its page and not stored it yet.                       *)
Excused(c, ver, by) == ver >= req[c].ver \/ by \in req[c].overlap
Covered(c, k) == Excused(c, cache[k].ver, cache[k].by)

InvalidationCovers ==
    \A c \in Requests : req[c].pc = "created" /\ req[c].clean =>
        \A k \in DOMAIN cache : Covered(c, k)

(* Why it holds, from the insert on. What is still to be stored is excused; *)
(* and while the loop runs, a page that is not excused is still to be       *)
(* deleted by it.                                                           *)
Inserting(c) == req[c].pc \in {"keys", "del", "created"}
FillsExcused ==
    \A c, s \in Requests :
        Inserting(c) /\ req[s].pc = "set" => Excused(c, req[s].ver, s)
LoopCovers ==
    \A c \in Requests : req[c].pc = "del" /\ req[c].clean =>
        \A k \in DOMAIN cache \ req[c].keys : Covered(c, k)
InvalidationInv == FillsExcused /\ LoopCovers /\ InvalidationCovers

(* A book that is gone stays gone: an UPDATE that lost a race against a     *)
(* DELETE does not bring the row back, and no id is given out twice.        *)
NoResurrection ==
    [][\A id \in 1 .. nextId - 1 : id \notin DOMAIN table => id \notin DOMAIN table']_vars

(* Two updates of different fields of a book do not undo one another: a     *)
(* field changes only when an update that names it is applied, and to the   *)
(* value that update gives.                                                 *)
FieldsChangeOnlyByPatch ==
    [][\A id \in DOMAIN table \cap DOMAIN table', f \in {"title", "author"} :
          table'[id][f] # table[id][f] =>
             \E r \in Requests : /\ req[r].pc = "update"
                                 /\ req[r].id = id
                                 /\ req[r].patch[f] = table'[id][f]]_vars

(* As long as Postgres does not fail, a DELETE answered 204 has deleted the *)
(* book, whatever the other requests on it were in the middle of.           *)
DeletedStaysDeleted ==
    \A r \in Requests : req[r].pc = "deleted" => req[r].id \notin DOMAIN table

(* A row never loses what POST /books required of it (docs.go:410), though  *)
(* PUT requires nothing and its body may leave any field blank.             *)
Doc == INSTANCE ApiDocument
Complete(row) == \A f \in Doc!Required[Doc!Paths["CreateBook"].body] : row[f] # Blank

RowsStayComplete ==
    [][\A id \in DOMAIN table' :
          Complete(table'[id]) \/ (id \in DOMAIN table /\ ~Complete(table[id]))]_vars

-------------------------------------------------------------------------------
(* What the clients are promised *)

(* What the client of a request can know: nothing of what its goroutine is  *)
(* about to do, of an answer what is in its body.                           *)
Told(s) ==
    CASE s.pc \in {"query", "set", "update", "delete"} -> [pc |-> "open"]
      [] s.pc \in {"keys", "del"} -> [pc |-> "inserting", id |-> s.id, book |-> s.book]
      [] s.pc = "listed"          -> [pc |-> "listed", query |-> s.query, page |-> s.page]
      [] s.pc = "created"         -> [pc |-> "created", id |-> s.id, book |-> s.book]
      [] OTHER                    -> s

Past == {history[v] : v \in 1 .. Version}

Out == [r \in Requests |-> Told(req[r])]

Catalogue == INSTANCE BookCatalogue WITH past <- Past, out <- Out

(* The handlers, their cache and their failures implement the catalogue of  *)
(* BookCatalogue: each request writes at most once and before its answer,   *)
(* and whatever it is told was so at one moment.                            *)
CatalogueImplemented == Catalogue!Spec

-------------------------------------------------------------------------------
(* Liveness *)

(* Every request a handler began to serve is answered, or lost in a crash:  *)
(* CreateBook's loop ends although the keys it deletes come back.           *)
EveryRequestAnswered == \A r \in Requests : InFlight(r) ~> ~InFlight(r)

(* Why, for any number of requests: a handler counts the calls it has still *)
(* to make down with each of them, and CreateBook's DELs are for the keys   *)
(* KEYS gave and no others, though other requests store keys all the while. *)
CallsLeft(s) ==
    CASE s.pc \in {"query", "keys"} -> 2
      [] s.pc \in {"set", "del", "update", "delete"} -> 1
      [] OTHER -> 0

CallsRunOut ==
    [][\A r \in Requests : InFlight(r) /\ req'[r] # req[r] =>
          \/ CallsLeft(req'[r]) < CallsLeft(req[r])
          \/ /\ req[r].pc = "del" /\ req'[r].pc = "del" /\ IsFiniteSet(req[r].keys)
             /\ Cardinality(req'[r].keys) < Cardinality(req[r].keys)]_vars

(* No page outlives the table it shows for ever: UpdateBook and DeleteBook  *)
(* leave the cache alone, a failed or crashed CreateBook may too, and the   *)
(* expiration given to SET is all that removes what they left.              *)
Stale(k, v) == k \in DOMAIN cache /\ cache[k].ver = v /\ v < Version
StalePagesLeave ==
    \A k \in Queries, v \in 1 .. Len(InitialBooks) + Cardinality(Requests) :
        Stale(k, v) ~> ~Stale(k, v)

(* Why, for any number of requests and pages: of the requests that hold a   *)
(* page of an old table there are never more, a page of an old table gets   *)
(* time to live only from one of these, that is then done, and every tick   *)
(* takes of its time. (go-redis sends a SET again, a bounded number of      *)
(* times, when its reply is lost; a SET is one call here with all of that.) *)
Holders(k, v) ==
    {s \in Requests : req[s].pc = "set" /\ req[s].ver = v /\ CacheKey(req[s].query) = k}
Life(k, v) == IF k \in DOMAIN cache /\ cache[k].ver = v THEN cache[k].ttl ELSE 0

OldPagesRunOut ==
    [][\A k \in Queries, v \in 1 .. Version - 1 :
          /\ Holders(k, v)' \subseteq Holders(k, v)
          /\ Life(k, v)' <= Life(k, v) \/ Holders(k, v)' # Holders(k, v)
          /\ Tick => Life(k, v)' < Life(k, v) \/ Life(k, v) = 0]_vars
===============================================================================
