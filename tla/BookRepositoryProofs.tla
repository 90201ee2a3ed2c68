------------------------- MODULE BookRepositoryProofs -------------------------
(***************************************************************************)
(* Theorems about BookRepository, for every value of its constants.        *)
(***************************************************************************)
EXTENDS BookRepository, TLAPS

-------------------------------------------------------------------------------
(* Tables, and the types that grow *)

(* What it is to be a table whose ids are below n. *)
LEMMA TablesCharacterized ==
    ASSUME NEW n \in Nat, NEW t
    PROVE  t \in Tables(n) <=> t \in [DOMAIN t -> Book] /\ DOMAIN t \subseteq 1 .. n - 1
  BY DEF Tables

(* A state's types are kept when the id sequence and the history grow. *)
LEMMA TypesGrow ==
    ASSUME NEW n \in Nat, NEW m \in Nat, n <= m,
           NEW v \in Nat, NEW w \in Nat, v <= w
    PROVE  /\ Tables(n) \subseteq Tables(m)
           /\ Page(n) \subseteq Page(m)
           /\ Entry(n, v) \subseteq Entry(m, w)
           /\ ReqState(n, v) \subseteq ReqState(m, w)
  <1>1. 1 .. n - 1 \subseteq 1 .. m - 1 /\ 0 .. n - 1 \subseteq 0 .. m - 1
    OBVIOUS
  <1>2. 1 .. v \subseteq 1 .. w /\ 0 .. v \subseteq 0 .. w
    OBVIOUS
  <1>3. Tables(n) \subseteq Tables(m)
    BY <1>1 DEF Tables
  <1>4. Page(n) \subseteq Page(m)
    BY <1>3 DEF Page
  <1>5. Entry(n, v) \subseteq Entry(m, w)
    BY <1>2, <1>4 DEF Entry
  <1>6. ReqState(n, v) \subseteq ReqState(m, w)
    BY <1>1, <1>2, <1>4 DEF ReqState
  <1> QED
    BY <1>3, <1>4, <1>5, <1>6

(* A request whose pc is known is the record its pc stands for. *)
LEMMA ReqStateByPc ==
    ASSUME NEW n \in Nat, NEW v \in Nat, NEW s \in ReqState(n, v)
    PROVE  /\ s.pc = "query" => s \in [pc : {"query"}, query : Query]
           /\ s.pc \in {"set", "listed"} =>
                s \in [pc : {"set", "listed"}, query : Query, page : Page(n), ver : 1 .. v]
           /\ s.pc = "keys" =>
                s \in [pc : {"keys"}, id : 0 .. n - 1, book : Book,
                       ver : 0 .. v, overlap : SUBSET Requests]
           /\ s.pc = "del" =>
                s \in [pc : {"del"}, id : 0 .. n - 1, book : Book,
                       ver : 0 .. v, overlap : SUBSET Requests,
                       keys : (SUBSET Query) \ {{}}, clean : BOOLEAN]
           /\ s.pc = "created" =>
                s \in [pc : {"created"}, id : 0 .. n - 1, book : Book,
                       ver : 0 .. v, overlap : SUBSET Requests, clean : BOOLEAN]
           /\ s.pc = "update" =>
                s \in [pc : {"update"}, id : 1 .. n - 1, book : Book, patch : Body]
           /\ s.pc \in {"delete", "deleted"} =>
                s \in [pc : {"delete", "deleted"}, id : 1 .. n - 1]
  BY DEF ReqState

(* A page is made of rows of the table. *)
LEMMA PagesAreTables ==
    ASSUME NEW n \in Nat, NEW t \in Tables(n), NEW q, NEW p \in Pages(t, q) \cup CutPages(t, q)
    PROVE  p \in Tables(n)
  <1>1. t \in [DOMAIN t -> Book] /\ DOMAIN t \subseteq 1 .. n - 1
    BY TablesCharacterized
  <1>2. PICK S \in SUBSET DOMAIN t : p = Restrict(t, S)
    BY DEF Pages, CutPages
  <1>3. p \in [S -> Book] /\ S \in SUBSET (1 .. n - 1)
    BY <1>1, <1>2 DEF Restrict
  <1> QED
    BY <1>3 DEF Tables

(* The tables the handlers make of a table. *)
LEMMA InsertedIsTable ==
    ASSUME NEW n \in Nat \ {0}, NEW t \in Tables(n), NEW b \in Book
    PROVE  Inserted(t, n, b) \in Tables(n + 1)
  <1>1. t \in [DOMAIN t -> Book] /\ DOMAIN t \subseteq 1 .. n - 1
    BY TablesCharacterized
  <1>2. Inserted(t, n, b) \in [DOMAIN t \cup {n} -> Book]
    BY <1>1 DEF Inserted
  <1>3. DOMAIN t \cup {n} \in SUBSET (1 .. (n + 1) - 1)
    BY <1>1
  <1> QED
    BY <1>2, <1>3 DEF Tables

LEMMA RemovedIsTable ==
    ASSUME NEW n \in Nat, NEW t \in Tables(n), NEW id
    PROVE  Removed(t, id) \in Tables(n)
  <1>1. t \in [DOMAIN t -> Book] /\ DOMAIN t \subseteq 1 .. n - 1
    BY TablesCharacterized
  <1>2. Removed(t, id) \in [DOMAIN t \ {id} -> Book]
    BY <1>1 DEF Removed, Restrict
  <1>3. DOMAIN t \ {id} \in SUBSET (1 .. n - 1)
    BY <1>1
  <1> QED
    BY <1>2, <1>3 DEF Tables

LEMMA MergeIsBook ==
    ASSUME NEW b \in Book, NEW p \in Body
    PROVE  Merge(b, p) \in Book
  BY DEF Book, Body, Merge

-------------------------------------------------------------------------------
(* What every step does to the parts of a state *)

(* A request that moves on leaves the other requests their types. *)
LEMMA RequestMoves ==
    ASSUME TypeOK, NEW r \in Requests, NEW s,
           nextId' \in Nat, nextId <= nextId', Version' \in Nat, Version <= Version',
           s \in ReqState(nextId', Version'), Becomes(r, s)
    PROVE  req' \in [Requests -> ReqState(nextId', Version')]
  <1>1. nextId \in Nat /\ Version \in Nat
    BY DEF TypeOK, Version
  <1>2. ReqState(nextId, Version) \subseteq ReqState(nextId', Version')
    BY <1>1, TypesGrow
  <1> QED
    BY <1>2 DEF TypeOK, Becomes

(* A cache left alone keeps its type. *)
LEMMA CacheStays ==
    ASSUME TypeOK, UNCHANGED cache,
           nextId' \in Nat, nextId <= nextId', Version' \in Nat, Version <= Version'
    PROVE  cache' \in [DOMAIN cache' -> Entry(nextId', Version')]
  <1>1. nextId \in Nat /\ Version \in Nat
    BY DEF TypeOK, Version
  <1>2. Entry(nextId, Version) \subseteq Entry(nextId', Version')
    BY <1>1, TypesGrow
  <1> QED
    BY <1>2 DEF TypeOK

(* A commit appends to the history. *)
LEMMA CommitAppends ==
    ASSUME TypeOK, NEW t, Commit(t),
           nextId' \in Nat, nextId <= nextId', t \in Tables(nextId')
    PROVE  /\ Version \in Nat /\ Version' = Version + 1
           /\ table' = t /\ table' \in Tables(nextId')
           /\ history' \in Seq(Tables(nextId'))
           /\ table' = history'[Version']
           /\ \A v \in 1 .. Version : history'[v] = history[v]
  <1>1. nextId \in Nat
    BY DEF TypeOK
  <1>2. Tables(nextId) \subseteq Tables(nextId')
    BY <1>1, 0 <= 0, TypesGrow
  <1>3. history \in Seq(Tables(nextId'))
    BY <1>2 DEF TypeOK
  <1> QED
    BY <1>3 DEF Commit, Version

-------------------------------------------------------------------------------
(* Type correctness, action by action *)

(* A step that touches neither the table nor the id sequence nor the cache  *)
(* keeps the types when it gives its request a well-typed state.            *)
LEMMA LocalStepTypes ==
    ASSUME TypeOK, UNCHANGED <<table, nextId, cache, history>>,
           NEW r \in Requests, NEW s \in ReqState(nextId, Version), Becomes(r, s)
    PROVE  TypeOK'
  <1>1. nextId' = nextId /\ Version' = Version /\ Version \in Nat /\ nextId \in Nat
    BY DEF TypeOK, Version
  <1>2. req' \in [Requests -> ReqState(nextId', Version')]
    BY <1>1, RequestMoves
  <1> QED
    BY <1>1, <1>2 DEF TypeOK

LEMMA FindBooksTypes ==
    ASSUME TypeOK, NEW r \in Requests, NEW q \in Queries, FindBooks(r, q)
    PROVE  TypeOK'
  <1>1. q \in Query /\ nextId \in Nat /\ Version \in Nat
    BY RepositoryAssumption DEF TypeOK, Version
  <1>2. CASE Becomes(r, Failed(400))
    <2>1. Failed(400) \in ReqState(nextId, Version)
      BY DEF Failed, ReqState
    <2> QED
      BY <1>2, <2>1, LocalStepTypes DEF FindBooks
  <1>3. CASE q \in DOMAIN cache /\ Becomes(r, Listed(q, cache[q].page, cache[q].ver))
    <2>1. cache[q] \in Entry(nextId, Version)
      BY <1>3 DEF TypeOK
    <2>2. Listed(q, cache[q].page, cache[q].ver) \in ReqState(nextId, Version)
      BY <1>1, <2>1 DEF Listed, ReqState, Entry
    <2> QED
      BY <1>3, <2>2, LocalStepTypes DEF FindBooks
  <1>4. CASE Becomes(r, Reading(q))
    <2>1. Reading(q) \in ReqState(nextId, Version)
      BY <1>1 DEF Reading, ReqState
    <2> QED
      BY <1>4, <2>1, LocalStepTypes DEF FindBooks
  <1> QED
    BY <1>2, <1>3, <1>4 DEF FindBooks, CacheKey

LEMMA FindBooksQueryTypes ==
    ASSUME TypeOK, NEW r \in Requests, FindBooksQuery(r)
    PROVE  TypeOK'
  <1>1. nextId \in Nat /\ Version \in Nat /\ Version > 0
    BY DEF TypeOK, Version
  <1>2. req[r].query \in Query
    BY <1>1, ReqStateByPc DEF TypeOK, FindBooksQuery
  <1>3. PICK p \in Page(nextId) : Becomes(r, Storing(req[r].query, p, Version))
    BY <1>1, PagesAreTables DEF TypeOK, FindBooksQuery, Selected, Page
  <1>4. Storing(req[r].query, p, Version) \in ReqState(nextId, Version)
    BY <1>1, <1>2 DEF Storing, ReqState
  <1> QED
    BY <1>3, <1>4, LocalStepTypes DEF FindBooksQuery

LEMMA FindBooksSetTypes ==
    ASSUME TypeOK, NEW r \in Requests, FindBooksSet(r)
    PROVE  TypeOK'
  <1>1. nextId' = nextId /\ Version' = Version /\ nextId \in Nat /\ Version \in Nat
    BY DEF TypeOK, Version, FindBooksSet
  <1>2. req[r] \in [pc : {"set", "listed"}, query : Query,
                    page : Page(nextId), ver : 1 .. Version]
    BY <1>1, ReqStateByPc DEF TypeOK, FindBooksSet
  <1>3. [page |-> req[r].page, ttl |-> Expiration, ver |-> req[r].ver, by |-> r]
          \in Entry(nextId, Version)
    BY <1>2, RepositoryAssumption DEF Entry, Expiration
  <1>4. DOMAIN Stored(r) \subseteq Query /\ Stored(r) \in [DOMAIN Stored(r) -> Entry(nextId, Version)]
    BY <1>2, <1>3 DEF TypeOK, Stored, CacheKey
  <1>5. DOMAIN cache' \subseteq Query /\ cache' \in [DOMAIN cache' -> Entry(nextId, Version)]
    BY <1>4 DEF TypeOK, FindBooksSet
  <1>6. \E s \in ReqState(nextId, Version) : Becomes(r, s)
    <2>1. Listed(req[r].query, req[r].page, req[r].ver) \in ReqState(nextId, Version)
      BY <1>2 DEF Listed, ReqState
    <2>2. Failed(500) \in ReqState(nextId, Version)
      BY DEF Failed, ReqState
    <2> QED
      BY <2>1, <2>2 DEF FindBooksSet
  <1>7. req' \in [Requests -> ReqState(nextId', Version')]
    BY <1>1, <1>6, RequestMoves
  <1> QED
    BY <1>1, <1>5, <1>7 DEF TypeOK, FindBooksSet

(* What CreateBook leaves its goroutine with after the insert. *)
LEMMA ListingTypes ==
    ASSUME NEW n \in Nat, NEW v \in Nat, NEW id \in 0 .. n - 1, NEW b \in Book,
           NEW ver \in 0 .. v, NEW overlap \in SUBSET Requests
    PROVE  Listing([id |-> id, book |-> b, ver |-> ver, overlap |-> overlap])
             \in ReqState(n, v)
  <1>1. Listing([id |-> id, book |-> b, ver |-> ver, overlap |-> overlap])
          \in [pc : {"keys"}, id : 0 .. n - 1, book : Book,
               ver : 0 .. v, overlap : SUBSET Requests]
    BY DEF Listing
  <1> QED
    BY <1>1 DEF ReqState

LEMMA CreateBookTypes ==
    ASSUME TypeOK, NEW r \in Requests, NEW b \in NewBooks, CreateBook(r, b)
    PROVE  TypeOK'
  <1>1. nextId \in Nat \ {0} /\ Version \in Nat /\ UNCHANGED cache
    BY DEF TypeOK, Version, CreateBook
  <1>2. CASE ~Bound(b)
    <2>1. Failed(400) \in ReqState(nextId, Version)
      BY DEF Failed, ReqState
    <2> QED
      BY <1>2, <2>1, LocalStepTypes DEF CreateBook
  <1>3. CASE Bound(b)
    <2>1. b \in Book
      BY <1>3, RepositoryAssumption DEF Bound, Body
    <2>2. CASE /\ Commit(Inserted(table, nextId, b))
               /\ nextId' = nextId + 1
               /\ Becomes(r, Listing([id |-> nextId, book |-> b,
                                      ver |-> Version + 1, overlap |-> Filling]))
      <3>1. Inserted(table, nextId, b) \in Tables(nextId') /\ nextId <= nextId'
        BY <1>1, <2>1, <2>2, InsertedIsTable DEF TypeOK
      <3>2. /\ Version' = Version + 1 /\ table' \in Tables(nextId')
            /\ history' \in Seq(Tables(nextId')) /\ table' = history'[Version']
        BY <1>1, <2>2, <3>1, CommitAppends
      <3>3. Listing([id |-> nextId, book |-> b, ver |-> Version + 1, overlap |-> Filling])
              \in ReqState(nextId', Version')
        <4>1. nextId \in 0 .. nextId' - 1 /\ Version + 1 \in 0 .. Version'
          BY <1>1, <2>2, <3>2
        <4>2. Filling \in SUBSET Requests
          BY DEF Filling
        <4> QED
          BY <1>1, <2>1, <2>2, <3>2, <4>1, <4>2, ListingTypes
      <3>4. req' \in [Requests -> ReqState(nextId', Version')]
        BY <1>1, <2>2, <3>2, <3>3, RequestMoves
      <3>5. cache' \in [DOMAIN cache' -> Entry(nextId', Version')]
        BY <1>1, <2>2, <3>2, CacheStays
      <3> QED
        BY <1>1, <2>2, <3>2, <3>4, <3>5 DEF TypeOK
    <2>3. ASSUME NEW given \in {0, nextId}, UNCHANGED <<table, history>>,
                 nextId' = (IF given = 0 THEN nextId ELSE nextId + 1),
                 Becomes(r, Listing([id |-> given, book |-> b, ver |-> 0, overlap |-> {}]))
          PROVE  TypeOK'
      <3>1. nextId' \in Nat \ {0} /\ nextId <= nextId' /\ Version' = Version /\ Version \in Nat
        BY <1>1, <2>3 DEF Version
      <3>2. Tables(nextId) \subseteq Tables(nextId')
        BY <1>1, <3>1, TypesGrow
      <3>3. given \in 0 .. nextId' - 1
        BY <1>1, <2>3
      <3>4. Listing([id |-> given, book |-> b, ver |-> 0, overlap |-> {}])
              \in ReqState(nextId', Version')
        BY <2>1, <3>1, <3>3, ListingTypes
      <3>5. req' \in [Requests -> ReqState(nextId', Version')]
        BY <2>3, <3>1, <3>4, RequestMoves
      <3>6. cache' \in [DOMAIN cache' -> Entry(nextId', Version')]
        BY <1>1, <3>1, CacheStays
      <3>7. table' \in Tables(nextId') /\ history' \in Seq(Tables(nextId'))
        BY <2>3, <3>2 DEF TypeOK
      <3> QED
        BY <1>1, <2>3, <3>1, <3>5, <3>6, <3>7 DEF TypeOK
    <2> QED
      BY <1>3, <2>2, <2>3 DEF CreateBook
  <1> QED
    BY <1>2, <1>3

(* The loop of CreateBook stays in its types whatever keys are left. *)
LEMMA DeleteNextTypes ==
    ASSUME TypeOK, NEW r \in Requests, req[r].pc \in {"keys", "del"},
           NEW keys \in SUBSET Query, NEW clean \in BOOLEAN, DeleteNext(r, keys, clean)
    PROVE  \E s \in ReqState(nextId, Version) : Becomes(r, s)
  <1>1. nextId \in Nat /\ Version \in Nat
    BY DEF TypeOK, Version
  <1>2. req[r].id \in 0 .. nextId - 1 /\ req[r].book \in Book /\ req[r].ver \in 0 .. Version
        /\ req[r].overlap \in SUBSET Requests
    BY <1>1, ReqStateByPc DEF TypeOK
  <1>3. Created(req[r], clean) \in ReqState(nextId, Version)
    BY <1>2 DEF Created, ReqState
  <1>4. ASSUME keys # {}
        PROVE  Deleting(req[r], keys, clean) \in ReqState(nextId, Version)
    <2>1. keys \in (SUBSET Query) \ {{}}
      BY <1>4
    <2>2. Deleting(req[r], keys, clean) \in
            [pc : {"del"}, id : 0 .. nextId - 1, book : Book,
             ver : 0 .. Version, overlap : SUBSET Requests,
             keys : (SUBSET Query) \ {{}}, clean : BOOLEAN]
      BY <1>2, <2>1 DEF Deleting
    <2> QED
      BY <2>2 DEF ReqState
  <1> QED
    BY <1>3, <1>4 DEF DeleteNext

LEMMA CreateBookKeysTypes ==
    ASSUME TypeOK, NEW r \in Requests, CreateBookKeys(r)
    PROVE  TypeOK'
  <1>1. \E s \in ReqState(nextId, Version) : Becomes(r, s)
    BY DeleteNextTypes DEF CreateBookKeys, Invalidated, TypeOK
  <1> QED
    BY <1>1, LocalStepTypes DEF CreateBookKeys

LEMMA CreateBookDelTypes ==
    ASSUME TypeOK, NEW r \in Requests, CreateBookDel(r)
    PROVE  TypeOK'
  <1>1. nextId' = nextId /\ Version' = Version /\ nextId \in Nat /\ Version \in Nat
    BY DEF TypeOK, Version, CreateBookDel
  <1>2. req[r].keys \in SUBSET Query /\ req[r].clean \in BOOLEAN
    BY <1>1, ReqStateByPc DEF TypeOK, CreateBookDel
  <1>3. PICK k \in req[r].keys :
          /\ cache' \in {cache, Restrict(cache, DOMAIN cache \ {k})}
          /\ \E clean \in BOOLEAN : DeleteNext(r, req[r].keys \ {k}, clean)
    BY <1>2 DEF CreateBookDel
  <1>4. \E s \in ReqState(nextId, Version) : Becomes(r, s)
    BY <1>2, <1>3, DeleteNextTypes DEF CreateBookDel
  <1>5. req' \in [Requests -> ReqState(nextId', Version')]
    BY <1>1, <1>4, RequestMoves
  <1>6. DOMAIN cache' \subseteq Query /\ cache' \in [DOMAIN cache' -> Entry(nextId, Version)]
    BY <1>3 DEF TypeOK, Restrict
  <1> QED
    BY <1>1, <1>5, <1>6 DEF TypeOK, CreateBookDel

(* What First finds is a row of the table. *)
LEMMA FirstFindsARow ==
    ASSUME TypeOK, NEW id, First(id)
    PROVE  id \in 1 .. nextId - 1 /\ table[id] \in Book
  BY TablesCharacterized DEF TypeOK, First

LEMMA FindBookTypes ==
    ASSUME TypeOK, NEW r \in Requests, NEW id \in PathIds, FindBook(r, id)
    PROVE  TypeOK'
  <1>1. NotFound(id) \in ReqState(nextId, Version)
    BY DEF NotFound, ReqState
  <1>2. First(id) => Found(id, table[id]) \in ReqState(nextId, Version)
    BY FirstFindsARow DEF Found, ReqState
  <1> QED
    BY <1>1, <1>2, LocalStepTypes DEF FindBook

LEMMA UpdateBookTypes ==
    ASSUME TypeOK, NEW r \in Requests, NEW id \in PathIds, NEW p \in Patches,
           UpdateBook(r, id, p)
    PROVE  TypeOK'
  <1>1. NotFound(id) \in ReqState(nextId, Version)
    BY DEF NotFound, ReqState
  <1>2. Failed(400) \in ReqState(nextId, Version)
    BY DEF Failed, ReqState
  <1>3. First(id) /\ p # Malformed => Updating(id, table[id], p) \in ReqState(nextId, Version)
    BY FirstFindsARow, RepositoryAssumption DEF Updating, ReqState
  <1> QED
    BY <1>1, <1>2, <1>3, LocalStepTypes DEF UpdateBook

LEMMA DeleteBookTypes ==
    ASSUME TypeOK, NEW r \in Requests, NEW id \in PathIds, DeleteBook(r, id)
    PROVE  TypeOK'
  <1>1. NotFound(id) \in ReqState(nextId, Version)
    BY DEF NotFound, ReqState
  <1>2. First(id) => Removing(id) \in ReqState(nextId, Version)
    BY FirstFindsARow DEF Removing, ReqState
  <1> QED
    BY <1>1, <1>2, LocalStepTypes DEF DeleteBook

(* A step that commits a table, or none, and answers its request. *)
LEMMA WriteStepTypes ==
    ASSUME TypeOK, UNCHANGED <<nextId, cache>>,
           NEW t \in Tables(nextId), Commit(t) \/ UNCHANGED <<table, history>>,
           NEW r \in Requests, NEW s \in ReqState(nextId, Version), Becomes(r, s)
    PROVE  TypeOK'
  <1>1. nextId' = nextId /\ nextId \in Nat \ {0} /\ Version \in Nat
    BY DEF TypeOK, Version
  <1>2. /\ Version' \in Nat /\ Version <= Version' /\ Version' > 0
        /\ table' \in Tables(nextId') /\ history' \in Seq(Tables(nextId'))
        /\ table' = history'[Version']
    <2>1. CASE Commit(t)
      BY <1>1, <2>1, CommitAppends
    <2>2. CASE UNCHANGED <<table, history>>
      BY <1>1, <2>2 DEF TypeOK, Version
    <2> QED
      BY <2>1, <2>2
  <1>3. s \in ReqState(nextId', Version')
    BY <1>1, <1>2, TypesGrow
  <1>4. req' \in [Requests -> ReqState(nextId', Version')]
    BY <1>1, <1>2, <1>3, RequestMoves
  <1>5. cache' \in [DOMAIN cache' -> Entry(nextId', Version')]
    BY <1>1, <1>2, CacheStays
  <1> QED
    BY <1>1, <1>2, <1>4, <1>5 DEF TypeOK

LEMMA UpdateBookUpdatesTypes ==
    ASSUME TypeOK, NEW r \in Requests, UpdateBookUpdates(r)
    PROVE  TypeOK'
  <1>1. nextId \in Nat /\ Version \in Nat
    BY DEF TypeOK, Version
  <1>2. req[r].id \in 1 .. nextId - 1 /\ req[r].book \in Book /\ req[r].patch \in Body
    BY <1>1, ReqStateByPc DEF TypeOK, UpdateBookUpdates
  <1>3. Updated(req[r].id, RowFromLoaded(r)) \in ReqState(nextId, Version)
    BY <1>2, MergeIsBook DEF Updated, RowFromLoaded, ReqState
  <1>4. TableAfterUpdate(r) \in Tables(nextId)
    <2>1. table \in [DOMAIN table -> Book] /\ DOMAIN table \subseteq 1 .. nextId - 1
      BY <1>1, TablesCharacterized DEF TypeOK
    <2>2. req[r].id \in DOMAIN table => UpdatedRow(r) \in Book
      BY <1>2, <2>1, MergeIsBook DEF UpdatedRow
    <2> QED
      BY <1>1, <2>1, <2>2, TablesCharacterized DEF TableAfterUpdate
  <1> QED
    BY <1>3, <1>4, WriteStepTypes DEF UpdateBookUpdates

LEMMA DeleteBookDeleteTypes ==
    ASSUME TypeOK, NEW r \in Requests, DeleteBookDelete(r)
    PROVE  TypeOK'
  <1>1. nextId \in Nat /\ Version \in Nat
    BY DEF TypeOK, Version
  <1>2. req[r].id \in 1 .. nextId - 1
    BY <1>1, ReqStateByPc DEF TypeOK, DeleteBookDelete
  <1>3. Deleted(req[r].id) \in ReqState(nextId, Version)
    BY <1>2 DEF Deleted, ReqState
  <1>4. Removed(table, req[r].id) \in Tables(nextId)
    BY <1>1, RemovedIsTable DEF TypeOK
  <1> QED
    BY <1>3, <1>4, WriteStepTypes DEF DeleteBookDelete

LEMMA TickTypes ==
    ASSUME TypeOK, Tick
    PROVE  TypeOK'
  <1>1. nextId' = nextId /\ Version' = Version
    BY DEF Tick, Version
  <1>2. DOMAIN cache' \subseteq DOMAIN cache
    BY DEF Tick
  <1>3. ASSUME NEW k \in DOMAIN cache'
        PROVE  cache'[k] \in Entry(nextId, Version)
    <2>1. cache[k] \in Entry(nextId, Version) /\ cache[k].ttl # 1
      BY <1>2, <1>3 DEF TypeOK, Tick
    <2>2. cache[k].ttl - 1 \in 1 .. TTL
      BY <2>1, RepositoryAssumption DEF Entry
    <2>3. cache'[k] = [cache[k] EXCEPT !.ttl = @ - 1]
      BY <1>3, <2>1 DEF Tick, NoExpiration, Entry
    <2> QED
      BY <2>1, <2>2, <2>3 DEF Entry
  <1>4. cache' \in [DOMAIN cache' -> Entry(nextId, Version)]
    BY <1>3 DEF Tick
  <1> QED
    BY <1>1, <1>2, <1>4 DEF TypeOK, Tick

LEMMA CrashTypes ==
    ASSUME TypeOK, Crash
    PROVE  TypeOK'
  <1>1. nextId' = nextId /\ Version' = Version
    BY DEF Crash, Version
  <1>2. Lost \in ReqState(nextId, Version)
    BY DEF Lost, ReqState
  <1>3. req' \in [Requests -> ReqState(nextId, Version)]
    BY <1>2 DEF TypeOK, Crash
  <1> QED
    BY <1>1, <1>3 DEF TypeOK, Crash

LEMMA TypeInit == Init => TypeOK
  <1> SUFFICES ASSUME Init PROVE TypeOK
    OBVIOUS
  <1>1. InitialBooks \in [1 .. Len(InitialBooks) -> Book] /\ Len(InitialBooks) \in Nat
    BY RepositoryAssumption
  <1>2. table \in Tables(nextId)
    <2>1. DOMAIN InitialBooks \in SUBSET (1 .. nextId - 1)
      BY <1>1 DEF Init
    <2> QED
      BY <1>1, <2>1 DEF Init, Tables
  <1>3. history \in Seq(Tables(nextId)) /\ Version = 1 /\ history[1] = table
    BY <1>2 DEF Init, Version
  <1>4. Idle \in ReqState(nextId, Version)
    BY DEF Idle, ReqState
  <1>5. DOMAIN cache = {}
    BY DEF Init
  <1>6. cache \in [DOMAIN cache -> Entry(nextId, Version)]
    BY <1>5 DEF Init
  <1>7. req \in [Requests -> ReqState(nextId, Version)]
    BY <1>4 DEF Init
  <1> QED
    BY <1>1, <1>2, <1>3, <1>5, <1>6, <1>7 DEF TypeOK, Init

LEMMA TypeNext == TypeOK /\ [Next]_vars => TypeOK'
  <1> SUFFICES ASSUME TypeOK, [Next]_vars PROVE TypeOK'
    OBVIOUS
  <1>1. ASSUME NEW r \in Requests, Start(r) PROVE TypeOK'
    BY <1>1, FindBooksTypes, CreateBookTypes, FindBookTypes, UpdateBookTypes,
       DeleteBookTypes DEF Start
  <1>2. ASSUME NEW r \in Requests, Continue(r) PROVE TypeOK'
    BY <1>2, FindBooksQueryTypes, FindBooksSetTypes, CreateBookKeysTypes,
       CreateBookDelTypes, UpdateBookUpdatesTypes, DeleteBookDeleteTypes DEF Continue
  <1>3. CASE UNCHANGED vars
    BY <1>3 DEF vars, TypeOK, Version
  <1> QED
    BY <1>1, <1>2, <1>3, TickTypes, CrashTypes DEF Next

(* Every reachable state is well typed, for any set of requests, queries,   *)
(* bodies and books, whatever fails. *)
THEOREM TypeCorrect == Spec => []TypeOK
  BY TypeInit, TypeNext, PTL DEF Spec
===============================================================================
