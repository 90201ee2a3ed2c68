-------------------------- MODULE BookRefinementProofs -------------------------
(***************************************************************************)
(* The handlers of BookRepository, with their cache, their failures and    *)
(* their crashes, implement the catalogue of BookCatalogue, for every      *)
(* value of the constants: each of their steps is a step of the catalogue, *)
(* or none.                                                                *)
(***************************************************************************)
EXTENDS BookSafetyProofs

-------------------------------------------------------------------------------
(* The two modules' operators on the data are the same. *)

LEMMA SameCardinality ==
    ASSUME NEW S
    PROVE  Catalogue!Cardinality(S) = Cardinality(S)
  BY DEF Catalogue!Cardinality, Cardinality

LEMMA SamePages ==
    ASSUME NEW t, NEW q
    PROVE  /\ Catalogue!Pages(t, q) = Pages(t, q)
           /\ Catalogue!CutPages(t, q) = CutPages(t, q)
  <1>1. \A n, i, j : Catalogue!PageSize(n, i, j) = PageSize(n, i, j)
    BY DEF Catalogue!PageSize, PageSize
  <1>2. \A S : Catalogue!Restrict(t, S) = Restrict(t, S)
    BY DEF Catalogue!Restrict, Restrict
  <1> QED
    BY <1>1, <1>2, SameCardinality DEF Catalogue!Pages, Pages, Catalogue!CutPages, CutPages

LEMMA SameTables ==
    ASSUME NEW t, NEW id, NEW row, NEW patch
    PROVE  /\ Catalogue!Inserted(t, id, row) = Inserted(t, id, row)
           /\ Catalogue!Removed(t, id) = Removed(t, id)
           /\ Catalogue!Merge(row, patch) = Merge(row, patch)
  BY DEF Catalogue!Inserted, Inserted, Catalogue!Removed, Removed,
         Catalogue!Merge, Merge, Catalogue!Restrict, Restrict

LEMMA SameBodies ==
    ASSUME NEW b, NEW q
    PROVE  /\ Catalogue!Book = Book
           /\ Catalogue!Bound(b) <=> Bound(b)
           /\ Catalogue!WellFormed(q) <=> WellFormed(q)
  BY DEF Catalogue!Book, Book, Catalogue!Text, Text, Catalogue!Bound, Bound,
         Catalogue!WellFormed, WellFormed

-------------------------------------------------------------------------------
(* What a client is told *)

(* A step that moves one request tells its client, and no other. *)
LEMMA ToldMoves ==
    ASSUME TypeOK, NEW r \in Requests, NEW s, Becomes(r, s)
    PROVE  Out' = [Out EXCEPT ![r] = Told(s)]
  BY DEF TypeOK, Becomes, Out

LEMMA ToldStays ==
    ASSUME TypeOK, NEW r \in Requests, NEW s, Becomes(r, s), Told(s) = Told(req[r])
    PROVE  Out' = Out
  BY ToldMoves DEF Out

(* A request the router has just handed to its handler, or whose handler    *)
(* has yet to write.                                                        *)
LEMMA UnwrittenYet ==
    ASSUME NEW r \in Requests
    PROVE  /\ req[r] = Idle => Out[r] = Catalogue!Idle
           /\ req[r].pc \in {"query", "set", "update", "delete"} =>
                 Out[r] = Catalogue!Open
  BY DEF Out, Told, Idle, Catalogue!Idle, Catalogue!Open

(* What each answer tells. *)
LEMMA ToldOfAnswers ==
    /\ \A q, p, v : Told(Listed(q, p, v)) = Catalogue!Listed(q, p)
    /\ \A c, b : Told(Created(c, b)) = Catalogue!Created(c.id, c.book)
    /\ \A i, b : Told(Found(i, b)) = Catalogue!Found(i, b)
    /\ \A i, b : Told(Updated(i, b)) = Catalogue!Updated(i, b)
    /\ \A i : Told(Deleted(i)) = Catalogue!Deleted(i)
    /\ \A i : Told(NotFound(i)) = Catalogue!NotFound(i)
    /\ \A n : Told(Failed(n)) = Catalogue!Failed(n)
    /\ Told(Lost) = Catalogue!Lost
  <1>1. \A q, p, v : Told(Listed(q, p, v)) = Catalogue!Listed(q, p)
    BY DEF Told, Listed, Catalogue!Listed
  <1>2. \A c, b : Told(Created(c, b)) = Catalogue!Created(c.id, c.book)
    BY DEF Told, Created, Catalogue!Created
  <1>3. /\ \A i, b : Told(Found(i, b)) = Catalogue!Found(i, b)
        /\ \A i, b : Told(Updated(i, b)) = Catalogue!Updated(i, b)
    BY DEF Told, Found, Catalogue!Found, Updated, Catalogue!Updated
  <1>4. /\ \A i : Told(Deleted(i)) = Catalogue!Deleted(i)
        /\ \A i : Told(NotFound(i)) = Catalogue!NotFound(i)
    BY DEF Told, Deleted, Catalogue!Deleted, NotFound, Catalogue!NotFound
  <1>5. /\ \A n : Told(Failed(n)) = Catalogue!Failed(n)
        /\ Told(Lost) = Catalogue!Lost
    BY DEF Told, Failed, Catalogue!Failed, Lost, Catalogue!Lost
  <1> QED
    BY <1>1, <1>2, <1>3, <1>4, <1>5

(* What the calls of a handler tell: that it is on its way. *)
LEMMA ToldUnderway ==
    /\ \A q : Told(Reading(q)) = Catalogue!Open
    /\ \A q, p, v : Told(Storing(q, p, v)) = Catalogue!Open
    /\ \A i, b, p : Told(Updating(i, b, p)) = Catalogue!Open
    /\ \A i : Told(Removing(i)) = Catalogue!Open
    /\ \A c : Told(Listing(c)) = Catalogue!Inserting(c.id, c.book)
    /\ \A c, ks, b : Told(Deleting(c, ks, b)) = Catalogue!Inserting(c.id, c.book)
  <1>1. /\ \A q : Told(Reading(q)) = Catalogue!Open
        /\ \A q, p, v : Told(Storing(q, p, v)) = Catalogue!Open
    BY DEF Told, Reading, Storing, Catalogue!Open
  <1>2. /\ \A i, b, p : Told(Updating(i, b, p)) = Catalogue!Open
        /\ \A i : Told(Removing(i)) = Catalogue!Open
    BY DEF Told, Updating, Removing, Catalogue!Open
  <1>3. /\ \A c : Told(Listing(c)) = Catalogue!Inserting(c.id, c.book)
        /\ \A c, ks, b : Told(Deleting(c, ks, b)) = Catalogue!Inserting(c.id, c.book)
    BY DEF Told, Listing, Deleting, Catalogue!Inserting
  <1> QED
    BY <1>1, <1>2, <1>3

-------------------------------------------------------------------------------
(* What a handler on its way remembers *)

(* The parameters the router gave it and the body it bound, and of the book *)
(* it loaded that it was in one of the tables.                              *)
Remembers(s, tables) ==
    /\ s.pc \in {"query", "set"} => s.query \in Queries /\ WellFormed(s.query)
    /\ s.pc = "update" =>
          /\ s.id \in PathIds /\ s.patch \in Patches /\ s.patch # Malformed
          /\ \E t \in tables : s.id \in DOMAIN t /\ t[s.id] = s.book
    /\ s.pc = "delete" =>
          /\ s.id \in PathIds
          /\ \E t \in tables : s.id \in DOMAIN t
Underway == \A r \in Requests : Remembers(req[r], Past)

(* The past grows by the table a commit makes. *)
LEMMA PastGrows ==
    ASSUME TypeOK, NEW t
    PROVE  /\ Commit(t) => Past' = Past \cup {t}
           /\ UNCHANGED history => Past' = Past
           /\ table \in Past
  <1>1. history \in Seq(Tables(nextId)) /\ Version \in Nat \ {0} /\ table = history[Version]
    BY DEF TypeOK, Version
  <1>2. ASSUME Commit(t)
        PROVE  Past' = Past \cup {t}
    <2>1. Version' = Version + 1 /\ history'[Version + 1] = t
          /\ \A v \in 1 .. Version : history'[v] = history[v]
      BY <1>1, <1>2 DEF Commit, Version
    <2>2. 1 .. Version + 1 = (1 .. Version) \cup {Version + 1}
      BY <1>1
    <2> QED
      BY <2>1, <2>2 DEF Past
  <1>3. UNCHANGED history => Past' = Past
    BY DEF Past, Version
  <1>4. table \in Past
    BY <1>1 DEF Past
  <1> QED
    BY <1>2, <1>3, <1>4

LEMMA PastStays ==
    ASSUME TypeOK, [Next]_vars
    PROVE  Past \subseteq Past'
  <1>1. UNCHANGED history \/ \E t : Commit(t)
    BY DEF Next, Start, Continue, FindBooks, FindBooksQuery, FindBooksSet, CreateBook,
           CreateBookKeys, CreateBookDel, FindBook, UpdateBook, UpdateBookUpdates,
           DeleteBook, DeleteBookDelete, Tick, Crash, vars
  <1> QED
    BY <1>1, PastGrows

(* What was remembered is so still, and a step that moves one request has   *)
(* only to answer for that one.                                             *)
LEMMA UnderwayMoves ==
    ASSUME TypeOK, Underway, [Next]_vars, NEW r \in Requests, NEW s,
           Becomes(r, s), Remembers(s, Past')
    PROVE  Underway'
  <1>1. ASSUME NEW x \in Requests \ {r}
        PROVE  Remembers(req'[x], Past')
    <2>1. req'[x] = req[x]
      BY OthersStay
    <2>2. Remembers(req[x], Past)
      BY DEF Underway
    <2> QED
      BY <2>1, <2>2, PastStays DEF Remembers
  <1>2. req'[r] = s
    BY OthersStay
  <1> QED
    BY <1>1, <1>2 DEF Underway

LEMMA UnderwayNext ==
    ASSUME TypeOK, Underway, [Next]_vars
    PROVE  Underway'
  <1>1. ASSUME NEW r \in Requests, NEW q \in Queries, FindBooks(r, q)
        PROVE  Underway'
    <2>1. \E s : Becomes(r, s) /\ Remembers(s, Past')
      BY <1>1 DEF FindBooks, Failed, Listed, Reading, Remembers
    <2> QED
      BY <2>1, UnderwayMoves
  <1>2. ASSUME NEW r \in Requests, FindBooksQuery(r) \/ FindBooksSet(r)
        PROVE  Underway'
    <2>1. req[r].query \in Queries /\ WellFormed(req[r].query)
      BY <1>2 DEF FindBooksQuery, FindBooksSet, Remembers, Underway
    <2>2. \/ \E p : Becomes(r, Storing(req[r].query, p, Version))
          \/ Becomes(r, Listed(req[r].query, req[r].page, req[r].ver))
          \/ Becomes(r, Failed(500))
      BY <1>2 DEF FindBooksQuery, FindBooksSet
    <2>3. /\ \A p : Remembers(Storing(req[r].query, p, Version), Past')
          /\ Remembers(Listed(req[r].query, req[r].page, req[r].ver), Past')
          /\ Remembers(Failed(500), Past')
      BY <2>1 DEF Failed, Listed, Storing, Remembers
    <2> QED
      BY <2>2, <2>3, UnderwayMoves
  <1>3. ASSUME NEW r \in Requests, NEW b \in NewBooks, CreateBook(r, b)
        PROVE  Underway'
    <2>1. \E s : Becomes(r, s) /\ Remembers(s, Past')
      BY <1>3 DEF CreateBook, Failed, Listing, Remembers
    <2> QED
      BY <2>1, UnderwayMoves
  <1>4. ASSUME NEW r \in Requests, CreateBookKeys(r) \/ CreateBookDel(r)
        PROVE  Underway'
    <2>1. PICK keys, clean : DeleteNext(r, keys, clean)
      BY <1>4 DEF CreateBookKeys, CreateBookDel
    <2>2. /\ Remembers(Created(req[r], clean), Past')
          /\ Remembers(Deleting(req[r], keys, clean), Past')
      BY DEF Created, Deleting, Remembers
    <2> QED
      BY <2>1, <2>2, UnderwayMoves DEF DeleteNext
  <1>5. ASSUME NEW r \in Requests, NEW id \in PathIds, FindBook(r, id) \/ DeleteBook(r, id)
        PROVE  Underway'
    <2>1. Past' = Past /\ table \in Past
      BY <1>5, PastGrows DEF FindBook, DeleteBook
    <2>2. \E s : Becomes(r, s) /\ Remembers(s, Past')
      BY <1>5, <2>1 DEF FindBook, DeleteBook, First, Found, NotFound, Removing, Remembers
    <2> QED
      BY <2>2, UnderwayMoves
  <1>6. ASSUME NEW r \in Requests, NEW id \in PathIds, NEW p \in Patches, UpdateBook(r, id, p)
        PROVE  Underway'
    <2>1. Past' = Past /\ table \in Past
      BY <1>6, PastGrows DEF UpdateBook
    <2>2. \E s : Becomes(r, s) /\ Remembers(s, Past')
      BY <1>6, <2>1 DEF UpdateBook, First, Failed, NotFound, Updating, Remembers
    <2> QED
      BY <2>2, UnderwayMoves
  <1>7. ASSUME NEW r \in Requests, UpdateBookUpdates(r) \/ DeleteBookDelete(r)
        PROVE  Underway'
    <2>1. \E s : Becomes(r, s) /\ Remembers(s, Past')
      BY <1>7 DEF UpdateBookUpdates, DeleteBookDelete, Updated, Deleted, Remembers
    <2> QED
      BY <2>1, UnderwayMoves
  <1>8. CASE Tick \/ Crash \/ UNCHANGED vars
    <2>1. Past' = Past
      BY <1>8, PastGrows DEF Tick, Crash, vars
    <2>2. \A r \in Requests : req'[r] = req[r] \/ req'[r] = Lost
      BY <1>8 DEF Tick, Crash, vars, TypeOK
    <2>3. Remembers(Lost, Past)
      BY DEF Lost, Remembers
    <2> QED
      BY <2>1, <2>2, <2>3 DEF Underway
  <1> QED
    BY <1>1, <1>2, <1>3, <1>4, <1>5, <1>6, <1>7, <1>8 DEF Next, Start, Continue

-------------------------------------------------------------------------------
(* Each step of a handler is a step of the catalogue, or none *)

(* A page that was read is a page of a table of the past, or less of one. *)
LEMMA SnapshotIsOfThePast ==
    ASSUME NEW p, NEW v \in 1 .. Version, NEW q, IsSnapshot(p, v, q)
    PROVE  \E t \in Past : \/ p \in Catalogue!Pages(t, q)
                           \/ DBFaults /\ p \in {Nil} \cup Catalogue!CutPages(t, q)
  BY SamePages DEF IsSnapshot, Selected, Past

(* A handler that answers with a listing. *)
LEMMA ListImplemented ==
    ASSUME TypeOK, NEW r \in Requests, NEW q \in Queries, WellFormed(q),
           NEW p, NEW v \in 1 .. Version, IsSnapshot(p, v, q),
           req[r] = Idle \/ req[r].pc = "set",
           Becomes(r, Listed(q, p, v)), UNCHANGED <<table, nextId, history>>
    PROVE  Catalogue!List(r, q)
  <1>1. Out' = [Out EXCEPT ![r] = Catalogue!Listed(q, p)]
    BY ToldMoves, ToldOfAnswers
  <1>2. Catalogue!Unwritten(r) /\ Catalogue!WellFormed(q)
    BY UnwrittenYet, SameBodies DEF Catalogue!Unwritten
  <1>3. Past' = Past
    BY PastGrows
  <1> QED
    BY <1>1, <1>2, <1>3, SnapshotIsOfThePast DEF Catalogue!List, Catalogue!Tell

(* A handler that refuses, and one that goes on without having written. *)
LEMMA RefuseImplemented ==
    ASSUME TypeOK, NEW r \in Requests, NEW n, n = 400 \/ (n = 500 /\ CacheFaults),
           req[r] = Idle \/ req[r].pc = "set",
           Becomes(r, Failed(n)), UNCHANGED <<table, nextId, history>>
    PROVE  Catalogue!Refuse(r)
  <1>1. Out' = [Out EXCEPT ![r] = Catalogue!Failed(n)]
    BY ToldMoves, ToldOfAnswers
  <1>2. Catalogue!Unwritten(r)
    BY UnwrittenYet DEF Catalogue!Unwritten
  <1>3. Past' = Past
    BY PastGrows
  <1> QED
    BY <1>1, <1>2, <1>3 DEF Catalogue!Refuse, Catalogue!Tell

LEMMA BeginImplemented ==
    ASSUME TypeOK, NEW r \in Requests, req[r] = Idle, NEW s, Told(s) = Catalogue!Open,
           Becomes(r, s), UNCHANGED <<table, nextId, history>>
    PROVE  Catalogue!Begin(r)
  <1>1. Out' = [Out EXCEPT ![r] = Catalogue!Open]
    BY ToldMoves
  <1>2. Out[r] = Catalogue!Idle /\ Past' = Past
    BY UnwrittenYet, PastGrows
  <1> QED
    BY <1>1, <1>2 DEF Catalogue!Begin, Catalogue!Tell

LEMMA MissImplemented ==
    ASSUME TypeOK, NEW r \in Requests, req[r] = Idle, NEW id, FirstFails(id),
           Becomes(r, NotFound(id)), UNCHANGED <<table, nextId, history>>
    PROVE  Catalogue!Miss(r, id)
  <1>1. Out' = [Out EXCEPT ![r] = Catalogue!NotFound(id)]
    BY ToldMoves, ToldOfAnswers
  <1>2. Catalogue!Unwritten(r) /\ Past' = Past
    BY UnwrittenYet, PastGrows DEF Catalogue!Unwritten
  <1> QED
    BY <1>1, <1>2 DEF Catalogue!Miss, Catalogue!Tell, FirstFails, First

LEMMA FindBooksImplemented ==
    ASSUME TypeOK, ServedPagesAreSnapshots, NEW r \in Requests, NEW q \in Queries,
           FindBooks(r, q)
    PROVE  Catalogue!Begin(r) \/ Catalogue!Refuse(r) \/ Catalogue!List(r, q)
  <1>1. req[r] = Idle /\ UNCHANGED <<table, nextId, history>>
    BY DEF FindBooks
  <1>2. CASE Becomes(r, Failed(400))
    BY <1>1, <1>2, RefuseImplemented
  <1>3. CASE Becomes(r, Reading(q))
    BY <1>1, <1>3, ToldUnderway, BeginImplemented
  <1>4. CASE /\ WellFormed(q) /\ q \in DOMAIN cache
             /\ Becomes(r, Listed(q, cache[q].page, cache[q].ver))
    <2>1. IsSnapshot(cache[q].page, cache[q].ver, q)
      BY <1>4 DEF ServedPagesAreSnapshots
    <2>2. cache[q].ver \in 1 .. Version
      BY <1>4 DEF TypeOK, Entry
    <2> QED
      BY <1>1, <1>4, <2>1, <2>2, ListImplemented
  <1> QED
    BY <1>2, <1>3, <1>4 DEF FindBooks, CacheKey

LEMMA FindBooksQueryImplemented ==
    ASSUME TypeOK, NEW r \in Requests, FindBooksQuery(r)
    PROVE  UNCHANGED Catalogue!vars
  <1>1. PICK p : Becomes(r, Storing(req[r].query, p, Version))
    BY DEF FindBooksQuery
  <1>2. Told(Storing(req[r].query, p, Version)) = Told(req[r])
    <2>1. Told(req[r]) = Catalogue!Open
      BY DEF FindBooksQuery, Told, Catalogue!Open
    <2> QED
      BY <2>1, ToldUnderway
  <1>3. Out' = Out
    BY <1>1, <1>2, ToldStays
  <1> QED
    BY <1>3, PastGrows DEF FindBooksQuery, Catalogue!vars

LEMMA FindBooksSetImplemented ==
    ASSUME TypeOK, ServedPagesAreSnapshots, Underway, NEW r \in Requests, FindBooksSet(r)
    PROVE  Catalogue!Refuse(r) \/ \E q \in Queries : Catalogue!List(r, q)
  <1>1. req[r].pc = "set" /\ UNCHANGED <<table, nextId, history>>
    BY DEF FindBooksSet
  <1>2. CASE Becomes(r, Listed(req[r].query, req[r].page, req[r].ver))
    <2>1. req[r].query \in Queries /\ WellFormed(req[r].query)
      BY <1>1 DEF Underway, Remembers
    <2>2. IsSnapshot(req[r].page, req[r].ver, req[r].query)
      BY <1>1 DEF ServedPagesAreSnapshots
    <2>3. req[r].ver \in 1 .. Version
      BY <1>1, VersionsArePast
    <2> QED
      BY <1>1, <1>2, <2>1, <2>2, <2>3, ListImplemented
  <1>3. CASE CacheFaults /\ Becomes(r, Failed(500))
    BY <1>1, <1>3, RefuseImplemented
  <1> QED
    BY <1>2, <1>3 DEF FindBooksSet

(* A commit is never a step that leaves the history alone. *)
LEMMA CommitIsAStep ==
    ASSUME TypeOK, NEW t, Commit(t)
    PROVE  ~UNCHANGED history
  BY DEF TypeOK, Commit, Version

LEMMA CreateBookImplemented ==
    ASSUME TypeOK, NEW r \in Requests, NEW b \in NewBooks, CreateBook(r, b)
    PROVE  Catalogue!Refuse(r) \/ Catalogue!Insert(r, b)
  <1>1. req[r] = Idle /\ Catalogue!Unwritten(r)
    BY UnwrittenYet DEF CreateBook, Catalogue!Unwritten
  <1>2. CASE ~Bound(b)
    BY <1>1, <1>2, RefuseImplemented DEF CreateBook
  <1>3. CASE Bound(b) /\ Commit(Inserted(table, nextId, b))
    <2>1. Becomes(r, Listing([id |-> nextId, book |-> b,
                              ver |-> Version + 1, overlap |-> Filling]))
          /\ nextId' = nextId + 1
      BY <1>3, CommitIsAStep DEF CreateBook, Commit
    <2>2. Out' = [Out EXCEPT ![r] = Catalogue!Inserting(nextId, b)]
      BY <2>1, ToldMoves, ToldUnderway
    <2>3. table' = Inserted(table, nextId, b) /\ Past' = Past \cup {table'}
      BY <1>3, PastGrows DEF Commit
    <2> QED
      BY <1>1, <1>3, <2>1, <2>2, <2>3, SameTables, SameBodies
      DEF Catalogue!Insert, Catalogue!Tell
  <1>4. ASSUME Bound(b), DBFaults, NEW given \in {0, nextId},
               nextId' = (IF given = 0 THEN nextId ELSE nextId + 1),
               Becomes(r, Listing([id |-> given, book |-> b, ver |-> 0, overlap |-> {}])),
               UNCHANGED <<table, history>>
        PROVE  Catalogue!Insert(r, b)
    <2>1. Out' = [Out EXCEPT ![r] = Catalogue!Inserting(given, b)]
      BY <1>4, ToldMoves, ToldUnderway
    <2>2. Past' = Past
      BY <1>4, PastGrows
    <2> QED
      BY <1>1, <1>4, <2>1, <2>2, SameBodies DEF Catalogue!Insert, Catalogue!Tell
  <1> QED
    BY <1>2, <1>3, <1>4 DEF CreateBook

(* CreateBook's loop: to its client nothing happens until its end. *)
LEMMA DeleteNextImplemented ==
    ASSUME TypeOK, NEW r \in Requests, req[r].pc \in {"keys", "del"},
           NEW keys, NEW clean, DeleteNext(r, keys, clean),
           UNCHANGED <<table, nextId, history>>
    PROVE  Catalogue!Create(r) \/ UNCHANGED Catalogue!vars
  <1>1. Told(req[r]) = Catalogue!Inserting(req[r].id, req[r].book) /\ Past' = Past
    BY PastGrows DEF Told, Catalogue!Inserting
  <1>2. CASE Becomes(r, Created(req[r], clean))
    <2>1. Out' = [Out EXCEPT ![r] = Catalogue!Created(req[r].id, req[r].book)]
      BY <1>2, ToldMoves, ToldOfAnswers
    <2>2. Out[r] = Catalogue!Inserting(req[r].id, req[r].book)
      BY <1>1 DEF Out
    <2> QED
      BY <1>1, <2>1, <2>2 DEF Catalogue!Create, Catalogue!Tell, Catalogue!Inserting
  <1>3. CASE Becomes(r, Deleting(req[r], keys, clean))
    BY <1>1, <1>3, ToldUnderway, ToldStays DEF Catalogue!vars
  <1> QED
    BY <1>2, <1>3 DEF DeleteNext

LEMMA CreateBookLoopImplemented ==
    ASSUME TypeOK, NEW r \in Requests, CreateBookKeys(r) \/ CreateBookDel(r)
    PROVE  Catalogue!Create(r) \/ UNCHANGED Catalogue!vars
  <1>1. req[r].pc \in {"keys", "del"} /\ \E keys, clean : DeleteNext(r, keys, clean)
    BY DEF CreateBookKeys, CreateBookDel
  <1> QED
    BY <1>1, DeleteNextImplemented DEF CreateBookKeys, CreateBookDel

LEMMA FindBookImplemented ==
    ASSUME TypeOK, NEW r \in Requests, NEW id \in PathIds, FindBook(r, id)
    PROVE  Catalogue!Find(r, id) \/ Catalogue!Miss(r, id)
  <1>1. CASE First(id) /\ Becomes(r, Found(id, table[id]))
    <2>1. Out' = [Out EXCEPT ![r] = Catalogue!Found(id, table[id])]
      BY <1>1, ToldMoves, ToldOfAnswers
    <2>2. Catalogue!Unwritten(r) /\ Past' = Past
      BY UnwrittenYet, PastGrows DEF FindBook, Catalogue!Unwritten
    <2> QED
      BY <1>1, <2>1, <2>2 DEF Catalogue!Find, Catalogue!Tell, FindBook, First
  <1>2. CASE FirstFails(id) /\ Becomes(r, NotFound(id))
    BY <1>2, MissImplemented DEF FindBook
  <1> QED
    BY <1>1, <1>2 DEF FindBook

LEMMA UpdateBookImplemented ==
    ASSUME TypeOK, NEW r \in Requests, NEW id \in PathIds, NEW p \in Patches,
           UpdateBook(r, id, p)
    PROVE  Catalogue!Miss(r, id) \/ Catalogue!Refuse(r) \/ Catalogue!Begin(r)
  <1>1. CASE FirstFails(id) /\ Becomes(r, NotFound(id))
    BY <1>1, MissImplemented DEF UpdateBook
  <1>2. CASE Becomes(r, Failed(400))
    BY <1>2, RefuseImplemented DEF UpdateBook
  <1>3. CASE Becomes(r, Updating(id, table[id], p))
    BY <1>3, ToldUnderway, BeginImplemented DEF UpdateBook
  <1> QED
    BY <1>1, <1>2, <1>3 DEF UpdateBook

LEMMA DeleteBookImplemented ==
    ASSUME TypeOK, NEW r \in Requests, NEW id \in PathIds, DeleteBook(r, id)
    PROVE  Catalogue!Miss(r, id) \/ Catalogue!Begin(r)
  <1>1. CASE FirstFails(id) /\ Becomes(r, NotFound(id))
    BY <1>1, MissImplemented DEF DeleteBook
  <1>2. CASE Becomes(r, Removing(id))
    BY <1>2, ToldUnderway, BeginImplemented DEF DeleteBook
  <1> QED
    BY <1>1, <1>2 DEF DeleteBook

(* A write of the handlers is one of the catalogue. *)
LEMMA WriteImplemented ==
    ASSUME TypeOK, NEW t, Commit(t) \/ (DBFaults /\ UNCHANGED <<table, history>>)
    PROVE  Catalogue!Write(t)
  BY PastGrows DEF Commit, Catalogue!Write

LEMMA UpdateBookUpdatesImplemented ==
    ASSUME TypeOK, Underway, NEW r \in Requests, UpdateBookUpdates(r)
    PROVE  \E id \in PathIds, p \in Patches : Catalogue!Update(r, id, p)
  <1> DEFINE s == req[r]
  <1>1. s.pc = "update" /\ nextId' = nextId
    BY DEF UpdateBookUpdates
  <1>2. s.id \in PathIds /\ s.patch \in Patches /\ s.patch # Malformed
        /\ \E t \in Past : s.id \in DOMAIN t /\ t[s.id] = s.book
    BY <1>1 DEF Underway, Remembers
  <1>3. s.book \in Catalogue!Book
    <2>1. nextId \in Nat /\ Version \in Nat /\ req[r] \in ReqState(nextId, Version)
      BY DEF TypeOK, Version
    <2>2. req[r].book \in Book
      BY <1>1, <2>1, ReqStateByPc
    <2> QED
      BY <2>2, SameBodies
  <1>4. Out' = [Out EXCEPT ![r] = Catalogue!Updated(s.id, Catalogue!Merge(s.book, s.patch))]
    BY ToldMoves, ToldOfAnswers, SameTables DEF UpdateBookUpdates, RowFromLoaded
  <1>5. Catalogue!Unwritten(r)
    BY <1>1, UnwrittenYet DEF Catalogue!Unwritten
  <1>6. Catalogue!Patched(s.id, s.patch) = TableAfterUpdate(r)
    BY SameTables DEF Catalogue!Patched, TableAfterUpdate, UpdatedRow
  <1>7. Catalogue!Write(Catalogue!Patched(s.id, s.patch))
    BY <1>6, WriteImplemented DEF UpdateBookUpdates
  <1> QED
    BY <1>1, <1>2, <1>3, <1>4, <1>5, <1>7
    DEF Catalogue!Update, Catalogue!Was, Catalogue!Tell

LEMMA DeleteBookDeleteImplemented ==
    ASSUME TypeOK, Underway, NEW r \in Requests, DeleteBookDelete(r)
    PROVE  \E id \in PathIds : Catalogue!Delete(r, id)
  <1> DEFINE s == req[r]
  <1>1. s.pc = "delete" /\ nextId' = nextId
    BY DEF DeleteBookDelete
  <1>2. s.id \in PathIds /\ \E t \in Past : s.id \in DOMAIN t
    BY <1>1 DEF Underway, Remembers
  <1>3. Out' = [Out EXCEPT ![r] = Catalogue!Deleted(s.id)]
    BY ToldMoves, ToldOfAnswers DEF DeleteBookDelete
  <1>4. Catalogue!Unwritten(r)
    BY <1>1, UnwrittenYet DEF Catalogue!Unwritten
  <1>5. Catalogue!Write(Catalogue!Removed(table, s.id))
    BY SameTables, WriteImplemented DEF DeleteBookDelete
  <1> QED
    BY <1>1, <1>2, <1>3, <1>4, <1>5 DEF Catalogue!Delete, Catalogue!Tell

(* A request is on its way to its client when it is to its handler. *)
LEMMA SameInFlight ==
    ASSUME TypeOK, NEW r \in Requests
    PROVE  Catalogue!InFlight(r) <=> InFlight(r)
  <1>1. req[r].pc \in {"idle", "lost", "query", "set", "listed", "keys", "del", "created",
                      "update", "found", "updated", "delete", "deleted", "notfound", "failed"}
    BY DEF TypeOK, ReqState
  <1>2. Out[r].pc = IF req[r].pc \in {"query", "set", "update", "delete"} THEN "open"
                    ELSE IF req[r].pc \in {"keys", "del"} THEN "inserting" ELSE req[r].pc
    BY <1>1 DEF Out, Told
  <1> QED
    BY <1>1, <1>2 DEF Catalogue!InFlight, InFlight

LEMMA CrashImplemented ==
    ASSUME TypeOK, Crash
    PROVE  Catalogue!Crash
  <1>1. Out' = [r \in Requests |-> IF Catalogue!InFlight(r) THEN Catalogue!Lost ELSE Out[r]]
    BY SameInFlight, ToldOfAnswers DEF Out, Crash
  <1> QED
    BY <1>1, PastGrows DEF Crash, Catalogue!Crash

LEMMA StepImplemented ==
    ASSUME TypeOK, ServedPagesAreSnapshots, Underway, [Next]_vars
    PROVE  [Catalogue!Next]_Catalogue!vars
  <1>1. ASSUME NEW r \in Requests, Start(r) \/ Continue(r)
        PROVE  Catalogue!Next \/ UNCHANGED Catalogue!vars
    BY <1>1, FindBooksImplemented, FindBooksQueryImplemented, FindBooksSetImplemented,
       CreateBookImplemented, CreateBookLoopImplemented, FindBookImplemented,
       UpdateBookImplemented, UpdateBookUpdatesImplemented,
       DeleteBookImplemented, DeleteBookDeleteImplemented
    DEF Start, Continue, Catalogue!Next
  <1>2. CASE Tick
    BY <1>2, PastGrows DEF Tick, Out, Catalogue!vars
  <1>3. CASE Crash
    BY <1>3, CrashImplemented DEF Catalogue!Next
  <1>4. CASE UNCHANGED vars
    BY <1>4, PastGrows DEF vars, Out, Catalogue!vars
  <1> QED
    BY <1>1, <1>2, <1>3, <1>4 DEF Next

LEMMA InitImplemented == Init => Catalogue!Init
  <1> SUFFICES ASSUME Init PROVE Catalogue!Init
    OBVIOUS
  <1>1. Past = {InitialBooks}
    BY DEF Init, Past, Version
  <1>2. Out = [r \in Requests |-> Catalogue!Idle]
    BY DEF Init, Out, Told, Idle, Catalogue!Idle
  <1> QED
    BY <1>1, <1>2 DEF Init, Catalogue!Init

(* The handlers implement the catalogue, for any number of requests and     *)
(* whatever fails: a request writes at most once and before its answer, and *)
(* what its client is told was so at one moment, however long ago for a     *)
(* listing.                                                                 *)
THEOREM Refinement == Spec => CatalogueImplemented
  <1>1. Init => Underway
    BY DEF Init, Idle, Underway, Remembers
  <1>2. TypeOK /\ Underway /\ [Next]_vars => Underway'
    BY UnderwayNext
  <1>3. TypeOK /\ ServedPagesAreSnapshots /\ Underway /\ [Next]_vars
          => [Catalogue!Next]_Catalogue!vars
    BY StepImplemented
  <1> QED
    BY <1>1, <1>2, <1>3, InitImplemented, TypeCorrect, Snapshots, PTL
    DEF Spec, CatalogueImplemented, Catalogue!Spec
===============================================================================
