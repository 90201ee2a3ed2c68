--------------------------- MODULE BookSafetyProofs ---------------------------
(***************************************************************************)
(* The safety properties of BookRepository, for every value of its         *)
(* constants, from the type invariant.                                     *)
(***************************************************************************)
EXTENDS BookRepositoryProofs, FiniteSetTheorems

(* A step that moves one request leaves the others where they are. *)
LEMMA OthersStay ==
    ASSUME TypeOK, NEW r \in Requests, NEW s, Becomes(r, s)
    PROVE  req'[r] = s /\ \A x \in Requests \ {r} : req'[x] = req[x]
  BY DEF TypeOK, Becomes

(* The versions the requests remember are past ones. *)
LEMMA VersionsArePast ==
    ASSUME TypeOK, NEW r \in Requests
    PROVE  /\ Version \in Nat \ {0}
           /\ req[r].pc = "set" => req[r].ver \in 1 .. Version
           /\ Inserting(r) => req[r].ver \in 0 .. Version
  <1>1. nextId \in Nat /\ Version \in Nat \ {0}
    BY DEF TypeOK, Version
  <1> QED
    BY <1>1, ReqStateByPc DEF TypeOK, Inserting

-------------------------------------------------------------------------------
(* The invalidation of CreateBook *)

(* A step of a request that neither fills the cache nor inserts a book. *)
LEMMA QuietStepInvalidation ==
    ASSUME TypeOK, InvalidationInv, NEW r \in Requests, NEW s, Becomes(r, s),
           s.pc \notin {"set", "keys", "del", "created"}, UNCHANGED cache
    PROVE  InvalidationInv'
  <1>1. req'[r] = s /\ \A x \in Requests \ {r} : req'[x] = req[x]
    BY OthersStay
  <1>2. FillsExcused'
    BY <1>1 DEF InvalidationInv, FillsExcused, Inserting, Excused
  <1>3. LoopCovers'
    BY <1>1 DEF InvalidationInv, LoopCovers, Covered, Excused
  <1>4. InvalidationCovers'
    BY <1>1 DEF InvalidationInv, InvalidationCovers, Covered, Excused
  <1> QED
    BY <1>2, <1>3, <1>4 DEF InvalidationInv

LEMMA FindBooksQueryInvalidation ==
    ASSUME TypeOK, InvalidationInv, NEW r \in Requests, FindBooksQuery(r)
    PROVE  InvalidationInv'
  <1>1. PICK p : Becomes(r, Storing(req[r].query, p, Version))
    BY DEF FindBooksQuery
  <1>2. req'[r] = Storing(req[r].query, p, Version) /\ \A x \in Requests \ {r} : req'[x] = req[x]
    BY <1>1, OthersStay
  <1>3. req'[r].pc = "set" /\ req'[r].ver = Version /\ UNCHANGED cache
    BY <1>2 DEF Storing, FindBooksQuery
  <1>4. FillsExcused'
    <2> SUFFICES ASSUME NEW c \in Requests, NEW s \in Requests,
                        Inserting(c)', req'[s].pc = "set"
                 PROVE  req'[s].ver >= req'[c].ver \/ s \in req'[c].overlap
      BY DEF FillsExcused, Excused
    <2>1. req'[c] = req[c] /\ Inserting(c)
      BY <1>2, <1>3 DEF Inserting
    <2>2. CASE s = r
      BY <1>3, <2>1, <2>2, VersionsArePast
    <2>3. CASE s # r
      BY <1>2, <2>1, <2>3 DEF InvalidationInv, FillsExcused, Excused
    <2> QED
      BY <2>2, <2>3
  <1>5. LoopCovers'
    BY <1>2, <1>3 DEF InvalidationInv, LoopCovers, Covered, Excused
  <1>6. InvalidationCovers'
    BY <1>2, <1>3 DEF InvalidationInv, InvalidationCovers, Covered, Excused
  <1> QED
    BY <1>4, <1>5, <1>6 DEF InvalidationInv

(* The page FindBooks stores was excused when it was still to be stored. *)
LEMMA FindBooksSetInvalidation ==
    ASSUME TypeOK, InvalidationInv, NEW r \in Requests, FindBooksSet(r)
    PROVE  InvalidationInv'
  <1>1. PICK s : Becomes(r, s) /\ s.pc \in {"listed", "failed"}
    BY DEF FindBooksSet, Listed, Failed
  <1>2. CASE UNCHANGED cache
    BY <1>1, <1>2, QuietStepInvalidation
  <1>3. CASE cache' = Stored(r)
    <2>1. req'[r] = s /\ \A x \in Requests \ {r} : req'[x] = req[x]
      BY <1>1, OthersStay
    <2>2. ASSUME NEW c \in Requests, Inserting(c)', NEW k \in DOMAIN cache'
          PROVE  /\ c # r /\ Inserting(c) /\ req'[c] = req[c]
                 /\ Covered(c, k)' \/ (k \in DOMAIN cache /\ cache'[k] = cache[k])
      <3>1. c # r /\ Inserting(c) /\ req'[c] = req[c]
        BY <1>1, <2>1, <2>2 DEF Inserting
      <3>2. CASE k = CacheKey(req[r].query)
        <4>1. cache'[k].ver = req[r].ver /\ cache'[k].by = r
          BY <1>3, <3>2 DEF Stored
        <4>2. req[r].ver >= req[c].ver \/ r \in req[c].overlap
          BY <3>1 DEF InvalidationInv, FillsExcused, Excused, FindBooksSet
        <4> QED
          BY <3>1, <4>1, <4>2 DEF Covered, Excused
      <3>3. CASE k # CacheKey(req[r].query)
        BY <1>3, <2>2, <3>1, <3>3 DEF Stored
      <3> QED
        BY <3>1, <3>2, <3>3
    <2>3. FillsExcused'
      BY <1>1, <2>1 DEF InvalidationInv, FillsExcused, Inserting, Excused
    <2>4. LoopCovers'
      BY <2>2 DEF InvalidationInv, LoopCovers, Inserting, Covered, Excused
    <2>5. InvalidationCovers'
      BY <2>2 DEF InvalidationInv, InvalidationCovers, Inserting, Covered, Excused
    <2> QED
      BY <2>3, <2>4, <2>5 DEF InvalidationInv
  <1> QED
    BY <1>2, <1>3 DEF FindBooksSet

(* The fills in flight at the insert are the overlap it remembers. *)
LEMMA CreateBookInvalidation ==
    ASSUME TypeOK, InvalidationInv, NEW r \in Requests, NEW b \in NewBooks, CreateBook(r, b)
    PROVE  InvalidationInv'
  <1>1. CASE Becomes(r, Failed(400))
    BY <1>1, QuietStepInvalidation DEF CreateBook, Failed
  <1>2. ASSUME NEW s, Becomes(r, s), s.pc = "keys",
               (s.ver = Version + 1 /\ s.overlap = Filling) \/ s.ver = 0
        PROVE  InvalidationInv'
    <2>1. req'[r] = s /\ \A x \in Requests \ {r} : req'[x] = req[x]
      BY <1>2, OthersStay
    <2>2. UNCHANGED cache
      BY DEF CreateBook
    <2>3. FillsExcused'
      <3> SUFFICES ASSUME NEW c \in Requests, NEW f \in Requests,
                          Inserting(c)', req'[f].pc = "set"
                   PROVE  req'[f].ver >= req'[c].ver \/ f \in req'[c].overlap
        BY DEF FillsExcused, Excused
      <3>1. req'[f] = req[f] /\ req[f].pc = "set" /\ req[f].ver \in Nat
        BY <1>2, <2>1, VersionsArePast
      <3>2. CASE c = r
        BY <1>2, <2>1, <3>1, <3>2 DEF Filling
      <3>3. CASE c # r
        BY <2>1, <3>1, <3>3 DEF InvalidationInv, FillsExcused, Inserting, Excused
      <3> QED
        BY <3>2, <3>3
    <2>4. LoopCovers'
      BY <1>2, <2>1, <2>2 DEF InvalidationInv, LoopCovers, Covered, Excused
    <2>5. InvalidationCovers'
      BY <1>2, <2>1, <2>2 DEF InvalidationInv, InvalidationCovers, Covered, Excused
    <2> QED
      BY <2>3, <2>4, <2>5 DEF InvalidationInv
  <1> QED
    BY <1>1, <1>2 DEF CreateBook, Listing

(* The loop goes on with fewer keys or ends, its version and overlap kept. *)
LEMMA DeleteNextKeeps ==
    ASSUME TypeOK, NEW r \in Requests, NEW keys, NEW clean, DeleteNext(r, keys, clean)
    PROVE  /\ \A x \in Requests \ {r} : req'[x] = req[x]
           /\ req'[r].ver = req[r].ver /\ req'[r].overlap = req[r].overlap
           /\ req'[r].clean = clean
           /\ \/ req'[r].pc = "created" /\ keys = {}
              \/ req'[r].pc = "del" /\ req'[r].keys = keys
  BY OthersStay DEF DeleteNext, Created, Deleting

LEMMA CreateBookKeysInvalidation ==
    ASSUME TypeOK, InvalidationInv, NEW r \in Requests, CreateBookKeys(r)
    PROVE  InvalidationInv'
  <1>1. PICK keys, clean :
          DeleteNext(r, keys, clean) /\ (clean = FALSE \/ keys = DOMAIN cache)
    BY DEF CreateBookKeys, Invalidated
  <1>2. UNCHANGED cache /\ Inserting(r)
    BY DEF CreateBookKeys, Inserting
  <1>3. FillsExcused'
    BY <1>1, <1>2, DeleteNextKeeps DEF InvalidationInv, FillsExcused, Inserting, Excused
  <1>4. LoopCovers'
    BY <1>1, <1>2, DeleteNextKeeps DEF InvalidationInv, LoopCovers, Covered, Excused
  <1>5. InvalidationCovers'
    BY <1>1, <1>2, DeleteNextKeeps DEF InvalidationInv, InvalidationCovers, Covered, Excused
  <1> QED
    BY <1>3, <1>4, <1>5 DEF InvalidationInv

LEMMA CreateBookDelInvalidation ==
    ASSUME TypeOK, InvalidationInv, NEW r \in Requests, CreateBookDel(r)
    PROVE  InvalidationInv'
  <1>1. PICK k, clean :
          /\ k \in req[r].keys
          /\ DeleteNext(r, req[r].keys \ {k}, clean)
          /\ \/ cache' = Restrict(cache, DOMAIN cache \ {k}) /\ clean = req[r].clean
             \/ cache' = cache /\ clean = FALSE
    BY DEF CreateBookDel
  <1>2. req[r].pc = "del" /\ Inserting(r)
    BY DEF CreateBookDel, Inserting
  <1>3. DOMAIN cache' \subseteq DOMAIN cache /\ \A x \in DOMAIN cache' : cache'[x] = cache[x]
    BY <1>1 DEF Restrict
  <1>4. FillsExcused'
    BY <1>1, <1>2, DeleteNextKeeps DEF InvalidationInv, FillsExcused, Inserting, Excused
  <1>5. ASSUME NEW c \in Requests, c # r
        PROVE  req'[c] = req[c]
    BY <1>1, <1>5, DeleteNextKeeps
  <1>6. ASSUME req'[r].clean, NEW x \in DOMAIN cache', x \notin req[r].keys \ {k}
        PROVE  Covered(r, x)'
    <2>1. req[r].clean /\ x \in DOMAIN cache /\ x \notin req[r].keys
      BY <1>1, <1>3, <1>6, DeleteNextKeeps DEF Restrict
    <2>2. Covered(r, x)
      BY <1>2, <2>1 DEF InvalidationInv, LoopCovers
    <2> QED
      BY <1>1, <1>3, <1>6, <2>2, DeleteNextKeeps DEF Covered, Excused
  <1>7. LoopCovers'
    <2> SUFFICES ASSUME NEW c \in Requests, req'[c].pc = "del", req'[c].clean,
                        NEW x \in DOMAIN cache' \ req'[c].keys
                 PROVE  Covered(c, x)'
      BY DEF LoopCovers
    <2>1. CASE c = r
      BY <1>1, <1>6, <2>1, DeleteNextKeeps
    <2>2. CASE c # r
      BY <1>3, <1>5, <2>2 DEF InvalidationInv, LoopCovers, Covered, Excused
    <2> QED
      BY <2>1, <2>2
  <1>8. InvalidationCovers'
    <2> SUFFICES ASSUME NEW c \in Requests, req'[c].pc = "created", req'[c].clean,
                        NEW x \in DOMAIN cache'
                 PROVE  Covered(c, x)'
      BY DEF InvalidationCovers
    <2>1. CASE c = r
      BY <1>1, <1>6, <2>1, DeleteNextKeeps
    <2>2. CASE c # r
      BY <1>3, <1>5, <2>2 DEF InvalidationInv, InvalidationCovers, Covered, Excused
    <2> QED
      BY <2>1, <2>2
  <1> QED
    BY <1>4, <1>7, <1>8 DEF InvalidationInv

LEMMA TickInvalidation ==
    ASSUME InvalidationInv, Tick, TypeOK
    PROVE  InvalidationInv'
  <1>1. ASSUME NEW k \in DOMAIN cache'
        PROVE  k \in DOMAIN cache /\ cache'[k].ver = cache[k].ver /\ cache'[k].by = cache[k].by
    <2>1. k \in DOMAIN cache /\ cache[k] \in Entry(nextId, Version)
      BY <1>1 DEF Tick, TypeOK
    <2>2. cache'[k] \in {cache[k], [cache[k] EXCEPT !.ttl = @ - 1]}
      BY <1>1 DEF Tick
    <2> QED
      BY <2>1, <2>2 DEF Entry
  <1> QED
    BY <1>1 DEF Tick, InvalidationInv, FillsExcused, LoopCovers, InvalidationCovers,
                Inserting, Covered, Excused

LEMMA CrashInvalidation ==
    ASSUME InvalidationInv, Crash
    PROVE  InvalidationInv'
  <1>1. UNCHANGED cache /\ \A r \in Requests : req'[r] = req[r] \/ req'[r].pc = "lost"
    BY DEF Crash, Lost
  <1> QED
    BY <1>1 DEF InvalidationInv, FillsExcused, LoopCovers, InvalidationCovers,
                Inserting, Covered, Excused

LEMMA InvalidationNext ==
    ASSUME TypeOK, InvalidationInv, [Next]_vars
    PROVE  InvalidationInv'
  <1>1. ASSUME NEW r \in Requests, NEW q \in Queries, FindBooks(r, q)
        PROVE  InvalidationInv'
    BY <1>1, QuietStepInvalidation DEF FindBooks, Failed, Listed, Reading
  <1>2. ASSUME NEW r \in Requests, NEW id \in PathIds, FindBook(r, id)
        PROVE  InvalidationInv'
    BY <1>2, QuietStepInvalidation DEF FindBook, Found, NotFound
  <1>3. ASSUME NEW r \in Requests, NEW id \in PathIds, NEW p \in Patches, UpdateBook(r, id, p)
        PROVE  InvalidationInv'
    BY <1>3, QuietStepInvalidation DEF UpdateBook, Failed, NotFound, Updating
  <1>4. ASSUME NEW r \in Requests, NEW id \in PathIds, DeleteBook(r, id)
        PROVE  InvalidationInv'
    BY <1>4, QuietStepInvalidation DEF DeleteBook, NotFound, Removing
  <1>5. ASSUME NEW r \in Requests, UpdateBookUpdates(r) \/ DeleteBookDelete(r)
        PROVE  InvalidationInv'
    BY <1>5, QuietStepInvalidation DEF UpdateBookUpdates, DeleteBookDelete, Updated, Deleted
  <1>6. CASE UNCHANGED vars
    BY <1>6 DEF vars, InvalidationInv, FillsExcused, LoopCovers, InvalidationCovers,
                Inserting, Covered, Excused
  <1> QED
    BY <1>1, <1>2, <1>3, <1>4, <1>5, <1>6, CreateBookInvalidation,
       FindBooksQueryInvalidation, FindBooksSetInvalidation, CreateBookKeysInvalidation,
       CreateBookDelInvalidation, TickInvalidation, CrashInvalidation
    DEF Next, Start, Continue

(* Whatever the requests and however they interleave, a POST /books whose   *)
(* calls to Redis all succeeded leaves no older page behind but those that  *)
(* were being stored when its book was inserted.                            *)
THEOREM Invalidation == Spec => []InvalidationCovers
  <1>1. Init => InvalidationInv
    BY DEF Init, Idle, InvalidationInv, FillsExcused, LoopCovers, InvalidationCovers, Inserting
  <1>2. TypeOK /\ InvalidationInv /\ [Next]_vars => InvalidationInv'
    BY InvalidationNext
  <1>3. InvalidationInv => InvalidationCovers
    BY DEF InvalidationInv
  <1> QED
    BY <1>1, <1>2, <1>3, TypeCorrect, PTL DEF Spec

-------------------------------------------------------------------------------
(* The pages served *)

(* The past of the table is never written again. *)
LEMMA HistoryGrows ==
    ASSUME TypeOK, [Next]_vars
    PROVE  \A v \in 1 .. Version : history'[v] = history[v]
  <1>1. history' = history \/ \E t : history' = Append(history, t)
    BY DEF Next, Start, Continue, FindBooks, FindBooksQuery, FindBooksSet, CreateBook,
           CreateBookKeys, CreateBookDel, FindBook, UpdateBook, UpdateBookUpdates,
           DeleteBook, DeleteBookDelete, Tick, Crash, Commit, vars
  <1>2. history \in Seq(Tables(nextId))
    BY DEF TypeOK
  <1> QED
    BY <1>1, <1>2 DEF Version

(* A page enters Redis from a request that was to store it, under the key   *)
(* of that request's query.                                                 *)
LEMMA CachedPagesMove ==
    ASSUME TypeOK, [Next]_vars, NEW k \in DOMAIN cache'
    PROVE  \/ /\ k \in DOMAIN cache
              /\ cache'[k].page = cache[k].page /\ cache'[k].ver = cache[k].ver
           \/ \E r \in Requests :
                 /\ req[r].pc = "set" /\ req[r].query = k
                 /\ cache'[k].page = req[r].page /\ cache'[k].ver = req[r].ver
  <1>1. CASE UNCHANGED cache
    BY <1>1
  <1>2. ASSUME NEW r \in Requests, FindBooksSet(r), cache' = Stored(r)
        PROVE  \/ k \in DOMAIN cache /\ cache'[k] = cache[k]
               \/ /\ req[r].pc = "set" /\ req[r].query = k
                  /\ cache'[k].page = req[r].page /\ cache'[k].ver = req[r].ver
    BY <1>2 DEF FindBooksSet, Stored, CacheKey
  <1>3. ASSUME NEW r \in Requests, CreateBookDel(r), cache' # cache
        PROVE  k \in DOMAIN cache /\ cache'[k] = cache[k]
    BY <1>3 DEF CreateBookDel, Restrict
  <1>4. CASE Tick
    <2>1. k \in DOMAIN cache /\ cache[k] \in Entry(nextId, Version)
      BY <1>4 DEF Tick, TypeOK
    <2>2. cache'[k] \in {cache[k], [cache[k] EXCEPT !.ttl = @ - 1]}
      BY <1>4 DEF Tick
    <2> QED
      BY <2>1, <2>2 DEF Entry
  <1>5. \/ UNCHANGED cache \/ Tick
        \/ \E r \in Requests : \/ FindBooksSet(r) /\ cache' = Stored(r)
                               \/ CreateBookDel(r) /\ cache' # cache
    BY DEF Next, Start, Continue, FindBooks, FindBooksQuery, FindBooksSet, CreateBook,
           CreateBookKeys, CreateBookDel, FindBook, UpdateBook, UpdateBookUpdates,
           DeleteBook, DeleteBookDelete, Crash, vars
  <1> QED
    BY <1>1, <1>2, <1>3, <1>4, <1>5

(* A snapshot stays one: it is judged against a table of the past. *)
LEMMA SnapshotsStay ==
    ASSUME TypeOK, [Next]_vars, NEW p, NEW v \in 1 .. Version, NEW q, IsSnapshot(p, v, q)
    PROVE  p \in Selected(history'[v], q)
  BY HistoryGrows DEF IsSnapshot

(* A handler's step gives its own request a state, and no other. *)
LEMMA StepsMoveOneRequest ==
    ASSUME NEW r \in Requests, Start(r) \/ Continue(r)
    PROVE  \E s : Becomes(r, s)
  <1>1. ASSUME CreateBookKeys(r) \/ CreateBookDel(r)
        PROVE  \E s : Becomes(r, s)
    BY <1>1 DEF CreateBookKeys, CreateBookDel, DeleteNext
  <1>2. ASSUME Start(r)
        PROVE  \E s : Becomes(r, s)
    BY <1>2 DEF Start, FindBooks, CreateBook, FindBook, UpdateBook, DeleteBook
  <1>3. ASSUME FindBooksQuery(r) \/ FindBooksSet(r) \/ UpdateBookUpdates(r) \/ DeleteBookDelete(r)
        PROVE  \E s : Becomes(r, s)
    BY <1>3 DEF FindBooksQuery, FindBooksSet, UpdateBookUpdates, DeleteBookDelete
  <1> QED
    BY <1>1, <1>2, <1>3 DEF Continue

(* No handler but FindBooks holds or answers a page of the catalogue. *)
LEMMA OtherStepsReadNoPage ==
    ASSUME NEW r \in Requests,
           \/ \E b \in NewBooks : CreateBook(r, b)
           \/ \E id \in PathIds : \/ FindBook(r, id) \/ DeleteBook(r, id)
                                  \/ \E p \in Patches : UpdateBook(r, id, p)
           \/ CreateBookKeys(r) \/ CreateBookDel(r)
           \/ UpdateBookUpdates(r) \/ DeleteBookDelete(r)
    PROVE  \E s : Becomes(r, s) /\ s.pc \notin {"query", "set", "listed"}
  <1>1. ASSUME CreateBookKeys(r) \/ CreateBookDel(r)
        PROVE  \E s : Becomes(r, s) /\ s.pc \notin {"query", "set", "listed"}
    <2>1. PICK keys, clean : DeleteNext(r, keys, clean)
      BY <1>1 DEF CreateBookKeys, CreateBookDel
    <2>2. Created(req[r], clean).pc = "created" /\ Deleting(req[r], keys, clean).pc = "del"
      BY DEF Created, Deleting
    <2> QED
      BY <2>1, <2>2 DEF DeleteNext
  <1>2. ASSUME NEW b \in NewBooks, CreateBook(r, b)
        PROVE  \E s : Becomes(r, s) /\ s.pc \notin {"query", "set", "listed"}
    BY <1>2 DEF CreateBook, Failed, Listing
  <1>3. ASSUME NEW id \in PathIds
        PROVE  /\ Found(id, table[id]).pc = "found" /\ NotFound(id).pc = "notfound"
               /\ Removing(id).pc = "delete" /\ Failed(400).pc = "failed"
               /\ \A p \in Patches : Updating(id, table[id], p).pc = "update"
    BY DEF Found, NotFound, Failed, Removing, Updating
  <1>4. ASSUME NEW id \in PathIds, FindBook(r, id) \/ DeleteBook(r, id)
        PROVE  \E s : Becomes(r, s) /\ s.pc \notin {"query", "set", "listed"}
    BY <1>3, <1>4 DEF FindBook, DeleteBook
  <1>5. ASSUME NEW id \in PathIds, NEW p \in Patches, UpdateBook(r, id, p)
        PROVE  \E s : Becomes(r, s) /\ s.pc \notin {"query", "set", "listed"}
    BY <1>3, <1>5 DEF UpdateBook
  <1>6. ASSUME UpdateBookUpdates(r) \/ DeleteBookDelete(r)
        PROVE  \E s : Becomes(r, s) /\ s.pc \notin {"query", "set", "listed"}
    BY <1>6 DEF UpdateBookUpdates, DeleteBookDelete, Updated, Deleted
  <1> QED
    BY <1>1, <1>2, <1>4, <1>5, <1>6

LEMMA SnapshotsNext ==
    ASSUME TypeOK, ServedPagesAreSnapshots, [Next]_vars
    PROVE  ServedPagesAreSnapshots'
  <1>1. /\ nextId \in Nat /\ Version \in Nat \ {0}
        /\ \A k \in DOMAIN cache : cache[k].ver \in 1 .. Version
    BY DEF TypeOK, Version, Entry
  <1>2. \A r \in Requests : req[r].pc \in {"set", "listed"} => req[r].ver \in 1 .. Version
    BY <1>1, ReqStateByPc DEF TypeOK
  <1>3. ASSUME NEW k \in DOMAIN cache'
        PROVE  cache'[k].page \in Selected(history'[cache'[k].ver], k)
    <2>1. CASE /\ k \in DOMAIN cache
               /\ cache'[k].page = cache[k].page /\ cache'[k].ver = cache[k].ver
      <3>1. IsSnapshot(cache[k].page, cache[k].ver, k)
        BY <2>1 DEF ServedPagesAreSnapshots
      <3> QED
        BY <1>1, <2>1, <3>1, SnapshotsStay
    <2>2. ASSUME NEW r \in Requests, req[r].pc = "set", req[r].query = k,
                 cache'[k].page = req[r].page, cache'[k].ver = req[r].ver
          PROVE  cache'[k].page \in Selected(history'[cache'[k].ver], k)
      <3>1. IsSnapshot(req[r].page, req[r].ver, k)
        BY <2>2 DEF ServedPagesAreSnapshots
      <3> QED
        BY <1>2, <2>2, <3>1, SnapshotsStay
    <2> QED
      BY <1>3, <2>1, <2>2, CachedPagesMove
  <1>4. ASSUME NEW r \in Requests, req'[r].pc \in {"set", "listed"}
        PROVE  req'[r].page \in Selected(history'[req'[r].ver], req'[r].query)
    <2>1. CASE /\ req[r].pc \in {"set", "listed"} /\ req'[r].query = req[r].query
               /\ req'[r].page = req[r].page /\ req'[r].ver = req[r].ver
      <3>1. IsSnapshot(req[r].page, req[r].ver, req[r].query)
        BY <2>1 DEF ServedPagesAreSnapshots
      <3> QED
        BY <1>2, <2>1, <3>1, SnapshotsStay
    <2>2. ASSUME NEW q \in Queries, FindBooks(r, q)
          PROVE  req'[r].page \in Selected(history'[req'[r].ver], req'[r].query)
      <3>1. PICK s : Becomes(r, s) /\ \/ s = Failed(400) \/ s = Reading(q)
                                      \/ /\ q \in DOMAIN cache
                                         /\ s = Listed(q, cache[q].page, cache[q].ver)
        BY <2>2 DEF FindBooks, CacheKey
      <3>2. req'[r] = s
        BY <3>1, OthersStay
      <3>3. q \in DOMAIN cache /\ req'[r].query = q
            /\ req'[r].page = cache[q].page /\ req'[r].ver = cache[q].ver
        <4>1. s.pc \in {"set", "listed"}
          BY <1>4, <3>2
        <4>2. s # Failed(400) /\ s # Reading(q)
          BY <4>1 DEF Failed, Reading
        <4> QED
          BY <3>1, <3>2, <4>2 DEF Listed
      <3>4. IsSnapshot(cache[q].page, cache[q].ver, q)
        BY <3>3 DEF ServedPagesAreSnapshots
      <3> QED
        BY <1>1, <3>3, <3>4, SnapshotsStay
    <2>3. ASSUME FindBooksQuery(r)
          PROVE  req'[r].page \in Selected(history'[req'[r].ver], req'[r].query)
      <3>1. PICK p \in Selected(table, req[r].query) :
                Becomes(r, Storing(req[r].query, p, Version))
        BY <2>3 DEF FindBooksQuery
      <3>2. req'[r] = Storing(req[r].query, p, Version)
        BY <3>1, OthersStay
      <3>3. history'[Version] = table
        BY <2>3 DEF FindBooksQuery, TypeOK
      <3> QED
        BY <3>1, <3>2, <3>3 DEF Storing
    <2>4. \/ FindBooksQuery(r) \/ \E q \in Queries : FindBooks(r, q)
          \/ /\ req[r].pc \in {"set", "listed"} /\ req'[r].query = req[r].query
             /\ req'[r].page = req[r].page /\ req'[r].ver = req[r].ver
      <3>1. CASE req'[r] = req[r]
        BY <1>4, <3>1
      <3>2. CASE Crash \/ Tick \/ UNCHANGED vars
        BY <1>4, <3>1, <3>2 DEF Crash, Tick, vars, TypeOK, Lost
      <3>3. ASSUME NEW x \in Requests, Start(x) \/ Continue(x), x # r
            PROVE  req'[r] = req[r]
        <4>1. \E s : Becomes(x, s)
          BY <3>3, StepsMoveOneRequest
        <4> QED
          BY <3>3, <4>1, OthersStay
      <3>4. ASSUME FindBooksSet(r)
            PROVE  /\ req[r].pc \in {"set", "listed"} /\ req'[r].query = req[r].query
                   /\ req'[r].page = req[r].page /\ req'[r].ver = req[r].ver
        <4>1. \/ Becomes(r, Listed(req[r].query, req[r].page, req[r].ver))
              \/ Becomes(r, Failed(500))
          BY <3>4 DEF FindBooksSet
        <4> QED
          BY <1>4, <3>4, <4>1, OthersStay DEF FindBooksSet, Listed, Failed
      <3>5. ASSUME Start(r) \/ Continue(r), ~FindBooksQuery(r), ~FindBooksSet(r),
                   ~\E q \in Queries : FindBooks(r, q)
            PROVE  FALSE
        <4>1. \E s : Becomes(r, s) /\ s.pc \notin {"set", "listed"}
          BY <3>5, OtherStepsReadNoPage DEF Start, Continue
        <4> QED
          BY <1>4, <4>1, OthersStay
      <3> QED
        BY <3>1, <3>2, <3>3, <3>4, <3>5 DEF Next
    <2> QED
      BY <2>1, <2>2, <2>3, <2>4
  <1> QED
    BY <1>3, <1>4 DEF ServedPagesAreSnapshots, IsSnapshot

(* Every page in Redis and in an answer is a page of its own query, read    *)
(* from the table as it stood at one moment.                                *)
THEOREM Snapshots == Spec => []ServedPagesAreSnapshots
  <1>1. Init => ServedPagesAreSnapshots
    BY DEF Init, Idle, ServedPagesAreSnapshots
  <1>2. TypeOK /\ ServedPagesAreSnapshots /\ [Next]_vars => ServedPagesAreSnapshots'
    BY SnapshotsNext
  <1> QED
    BY <1>1, <1>2, TypeCorrect, PTL DEF Spec

-------------------------------------------------------------------------------
(* The rows, and the handlers that race on them *)

(* A step leaves the table alone, inserts one row under a new id, or does   *)
(* what an update or a delete on its way was to do.                         *)
LEMMA TableSteps ==
    ASSUME TypeOK, [Next]_vars
    PROVE  \/ table' = table
           \/ \E b \in Book : Bound(b) /\ table' = Inserted(table, nextId, b)
           \/ \E r \in Requests : /\ req[r].pc = "update"
                                  /\ table' = TableAfterUpdate(r)
           \/ \E r \in Requests : /\ req[r].pc = "delete"
                                  /\ table' = Removed(table, req[r].id)
  <1>1. ASSUME NEW r \in Requests, NEW b \in NewBooks, CreateBook(r, b)
        PROVE  \/ table' = table
               \/ \E x \in Book : Bound(x) /\ table' = Inserted(table, nextId, x)
    <2>1. Bound(b) => b \in Book
      BY RepositoryAssumption DEF Bound, Body
    <2> QED
      BY <1>1, <2>1 DEF CreateBook, Commit
  <1>2. ASSUME NEW r \in Requests, UpdateBookUpdates(r)
        PROVE  \/ table' = table
               \/ req[r].pc = "update" /\ table' = TableAfterUpdate(r)
    BY <1>2 DEF UpdateBookUpdates, Commit
  <1>3. ASSUME NEW r \in Requests, DeleteBookDelete(r)
        PROVE  \/ table' = table
               \/ req[r].pc = "delete" /\ table' = Removed(table, req[r].id)
    BY <1>3 DEF DeleteBookDelete, Commit
  <1>4. ASSUME NEW r \in Requests, Start(r) \/ Continue(r),
               ~\E b \in NewBooks : CreateBook(r, b),
               ~UpdateBookUpdates(r), ~DeleteBookDelete(r)
        PROVE  table' = table
    BY <1>4 DEF Start, Continue, FindBooks, FindBook, UpdateBook, DeleteBook,
                FindBooksQuery, FindBooksSet, CreateBookKeys, CreateBookDel
  <1>5. CASE Tick \/ Crash \/ UNCHANGED vars
    BY <1>5 DEF Tick, Crash, vars
  <1> QED
    BY <1>1, <1>2, <1>3, <1>4, <1>5 DEF Next

(* The id of an update or a delete on its way was given out, and ids above  *)
(* the sequence were not.                                                   *)
LEMMA IdsAreGiven ==
    ASSUME TypeOK
    PROVE  /\ nextId \in Nat \ {0}
           /\ DOMAIN table \subseteq 1 .. nextId - 1
           /\ nextId \notin DOMAIN table
           /\ \A r \in Requests : req[r].pc \in {"update", "delete", "deleted"} =>
                 req[r].id \in 1 .. nextId - 1
  <1>1. nextId \in Nat \ {0} /\ Version \in Nat
    BY DEF TypeOK, Version
  <1>2. DOMAIN table \subseteq 1 .. nextId - 1
    BY <1>1, TablesCharacterized DEF TypeOK
  <1> QED
    BY <1>1, <1>2, ReqStateByPc DEF TypeOK

-------------------------------------------------------------------------------
LEMMA ResurrectionStep ==
    ASSUME TypeOK, [Next]_vars, NEW id \in 1 .. nextId - 1, id \notin DOMAIN table
    PROVE  id \notin DOMAIN table'
  <1>1. ASSUME NEW b \in Book, table' = Inserted(table, nextId, b)
        PROVE  id \notin DOMAIN table'
    BY <1>1, IdsAreGiven DEF Inserted
  <1>2. ASSUME NEW r \in Requests, table' = TableAfterUpdate(r)
        PROVE  id \notin DOMAIN table'
    BY <1>2 DEF TableAfterUpdate
  <1>3. ASSUME NEW r \in Requests, table' = Removed(table, req[r].id)
        PROVE  id \notin DOMAIN table'
    BY <1>3 DEF Removed, Restrict
  <1> QED
    BY <1>1, <1>2, <1>3, TableSteps

(* No update that was on its way brings a deleted row back, and no id is    *)
(* given out twice, Postgres failing or not.                                *)
THEOREM Resurrection == Spec => NoResurrection
  <1>1. TypeOK /\ [Next]_vars =>
          [\A id \in 1 .. nextId - 1 : id \notin DOMAIN table => id \notin DOMAIN table']_vars
    BY ResurrectionStep
  <1> QED
    BY <1>1, TypeCorrect, PTL DEF Spec, NoResurrection

-------------------------------------------------------------------------------
LEMMA FieldsStep ==
    ASSUME TypeOK, [Next]_vars,
           NEW id \in DOMAIN table \cap DOMAIN table', NEW f \in {"title", "author"},
           table'[id][f] # table[id][f]
    PROVE  \E r \in Requests : /\ req[r].pc = "update"
                               /\ req[r].id = id
                               /\ req[r].patch[f] = table'[id][f]
  <1>1. table' # table
    OBVIOUS
  <1>2. ASSUME NEW b \in Book, table' = Inserted(table, nextId, b)
        PROVE  FALSE
    BY <1>2, IdsAreGiven DEF Inserted
  <1>3. ASSUME NEW r \in Requests, table' = Removed(table, req[r].id)
        PROVE  FALSE
    BY <1>3 DEF Removed, Restrict
  <1>4. PICK r \in Requests : req[r].pc = "update" /\ table' = TableAfterUpdate(r)
    BY <1>1, <1>2, <1>3, TableSteps
  <1>5. req[r].id = id /\ table'[id] = UpdatedRow(r)
    BY <1>1, <1>4 DEF TableAfterUpdate
  <1>6. table'[id] = Merge(table[id], req[r].patch)
    BY <1>5 DEF UpdatedRow
  <1>7. req[r].patch[f] = table'[id][f]
    BY <1>6 DEF Merge
  <1> QED
    BY <1>4, <1>5, <1>7

(* Updates that race on a row write the fields they name and no others.     *)
THEOREM NoLostUpdate == Spec => FieldsChangeOnlyByPatch
  <1>1. TypeOK /\ [Next]_vars =>
          [\A id \in DOMAIN table \cap DOMAIN table', f \in {"title", "author"} :
              table'[id][f] # table[id][f] =>
                 \E r \in Requests : /\ req[r].pc = "update"
                                     /\ req[r].id = id
                                     /\ req[r].patch[f] = table'[id][f]]_vars
    BY FieldsStep
  <1> QED
    BY <1>1, TypeCorrect, PTL DEF Spec, FieldsChangeOnlyByPatch

-------------------------------------------------------------------------------
(* A row is complete when neither of its fields is blank, which is what the *)
(* binding asks of a new book.                                              *)
LEMMA CompleteRows ==
    ASSUME NEW row \in Book
    PROVE  Complete(row) <=> row.title # Blank /\ row.author # Blank
  <1>1. Doc!Paths["CreateBook"] = Doc!CreateBook
    BY DEF Doc!Paths
  <1>2. Doc!CreateBook.body = "CreateBook"
    BY DEF Doc!CreateBook, Doc!Operation
  <1>3. Doc!Required["CreateBook"] = {"title", "author"}
    BY DEF Doc!Required
  <1> QED
    BY <1>1, <1>2, <1>3 DEF Complete, Book

(* What an update leaves blank in its patch it leaves as it was in the row. *)
LEMMA MergeKeepsComplete ==
    ASSUME NEW row \in Book, NEW patch \in Body, Complete(row)
    PROVE  Complete(Merge(row, patch))
  <1>1. Merge(row, patch) \in Book
    BY MergeIsBook
  <1> QED
    BY <1>1, CompleteRows DEF Merge

LEMMA CompleteStep ==
    ASSUME TypeOK, [Next]_vars, NEW id \in DOMAIN table'
    PROVE  Complete(table'[id]) \/ (id \in DOMAIN table /\ ~Complete(table[id]))
  <1>1. ASSUME NEW i \in DOMAIN table
        PROVE  table[i] \in Book
    BY <1>1, TablesCharacterized DEF TypeOK
  <1>2. CASE id \in DOMAIN table /\ table'[id] = table[id]
    BY <1>2
  <1>3. ASSUME NEW b \in Book, Bound(b), table' = Inserted(table, nextId, b)
        PROVE  Complete(table'[id]) \/ (id \in DOMAIN table /\ table'[id] = table[id])
    BY <1>3, CompleteRows DEF Inserted, Bound
  <1>4. ASSUME NEW r \in Requests, req[r].pc = "update", table' = TableAfterUpdate(r)
        PROVE  Complete(table'[id]) \/ (id \in DOMAIN table /\ ~Complete(table[id]))
    <2>1. id \in DOMAIN table
      BY <1>4 DEF TableAfterUpdate
    <2>2. CASE table'[id] = table[id]
      BY <2>1, <2>2
    <2>3. CASE table'[id] # table[id]
      <3>1. table'[id] = Merge(table[id], req[r].patch)
        BY <1>4, <2>1, <2>3 DEF TableAfterUpdate, UpdatedRow
      <3>2. req[r].patch \in Body
        BY <1>4, ReqStateByPc DEF TypeOK, Version
      <3> QED
        BY <1>1, <2>1, <3>1, <3>2, MergeKeepsComplete
    <2> QED
      BY <2>2, <2>3
  <1>5. ASSUME NEW r \in Requests, table' = Removed(table, req[r].id)
        PROVE  id \in DOMAIN table /\ table'[id] = table[id]
    BY <1>5 DEF Removed, Restrict
  <1> QED
    BY <1>2, <1>3, <1>4, <1>5, TableSteps

(* No row loses a field: the bodies PUT takes may leave any of them blank.  *)
THEOREM Completeness == Spec => RowsStayComplete
  <1>1. TypeOK /\ [Next]_vars =>
          [\A id \in DOMAIN table' :
              Complete(table'[id]) \/ (id \in DOMAIN table /\ ~Complete(table[id]))]_vars
    BY CompleteStep
  <1> QED
    BY <1>1, TypeCorrect, PTL DEF Spec, RowsStayComplete

-------------------------------------------------------------------------------
(* Only DeleteBookDelete answers that a book is deleted. *)
LEMMA DeletedBy ==
    ASSUME TypeOK, [Next]_vars, NEW r \in Requests,
           req'[r].pc = "deleted", req'[r] # req[r]
    PROVE  DeleteBookDelete(r)
  <1>1. CASE Tick \/ Crash \/ UNCHANGED vars
    BY <1>1 DEF Tick, Crash, vars, InFlight, Idle, Lost
  <1>2. ASSUME NEW q \in Requests, NEW new, Becomes(q, new), new.pc # "deleted"
        PROVE  FALSE
    BY <1>2 DEF Becomes, TypeOK
  <1>3. ASSUME NEW q \in Requests, NEW query \in Queries, FindBooks(q, query)
        PROVE  FALSE
    BY <1>2, <1>3 DEF FindBooks, Failed, Listed, Reading
  <1>4. ASSUME NEW q \in Requests, NEW b \in NewBooks, CreateBook(q, b)
        PROVE  FALSE
    BY <1>2, <1>4 DEF CreateBook, Failed, Listing
  <1>5. ASSUME NEW q \in Requests, NEW id \in PathIds,
               \/ FindBook(q, id) \/ DeleteBook(q, id)
               \/ \E p \in Patches : UpdateBook(q, id, p)
        PROVE  FALSE
    BY <1>2, <1>5 DEF FindBook, UpdateBook, DeleteBook,
                      Found, NotFound, Failed, Updating, Removing
  <1>6. ASSUME NEW q \in Requests, FindBooksQuery(q) \/ FindBooksSet(q)
        PROVE  FALSE
    BY <1>2, <1>6 DEF FindBooksQuery, FindBooksSet, Storing, Listed, Failed
  <1>7. ASSUME NEW q \in Requests, CreateBookKeys(q) \/ CreateBookDel(q)
        PROVE  FALSE
    BY <1>2, <1>7 DEF CreateBookKeys, CreateBookDel, DeleteNext, Created, Deleting
  <1>8. ASSUME NEW q \in Requests, UpdateBookUpdates(q)
        PROVE  FALSE
    BY <1>2, <1>8 DEF UpdateBookUpdates, Updated
  <1>9. ASSUME NEW q \in Requests, DeleteBookDelete(q)
        PROVE  DeleteBookDelete(r)
    BY <1>9 DEF DeleteBookDelete, Becomes, TypeOK
  <1> QED
    BY <1>1, <1>3, <1>4, <1>5, <1>6, <1>7, <1>8, <1>9 DEF Next, Start, Continue

LEMMA DeletedStep ==
    ASSUME ~DBFaults, TypeOK, DeletedStaysDeleted, [Next]_vars
    PROVE  DeletedStaysDeleted'
  <1> SUFFICES ASSUME NEW r \in Requests, req'[r].pc = "deleted"
               PROVE  req'[r].id \notin DOMAIN table'
    BY DEF DeletedStaysDeleted
  <1>1. CASE req'[r] = req[r]
    BY <1>1, IdsAreGiven, ResurrectionStep DEF DeletedStaysDeleted
  <1>2. CASE req'[r] # req[r]
    <2>1. DeleteBookDelete(r)
      BY <1>2, DeletedBy
    <2> QED
      BY <2>1 DEF DeleteBookDelete, TypeOK, Becomes, Deleted, Commit, Removed, Restrict
  <1> QED
    BY <1>1, <1>2

(* As long as Postgres does not fail, a DELETE answered 204 has deleted the *)
(* book for good, for any number of requests on it.                         *)
THEOREM DeletionIsFinal ==
    ASSUME ~DBFaults
    PROVE  Spec => []DeletedStaysDeleted
  <1>1. Init => DeletedStaysDeleted
    BY DEF Init, DeletedStaysDeleted, Idle
  <1>2. TypeOK /\ DeletedStaysDeleted /\ [Next]_vars => DeletedStaysDeleted'
    BY DeletedStep
  <1> QED
    BY <1>1, <1>2, TypeCorrect, PTL DEF Spec

-------------------------------------------------------------------------------
(* The calls of a handler *)

(* Redis never holds more than finitely many pages, nor has an invalidation *)
(* more than finitely many keys to delete, however many queries there are.  *)
FinitelyMany ==
    /\ IsFiniteSet(DOMAIN cache)
    /\ \A r \in Requests : req[r].pc = "del" => IsFiniteSet(req[r].keys)

(* Pages come into Redis one at a time. *)
LEMMA CacheStaysFinite ==
    ASSUME TypeOK, FinitelyMany, [Next]_vars
    PROVE  IsFiniteSet(DOMAIN cache')
  <1>1. ASSUME NEW S, S \subseteq DOMAIN cache
        PROVE  IsFiniteSet(S)
    BY <1>1, FS_Subset DEF FinitelyMany
  <1>2. ASSUME NEW r \in Requests, FindBooksSet(r)
        PROVE  IsFiniteSet(DOMAIN cache')
    <2>1. cache' = cache \/ DOMAIN cache' = DOMAIN cache \cup {req[r].query}
      BY <1>2 DEF FindBooksSet, Stored, CacheKey
    <2>2. IsFiniteSet(DOMAIN cache \cup {req[r].query})
      BY FS_AddElement DEF FinitelyMany
    <2> QED
      BY <1>1, <2>1, <2>2
  <1>3. ASSUME NEW r \in Requests, CreateBookDel(r)
        PROVE  IsFiniteSet(DOMAIN cache')
    <2>1. DOMAIN cache' \subseteq DOMAIN cache
      BY <1>3 DEF CreateBookDel, Restrict
    <2> QED
      BY <1>1, <2>1
  <1>4. CASE Tick
    <2>1. DOMAIN cache' \subseteq DOMAIN cache
      BY <1>4 DEF Tick
    <2> QED
      BY <1>1, <2>1
  <1>5. \/ UNCHANGED cache \/ Tick
        \/ \E r \in Requests : FindBooksSet(r) \/ CreateBookDel(r)
    BY DEF Next, Start, Continue, FindBooks, FindBooksQuery, CreateBook,
           CreateBookKeys, FindBook, UpdateBook, UpdateBookUpdates,
           DeleteBook, DeleteBookDelete, Crash, vars
  <1> QED
    BY <1>1, <1>2, <1>3, <1>4, <1>5

(* A request is idle until its handler starts, and then neither stores a    *)
(* page nor deletes one before it has waited for a call.                    *)
LEMMA HandlersStart ==
    ASSUME TypeOK, NEW r \in Requests, Start(r)
    PROVE  req[r].pc = "idle" /\ req'[r].pc \notin {"set", "del"}
  <1>1. ASSUME NEW q \in Queries, FindBooks(r, q)
        PROVE  req[r] = Idle /\ req'[r].pc \notin {"set", "del"}
    <2>1. \E s : Becomes(r, s) /\ s.pc \notin {"set", "del"}
      BY <1>1 DEF FindBooks, Failed, Listed, Reading
    <2> QED
      BY <1>1, <2>1, OthersStay DEF FindBooks
  <1>2. ASSUME NEW b \in NewBooks, CreateBook(r, b)
        PROVE  req[r] = Idle /\ req'[r].pc \notin {"set", "del"}
    <2>1. \E s : Becomes(r, s) /\ s.pc \notin {"set", "del"}
      BY <1>2 DEF CreateBook, Failed, Listing
    <2> QED
      BY <1>2, <2>1, OthersStay DEF CreateBook
  <1>3. ASSUME NEW id \in PathIds, NEW p,
               FindBook(r, id) \/ DeleteBook(r, id) \/ UpdateBook(r, id, p)
        PROVE  req[r] = Idle /\ req'[r].pc \notin {"set", "del"}
    <2>1. req'[r] \in {Found(id, table[id]), NotFound(id), Removing(id), Failed(400),
                       Updating(id, table[id], p)}
      BY <1>3, OthersStay DEF FindBook, DeleteBook, UpdateBook
    <2>2. /\ Found(id, table[id]).pc = "found" /\ NotFound(id).pc = "notfound"
          /\ Removing(id).pc = "delete" /\ Failed(400).pc = "failed"
          /\ Updating(id, table[id], p).pc = "update"
      BY DEF Found, NotFound, Failed, Removing, Updating
    <2> QED
      BY <1>3, <2>1, <2>2 DEF FindBook, DeleteBook, UpdateBook
  <1> QED
    BY <1>1, <1>2, <1>3 DEF Start, Idle

(* The step that a request in the middle of its handler takes. *)
LEMMA CallReturns ==
    ASSUME TypeOK, [Next]_vars, NEW r \in Requests, req'[r] # req[r]
    PROVE  \/ Start(r) \/ Continue(r)
           \/ InFlight(r) /\ req'[r] = Lost
  <1>1. CASE Tick \/ UNCHANGED vars
    BY <1>1 DEF Tick, vars
  <1>2. CASE Crash
    BY <1>2 DEF Crash
  <1>3. ASSUME NEW x \in Requests, Start(x) \/ Continue(x), x # r
        PROVE  FALSE
    <2>1. \E s : Becomes(x, s)
      BY <1>3, StepsMoveOneRequest
    <2> QED
      BY <1>3, <2>1, OthersStay
  <1> QED
    BY <1>1, <1>2, <1>3 DEF Next

(* What a call that returned leaves of a handler's calls. *)
LEMMA CallsStep ==
    ASSUME TypeOK, NEW r \in Requests, Continue(r)
    PROVE  \/ CallsLeft(req'[r]) < CallsLeft(req[r])
           \/ /\ req[r].pc = "del" /\ req'[r].pc = "del"
              /\ \E k \in req[r].keys : req'[r].keys = req[r].keys \ {k}
  <1>1. ASSUME NEW s, Becomes(r, s)
        PROVE  req'[r] = s
    BY <1>1, OthersStay
  <1>2. CASE FindBooksQuery(r)
    <2>1. PICK p : req'[r] = Storing(req[r].query, p, Version)
      BY <1>1, <1>2 DEF FindBooksQuery
    <2> QED
      BY <1>2, <2>1 DEF FindBooksQuery, Storing, CallsLeft
  <1>3. CASE FindBooksSet(r)
    <2>1. req'[r] \in {Listed(req[r].query, req[r].page, req[r].ver), Failed(500)}
      BY <1>1, <1>3 DEF FindBooksSet
    <2>2. CallsLeft(req'[r]) = 0
      BY <2>1 DEF Listed, Failed, CallsLeft
    <2> QED
      BY <1>3, <2>2 DEF FindBooksSet, CallsLeft
  <1>4. ASSUME NEW keys, NEW clean, DeleteNext(r, keys, clean)
        PROVE  \/ CallsLeft(req'[r]) = 0
               \/ req'[r].pc = "del" /\ req'[r].keys = keys /\ CallsLeft(req'[r]) = 1
    <2>1. req'[r] \in {Created(req[r], clean), Deleting(req[r], keys, clean)}
      BY <1>1, <1>4 DEF DeleteNext
    <2>2. /\ CallsLeft(Created(req[r], clean)) = 0
          /\ CallsLeft(Deleting(req[r], keys, clean)) = 1
      BY DEF Created, Deleting, CallsLeft
    <2>3. Deleting(req[r], keys, clean).pc = "del" /\ Deleting(req[r], keys, clean).keys = keys
      BY DEF Deleting
    <2> QED
      BY <2>1, <2>2, <2>3
  <1>5. CASE CreateBookKeys(r)
    <2>1. CallsLeft(req'[r]) \in {0, 1}
      BY <1>4, <1>5 DEF CreateBookKeys
    <2>2. CallsLeft(req[r]) = 2
      BY <1>5 DEF CreateBookKeys, CallsLeft
    <2> QED
      BY <2>1, <2>2
  <1>6. CASE CreateBookDel(r)
    <2>1. PICK k \in req[r].keys : \E clean : DeleteNext(r, req[r].keys \ {k}, clean)
      BY <1>6 DEF CreateBookDel
    <2>2. req[r].pc = "del" /\ CallsLeft(req[r]) = 1
      BY <1>6 DEF CreateBookDel, CallsLeft
    <2> QED
      BY <1>4, <2>1, <2>2
  <1>7. CASE UpdateBookUpdates(r) \/ DeleteBookDelete(r)
    <2>1. req'[r] \in {Updated(req[r].id, RowFromLoaded(r)), Deleted(req[r].id)}
      BY <1>1, <1>7 DEF UpdateBookUpdates, DeleteBookDelete
    <2>2. CallsLeft(req'[r]) = 0
      BY <2>1 DEF Updated, Deleted, CallsLeft
    <2> QED
      BY <1>7, <2>2 DEF UpdateBookUpdates, DeleteBookDelete, CallsLeft
  <1> QED
    BY <1>2, <1>3, <1>5, <1>6, <1>7 DEF Continue

LEMMA FinitelyManyNext ==
    ASSUME TypeOK, FinitelyMany, [Next]_vars
    PROVE  FinitelyMany'
  <1>1. ASSUME NEW r \in Requests, req'[r].pc = "del"
        PROVE  IsFiniteSet(req'[r].keys)
    <2>1. CASE req'[r] = req[r]
      BY <1>1, <2>1 DEF FinitelyMany
    <2>2. CASE CreateBookKeys(r)
      <3>1. PICK clean : DeleteNext(r, DOMAIN cache, clean) \/ DeleteNext(r, {}, clean)
        BY <2>2 DEF CreateBookKeys, Invalidated
      <3>2. req'[r] = Created(req[r], clean) \/ req'[r] = Deleting(req[r], DOMAIN cache, clean)
        BY <3>1, OthersStay DEF DeleteNext
      <3> QED
        BY <1>1, <3>2 DEF Created, Deleting, FinitelyMany
    <2>3. CASE req[r].pc = "del" /\ \E k \in req[r].keys : req'[r].keys = req[r].keys \ {k}
      BY <2>3, FS_RemoveElement DEF FinitelyMany
    <2>4. CASE Continue(r) /\ ~CreateBookKeys(r)
      <3>1. req[r].pc # "keys" /\ CallsLeft(req'[r]) = 1
        BY <1>1, <2>4 DEF Continue, FindBooksQuery, FindBooksSet, CreateBookDel,
                          UpdateBookUpdates, DeleteBookDelete, CallsLeft
      <3>2. CASE req[r].pc = "query"
        <4>1. \E p : req'[r] = Storing(req[r].query, p, Version)
          BY <2>4, <3>2, OthersStay DEF Continue, FindBooksQuery, FindBooksSet, CreateBookDel,
                                        UpdateBookUpdates, DeleteBookDelete
        <4> QED
          BY <1>1, <4>1 DEF Storing
      <3>3. req[r].pc # "query" => CallsLeft(req[r]) \in {0, 1}
        BY <3>1 DEF CallsLeft
      <3> QED
        BY <2>3, <2>4, <3>1, <3>2, <3>3, CallsStep
    <2>5. CASE Start(r)
      BY <1>1, <2>5, HandlersStart
    <2>6. CASE req'[r] = Lost
      BY <1>1, <2>6 DEF Lost
    <2> QED
      BY <2>1, <2>2, <2>4, <2>5, <2>6, CallReturns
  <1> QED
    BY <1>1, CacheStaysFinite DEF FinitelyMany

(* Every call that returns to a handler leaves it fewer calls to make,      *)
(* whatever the other requests do to the cache in the meantime: there are   *)
(* no keys its loop has not counted.                                        *)
THEOREM CallsAreCounted == Spec => CallsRunOut
  <1>1. Init => FinitelyMany
    <2> SUFFICES ASSUME Init PROVE FinitelyMany
      OBVIOUS
    <2>1. DOMAIN cache = {}
      BY DEF Init
    <2> QED
      BY <2>1, FS_EmptySet DEF Init, Idle, FinitelyMany
  <1>2. TypeOK /\ FinitelyMany /\ [Next]_vars => FinitelyMany'
    BY FinitelyManyNext
  <1>3. ASSUME TypeOK, FinitelyMany, [Next]_vars, NEW r \in Requests,
               InFlight(r), req'[r] # req[r]
        PROVE  \/ CallsLeft(req'[r]) < CallsLeft(req[r])
               \/ /\ req[r].pc = "del" /\ req'[r].pc = "del" /\ IsFiniteSet(req[r].keys)
                  /\ Cardinality(req'[r].keys) < Cardinality(req[r].keys)
    <2>1. CASE req'[r] = Lost
      BY <1>3, <2>1 DEF Lost, InFlight, CallsLeft
    <2>2. ~Start(r)
      BY <1>3, HandlersStart DEF InFlight
    <2>3. ASSUME req[r].pc = "del", NEW k \in req[r].keys, req'[r].keys = req[r].keys \ {k}
          PROVE  /\ IsFiniteSet(req[r].keys)
                 /\ Cardinality(req'[r].keys) < Cardinality(req[r].keys)
      <3>1. IsFiniteSet(req[r].keys) /\ Cardinality(req[r].keys) \in Nat
        BY <1>3, <2>3, FS_CardinalityType DEF FinitelyMany
      <3>2. Cardinality(req'[r].keys) = Cardinality(req[r].keys) - 1
        BY <2>3, <3>1, FS_RemoveElement
      <3> QED
        BY <3>1, <3>2
    <2> QED
      BY <1>3, <2>1, <2>2, <2>3, CallReturns, CallsStep
  <1>4. TypeOK /\ FinitelyMany /\ [Next]_vars =>
          [\A r \in Requests : InFlight(r) /\ req'[r] # req[r] =>
             \/ CallsLeft(req'[r]) < CallsLeft(req[r])
             \/ /\ req[r].pc = "del" /\ req'[r].pc = "del" /\ IsFiniteSet(req[r].keys)
                /\ Cardinality(req'[r].keys) < Cardinality(req[r].keys)]_vars
    BY <1>3
  <1> QED
    BY <1>1, <1>2, <1>4, TypeCorrect, PTL DEF Spec, CallsRunOut

-------------------------------------------------------------------------------
(* The pages of old tables *)

(* A page is read from the table as it is now: of the requests that hold a  *)
(* page of an earlier one there are never more.                             *)
LEMMA HoldersShrink ==
    ASSUME TypeOK, [Next]_vars, NEW k \in Queries, NEW v \in 1 .. Version - 1
    PROVE  Holders(k, v)' \subseteq Holders(k, v)
  <1> SUFFICES ASSUME NEW s \in Requests, req'[s].pc = "set",
                      req'[s].ver = v, CacheKey(req'[s].query) = k
               PROVE  s \in Holders(k, v)
    BY DEF Holders, CacheKey
  <1>1. CASE req'[s] = req[s]
    BY <1>1 DEF Holders
  <1>2. ASSUME FindBooksQuery(s)
        PROVE  FALSE
    <2>1. \E p : req'[s] = Storing(req[s].query, p, Version)
      BY <1>2, OthersStay DEF FindBooksQuery
    <2>2. req'[s].ver = Version /\ Version \in Nat
      BY <2>1 DEF Storing, TypeOK, Version
    <2> QED
      BY <2>2
  <1>3. ASSUME FindBooksSet(s)
        PROVE  FALSE
    <2>1. req'[s] \in {Listed(req[s].query, req[s].page, req[s].ver), Failed(500)}
      BY <1>3, OthersStay DEF FindBooksSet
    <2> QED
      BY <2>1 DEF Listed, Failed
  <1>4. ASSUME Continue(s), ~FindBooksQuery(s), ~FindBooksSet(s)
        PROVE  FALSE
    <2>1. \E t : Becomes(s, t) /\ t.pc \notin {"set", "listed"}
      BY <1>4, OtherStepsReadNoPage DEF Continue
    <2> QED
      BY <2>1, OthersStay
  <1>5. ~Start(s)
    BY HandlersStart
  <1>6. req'[s] # Lost
    BY DEF Lost
  <1> QED
    BY <1>1, <1>2, <1>3, <1>4, <1>5, <1>6, CallReturns

LEMMA LifeIsCounted ==
    ASSUME TypeOK, NEW k, NEW v
    PROVE  /\ Life(k, v) \in Nat
           /\ k \in DOMAIN cache => cache[k].ttl \in 1 .. TTL
  BY RepositoryAssumption DEF TypeOK, Entry, Life

(* Time to live is given to a page by the request that was to store it, and *)
(* that holds it no more.                                                   *)
LEMMA LifeIsGivenByHolders ==
    ASSUME TypeOK, [Next]_vars, NEW k \in Queries, NEW v \in 1 .. Version - 1
    PROVE  /\ Life(k, v)' <= Life(k, v) \/ Holders(k, v)' # Holders(k, v)
           /\ Tick => Life(k, v)' < Life(k, v) \/ Life(k, v) = 0
  <1>1. TypeOK'
    BY TypeNext
  <1>2. Life(k, v) \in Nat /\ Life(k, v)' \in Nat
    <2>1. TypeOK => Life(k, v) \in Nat
      BY LifeIsCounted
    <2>2. (k \in DOMAIN cache' => cache'[k].ttl \in 1 .. TTL)
      BY <1>1 DEF TypeOK, Entry
    <2> QED
      BY <2>1, <2>2, RepositoryAssumption DEF Life
  <1>3. ASSUME k \in DOMAIN cache' => k \in DOMAIN cache /\ cache'[k] = cache[k]
        PROVE  Life(k, v)' <= Life(k, v)
    BY <1>2, <1>3 DEF Life
  <1>4. ASSUME NEW r \in Requests, FindBooksSet(r)
        PROVE  Life(k, v)' <= Life(k, v) \/ Holders(k, v)' # Holders(k, v)
    <2>1. CASE k \in DOMAIN cache' => k \in DOMAIN cache /\ cache'[k] = cache[k]
      BY <1>3, <2>1
    <2>2. CASE Life(k, v)' = 0
      BY <1>2, <2>2
    <2>3. CASE k = req[r].query /\ cache' = Stored(r) /\ req[r].ver = v
      <3>1. r \in Holders(k, v)
        BY <1>4, <2>3 DEF FindBooksSet, Holders, CacheKey
      <3>2. req'[r] \in {Listed(req[r].query, req[r].page, req[r].ver), Failed(500)}
        BY <1>4, OthersStay DEF FindBooksSet
      <3>3. req'[r].pc # "set"
        BY <3>2 DEF Listed, Failed
      <3>4. r \notin Holders(k, v)'
        BY <3>3 DEF Holders
      <3> QED
        BY <3>1, <3>4
    <2>4. cache' = cache \/ cache' = Stored(r)
      BY <1>4 DEF FindBooksSet
    <2>5. ASSUME cache' = Stored(r)
          PROVE  \/ k \in DOMAIN cache' => k \in DOMAIN cache /\ cache'[k] = cache[k]
                 \/ k = req[r].query /\ cache'[k].ver = req[r].ver
      BY <2>5 DEF Stored, CacheKey
    <2>6. Life(k, v)' # 0 => cache'[k].ver = v
      BY DEF Life
    <2> QED
      BY <2>1, <2>2, <2>3, <2>4, <2>5, <2>6
  <1>5. ASSUME NEW r \in Requests, CreateBookDel(r)
        PROVE  k \in DOMAIN cache' => k \in DOMAIN cache /\ cache'[k] = cache[k]
    BY <1>5 DEF CreateBookDel, Restrict
  <1>6. ASSUME Tick
        PROVE  Life(k, v)' < Life(k, v) \/ (Life(k, v) = 0 /\ Life(k, v)' = 0)
    <2>1. k \in DOMAIN cache' => k \in DOMAIN cache /\ cache[k].ttl # 1
      BY <1>6 DEF Tick
    <2>2. k \in DOMAIN cache => cache[k].ttl \in 1 .. TTL /\ cache[k] \in Entry(nextId, Version)
      BY LifeIsCounted DEF TypeOK
    <2>3. ASSUME k \in DOMAIN cache'
          PROVE  cache'[k] = [cache[k] EXCEPT !.ttl = @ - 1]
      BY <1>6, <2>1, <2>2, <2>3 DEF Tick, NoExpiration
    <2>4. ASSUME k \in DOMAIN cache'
          PROVE  cache'[k].ver = cache[k].ver /\ cache'[k].ttl = cache[k].ttl - 1
      BY <2>1, <2>2, <2>3, <2>4 DEF Entry
    <2>5. CASE k \in DOMAIN cache'
      BY <2>1, <2>2, <2>4, <2>5, RepositoryAssumption DEF Life
    <2>6. CASE k \notin DOMAIN cache'
      BY <1>2, <2>6 DEF Life
    <2> QED
      BY <2>5, <2>6
  <1>7. \/ UNCHANGED cache \/ Tick
        \/ \E r \in Requests : FindBooksSet(r) \/ CreateBookDel(r)
    BY DEF Next, Start, Continue, FindBooks, FindBooksQuery, CreateBook,
           CreateBookKeys, FindBook, UpdateBook, UpdateBookUpdates,
           DeleteBook, DeleteBookDelete, Crash, vars
  <1> QED
    BY <1>2, <1>3, <1>4, <1>5, <1>6, <1>7

(* What is left of an old table is on its way out, in Redis and with the    *)
(* requests that still hold a page of it, for any number of both.           *)
THEOREM OldPagesAreCounted == Spec => OldPagesRunOut
  <1>1. TypeOK /\ [Next]_vars =>
          [\A k \in Queries, v \in 1 .. Version - 1 :
             /\ Holders(k, v)' \subseteq Holders(k, v)
             /\ Life(k, v)' <= Life(k, v) \/ Holders(k, v)' # Holders(k, v)
             /\ Tick => Life(k, v)' < Life(k, v) \/ Life(k, v) = 0]_vars
    BY HoldersShrink, LifeIsGivenByHolders
  <1> QED
    BY <1>1, TypeCorrect, PTL DEF Spec, OldPagesRunOut

-------------------------------------------------------------------------------
(* The size of a page *)

(* Of a finite set there is a subset of every smaller size. *)
LEMMA SubsetOfSize ==
    ASSUME NEW S, IsFiniteSet(S), NEW n \in 0 .. Cardinality(S)
    PROVE  \E T \in SUBSET S : Cardinality(T) = n
  <1>1. Cardinality(S) \in Nat /\ ExistsBijection(1 .. Cardinality(S), S)
    BY FS_CardinalityType
  <1>2. PICK f \in Bijection(1 .. Cardinality(S), S) : TRUE
    BY <1>1 DEF ExistsBijection
  <1> DEFINE T == {f[i] : i \in 1 .. n}
             g == [i \in 1 .. n |-> f[i]]
  <1>3. 1 .. n \subseteq 1 .. Cardinality(S) /\ f \in [1 .. Cardinality(S) -> S]
    BY <1>1, <1>2 DEF Bijection, Injection, IsInjective
  <1>4. \A i, j \in 1 .. n : f[i] = f[j] => i = j
    BY <1>2, <1>3 DEF Bijection, Injection, IsInjective
  <1>5. g \in Bijection(1 .. n, T)
    BY <1>3, <1>4 DEF Bijection, Injection, Surjection, IsInjective
  <1>6. IsFiniteSet(1 .. n) /\ Cardinality(1 .. n) = n
    BY <1>1, FS_Interval
  <1>7. ExistsBijection(1 .. n, T)
    BY <1>5 DEF ExistsBijection
  <1>8. Cardinality(T) = n
    BY <1>6, <1>7, FS_Bijection
  <1>9. T \in SUBSET S
    BY <1>3
  <1> QED
    BY <1>8, <1>9

(* A query that was accepted has a page of every table, and neither a page  *)
(* nor what is left of one has more rows than its limit.                    *)
LEMMA PagesExist ==
    ASSUME NEW n \in Nat, NEW t \in Tables(n), NEW q \in Query, WellFormed(q)
    PROVE  /\ Pages(t, q) # {}
           /\ \A p \in Pages(t, q) \cup CutPages(t, q) :
                 Atoi[q.limit] >= 0 => Cardinality(DOMAIN p) <= Atoi[q.limit]
  <1> DEFINE size == PageSize(Cardinality(DOMAIN t), Atoi[q.offset], Atoi[q.limit])
  <1>1. DOMAIN t \subseteq 1 .. n - 1
    BY TablesCharacterized
  <1>2. IsFiniteSet(DOMAIN t) /\ Cardinality(DOMAIN t) \in Nat
    <2>1. IsFiniteSet(1 .. n - 1)
      BY FS_Interval
    <2>2. IsFiniteSet(DOMAIN t)
      BY <1>1, <2>1, FS_Subset
    <2> QED
      BY <2>2, FS_CardinalityType
  <1>3. Atoi[q.offset] \in Int /\ Atoi[q.limit] \in Int
    BY ModelsAssumption DEF WellFormed, Query
  <1>4. /\ size \in 0 .. Cardinality(DOMAIN t)
        /\ Atoi[q.limit] >= 0 => size <= Atoi[q.limit]
    BY <1>2, <1>3 DEF PageSize
  <1>5. PICK S \in SUBSET DOMAIN t : Cardinality(S) = size
    BY <1>2, <1>4, SubsetOfSize
  <1>6. Restrict(t, S) \in Pages(t, q)
    BY <1>5 DEF Pages
  <1>7. ASSUME NEW p \in Pages(t, q) \cup CutPages(t, q)
        PROVE  Cardinality(DOMAIN p) \in Nat /\ Cardinality(DOMAIN p) <= size
    <2>1. PICK K \in SUBSET DOMAIN t : p = Restrict(t, K) /\ (Cardinality(K) = size \/ Cardinality(K) < size)
      BY <1>7 DEF Pages, CutPages
    <2>2. DOMAIN p = K
      BY <2>1 DEF Restrict
    <2>3. Cardinality(K) \in Nat
      BY <1>2, FS_Subset, FS_CardinalityType
    <2> QED
      BY <1>2, <1>4, <2>1, <2>2, <2>3
  <1> QED
    BY <1>3, <1>4, <1>6, <1>7

(* No query goes past FindBooks that Atoi did not read. *)
WellAsked ==
    /\ \A k \in DOMAIN cache : WellFormed(k)
    /\ \A r \in Requests : req[r].pc \in {"query", "set", "listed"} => WellFormed(req[r].query)

LEMMA WellAskedNext ==
    ASSUME TypeOK, WellAsked, [Next]_vars
    PROVE  WellAsked'
  <1>1. ASSUME NEW k \in DOMAIN cache'
        PROVE  WellFormed(k)
    BY CachedPagesMove DEF WellAsked
  <1>2. ASSUME NEW r \in Requests, req'[r].pc \in {"query", "set", "listed"}
        PROVE  WellFormed(req'[r].query)
    <2>1. CASE req'[r] = req[r]
      BY <1>2, <2>1 DEF WellAsked
    <2>2. req'[r] # Lost
      BY <1>2 DEF Lost
    <2>3. ASSUME NEW q \in Queries, FindBooks(r, q)
          PROVE  WellFormed(req'[r].query)
      <3>1. PICK s : /\ req'[r] = s
                     /\ \/ s = Failed(400)
                        \/ WellFormed(q) /\ s = Reading(q)
                        \/ WellFormed(q) /\ \E p, v : s = Listed(q, p, v)
        BY <2>3, OthersStay DEF FindBooks
      <3>2. s # Failed(400)
        BY <1>2, <3>1 DEF Failed
      <3> QED
        BY <3>1, <3>2 DEF Reading, Listed
    <2>4. ASSUME FindBooksQuery(r)
          PROVE  WellFormed(req'[r].query)
      <3>1. \E p : req'[r] = Storing(req[r].query, p, Version)
        BY <2>4, OthersStay DEF FindBooksQuery
      <3> QED
        BY <2>4, <3>1 DEF FindBooksQuery, Storing, WellAsked
    <2>5. ASSUME FindBooksSet(r)
          PROVE  WellFormed(req'[r].query)
      <3>1. req'[r] \in {Listed(req[r].query, req[r].page, req[r].ver), Failed(500)}
        BY <2>5, OthersStay DEF FindBooksSet
      <3>2. req'[r].query = req[r].query
        BY <1>2, <3>1 DEF Listed, Failed
      <3> QED
        BY <2>5, <3>2 DEF FindBooksSet, WellAsked
    <2>6. ASSUME Start(r) \/ Continue(r), ~FindBooksQuery(r), ~FindBooksSet(r),
                 ~\E q \in Queries : FindBooks(r, q)
          PROVE  FALSE
      <3>1. \E s : Becomes(r, s) /\ s.pc \notin {"query", "set", "listed"}
        BY <2>6, OtherStepsReadNoPage DEF Start, Continue
      <3> QED
        BY <1>2, <3>1, OthersStay
    <2> QED
      BY <2>1, <2>2, <2>3, <2>4, <2>5, <2>6, CallReturns
  <1> QED
    BY <1>1, <1>2 DEF WellAsked

(* A SELECT always has a page to give, and no client is answered with more  *)
(* rows than the limit it asked for, from Redis or from Postgres.           *)
PagesFit ==
    \A r \in Requests :
        /\ req[r].pc = "query" => Pages(table, req[r].query) # {}
        /\ req[r].pc = "listed" =>
              \/ DBFaults /\ req[r].page = Nil
              \/ Atoi[req[r].query.limit] >= 0 =>
                    Cardinality(DOMAIN req[r].page) <= Atoi[req[r].query.limit]

(* PagesFit holds of every query, table, cache and pattern of failures. *)
THEOREM LimitsAreKept == Spec => []PagesFit
  <1>1. Init => WellAsked
    BY DEF Init, Idle, WellAsked
  <1>2. TypeOK /\ WellAsked /\ [Next]_vars => WellAsked'
    BY WellAskedNext
  <1>3. ASSUME TypeOK, WellAsked, ServedPagesAreSnapshots, NEW r \in Requests
        PROVE  /\ req[r].pc = "query" => Pages(table, req[r].query) # {}
               /\ req[r].pc = "listed" =>
                     \/ DBFaults /\ req[r].page = Nil
                     \/ Atoi[req[r].query.limit] >= 0 =>
                           Cardinality(DOMAIN req[r].page) <= Atoi[req[r].query.limit]
    <2>1. /\ nextId \in Nat /\ Version \in Nat /\ table \in Tables(nextId)
          /\ \A v \in 1 .. Version : history[v] \in Tables(nextId)
      BY <1>3 DEF TypeOK, Version
    <2>2. req[r].pc \in {"query", "set", "listed"} => req[r].query \in Query /\ WellFormed(req[r].query)
      BY <1>3, <2>1, ReqStateByPc DEF TypeOK, WellAsked
    <2>3. req[r].pc = "query" => Pages(table, req[r].query) # {}
      BY <2>1, <2>2, PagesExist
    <2>4. ASSUME req[r].pc = "listed", Atoi[req[r].query.limit] >= 0,
                 req[r].page \in Pages(history[req[r].ver], req[r].query)
                                   \cup CutPages(history[req[r].ver], req[r].query)
          PROVE  Cardinality(DOMAIN req[r].page) <= Atoi[req[r].query.limit]
      <3>1. req[r].ver \in 1 .. Version
        BY <1>3, <2>1, <2>4, ReqStateByPc DEF TypeOK
      <3> QED
        BY <2>1, <2>2, <2>4, <3>1, PagesExist
    <2> QED
      BY <1>3, <2>3, <2>4 DEF ServedPagesAreSnapshots, IsSnapshot, Selected
  <1>4. TypeOK /\ WellAsked /\ ServedPagesAreSnapshots => PagesFit
    BY <1>3 DEF PagesFit
  <1> QED
    BY <1>1, <1>2, <1>4, TypeCorrect, Snapshots, PTL DEF Spec
===============================================================================
