# Verification of beacon-go-server

TLA+ models of the server in `src/`, the TLC runs that check them, and the
theorems TLAPS proves about them. A module name is in `Code`, and `file:line`
is a place in `src/`.

## The system

A REST service in Go on gin: a catalogue of books, accounts, and the middlewares
in front of them. gin serves each request on a goroutine of its own; the code
holds no lock and opens no transaction across two calls, so requests meet in
Postgres, Redis, Mongo and one token bucket.

| Part | State | Operations | Meets |
|---|---|---|---|
| book catalogue, `pkg/api/books.go` | the `books` table, its id sequence | list, create, find, update, delete | Postgres through `database.Database`, Redis through `cache.Cache` |
| listing cache, `pkg/cache/cache.go` | keys `books_offset_*_limit_*`, each with a time to live | GET, SET, KEYS, DEL | filled by FindBooks, emptied by CreateBook and by time |
| accounts, `pkg/api/user.go` | the `users` table | register, log in | bcrypt, `auth.GenerateToken` |
| tokens, `pkg/auth/auth.go`, `pkg/middleware/authenticateJWT.go` | none: a token is what it says | issue, check | the clock; guards `POST /books` |
| rate limiter, `pkg/middleware/rate_limit.go` | one bucket for all clients | AllowN | the clock, read outside the bucket's mutex |
| router, `pkg/api/router.go` | the `gin.Context` of a request | the chain of functions of a route | CORS, API key, limiter, JWT, logger, handlers |
| request log, `pkg/middleware/logger.go` | a Mongo collection | InsertOne, after the handler | holds the answer back until Mongo answered |
| API document, `docs/docs.go` | none: a constant | served under `/swagger` | says what routes, guards and statuses the router has |
| startup, `cmd/server/main.go`, `pkg/database` | none | connect with retries, ping, serve | Postgres, Mongo |

What is hard to get right here, and to test:

* FindBooks fills the cache in three calls (GET, SELECT, SET) and CreateBook
  empties it in one plus one per key (KEYS, DEL ...): any of these may come
  between any others, fail, or be the last before the process dies;
* UpdateBook and DeleteBook load a row and write in a later call, and leave the
  cache alone;
* most errors of Postgres and all errors of the invalidation are ignored;
* the limiter's callers read the clock before they queue for the bucket;
* a token's expiry is cut to whole seconds, and bcrypt takes long between the
  lookup and the token;
* the answer is fixed by the handler, logged by a function that stands before
  the guards, and not written to the wire until the log is done;
* the document and the router are written apart, and a client has only the first.

`PROJECT.json` lists each of these at its line under "hazards", with the
properties that cover it.

## The modules

| Module | Models | Uses |
|---|---|---|
| `BookModels` | bodies, rows, `Merge` (gorm's Updates with a struct), page arithmetic (`Offset(..).Limit(..)`) | |
| `BookCatalogue` | the promise of the catalogue: a table, no cache, one step for a request | `BookModels` |
| `BookRepository` | the catalogue and its cache: one action per call of each handler | `BookModels`, `BookCatalogue`, `ApiDocument` |
| `BookClaims` | what comments of `books.go` say and the code does not do | `BookRepository` |
| `BookRepositoryProofs`, `BookSafetyProofs`, `BookRefinementProofs` | theorems on `BookRepository` | it, `TLAPS` |
| `RateLimiter`, `RateLimiterProofs` | the token bucket, and theorems on it | |
| `Auth` | hashing, token generation and validity | |
| `Accounts` | the promise of the accounts: the key of a password for each name, tokens good until a moment | |
| `UserRepository`, `UserRepositoryProofs` | register, log in, JWTAuth, over a clock, and theorems on them | `Auth`, `Accounts` |
| `ApiDocument` | the operations of the document: security, required members, statuses | |
| `Gateway`, `GatewayProofs` | the chains of the router, aborts, panics, the log, and theorems on them | `ApiDocument` |
| `Server`, `ServerProofs` | the router with the bucket and the accounts in their places, and theorems on it | `Gateway`, `RateLimiter`, `UserRepository` and their proofs |
| `Startup`, `StartupProofs` | main, NewDatabase, SetupMongoDB, and theorems on them | |
| `MC*` | values of the constants for TLC | |

### BookRepository

A handler is cut at each call it makes to Postgres or Redis. `FindBooks` (the
conversions and GET), `FindBooksQuery` (Find), `FindBooksSet` (SET and the
answer); `CreateBook` (binding and INSERT), `CreateBookKeys` (KEYS),
`CreateBookDel` (one DEL); `FindBook`; `UpdateBook` (First and the binding, in
the code's order), `UpdateBookUpdates`; `DeleteBook`, `DeleteBookDelete`. `req[r]`
is a record that holds the local variables the goroutine still needs, and its
`pc` names the next call or the answer. `Tick` is time passing in Redis, `Crash`
the death of the process, after which new requests are served and the old ones
are lost. A failed call is a disjunct under `DBFaults` or `CacheFaults`, and has
the outcomes of one not executed and of one executed whose reply was lost where
the two differ for what follows.

`history` and the fields `ver`, `by`, `overlap` and `clean` are auxiliary: no guard
reads them. They let a property say of which table a page is, who stored it and
who was filling the cache when a book was inserted.

Strings are members of a small set, a JSON body is the record it decodes to or
`Malformed`, a query keeps the spelling of its numbers since that is what the
cache key is made of. FindBooks has no ORDER BY: `Pages` is every choice of as
many rows as OFFSET and LIMIT select. When the SELECT fails, FindBooks goes on
with what is in the slice (`Selected`): nothing when the statement was refused,
and when its rows stopped midway those gorm had scanned (`CutPages`, any choice of
fewer rows), since gorm keeps them and reports the error, which is not looked at.

A SET is one call, with whatever go-redis does in it. Where a reply is lost the
client sends the command again, up to three times, so that a request about to
store a page may give it its time that many times before it is done; the model
has the last of these.

### BookCatalogue

What a client may rely on, with nothing in it of how it is done: it models no
lines of the code, so `map` has none of it. Its variables are the table, the
tables there have been, and what each client can know of its request (`out`). A
request changes the table at most once and before its answer, a refused one not
at all; a listing is a page of one table of the past; what an update is told is a
row there was with the patch on top. Failures of Postgres weaken it where the code
ignores them: a write may be lost and told as done, a listing may be `Nil` or lack
rows of its page.

`BookRepository` instantiates it as `Catalogue`, with `past` taken from `history`
and `out` from `req`: a request that waits for a call is on its way (`Open`), or on
its way with its book inserted, and one that is answered is told what it was
answered. `CatalogueImplemented` is `Catalogue!Spec`.

### RateLimiter

`ReadClock` is `time.Now()`, `AllowN` the code under the mutex of
`golang.org/x/time/rate`: the tokens that time brought up to the burst, one token
taken or none. The bucket counts parts of a token, so that the float arithmetic
of the library is exact here. `spent` and `late` are auxiliary.

### Auth and UserRepository

`RegisterHandler` and `LoginHandler` with their bindings (the first asks for both
fields, the second, which binds `models.User`, for none), bcrypt, the row First
finds (the least id), and the token made after the comparison, when time may have
passed (`LoginToken`).

bcrypt makes 72 bytes of key out of a password, and a hash has no more of it.
`Key` is that function, a constant of which nothing is assumed but its domain:
passwords of one key are the same to the comparison (`Alike`). Only
GenerateFromPassword refuses a password of more than 72 bytes (`TooLong`), so that
a registration with one is a 500 and a login with one is compared by its
beginning.

`JWTAuth` takes tokens that
logins were answered with, or a forged one. `UniqueIndex` is whether the database
holds `users.username` unique, as `models/user.go:12` asks.

### Accounts

What the clients of accounts may rely on, in the place `BookCatalogue` has for
books; it models no lines of the code either. Its variables are the clock, the key
of a password for each name, and what each client was told (`out`). A registration
sets the key of a new name, a login succeeds with a password of that key and with
no other, as the accounts are at one moment before its answer, a token is good
from its login for `Lifetime` and less than a second more. It has no rows or
hashes, no time that bcrypt takes, and no whole seconds. `Fail` may be told to
anyone. A name that is registered again without a unique index is told that it
succeeded and sets nothing, since First finds the older row: that is in the
promise as it is in the code.

`UserRepository` instantiates it as `Promised`: the key of a name is the one in the
hash of the row First finds (`Account`), a client whose login is at bcrypt was
told nothing (`Told`), and a token is good until the last tick of the second its
`exp` is (`Shown`). `AccountsImplemented` is `Promised!Spec`.

### Gateway

A request is its `gin.Context`: which function of its chain runs, the status in
the writer, and whether the Logger waits in its `c.Next()`. A function that
returns without `Abort` lets the chain go on (`Proceed`), an abort returns to the
Logger if it was entered, a panic goes past it to gin's Recovery. A route bears the
name of its handler, as in `ApiDocument`; what arrives has a route, an origin, a
key that compares equal to `API_SECRET_KEY` or not (`api_key.go:13`; where that is
unset, a request without the header has one), and a bearer token or none. The
`username` of a context is only that JWTAuth called `c.Set`: the name it sets is
always empty (ClaimUsernameInClaims). Here the bucket, the goodness of a token
and the statuses of the handlers are choices.

### ApiDocument

`docTemplate` of `docs/docs.go` as data: for every operation the security it asks
for (a list of alternatives, each a set of schemes), the body its definition
requires and the statuses listed. `Gateway` says which of it the router keeps,
`BookRepository` uses what is required of a book.

### Server

`Server` takes one instance each of `Gateway`, `RateLimiter` and `UserRepository`
over one clock. Its steps are a step of `Gateway` together with the step of the
component it is about: the limiter's function is `ReadClock`, which `Gateway` does
not see, and `AllowN`, which decides whether it goes on or aborts; JWTAuth accepts
what `UserRepository` finds valid; a handler of accounts answers the `Status` its
end stands for. `heard` keeps which requests had been answered when a request was
sent, so that a client uses only tokens it was given and "after" means what it
means to a client. The handlers of books remain choices here.

### Startup

`Open` is one attempt of NewDatabase, `Wake` the end of its sleep, `CheckHandle`
the nil check after the loop, `Ping` SetupMongoDB, `Run` the listening. Postgres
and Mongo go up and down as they like, as containers that compose starts with the
server do; `Stop` ends the process at any moment. gorm.Open returns a handle with
or without an error, so that `CheckHandle` never ends the process and the server
serves without a connection if three attempts failed (`db.go:69` means to stop
it). `elapsed` and `down` are auxiliary.

## The runs

`expect: pass` unless it says otherwise. Deadlock checking is on in Boot and off
in the others: a server stops when its requests are all answered.

| Run | Instance | Checks |
|---|---|---|
| Books | 3 requests of all kinds, one row, 4 queries (two spellings of a page, a negative limit, one that does not convert), good, incomplete and malformed bodies, TTL 2, all failures; 186,991 states | `TypeOK`, `ServedPagesAreSnapshots`, `InvalidationCovers`, `RowsStayComplete`, `CallsRunOut`, `OldPagesRunOut`, `CatalogueImplemented` |
| BooksRaces | 4 requests, two pages of the list, ids 1 and 2, patches of either field, crashes; 121,813 states | `DeletedStaysDeleted`, `NoResurrection`, `FieldsChangeOnlyByPatch`, and `ServedPagesAreSnapshots`, `InvalidationCovers`, `CatalogueImplemented` |
| BooksLiveness | 3 requests, one page, Redis failing, crashes; 19,637 states | `EveryRequestAnswered`, `StalePagesLeave` |
| Limiter | 5 requests, 5 ticks, a token every 2, a burst of 2; 440,696 states | `TypeOK`, `AdmissionBound`, `RefusedAfterBurst` |
| Accounts | 4 requests, 2 names, 2 passwords and an overlong one that begins with the first of them, malformed bodies, 4 half-seconds, a lifetime of one second, Postgres failing; 351,426 states | `TypeOK`, `RegisteredCanLogin`, `TokenProvenance`, `TokenLifetime`, `AccountsImplemented` |
| Router | 2 requests of every route, with and without the key where one is asked for, with and without a token and from every origin on `POST /books`, preflights of no route from every origin, panics and Mongo failing; 114,985 states | `TypeOK`, `HandlerGuarded`, `DocumentedSecurity`, `DocumentedAnswers`, `LoggedAsSent`, `EveryRequestSent` |
| Server | 3 requests, 2 of them at a time, to `/register`, `/login` and `POST /books`; one name, two passwords, a burst of one, a token a tick, tokens of one tick, a clock of two; 631,823 states | `TypeOK`, `RegisteredLogsIn`, `LoginLoggedBeforeUse`, `HandlersPaidFor` |
| Boot | pauses of 2 ticks, a search of 3; 25,688 states | `TypeOK`, `SlowStartAwaited`, `BootEnds` |

`CallsRunOut` and `OldPagesRunOut` are the safety halves of `EveryRequestAnswered`
and `StalePagesLeave`: what each of those has to reach is counted down by every
step that concerns it, and nothing another request does counts it up. With the
fairness below, that is why they hold for any number of requests and pages, where
BooksLiveness has three and one.

What Server shows is what only the parts together can: a client that was told it
is registered, and logs in after that, is never told that its password is wrong;
the log has a login before anything done with its token, since the answer waits
for the entry; and the requests whose handlers ran, bcrypt among them, are bounded
by the bucket from any moment on.

Four runs expect a violation, each of one sentence of a comment:

| Run | Says | The code |
|---|---|---|
| ClaimCacheInvalidated | "Invalidate cache" (`books.go:150`) | a GET that read before the insert does its SET after the DELs; the old page is cached once the 201 is out |
| ClaimUpdatedMeansStored | "Successfully updated book" (`books.go:192`) | the answer is the book loaded earlier with the patch on top; two updates of different fields give a book that never was (it is still there: a DELETE in between is left out of the claim) |
| ClaimSixtyPerMinute | "60 requests per minute" (`router.go:49`) | one token a minute after a burst of 60 |
| ClaimUsernameInClaims | "the JWT claims, which includes the username" (`auth.go:30`) | the name is in the issuer, and `Claims.Username` is always empty |

Every property of a passing run has mutants under "mutants" in `PROJECT.json`: a
plausible mistake in the code (a cache key without the offset, gorm's Save for
Updates, an empty field that is written, a DEL that retries, a middleware that
does not abort, a status nobody expects, an expiry in milliseconds) under which the
run finds the property violated. Their operators stand beside what they mutate,
marked "mutant".

### Why the bounds are enough

* Requests. A bad interleaving of the catalogue involves a filler, an inserter
  and a reader, or a loader and one or two writers of the row: three requests
  have all of them, four have two updates against a delete and an insert.
  Requests do not come again once answered, so that no interleaving is hidden by
  reuse. Accounts needs two registrations, a login and a use.
* Pages. Two keys are the fewest for which KEYS and the DELs are apart and the
  loop can be overtaken; one row and an insert are the fewest for which the pages
  of two moments differ.
* The refinement is checked where every call fails (Books) and where more requests
  race over more rows and pages (BooksRaces); the theorem has both together.
* Three requests are what an end-to-end case of Server takes: two registrations
  of one name and a login, or a registration, a login and a use. Two at a time
  (`Parallel`) has the overlap of any two; more of them meet in Limiter and
  Accounts. A burst of one is exceeded by two requests, and two ticks let three
  through, and a token expire.
* TTL 2 has a page that is fresh, one that is about to go, and one gone.
* A burst of 2 and a token every 2 ticks has a bucket that is full, partly
  filled, empty, and a refusal that comes between two tokens; the theorem
  `AdmissionIsBounded` has every burst and period.
* A pause of 2 and a search of 3 tell a service that is up in time from one that
  is up one tick late; the theorem `SlowStart` has every length.
* An empty name or password is not among the values of Accounts: a registration
  that has one is answered as a malformed body is, and a login finds no such name
  or compares the empty password like any other. The theorems have it.
* `Second = 2` lets a token be issued at and between whole seconds.
* The limits on counters are `Requests` (each makes at most one row and one
  entry of the log) and `Horizon` (the clock); nothing else is cut off but the
  requests at a time of Server.

Symmetry in the requests is used in the runs without liveness properties: no
action or property tells one request from another.

### Fairness

`BookRepository` assumes weak fairness of `Continue(r)` for every request and of
`Tick`: a goroutine that waits for Postgres or Redis goes on since the clients'
calls return, with an answer or an error, and Redis counts time down. Arrivals
(`Start`), failures and crashes are never forced. `Gateway` assumes weak fairness
of `Step(r)` for the same reason; the Mongo driver's InsertOne returns an error
after its server selection timeout when Mongo is away. `Startup` assumes it of the
process and of `Tick`; services and operators are free. The other modules, and
`BookCatalogue` and `Accounts`, state safety only.

## The proofs

| Theorem | Property | For every |
|---|---|---|
| `BookRepositoryProofs!TypeCorrect` | `TypeOK` | set of requests, queries, bodies, ids, TTL, and all failures |
| `BookSafetyProofs!Invalidation` | `InvalidationCovers` | the same |
| `BookSafetyProofs!Snapshots` | `ServedPagesAreSnapshots` | the same |
| `BookSafetyProofs!Resurrection` | `NoResurrection` | the same |
| `BookSafetyProofs!NoLostUpdate` | `FieldsChangeOnlyByPatch` | the same |
| `BookSafetyProofs!Completeness` | `RowsStayComplete` | the same |
| `BookSafetyProofs!DeletionIsFinal` | `DeletedStaysDeleted` | the same, Postgres not failing |
| `BookSafetyProofs!CallsAreCounted` | `CallsRunOut` | the same |
| `BookSafetyProofs!OldPagesAreCounted` | `OldPagesRunOut` | the same |
| `BookSafetyProofs!LimitsAreKept` | no run: `PagesFit` | the same |
| `BookRefinementProofs!Refinement` | `CatalogueImplemented` | the same, all failures |
| `UserRepositoryProofs!TypeCorrect` | `TypeOK` | set of requests, names, passwords, length of a second and of a lifetime, horizon |
| `UserRepositoryProofs!Provenance` | `TokenProvenance` | the same |
| `UserRepositoryProofs!Lifetimes` | `TokenLifetime` | the same |
| `UserRepositoryProofs!RegistrationHolds` | `RegisteredCanLogin` | the same, the index being unique |
| `UserRepositoryProofs!PromiseKept` | `AccountsImplemented` | the same, with or without the unique index |
| `UserRepositoryProofs!PasswordsAreKept` | no run: `PasswordsStand` | the same, with or without the unique index |
| `GatewayProofs!TypeCorrect` | `TypeOK` | set of requests and of what arrives, panics and Mongo failing or not |
| `GatewayProofs!HandlersAreGuarded` | `HandlerGuarded` | the same |
| `GatewayProofs!SecurityIsEnforced` | `DocumentedSecurity` | the same |
| `GatewayProofs!AnswersAreDocumented` | `DocumentedAnswers` | the same |
| `GatewayProofs!TheLogTellsWhatWasSent` | `LoggedAsSent` | the same |
| `RateLimiterProofs!TypeCorrect` | `TypeOK` | number of requests, period, burst, horizon |
| `RateLimiterProofs!AdmissionIsBounded` | `AdmissionBound` | the same |
| `RateLimiterProofs!RefusalIsJustified` | `RefusedAfterBurst` | the same |
| `ServerProofs!TypeCorrect` | `TypeOK` | set of requests of any route, any number of them at once, values of the parts' constants, all failures |
| `ServerProofs!Composition` | no run: the specifications of the parts | the same |
| `ServerProofs!ServerKeepsPromise` | `AccountsImplemented` of the part | the same |
| `ServerProofs!HandlersArePaidFor` | `HandlersPaidFor` | the same |
| `ServerProofs!RegisteredLogInAfterwards` | `RegisteredLogsIn` | the same, the index being unique |
| `ServerProofs!LoginsAreLoggedBeforeUse` | `LoginLoggedBeforeUse` | the same |
| `StartupProofs!TypeCorrect`, `StartupProofs!SlowStart` | `TypeOK`, `SlowStartAwaited` | length of the pause and of the search |

The assumptions are the `ASSUME`s on the constants, which every run evaluates;
`ServerAssumption` says those of the parts once more, since TLC does not evaluate
the ones of an instance. The theorems on safety are of `Init /\ [][Next]_vars` with
or without fairness.

**Types.** `Tables(n)` and `ReqState(n, v)` grow with the id sequence and with the
history, so the proof first shows that growing either keeps every value typed,
then goes action by action.

**Invalidation.** `InvalidationCovers` speaks of answered creates only and is not
inductive: a page stored while the loop runs must already be accounted for.
`InvalidationInv` adds that, from the insert on, whoever still has a page to store
either read it after the insert or was among those in the middle of it
(`FillsExcused`), and that an old page without that excuse is among the keys the
loop has still to delete (`LoopCovers`). KEYS establishes the second from nothing,
a DEL that succeeds removes one page from both sides, a DEL that fails makes the
create unclean, and a SET stores an excused page by the first.

**Snapshots.** The property ranges over pages about to be stored as well as over
cached and answered ones, over what a failing SELECT left as well as over pages,
and with `TypeOK` is then inductive: history only grows, so what was a page of the
table at `ver` stays one.

**The table.** `TableSteps` says that a step leaves the table alone, inserts one row
under a new id, or does what an update or a delete on its way was to do; with the
ids that `TypeOK` allows, the two action properties follow. `DeletedStaysDeleted`
is inductive with `TypeOK`: `DeletedBy` has one action that answers 204, and what
was deleted before cannot come back by the first of them.

`RowsStayComplete` holds since an insert takes a bound body only, and `Merge` keeps a
field that the patch leaves empty.

**What runs out.** A handler's calls are counted by `CallsLeft`, and the DELs of
CreateBook by the keys it has still to delete. That these are a number rests on
`FinitelyMany`: Redis never holds more than finitely many pages, since a step adds
one at most, so that KEYS gives a finite set, of which each DEL takes one. For
the pages of an old table, `HoldersShrink` says that nobody new comes to hold one
(a SELECT reads the table of now, which is not old), `LifeIsGivenByHolders` that
only a holder's SET gives such a page time to live, and that the holder then is
none.

**Pages.** `PagesExist` says that there is a page for every accepted query on
every table, which `FindBooksQuery` needs in order not to block, and that neither
it nor what a failure leaves of it is longer than the limit; it counts subsets by
a bijection with an interval (`SubsetOfSize`). `WellAsked` carries the acceptance
of the query to where its page is read, cached and answered, and `Snapshots` gives
the table.

**Refinement of the catalogue.** A step of a handler is a step of the catalogue or
none. What each request is told needs an invariant, `Underway`: a request on its
way remembers the parameters it was sent with and, when it has loaded a row to
write it, one that was in the table at some moment (`Remembers`). A listing that
comes from the cache was a page of one table, or less of one, by
`ServedPagesAreSnapshots`. The lemmas on `Told` then give, for each of the
handlers' actions, the catalogue's action it is.

**Accounts.** Every row of the table is one a registration was to insert
(`RowsRegistered`). `Sound` says of each request, alone and in words of the table
and the clock, why it is where it is: what is compared is a row of the name given,
a login has a password of a registered key, a token presented is a login's and not
past its lifetime. The lifetime rests on two facts of integer division (`Seconds`,
`Validity`). Registration needs that names are unique in the table and that a
registered row stays (`NamesUnique`, `RowsKept`), so that First, which finds the
least id, finds it.

**Refinement of the accounts.** `Told` and `AccountsNow` turn a step of a handler into
a step of `Accounts` or none. The row First finds stays the first of its name
when rows are added (`FirstStays`), so that a registration adds a name or leaves
the accounts alone (`AccountsGrow`), and a login that compares a row it loaded
earlier compares the one of now (`ComparesFirst`): its answer is true at the moment
bcrypt is done. A refusal of a name that First did not find is true at the lookup.
A token's whole seconds are the promise's `until` by `ShownToken`. `PasswordsStand` is
then read off the promise, none of whose steps sets a key there is.

**The gateway.** `Sound` says what a context has behind it: `Passed(c, i)` that the
function at place i has let it go on, for all places before its own while it runs,
for all its chain when a handler ran. The lemmas on places turn "APIKeyAuth is
before the handler" into arithmetic once; there is one lemma per function of the
chain. The log is then counted with it: no entry while a request is on its way,
one or none, for a reason, afterwards. All of it is proved of `Safety`, `Spec`
without its fairness, so that `Server` can use it.

**Admission.** `AdmissionBound` compares with the clock, the bucket with the time of
its last admission. `Accounted` says, for every moment s since which something was
spent, that tokens plus what was spent are at most a full bucket, what came up to
`last`, and the time counted twice; an admission that sets `last` back adds as
much to `late` as it takes from `last`.

**Refusals.** `Missing` says, for every time t, that what the bucket lacks at t was
taken by requests admitted in the time that fills it up to t: an admission adds one
to these and takes one token, a later t loses an old admission only when the bucket
has had the time to make up for it. A bucket with less than one token lacks more
than all but one of its burst.

**The composition.** A step of `Server` is a step of each of its parts or leaves
it alone (`LimiterNext`, `UsersNext`, `RouterNext`), so that the invariants of the
parts hold of their instances, and so does what their specifications imply:
`Composition` and `ServerKeepsPromise`. `Joined` then ties the parts together, for
each request: those it heard of were sent, and what was sent does not change; the
token it uses is of a login it heard of (`Told`), which was answered 200
(`LoggedIn`); a login is answered the status of its end (`LoginAnswered`), and
looked at a table that had the rows of the registrations it heard of (`Seen`), so
that `RegisteredCanLogin` speaks of it; the chain went past the limiter only if
the bucket gave a token (`LetThrough`). One lemma per function of the chain shows
that it keeps this. `HandlersPaidFor` then follows from `Paid`, which turns what
the bucket spent since a moment into the requests it admitted since. The order of
the log needs `UseLogged` besides: an entry of a request that used a token has the
login's before it, and since entries are only added at the end and a login's is
written or has failed before the login is sent, each step keeps it.

**Startup.** `Awaiting` adds to `SlowStartAwaited` that a service that is down was
last down just now, that the i-th attempt is not made before i - 1 pauses are over,
and that what a timer has left keeps the end of a wait from coming early.

Every invariant, every action property and both refinements of the passing runs
are so proved. Left to TLC: liveness (`EveryRequestAnswered`, `StalePagesLeave`,
`EveryRequestSent`, `BootEnds`), which needs ENABLED and induction that this
prover does not have; of the first two it has the part that is safety.

## Seen in the code, without a run of its own

* `books.go:148`: Create's error is ignored, and a book that was not inserted is
  answered with 201, "Successfully created book" (`books.go:129`). `BookCatalogue`
  allows for it with `DBFaults`.
* `books.go:103`: Find's error is ignored, and a listing of `null`, or of the rows
  that came before the error, is answered with 200 and cached for a minute (`Nil`
  and `CutPages`).
* `user.go:74`: bcrypt compares 72 bytes, and only the hashing refuses more. An
  overlong password that begins with a registered one of 72 bytes logs in
  (`Key`; in the run Accounts "long" opens an account registered with "p").
* `books.go:111`: "Here TTL is set to one hour", beside `time.Minute`.
* `books.go:175`, `200`, `228`: every error of First is a 404, a lost connection too.
* `books.go:233`: Delete's error is ignored. `DeletedStaysDeleted` is checked with
  `DBFaults = FALSE` and does not hold otherwise.
* `models/user.go:12` asks for a unique name, and nothing here creates the index:
  AutoMigrate is commented out (`db.go:73`). `RegisteredCanLogin` is checked with
  `UniqueIndex = TRUE`; without the index two users may register one name, and only
  the first can log in.
* `db.go:68` tests the handle for nil where it should test the error: "Failed to
  connect to database" is never logged, and the server starts (`Startup`).
* `auth.go:32` says milliseconds; the claim is in seconds, and rightly so.
* `user.go:54` binds `models.User`, which requires neither field, where the API's
  documentation says `LoginUser`; empty names are looked up and not found.
* `api_key.go:13` compares the header with the environment: with `API_SECRET_KEY`
  unset, a request that has no `X-API-Key` passes.
* `docs.go:94` lists the key and the token of `POST /books` as alternatives, and the
  chain asks for both. `DocumentedSecurity` is the direction that holds: nobody
  gets in with less than the document asks for.
* Statuses that the document does not list, and `DocumentedAnswers` names: 403, 429
  and 401 of the middlewares, 400 and 500 of `GET /books`, and 500 of a panic.
* The document gives a book as the schema of the answers; the code answers
  `{"data": ...}`. It requires `title` and `author` without a least length, where
  the binding refuses empty ones.
* The commit does not compile: `main.go:6` and `main.go:16` import packages it does
  not use, and `db.go:44` declares a `*sql.DB` for what gorm.Open returns as
  `*gorm.DB`. The models take what the code plainly means.

## Not modelled

* Errors that cannot occur: marshalling books, unmarshalling what FindBooks
  marshalled, signing with HMAC, the type assertion at `books.go:134`.
* `CreatedAt`, `UpdatedAt`, headers, bodies of error answers, what zap prints.
* Postgres, Redis, Mongo, gorm, bcrypt and the JWT and rate libraries beyond what
  the handlers rely on; rounding of the bucket's floats.
* A rolled back or reordered commit: a statement takes effect at one moment.
* The release-mode middlewares (`security.go`, `xss.go`): main sets debug mode.
* gin's redirect of a trailing slash; a timeout or a client that goes away, which
  the handlers do not look at.
* `schema.go`: row types generated for a Supabase project, with no operation, which
  no other file uses. The mocks are generated and answer what a test tells them to.
  The key generator prints a random string; the rest is packaging. None of it is
  part of the server that runs.
* Descriptions, tags, and types of members in the document.

## The plan

Done, in this order: `BookModels` and `BookRepository` with their runs and proofs,
`RateLimiter`, `Auth`, `UserRepository`, `Gateway` and `Startup` with theirs;
`BookCatalogue` and the refinement, checked and proved; `ApiDocument` and the
router's agreement with it; the theorems on `UserRepository` and `Gateway`;
`Server`, the composition, and the theorems on it; `Accounts`, what runs out, and the
proofs of both.

Left: `BookRepository` in `Server` in place of the handlers of books, on an
instance small enough to check.
