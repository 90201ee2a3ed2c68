------------------------------ MODULE BookModels ------------------------------
(***************************************************************************)
(* The data of the book catalogue: the bodies of the requests and the rows *)
(* of the books table (pkg/models/book.go), the numbers in a query string  *)
(* and the page of rows they select (FindBooks of pkg/api/books.go).       *)
(*                                                                         *)
(* A row is what the handlers let a client see change: title and author.   *)
(* CreatedAt and UpdatedAt are stamped by gorm and read by no handler.     *)
(***************************************************************************)
EXTENDS Integers, FiniteSets, Functions

CONSTANTS
    Texts,      \* the non-empty strings a title or an author may be
    Blank,      \* the empty string, Go's zero value of a string
    Malformed,  \* a body ShouldBindJSON cannot decode
    Spellings,  \* the strings that ?offset= and ?limit= may carry
    Atoi,       \* strconv.Atoi, a function on Spellings
    NotAnInt    \* what Atoi returns where it reports an error

Text == Texts \cup {Blank}

(* models.Book, without its id: the books table maps an id to one of these. *)
Book == [title : Text, author : Text]

(* models.CreateBook and models.UpdateBook have the same two fields; only  *)
(* the first one has binding:"required" on both.                           *)
Body == Book
Bound(b) == b # Malformed /\ b.title # Blank /\ b.author # Blank

(* A query as it stands in the URL, before Atoi. *)
Query == [offset : Spellings, limit : Spellings]
WellFormed(q) == Atoi[q.offset] # NotAnInt /\ Atoi[q.limit] # NotAnInt

ASSUME ModelsAssumption ==
    /\ Blank \notin Texts
    /\ Malformed \notin Body
    /\ Atoi \in [Spellings -> Int \cup {NotAnInt}]
    /\ NotAnInt \notin Int

-------------------------------------------------------------------------------
(* The table with a row more, and with a row less. *)
Inserted(table, id, row) ==
    [i \in DOMAIN table \cup {id} |-> IF i = id THEN row ELSE table[i]]

Removed(table, id) == Restrict(table, DOMAIN table \ {id})

\* Mutant: gorm's Updates with a map, which writes the fields that are zero too.
MergeZeroToo(row, patch) == [title |-> patch.title, author |-> patch.author]

(* gorm's Updates with a struct writes the fields that are not zero, and    *)
(* leaves the others of the row alone.                                      *)
Merge(row, patch) ==
    [title  |-> IF patch.title  = Blank THEN row.title  ELSE patch.title,
     author |-> IF patch.author = Blank THEN row.author ELSE patch.author]

(* How many of n rows Offset(offset).Limit(limit) selects: gorm writes an   *)
(* OFFSET clause only for a positive offset, and no LIMIT clause for a      *)
(* negative limit.                                                          *)
PageSize(n, offset, limit) ==
    LET skipped == IF offset <= 0 THEN 0 ELSE IF offset < n THEN offset ELSE n
        rest    == n - skipped
    IN  IF limit < 0 \/ rest < limit THEN rest ELSE limit

(* The pages a query may be answered with from a table. FindBooks gives no  *)
(* ORDER BY, so the database is free to choose the rows that fill the page. *)
Pages(table, q) ==
    LET size == PageSize(Cardinality(DOMAIN table), Atoi[q.offset], Atoi[q.limit])
    IN  { Restrict(table, S) :
            S \in { T \in SUBSET DOMAIN table : Cardinality(T) = size } }

(* What is left of such a page when the rows stop coming midway: gorm adds  *)
(* a row to the slice as it is scanned, and takes none out on an error.     *)
CutPages(table, q) ==
    LET size == PageSize(Cardinality(DOMAIN table), Atoi[q.offset], Atoi[q.limit])
    IN  { Restrict(table, S) :
            S \in { T \in SUBSET DOMAIN table : Cardinality(T) < size } }
===============================================================================
