------------------------------ MODULE BookClaims ------------------------------
(***************************************************************************)
(* What the comments of pkg/api/books.go say of the handlers and the code  *)
(* does not do. Each property is the claim as it reads, and a run of its   *)
(* own shows a behaviour of BookRepository that breaks it.                 *)
(***************************************************************************)
EXTENDS BookRepository

(* books.go:150 "Invalidate cache": when POST /books is answered no cached  *)
(* page is older than the book. A GET that read its page before the insert  *)
(* and stores it after the loop breaks it, with no failure involved.        *)
CacheInvalidated ==
    \A c \in Requests : req[c].pc = "created" =>
        \A k \in DOMAIN cache : cache[k].ver >= req[c].ver

(* books.go:192 "Successfully updated book": the book answered with 200, as *)
(* long as it was not deleted, is what the table held at one time. The      *)
(* fields that were not given are those loaded by First, and out of date    *)
(* when another update wrote them in between.                               *)
UpdatedMeansStored ==
    \A r \in Requests : req[r].pc = "updated" /\ req[r].id \in DOMAIN table =>
        \E v \in 1 .. Version : /\ req[r].id \in DOMAIN history[v]
                                /\ history[v][req[r].id] = req[r].book
===============================================================================
