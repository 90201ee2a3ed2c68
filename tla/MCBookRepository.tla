--------------------------- MODULE MCBookRepository ---------------------------
(* Values for the constants of BookRepository, and its claims. *)
EXTENDS BookClaims, TLC

(* Two spellings of the first page, one of the second, one Atoi refuses, and *)
(* a negative number. *)
MCAtoi == [s \in Spellings |->
              CASE s = "0" -> 0 [] s = "00" -> 0 [] s = "1" -> 1
                [] s = "10" -> 10 [] s = "-1" -> -1 [] OTHER -> NotAnInt]

Q(o, l) == [offset |-> o, limit |-> l]
FirstPage  == {Q("0", "10")}
TwoPages   == {Q("0", "1"), Q("1", "1")}
OddQueries == {Q("00", "10"), Q("1", "-1"), Q("-1", "x")}
AllQueries == FirstPage \cup OddQueries

B(t, a) == [title |-> t, author |-> a]
OneBook  == <<B("a", "a")>>
GoodBooks == {B("b", "b")}
AllBooks  == {B("b", "b"), B("b", ""), Malformed}
Titles    == {B("b", "")}
FieldPatches == {B("b", ""), B("", "b")}
AllPatches == {B("b", ""), B("", "b"), Malformed}

Nothing == {}

Symmetry == Permutations(Requests)
===============================================================================
