--------------------------- MODULE MCUserRepository ---------------------------
(* Values for the constants of UserRepository. *)
EXTENDS UserRepository, TLC

(* The overlong password begins with the 72 bytes of "p". *)
MCKey == [s \in Passwords \cup {Blank} |-> IF s = "long" THEN "p" ELSE s]

Symmetry == Permutations(Requests)
===============================================================================
