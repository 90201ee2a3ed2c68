------------------------------- MODULE MCServer -------------------------------
(* Values for the constants of Server: requests that the router lets through *)
(* to the bucket, the accounts and a token.                                  *)
EXTENDS Server, TLC

MCArrivals ==
    [route : {"RegisterHandler", "LoginHandler", "CreateBook"},
     origin : {"none"}, preflight : {FALSE}, key : {TRUE}, bearer : {TRUE}]

MCKey == [s \in Passwords \cup {Blank} |-> s]

Symmetry == Permutations(Requests)
===============================================================================
