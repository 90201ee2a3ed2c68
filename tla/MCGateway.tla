------------------------------ MODULE MCGateway -------------------------------
(* Values for the constants of Gateway: requests differ in what their route  *)
(* looks at.                                                                 *)
EXTENDS Gateway

MCArrivals ==
    {a \in Arrival :
        /\ a.route \notin Keyed => a.key
        /\ a.route # "CreateBook" => a.bearer
        /\ a.origin # "none" => a.route \in {"CreateBook", "unknown"} /\ a.key /\ a.bearer}
===============================================================================
