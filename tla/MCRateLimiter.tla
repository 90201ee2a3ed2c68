---------------------------- MODULE MCRateLimiter -----------------------------
(* Values for the constants of RateLimiter. *)
EXTENDS RateLimiter, TLC

Symmetry == Permutations(Requests)
===============================================================================
