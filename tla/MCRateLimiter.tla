---------------------------- MODULE MCRateLimiter ----------------------------
(* Six interchangeable requests for TLC. *)
EXTENDS RateLimiter, TLC

Symmetric == Permutations(Coro)

=============================================================================
