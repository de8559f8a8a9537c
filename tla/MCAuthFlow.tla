----------------------------- MODULE MCAuthFlow -----------------------------
(* The threads, and the bounds, are chosen by the configurations. *)
EXTENDS AuthFlow, TLC

Symmetric == Permutations(Thread)

=============================================================================
