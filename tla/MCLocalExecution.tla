-------------------------- MODULE MCLocalExecution --------------------------
(* Instances of LocalExecution for TLC.                                      *)
EXTENDS LocalExecution, TLC

(* All must succeed (the default), one must, half of them must.              *)
MCPolicies == {[successes |-> 0, ratio |-> 100], [successes |-> 1, ratio |-> 0],
               [successes |-> 0, ratio |-> 50]}
=============================================================================
