--------------------------- MODULE MCCompilation ---------------------------
(* A workflow main and a workflow sub, which is declared before it and may *)
(* be its failure handler.                                                 *)
EXTENDS Compilation

CONSTANTS main, sub

MCHandlers ==
    {[w \in Workflows |-> IF w = main THEN h[1] ELSE h[2]] :
        h \in {<<None, None>>, <<Task, None>>, <<sub, Task>>}}
=============================================================================
