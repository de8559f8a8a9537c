-------------------------- MODULE MCRemoteExecution --------------------------
(* Executions for RemoteExecution, small and one for each kind of node.    *)
EXTENDS RemoteExecution

(* A task node with its task execution.                                    *)
OfTask ==
    [kind     |-> [execution |-> "execution", n |-> "task_node", t |-> "task_execution"],
     children |-> [execution |-> {"n"}, n |-> {"t"}, t |-> {}]]

(* A sub-workflow with a task node.                                        *)
OfSubWorkflow ==
    [kind     |-> [execution |-> "execution", p |-> "parent_node", n |-> "task_node"],
     children |-> [execution |-> {"p"}, p |-> {"n"}, n |-> {}]]

(* A node over a launch plan, whose execution waits at a gate.             *)
OfLaunchPlan ==
    [kind     |-> [execution |-> "execution", l |-> "launch_plan_node",
                   launched |-> "execution", g |-> "gate_node"],
     children |-> [execution |-> {"l"}, l |-> {"launched"}, launched |-> {"g"},
                   g |-> {}]]

(* A task node and a gate, side by side.                                   *)
OfTwo ==
    [kind     |-> [execution |-> "execution", n |-> "task_node", g |-> "gate_node"],
     children |-> [execution |-> {"n", "g"}, n |-> {}, g |-> {}]]

(* The end node only.                                                      *)
OfEnd ==
    [kind     |-> [execution |-> "execution", e |-> "end_node"],
     children |-> [execution |-> {"e"}, e |-> {}]]

(* An array node over a launch plan.                                       *)
OfArray ==
    [kind     |-> [execution |-> "execution", a |-> "array_of_launch_plans",
                   t |-> "task_execution"],
     children |-> [execution |-> {"a"}, a |-> {"t"}, t |-> {}]]

(* Nothing below it.                                                       *)
OfNothing ==
    [kind |-> [execution |-> "execution"], children |-> [execution |-> {}]]

(* How the execution is named matters to what is created, not to what is   *)
(* found below it.                                                         *)
MCScenarios ==
    [tree : {OfNothing}, naming : {"name", "prefix", "none"}]
    \cup [tree : {OfTask, OfSubWorkflow, OfLaunchPlan, OfTwo, OfArray, OfEnd}, naming : {"name"}]
=============================================================================
