--------------------------- MODULE RemoteExecution ---------------------------
(***************************************************************************)
(* FlyteRemote starts an execution and follows it (remote/remote.py):      *)
(* _execute creates it through an interceptor that repeats whatever        *)
(* raises; wait, sync_execution and sync_node_execution read it with one   *)
(* call per object while it goes on running in the backend.                *)
(*                                                                         *)
(* The backend is external: executions, their nodes and the executions     *)
(* below those, each with a phase.  It ends an object after the objects    *)
(* below it, and has the outputs of one when it has succeeded.  Inputs,    *)
(* interfaces, pages of a list and the content of outputs are left out.    *)
(***************************************************************************)
EXTENDS Naturals, Sequences

CONSTANTS
    Scenarios,      \* executions, [tree, naming]: see the variables
    MaxRetries,     \* RetryExceptionWrapperInterceptor._max_retries
    MaxCalls,       \* bound on the methods called
    MaxFaults       \* bound on the reads that fail for good

VARIABLES
    tree,           \* the execution: the kind of each object, the objects below it
    naming,         \* how _execute is called: "name", "prefix" or "none"
    ids,            \* the executions created
    phase,          \* the phase of each object of the last one
    aborting,       \* whether it was terminated
    status,         \* what the client is doing, or how its last method ended
    op,             \* the last method called
    retries,        \* of the create that is under way
    stack,          \* the calls of sync_execution and what it calls
    root,           \* the FlyteWorkflowExecution: its closure and outputs
    nodes,          \* the objects below it, as last assigned to it
    fresh,          \* the objects that the sync under way has read
    calls, faults

vars == <<tree, naming, ids, phase, aborting, status, op, retries, stack, root, nodes,
          fresh, calls, faults>>

Root == "execution"
NodeKinds == {"task_node", "parent_node", "launch_plan_node", "array_of_launch_plans",
              "gate_node", "end_node"}
Kinds == NodeKinds \cup {"execution", "task_execution"}

(* A tree below Root: no object is below itself.  A node over a launch     *)
(* plan launches one execution, and nothing else has one below it.         *)
IsTree(objects, kind, children) ==
    /\ Root \in objects /\ kind[Root] = "execution"
    /\ kind \in [objects -> Kinds] /\ children \in [objects -> SUBSET (objects \ {Root})]
    /\ \A o \in objects \ {Root} : \E p \in objects : o \in children[p]
    /\ \A p, q \in objects : children[p] \cap children[q] # {} => p = q
    /\ \A S \in SUBSET objects : S # {} => \E o \in S : \A p \in S : o \notin children[p]
    /\ \A o \in objects : kind[o] = "launch_plan_node" => \E x \in objects : children[o] = {x}
    /\ \A o \in objects : \A x \in children[o] :
           kind[x] = "execution" <=> kind[o] = "launch_plan_node"
    /\ \A o \in objects :
           kind[o] \in {"gate_node", "end_node", "task_execution"} => children[o] = {}

ASSUME ScenariosAssumption ==
    \A s \in Scenarios :
        /\ IsTree(DOMAIN s.tree.kind, s.tree.kind, s.tree.children)
        /\ s.naming \in {"name", "prefix", "none"}

ASSUME BoundsAssumption == MaxRetries \in Nat /\ MaxCalls \in Nat /\ MaxFaults \in Nat

Objects == DOMAIN tree.kind
Kind(o) == tree.kind[o]
Children(o) == tree.children[o]

(* The execution that a node over a launch plan starts.                    *)
Launched(o) == CHOOSE x \in Children(o) : TRUE

Terminal == {"succeeded", "failed", "aborted"}
Phases == {"absent", "running"} \cup Terminal

(* What a FlyteWorkflowExecution, FlyteNodeExecution or FlyteTaskExecution *)
(* holds; outputs are none until they are assigned.                        *)
Held == [phase : Phases, outputs : {"none", "empty", "full"}]

(* Variant: an aborted execution is not taken for done.                    *)
ForgetsAborted(x) == x.phase \in {"succeeded", "failed"}

is_done(x) == x.phase \in Terminal
error(x) == x.phase = "failed"
is_successful(x) == x.phase = "succeeded"

Ended == {"idle", "returned", "raised", "timed_out"}

TypeOK ==
    /\ phase \in [Objects -> Phases]
    /\ aborting \in BOOLEAN
    /\ status \in Ended \cup {"create", "get_execution", "sync", "sleep"}
    /\ op \in {"none", "execute", "wait", "sync"}
    /\ retries \in 0 .. MaxRetries
    /\ root \in Held
    /\ DOMAIN nodes \subseteq Objects /\ \A o \in DOMAIN nodes : nodes[o] \in Held
    /\ DOMAIN fresh \subseteq Objects /\ \A o \in DOMAIN fresh : fresh[o] \in Held
    /\ status = "sync" <=> stack # <<>>
    /\ calls \in 0 .. MaxCalls /\ faults \in 0 .. MaxFaults

Init ==
    /\ \E s \in Scenarios : tree = s.tree /\ naming = s.naming
    /\ ids = {}
    /\ phase = [o \in Objects |-> "absent"] /\ aborting = FALSE
    /\ status = "idle" /\ op = "none" /\ retries = 0 /\ stack = <<>>
    /\ root = [phase |-> "absent", outputs |-> "none"]
    /\ nodes = <<>> /\ fresh = <<>>
    /\ calls = 0 /\ faults = 0

Backend == <<ids, phase, aborting>>
Execution == <<root, nodes>>

-----------------------------------------------------------------------------
(* The backend.                                                            *)

BelowEnded(o) == \A x \in Children(o) : phase[x] # "running"

(* A node over a launch plan succeeds with the execution that it launched. *)
MaySucceed(o) ==
    Kind(o) = "launch_plan_node" => phase[Launched(o)] = "succeeded"

(* Something below an object that runs is started.                         *)
appears(o, x) ==
    /\ phase[o] = "running" /\ ~ aborting /\ phase[x] = "absent"
    /\ phase' = [phase EXCEPT ![x] = "running"]

ends(o) ==
    /\ phase[o] = "running" /\ BelowEnded(o)
    /\ \E p \in Terminal :
           /\ p = "succeeded" => MaySucceed(o)
           /\ p = "aborted" => aborting
           /\ phase' = [phase EXCEPT ![o] = p]

(* The outputs in the answer to get_execution_data and its kin.            *)
Data(o) == IF phase[o] = "succeeded" THEN "full" ELSE "empty"

-----------------------------------------------------------------------------
(* _execute.                                                               *)

(* Variant: the name is made up anew for each attempt.                     *)
NameOfAttempt == [naming |-> naming, call |-> calls, attempt |-> retries]

(* The execution that an attempt asks for: the caller's name, a name that  *)
(* _execute made from the prefix once, or one that the backend makes up.   *)
execution_name ==
    [naming  |-> naming,
     call    |-> IF naming = "name" THEN 0 ELSE calls,
     attempt |-> IF naming = "none" THEN retries ELSE 0]

(* The client calls it until it holds an execution.                        *)
CallExecute ==
    /\ status \in Ended /\ root.phase = "absent"
    /\ calls < MaxCalls /\ calls' = calls + 1
    /\ op' = "execute" /\ status' = "create" /\ retries' = 0
    /\ UNCHANGED <<tree, naming, Backend, stack, Execution, fresh, faults>>

(* A new execution starts.                                                 *)
Creates ==
    /\ ids' = ids \cup {execution_name}
    /\ phase' = [o \in Objects |-> IF o = Root THEN "running" ELSE "absent"]
    /\ aborting' = FALSE

RetriesOr(s) ==
    IF retries < MaxRetries
    THEN retries' = retries + 1 /\ UNCHANGED status
    ELSE retries' = 0 /\ status' = s

(* intercept_unary_unary: an answer, or an exception that is tried again   *)
(* whichever it is.  The request or the answer may be lost.                *)
create_execution ==
    /\ status = "create"
    /\ \/ /\ execution_name \notin ids /\ Creates
          /\ status' = "get_execution" /\ retries' = 0
       \/ execution_name \notin ids /\ Creates /\ RetriesOr("raised")
       \/ UNCHANGED Backend /\ RetriesOr("raised")
       \/ execution_name \in ids /\ UNCHANGED Backend /\ RetriesOr("get_execution")
    /\ UNCHANGED <<tree, naming, op, stack, Execution, fresh, calls, faults>>

(* A new FlyteWorkflowExecution is made; nothing but its closure is read.  *)
get_execution ==
    /\ status = "get_execution"
    /\ root' = [phase |-> phase[Root], outputs |-> "none"]
    /\ nodes' = <<>>
    /\ status' = "returned"
    /\ UNCHANGED <<tree, naming, Backend, op, retries, stack, fresh, calls, faults>>

-----------------------------------------------------------------------------
(* sync_execution and what it calls.  A call on the stack is at one of its *)
(* steps, which it takes in order.                                         *)

(* Variant: the data are read before the closure.                          *)
DataFirst(with_nodes) ==
    IF with_nodes THEN <<"data", "closure", "list", "each", "assign">>
    ELSE <<"data", "closure", "assign">>

(* Variant: the nodes are listed and synced before the closure is read.    *)
NodesFirst(with_nodes) ==
    IF with_nodes THEN <<"list", "each", "closure", "data", "assign">>
    ELSE <<"closure", "data", "assign">>

(* "Update closure, and then data".                                        *)
sync_execution(with_nodes) ==
    IF with_nodes THEN <<"closure", "data", "list", "each", "assign">>
    ELSE <<"closure", "data", "assign">>

sync_task_execution == <<"closure", "data", "assign">>

(* launched: the listed closure names the execution that the node started. *)
(* A gate node stands for a branch node too, whose nodes are not synced.   *)
sync_node_execution(o, launched) ==
    CASE Kind(o) = "launch_plan_node" /\ launched -> <<"data", "fetch", "sync", "take">>
      [] Kind(o) = "launch_plan_node" /\ ~ launched -> <<"data", "list", "each", "assign">>
      [] Kind(o) \in {"task_node", "parent_node"} -> <<"data", "list", "each", "assign">>
      [] Kind(o) = "array_of_launch_plans" -> <<"data", "list", "each">>
      [] Kind(o) = "gate_node" -> <<"data">>
      [] Kind(o) = "end_node" -> <<>>

Call(o, steps) == [obj |-> o, steps |-> steps, at |-> 1, data |-> "empty", todo |-> {}]

Top == stack[Len(stack)]
Below == SubSeq(stack, 1, Len(stack) - 1)
AtStep(s) == stack # <<>> /\ Top.at <= Len(Top.steps) /\ Top.steps[Top.at] = s
Advanced(c) == [c EXCEPT !.at = @ + 1]
Push(c) == stack' = Append(Append(Below, Advanced(Top)), c)

(* The object that the call at the top reads.                              *)
Reading(o) == IF o = Root THEN root ELSE fresh[o]

SetReading(o, x) ==
    IF o = Root THEN root' = x /\ UNCHANGED fresh
    ELSE fresh' = [fresh EXCEPT ![o] = x] /\ UNCHANGED root

(* New objects for those in os, with their closures only.                  *)
WithNew(os) ==
    [o \in DOMAIN fresh \cup os |->
        IF o \in os THEN [phase |-> phase[o], outputs |-> "none"] ELSE fresh[o]]

Quiet == <<tree, naming, Backend, op, retries, calls, faults>>

closure ==
    /\ AtStep("closure")
    /\ SetReading(Top.obj, [phase |-> phase[Top.obj], outputs |-> Reading(Top.obj).outputs])
    /\ stack' = Append(Below, Advanced(Top))
    /\ UNCHANGED <<Quiet, status, nodes>>

data ==
    /\ AtStep("data")
    /\ stack' = Append(Below, [Advanced(Top) EXCEPT !.data = Data(Top.obj)])
    /\ UNCHANGED <<Quiet, status, Execution, fresh>>

(* iterate_node_executions or iterate_task_executions: a new object for    *)
(* each one that is there, in the backend's order.                         *)
StepsFor(o) ==
    IF Kind(o) = "task_execution" THEN sync_task_execution
    ELSE sync_node_execution(o, \E x \in Children(o) : phase[x] # "absent")

list ==
    /\ AtStep("list")
    /\ LET listed == {o \in Children(Top.obj) : phase[o] # "absent" /\ Kind(o) # "execution"}
       IN  /\ stack' = Append(Below, [Advanced(Top) EXCEPT
                                        !.todo = {[obj |-> o, steps |-> StepsFor(o)] : o \in listed}])
           /\ fresh' = WithNew(listed)
    /\ UNCHANGED <<Quiet, status, Execution>>

(* One of the listed objects, or the step after them.                      *)
each ==
    /\ AtStep("each")
    /\ \/ Top.todo = {} /\ stack' = Append(Below, Advanced(Top))
       \/ \E t \in Top.todo :
              stack' = Append(Append(Below, [Top EXCEPT !.todo = @ \ {t}]), Call(t.obj, t.steps))
    /\ UNCHANGED <<Quiet, status, Execution, fresh>>

(* fetch_execution: a new object, synced without its nodes.                *)
fetch ==
    /\ AtStep("fetch")
    /\ fresh' = WithNew({Launched(Top.obj)})
    /\ Push(Call(Launched(Top.obj), sync_execution(FALSE)))
    /\ UNCHANGED <<Quiet, status, Execution>>

sync ==
    /\ AtStep("sync")
    /\ Push(Call(Launched(Top.obj), sync_execution(TRUE)))
    /\ UNCHANGED <<Quiet, status, Execution, fresh>>

(* The node takes the outputs of the execution it launched.                *)
take ==
    /\ AtStep("take")
    /\ LET launched == fresh[Launched(Top.obj)]
       IN  fresh' = IF is_done(launched) /\ is_successful(launched)
                    THEN [fresh EXCEPT ![Top.obj].outputs = launched.outputs]
                    ELSE fresh
    /\ stack' = Append(Below, Advanced(Top))
    /\ UNCHANGED <<Quiet, status, Execution>>

_assign_inputs_and_outputs(x, d) ==
    IF is_done(x) /\ ~ error(x) THEN [x EXCEPT !.outputs = d] ELSE x

(* The nodes that were synced with an execution become its own with it.    *)
assign ==
    /\ AtStep("assign")
    /\ SetReading(Top.obj, _assign_inputs_and_outputs(Reading(Top.obj), Top.data))
    /\ nodes' = IF Top.obj = Root /\ op = "wait" THEN fresh ELSE nodes
    /\ stack' = Append(Below, Advanced(Top))
    /\ UNCHANGED <<Quiet, status>>

(* A call below another returns; when the first one does, wait sleeps      *)
(* unless the execution is done.                                           *)
returns ==
    /\ stack # <<>> /\ Top.at > Len(Top.steps)
    /\ stack' = Below
    /\ status' = IF Below # <<>> THEN "sync"
                 ELSE IF op = "wait" /\ ~ is_done(root) THEN "sleep" ELSE "returned"
    /\ fresh' = IF Below = <<>> THEN <<>> ELSE fresh
    /\ UNCHANGED <<Quiet, Execution>>

(* The backend moves on before a read, or while no sync is under way.  The *)
(* steps of a sync between two reads neither see nor change its state.     *)
BetweenReads == stack # <<>> /\ \A s \in {"closure", "data", "list", "fetch"} : ~ AtStep(s)

BackendStep ==
    /\ ~ BetweenReads
    /\ \E o \in Objects : ends(o) \/ \E x \in Children(o) : appears(o, x)
    /\ UNCHANGED <<tree, naming, ids, aborting, status, op, retries, stack, root,
                   nodes, fresh, calls, faults>>

(* A read raises, and the method with it.  The object keeps what was       *)
(* assigned to it before.                                                  *)
read_raises ==
    /\ stack # <<>> /\ ~ BetweenReads
    /\ faults < MaxFaults /\ faults' = faults + 1
    /\ stack' = <<>> /\ status' = "raised" /\ fresh' = <<>>
    /\ UNCHANGED <<tree, naming, Backend, op, retries, Execution, calls>>

-----------------------------------------------------------------------------
(* wait, sync and terminate.                                               *)

StartSync(with_nodes) ==
    /\ status' = "sync" /\ stack' = <<Call(Root, sync_execution(with_nodes))>>
    /\ UNCHANGED <<fresh, Execution>>

(* sync without nodes, or wait, whose every look is a sync with nodes.     *)
CallMethod(o) ==
    /\ status \in Ended /\ root.phase # "absent"
    /\ calls < MaxCalls /\ calls' = calls + 1
    /\ op' = o
    /\ StartSync(o = "wait")
    /\ UNCHANGED <<tree, naming, Backend, retries, faults>>

(* The interval is over: another look, or FlyteTimeout.                    *)
wait_wakes ==
    /\ status = "sleep"
    /\ \/ StartSync(TRUE)
       \/ status' = "timed_out" /\ UNCHANGED <<stack, fresh, Execution>>
    /\ UNCHANGED Quiet

(* Anyone may terminate an execution that runs.                            *)
terminate ==
    /\ phase[Root] = "running" /\ ~ aborting /\ aborting' = TRUE
    /\ ~ BetweenReads
    /\ UNCHANGED <<tree, naming, ids, phase, status, op, retries, stack, Execution,
                   fresh, calls, faults>>

ClientStep ==
    \/ create_execution \/ get_execution
    \/ closure \/ data \/ list \/ each \/ fetch \/ sync \/ take \/ assign \/ returns
    \/ read_raises \/ wait_wakes

Next ==
    \/ CallExecute \/ \E o \in {"wait", "sync"} : CallMethod(o)
    \/ ClientStep
    \/ terminate \/ BackendStep

Spec == Init /\ [][Next]_vars

(* The client's thread runs on.  Nothing is assumed of the backend.        *)
FairSpec == Spec /\ WF_vars(ClientStep)

-----------------------------------------------------------------------------
(* Properties.                                                             *)

Synced == status = "returned" /\ op # "execute"

HasOutputs(o) == Kind(o) \notin {"gate_node", "end_node", "array_of_launch_plans"}

(* However the execution moves on between two reads of a sync, what it     *)
(* returns as succeeded has the outputs, the objects below it as well: "we *)
(* don't want the execution to finish between when we get the data, and    *)
(* then for the closure to have is_done to be true".                       *)
SucceededHasOutputs ==
    Synced =>
        /\ is_successful(root) => root.outputs = "full"
        /\ \A o \in DOMAIN nodes :
               is_successful(nodes[o]) /\ HasOutputs(o) => nodes[o].outputs = "full"

(* When a sync with nodes returns an execution as done, it has found every *)
(* object below it, and each of them as it ended.                          *)
DoneIsWhole ==
    Synced /\ op = "wait" /\ is_done(root) =>
        \A o \in Objects \ {Root} :
            phase[o] # "absent" =>
                /\ o \in DOMAIN nodes
                /\ nodes[o].phase = phase[o]

(* A call of _execute with a name or a prefix starts one execution at      *)
(* most, however many answers are lost and whatever is tried again.        *)
OneExecutionPerCall ==
    \A i, j \in ids : i.call = j.call /\ i.naming # "none" => i = j

(* A wait notices the end: once the execution has ended, a wait on it      *)
(* returns, or a read of it raises, or its time is over.                   *)
WaitNoticesEnd ==
    (op = "wait" /\ status \in {"sync", "sleep"} /\ phase[Root] \in Terminal)
        ~> status \in Ended

=============================================================================
