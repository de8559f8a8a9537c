---------------------------- MODULE Registration ----------------------------
(***************************************************************************)
(* FlyteRemote registers a workflow or a launch plan and runs it           *)
(* (remote/remote.py).  Several clients do so for one version of one       *)
(* program: each sends the tasks concurrently from a thread pool, then     *)
(* workflows, default launch plans and launch plans in the order of        *)
(* serialization.  Every call may fail after the backend has carried it    *)
(* out or before, and a client may die between any two of them and start   *)
(* again; what exists already is left alone.                               *)
(*                                                                         *)
(* The backend is external: a set of registered ids.  It would refuse an   *)
(* entity whose references are missing, which the properties say never     *)
(* happens.  Specs, images and upload of code are left out.                *)
(***************************************************************************)
EXTENDS Naturals, Sequences

CONSTANTS
    Client,         \* the processes that use FlyteRemote
    Programs,       \* the serialized programs
    Operations,     \* the methods of FlyteRemote the clients call
    MaxCalls,       \* bound on the methods called
    MaxFaults,      \* bound on the calls to the backend that fail
    MaxCrashes      \* bound on the clients' crashes

(* The ids that exist once x is registered.                                *)
Created(p, x) ==
    IF p.kind[x] = "workflow" THEN {p.id[x], p.default_id[x]}
    ELSE IF p.kind[x] \in {"task", "launch_plan"} THEN {p.id[x]} ELSE {}

(* What stands in the mapping of the root r before its i-th other entity.  *)
Mapped(p, r, i) == p.tasks[r] \cup {p.others[r][j] : j \in 1 .. i - 1}

(* What serialization guarantees.  A root is in its own mapping, a launch  *)
(* plan refers to its workflow only, and an entity stands after all that   *)
(* its spec refers to; workflows do not share ids with anything else.      *)
WellFormed(p) ==
    LET roots == {p.main, p.launch_plan, p.default_launch_plan}
        entities == DOMAIN p.kind
    IN  /\ roots \subseteq entities
        /\ p.kind[p.main] = "workflow"
        /\ p.kind[p.launch_plan] = "launch_plan"
        /\ p.kind[p.default_launch_plan] = "launch_plan"
        /\ p.requires[p.id[p.launch_plan]] \subseteq {p.id[p.main]}
        /\ p.requires[p.id[p.default_launch_plan]] \subseteq {p.id[p.main]}
        /\ p.tasks \in [roots -> SUBSET entities]
        /\ \A r \in roots : \A t \in p.tasks[r] : p.kind[t] \in {"task", "remote_task"}
        /\ p.others \in [roots -> Seq(entities)]
        /\ \A r \in roots : \E i \in 1 .. Len(p.others[r]) : r = p.others[r][i]
        /\ \A l \in p.auto_activate : l \in entities /\ p.kind[l] = "launch_plan"
        /\ \A x \in entities : Created(p, x) \subseteq DOMAIN p.requires
        /\ \A x \in entities : p.kind[x] = "task" => p.requires[p.id[x]] = {}
        /\ \A w, x \in entities :
                p.kind[w] = "workflow" /\ p.id[w] \in Created(p, x) =>
                    p.kind[x] = "workflow" /\ p.id[w] # p.default_id[x]
        /\ \A r \in roots : \A i \in 1 .. Len(p.others[r]) :
            LET x == p.others[r][i]
                there == UNION {Created(p, y) : y \in Mapped(p, r, i)}
            IN  /\ p.kind[x] \in {"workflow", "launch_plan"} => p.requires[p.id[x]] \subseteq there
                /\ p.kind[x] = "workflow" =>
                    /\ p.requires[p.default_id[x]] \subseteq there \cup {p.id[x]}
                    /\ \A l \in p.auto_activate :
                        p.id[l] \in p.requires[p.id[x]] => l \in Mapped(p, r, i)

ASSUME ProgramsAssumption == \A p \in Programs : WellFormed(p)

ASSUME OperationsAssumption ==
    Operations \subseteq {"register_workflow", "register_launch_plan",
                          "execute_local_workflow", "execute_local_launch_plan"}

ASSUME BoundsAssumption == MaxCalls \in Nat /\ MaxFaults \in Nat /\ MaxCrashes \in Nat

VARIABLES
    program,        \* the program, the same for every client
    admin,          \* the ids registered with the backend
    active,         \* the launch plans that are active
    executions,     \* the launch plans of which executions were created
    pc,             \* where each client is
    op,             \* the method each client is in
    target,         \* the entity each client registers
    pending,        \* the tasks the pool has not registered yet
    failed,         \* whether a task's registration raised
    at,             \* the position among the other entities
    promised,       \* the entities whose registration returned
    calls, faults, crashes

vars == <<program, admin, active, executions, pc, op, target, pending, failed, at,
          promised, calls, faults, crashes>>

-----------------------------------------------------------------------------
(* Programs.                                                               *)

(* A program gives the kind and the id of each entity, the id of each      *)
(* workflow's default launch plan (its name) and the ids an id refers to.  *)
(* The clients register main, a launch plan of it or its default launch    *)
(* plan; for each of these, tasks and others are what get_serializable     *)
(* leaves in the mapping, the others in their order.                       *)
Roots == {program.main, program.launch_plan, program.default_launch_plan}

Id(e) == program.id[e]
Kind(e) == program.kind[e]
Others(c) == program.others[target[c]]
Entity(c) == Others(c)[at[c]]

LaunchPlanIds == {Id(e) : e \in {x \in DOMAIN program.kind : Kind(x) = "launch_plan"}}

(* fetch_workflow reads the workflow and the launch plans of its nodes.    *)
CanFetchWorkflow(w) ==
    /\ Id(w) \in admin
    /\ program.requires[Id(w)] \cap LaunchPlanIds \subseteq admin

(* fetch_launch_plan reads the plan and upgrades it with its workflow.     *)
CanFetchLaunchPlan(l) == Id(l) \in admin /\ CanFetchWorkflow(program.main)

(* Everything a root is made of.                                           *)
Parts(e) == UNION {Created(program, x) : x \in Mapped(program, e, Len(program.others[e]) + 1)}

TypeOK ==
    /\ admin \subseteq DOMAIN program.requires
    /\ active \subseteq admin
    /\ executions \subseteq admin
    /\ pc \in [Client -> {"idle", "fetch_workflow", "fetch_launch_plan", "wf_exists",
                          "tasks", "others", "default_launch_plan", "only_launch_plan",
                          "activate", "activate_only", "fetch_registered",
                          "create_execution"}]
    /\ op \in [Client -> Operations \cup {"none"}]
    /\ target \in [Client -> Roots]
    /\ pending \in [Client -> SUBSET DOMAIN program.kind]
    /\ failed \in [Client -> BOOLEAN]
    /\ at \in [Client -> Nat]
    /\ promised \subseteq Roots
    /\ calls \in 0 .. MaxCalls /\ faults \in 0 .. MaxFaults /\ crashes \in 0 .. MaxCrashes

Init ==
    /\ program \in Programs
    /\ admin = {} /\ active = {} /\ executions = {}
    /\ pc = [c \in Client |-> "idle"]
    /\ op = [c \in Client |-> "none"]
    /\ target = [c \in Client |-> program.main]
    /\ pending = [c \in Client |-> {}]
    /\ failed = [c \in Client |-> FALSE]
    /\ at = [c \in Client |-> 1]
    /\ promised = {}
    /\ calls = 0 /\ faults = 0 /\ crashes = 0

-----------------------------------------------------------------------------
(* Calls to the backend.                                                   *)

Goto(c, l) == pc' = [pc EXCEPT ![c] = l]

Backend == <<admin, active, executions>>
Progress == <<op, target, pending, failed, at>>
Rest == <<program, promised, calls>>

(* A call is answered.                                                     *)
Answered == UNCHANGED <<faults, crashes>>

(* A call raises something other than FlyteEntityAlreadyExistsException.   *)
Fails == faults < MaxFaults /\ faults' = faults + 1 /\ UNCHANGED crashes

(* create_task, create_workflow and create_launch_plan: an id that exists  *)
(* is left alone and FlyteEntityAlreadyExistsException is swallowed.       *)
Create(id) == admin' = admin \cup {id}

(* A create that raises may have been carried out all the same.            *)
CreateRaises(id) == admin' = admin \/ Create(id)

(* The method is over, and its variables with it.                          *)
Ends(c) ==
    /\ Goto(c, "idle")
    /\ op' = [op EXCEPT ![c] = "none"]
    /\ target' = [target EXCEPT ![c] = program.main]
    /\ pending' = [pending EXCEPT ![c] = {}]
    /\ failed' = [failed EXCEPT ![c] = FALSE]
    /\ at' = [at EXCEPT ![c] = 1]

-----------------------------------------------------------------------------
(* _serialize_and_register.                                                *)

(* The tasks of e go to the thread pool.                                   *)
_serialize_and_register(c, e) ==
    /\ Goto(c, "tasks")
    /\ target' = [target EXCEPT ![c] = e]
    /\ pending' = [pending EXCEPT ![c] = program.tasks[e]]
    /\ failed' = [failed EXCEPT ![c] = FALSE]
    /\ UNCHANGED at

(* A thread registers a task; a task fetched from a remote is skipped.     *)
raw_register_task(c, t) ==
    /\ pc[c] = "tasks" /\ t \in pending[c]
    /\ pending' = [pending EXCEPT ![c] = @ \ {t}]
    /\ \/ /\ IF Kind(t) = "task" THEN Create(Id(t)) ELSE UNCHANGED admin
          /\ Answered /\ UNCHANGED failed
       \/ /\ Kind(t) = "task" /\ CreateRaises(Id(t))
          /\ Fails /\ failed' = [failed EXCEPT ![c] = TRUE]
    /\ UNCHANGED <<active, executions, pc, op, target, at, Rest>>

(* Variant: the exceptions that gather returns are not looked at.          *)
NoExceptions(c) == TRUE

(* No exception among the results but RegistrationSkipped.                 *)
AllRegistered(c) == ~ failed[c]

(* Variant: a failure takes the tasks back.                                *)
TakesTasksBack(c) ==
    /\ pc[c] = "tasks" /\ pending[c] = {}
    /\ IF AllRegistered(c)
       THEN /\ Goto(c, "others")
            /\ at' = [at EXCEPT ![c] = 1]
            /\ UNCHANGED <<admin, op, target, pending, failed>>
       ELSE Ends(c) /\ admin' = admin \ {Id(t) : t \in program.tasks[target[c]]}
    /\ UNCHANGED <<active, executions, faults, crashes, Rest>>

(* asyncio.gather returns when every thread has; an exception is raised    *)
(* before any other entity is registered.                                  *)
gather(c) ==
    /\ pc[c] = "tasks" /\ pending[c] = {}
    /\ IF AllRegistered(c)
       THEN /\ Goto(c, "others")
            /\ at' = [at EXCEPT ![c] = 1]
            /\ UNCHANGED <<op, target, pending, failed>>
       ELSE Ends(c)
    /\ UNCHANGED <<Backend, faults, crashes, Rest>>

NextEntity(c) ==
    /\ Goto(c, "others")
    /\ at' = [at EXCEPT ![c] = @ + 1]
    /\ UNCHANGED <<op, target, pending, failed>>

raw_register_workflow(c) ==
    /\ pc[c] = "others" /\ at[c] <= Len(Others(c)) /\ Kind(Entity(c)) = "workflow"
    /\ \/ Create(Id(Entity(c))) /\ Answered
          /\ Goto(c, "default_launch_plan") /\ UNCHANGED Progress
       \/ CreateRaises(Id(Entity(c))) /\ Fails /\ Ends(c)
    /\ UNCHANGED <<active, executions, Rest>>

(* Variant: without create_default_launchplan there is no default plan.    *)
NoDefaultLaunchPlan(c) ==
    /\ pc[c] = "default_launch_plan" /\ Answered /\ NextEntity(c)
    /\ UNCHANGED <<Backend, Rest>>

(* The serial loop never passes create_default_launchplan on.              *)
create_default_launch_plan(c) ==
    /\ pc[c] = "default_launch_plan"
    /\ \/ Create(program.default_id[Entity(c)]) /\ Answered /\ NextEntity(c)
       \/ CreateRaises(program.default_id[Entity(c)]) /\ Fails /\ Ends(c)
    /\ UNCHANGED <<active, executions, Rest>>

(* Variant: a launch plan that exists already is not activated again.      *)
OnlyIfNew(l) == l \in program.auto_activate /\ Id(l) \notin admin

should_auto_activate(l) == l \in program.auto_activate

raw_register_launch_plan(c) ==
    /\ pc[c] = "others" /\ at[c] <= Len(Others(c)) /\ Kind(Entity(c)) = "launch_plan"
    /\ \/ /\ Create(Id(Entity(c))) /\ Answered
          /\ IF should_auto_activate(Entity(c))
             THEN Goto(c, "activate") /\ UNCHANGED Progress
             ELSE NextEntity(c)
       \/ CreateRaises(Id(Entity(c))) /\ Fails /\ Ends(c)
    /\ UNCHANGED <<active, executions, Rest>>

update_launch_plan(c) ==
    /\ pc[c] = "activate"
    /\ \/ /\ active' = active \cup {Id(Entity(c))} /\ Answered /\ NextEntity(c)
       \/ /\ active' \in {active, active \cup {Id(Entity(c))}} /\ Fails /\ Ends(c)
    /\ UNCHANGED <<admin, executions, Rest>>

(* Entities that live elsewhere: reference entities, remote launch plans.  *)
registration_skipped(c) ==
    /\ pc[c] = "others" /\ at[c] <= Len(Others(c)) /\ Kind(Entity(c)) = "reference"
    /\ NextEntity(c)
    /\ UNCHANGED <<Backend, faults, crashes, Rest>>

serialized_registered(c) ==
    /\ pc[c] = "others" /\ at[c] > Len(Others(c))
    /\ Goto(c, "fetch_registered")
    /\ UNCHANGED <<Backend, Progress, faults, crashes, Rest>>

-----------------------------------------------------------------------------
(* register_launch_plan with the workflow there already.                   *)

_wf_exists(c) == Id(program.main) \in admin

register_launch_plan(c) ==
    /\ pc[c] = "wf_exists"
    /\ \/ /\ _wf_exists(c) /\ Answered
          /\ Goto(c, "only_launch_plan") /\ UNCHANGED Progress
       \/ /\ ~ _wf_exists(c) /\ Answered
          /\ _serialize_and_register(c, target[c]) /\ UNCHANGED op
       \/ Fails /\ Ends(c)
    /\ UNCHANGED <<Backend, Rest>>

register_only_launch_plan(c) ==
    /\ pc[c] = "only_launch_plan"
    /\ \/ /\ Create(Id(target[c])) /\ Answered
          /\ Goto(c, IF should_auto_activate(target[c]) THEN "activate_only"
                     ELSE "fetch_registered")
          /\ UNCHANGED Progress
       \/ CreateRaises(Id(target[c])) /\ Fails /\ Ends(c)
    /\ UNCHANGED <<active, executions, Rest>>

activate_only_launch_plan(c) ==
    /\ pc[c] = "activate_only"
    /\ \/ /\ active' = active \cup {Id(target[c])} /\ Answered
          /\ Goto(c, "fetch_registered") /\ UNCHANGED Progress
       \/ /\ active' \in {active, active \cup {Id(target[c])}} /\ Fails /\ Ends(c)
    /\ UNCHANGED <<admin, executions, Rest>>

-----------------------------------------------------------------------------
(* The methods.                                                            *)

(* A method is called for the main workflow, or for a launch plan of it.   *)
CallMethod(c, o) ==
    /\ pc[c] = "idle" /\ calls < MaxCalls /\ calls' = calls + 1
    /\ op' = [op EXCEPT ![c] = o]
    /\ CASE o = "register_workflow" ->
                _serialize_and_register(c, program.main)
         [] o = "register_launch_plan" ->
                /\ Goto(c, "wf_exists")
                /\ target' = [target EXCEPT ![c] = program.launch_plan]
                /\ UNCHANGED <<pending, failed, at>>
         [] o = "execute_local_workflow" ->
                /\ Goto(c, "fetch_workflow")
                /\ target' = [target EXCEPT ![c] = program.default_launch_plan]
                /\ UNCHANGED <<pending, failed, at>>
         [] o = "execute_local_launch_plan" ->
                /\ Goto(c, "fetch_launch_plan")
                /\ target' = [target EXCEPT ![c] = program.launch_plan]
                /\ UNCHANGED <<pending, failed, at>>
    /\ UNCHANGED <<program, Backend, promised, faults, crashes>>

(* execute_local_workflow: the workflow is registered if it is missing.    *)
fetch_workflow(c) ==
    /\ pc[c] = "fetch_workflow"
    /\ \/ /\ CanFetchWorkflow(program.main) /\ Answered
          /\ Goto(c, "fetch_launch_plan") /\ UNCHANGED Progress
       \/ /\ ~ CanFetchWorkflow(program.main) /\ Answered
          /\ _serialize_and_register(c, program.main) /\ UNCHANGED op
       \/ Fails /\ Ends(c)
    /\ UNCHANGED <<Backend, Rest>>

(* The launch plan to run is registered if it is missing.                  *)
fetch_launch_plan(c) ==
    /\ pc[c] = "fetch_launch_plan"
    /\ \/ /\ CanFetchLaunchPlan(target[c]) /\ Answered
          /\ Goto(c, "create_execution") /\ UNCHANGED Progress
       \/ /\ ~ CanFetchLaunchPlan(target[c]) /\ Answered
          /\ Goto(c, "wf_exists") /\ UNCHANGED Progress
       \/ Fails /\ Ends(c)
    /\ UNCHANGED <<Backend, Rest>>

(* What was registered is fetched.  The method returns, or goes on to run  *)
(* it; an entity that is not found raises.                                 *)
fetch_registered(c) ==
    /\ pc[c] = "fetch_registered"
    /\ LET found == IF Kind(target[c]) = "workflow" THEN CanFetchWorkflow(target[c])
                    ELSE CanFetchLaunchPlan(target[c])
       IN  \/ /\ found /\ Answered
              /\ promised' = promised \cup {target[c]}
              /\ IF op[c] = "execute_local_workflow" /\ target[c] = program.main
                 THEN /\ Goto(c, "fetch_launch_plan")
                      /\ target' = [target EXCEPT ![c] = program.default_launch_plan]
                      /\ UNCHANGED <<op, pending, failed, at>>
                 ELSE IF op[c] \in {"register_workflow", "register_launch_plan"}
                      THEN Ends(c)
                      ELSE Goto(c, "create_execution") /\ UNCHANGED Progress
           \/ /\ ~ found /\ Answered /\ Ends(c) /\ UNCHANGED promised
           \/ Fails /\ Ends(c) /\ UNCHANGED promised
    /\ UNCHANGED <<program, Backend, calls>>

create_execution(c) ==
    /\ pc[c] = "create_execution"
    /\ \/ executions' = executions \cup {Id(target[c])} /\ Answered
       \/ executions' \in {executions, executions \cup {Id(target[c])}} /\ Fails
    /\ Ends(c)
    /\ UNCHANGED <<admin, active, Rest>>

(* The process dies, with its threads, and may be started again.           *)
crash(c) ==
    /\ pc[c] # "idle" /\ crashes < MaxCrashes /\ crashes' = crashes + 1
    /\ Ends(c)
    /\ UNCHANGED <<Backend, faults, Rest>>

Step(c) ==
    \/ \E t \in pending[c] : raw_register_task(c, t)
    \/ gather(c)
    \/ raw_register_workflow(c) \/ create_default_launch_plan(c)
    \/ raw_register_launch_plan(c) \/ update_launch_plan(c)
    \/ registration_skipped(c) \/ serialized_registered(c)
    \/ register_launch_plan(c) \/ register_only_launch_plan(c)
    \/ activate_only_launch_plan(c)
    \/ fetch_workflow(c) \/ fetch_launch_plan(c) \/ fetch_registered(c)
    \/ create_execution(c)

Next ==
    \E c \in Client :
        \/ \E o \in Operations : CallMethod(c, o)
        \/ Step(c)
        \/ crash(c)

Spec == Init /\ [][Next]_vars

-----------------------------------------------------------------------------
(* Properties.                                                             *)

(* Registration implements the catalogue: whatever fails, dies and is      *)
(* tried again by whichever client, the backend is never asked for an      *)
(* entity whose tasks, launch plans or workflow it does not have.          *)
C == INSTANCE Catalog WITH requires <- program.requires,
                           registered <- admin

ImplementsCatalog == C!Spec

(* A workflow that is there has everything below it: what _wf_exists and   *)
(* fetch_workflow conclude from finding it, without looking, is right.     *)
ExistingIsComplete ==
    \A e \in DOMAIN program.kind :
        Kind(e) \in {"workflow", "launch_plan"} /\ Id(e) \in admin =>
            program.requires[Id(e)] \subseteq admin

(* A launch plan that a registered workflow runs is active if it is to be, *)
(* although a crash may separate its creation from its activation.         *)
ActiveBeforeUse ==
    \A w \in DOMAIN program.kind : \A l \in program.auto_activate :
        /\ Kind(w) = "workflow" /\ Id(w) \in admin
        /\ Id(l) \in program.requires[Id(w)]
        => Id(l) \in active

(* When registration has returned, all parts of the entity are registered, *)
(* the default launch plans of its workflows among them unless only the    *)
(* launch plan was missing, and it is active if it is to be.               *)
PromisedIsRegistered ==
    \A e \in promised :
        /\ Id(e) \in admin
        /\ e \in program.auto_activate => Id(e) \in active
        /\ Kind(e) = "workflow" => Parts(e) \subseteq admin

(* The sub-workflows that travel inside a workflow's spec are all those    *)
(* its nodes refer to, as long as no branch node lies inside another.      *)
SubWorkflowsComplete ==
    \A w \in DOMAIN program.sub_workflows :
        ~ program.nested_branch[w] => program.nested[w] \subseteq program.sub_workflows[w]

=============================================================================
