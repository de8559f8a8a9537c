------------------------- MODULE RegistrationProofs -------------------------
(***************************************************************************)
(* Proofs about Registration, for every number of clients, every set of    *)
(* well-formed programs and all bounds.                                    *)
(*                                                                         *)
(* The invariant says of each client what it has registered so far; since  *)
(* the backend only grows, no other client can undo it.  Every action is   *)
(* shown to change the backend in one of three ways (BackendStep) and to   *)
(* leave its own client in order; all theorems follow from these.          *)
(***************************************************************************)
EXTENDS Registration, TLAPS

-----------------------------------------------------------------------------
(* The inductive invariant.                                                *)

(* x is registered, and active if it is to be.                             *)
Done(x) ==
    /\ Created(program, x) \subseteq admin
    /\ x \in program.auto_activate => Id(x) \in active

Promise(e) ==
    /\ Id(e) \in admin
    /\ e \in program.auto_activate => Id(e) \in active
    /\ Kind(e) = "workflow" => Parts(e) \subseteq admin

LaunchPlans == {program.launch_plan, program.default_launch_plan}

(* What a client has achieved where it is.                                 *)
ClientOK(c) ==
    /\ at[c] \in Nat \ {0}
    /\ pc[c] = "tasks" /\ ~ failed[c] =>
            \A t \in program.tasks[target[c]] \ pending[c] : Done(t)
    /\ pc[c] \in {"others", "default_launch_plan", "activate"} =>
            \A x \in Mapped(program, target[c], at[c]) : Done(x)
    /\ pc[c] = "others" => at[c] <= Len(Others(c)) + 1
    /\ pc[c] = "default_launch_plan" =>
            at[c] <= Len(Others(c)) /\ Kind(Entity(c)) = "workflow" /\ Id(Entity(c)) \in admin
    /\ pc[c] = "activate" =>
            at[c] <= Len(Others(c)) /\ Kind(Entity(c)) = "launch_plan" /\ Id(Entity(c)) \in admin
    /\ pc[c] \in {"fetch_workflow", "fetch_launch_plan", "wf_exists", "only_launch_plan",
                  "activate_only"} => target[c] \in LaunchPlans
    /\ pc[c] = "only_launch_plan" => Id(program.main) \in admin
    /\ pc[c] \in {"activate_only", "create_execution"} => Id(target[c]) \in admin
    /\ pc[c] = "fetch_registered" => Promise(target[c])

(* What is registered has all it refers to.                                *)
Closed == \A id \in admin : program.requires[id] \subseteq admin

Inv ==
    /\ TypeOK
    /\ WellFormed(program)
    /\ Closed
    /\ ActiveBeforeUse
    /\ PromisedIsRegistered
    /\ \A c \in Client : ClientOK(c)

-----------------------------------------------------------------------------
(* What may be created.                                                    *)

(* The backend has what id refers to, and a workflow's launch plans are    *)
(* active.                                                                 *)
Creatable(id) ==
    /\ id \in DOMAIN program.requires
    /\ program.requires[id] \subseteq admin
    /\ \A w \in DOMAIN program.kind : \A l \in program.auto_activate :
            Kind(w) = "workflow" /\ Id(w) = id /\ Id(l) \in program.requires[id] =>
                Id(l) \in active

LEMMA RootFacts ==
    ASSUME WellFormed(program)
    PROVE  /\ Roots \subseteq DOMAIN program.kind
           /\ Kind(program.main) = "workflow"
           /\ \A l \in LaunchPlans : /\ Kind(l) = "launch_plan"
                                      /\ l \in Roots
                                      /\ program.requires[Id(l)] \subseteq {Id(program.main)}
           /\ program.tasks \in [Roots -> SUBSET DOMAIN program.kind]
           /\ \A r \in Roots : \A t \in program.tasks[r] : Kind(t) \in {"task", "remote_task"}
           /\ program.others \in [Roots -> Seq(DOMAIN program.kind)]
           /\ \A r \in Roots : \E i \in 1 .. Len(program.others[r]) : r = program.others[r][i]
           /\ \A l \in program.auto_activate : l \in DOMAIN program.kind /\ Kind(l) = "launch_plan"
  <1> USE DEF WellFormed, Kind, Id
  <1>1. Roots \subseteq DOMAIN program.kind /\ Kind(program.main) = "workflow"
    BY DEF Roots
  <1>2. \A l \in LaunchPlans : /\ Kind(l) = "launch_plan"
                               /\ l \in Roots
                               /\ program.requires[Id(l)] \subseteq {Id(program.main)}
    BY DEF Roots, LaunchPlans
  <1>3. program.tasks \in [Roots -> SUBSET DOMAIN program.kind]
    BY DEF Roots
  <1>4. \A r \in Roots : \A t \in program.tasks[r] : Kind(t) \in {"task", "remote_task"}
    BY DEF Roots
  <1>5. program.others \in [Roots -> Seq(DOMAIN program.kind)]
    BY Zenon DEF Roots
  <1>6. \A r \in Roots : \E i \in 1 .. Len(program.others[r]) : r = program.others[r][i]
    BY Zenon DEF Roots
  <1>7. \A l \in program.auto_activate : l \in DOMAIN program.kind /\ Kind(l) = "launch_plan"
    OBVIOUS
  <1> QED
    BY <1>1, <1>2, <1>3, <1>4, <1>5, <1>6, <1>7, Zenon

LEMMA CreatedFacts ==
    ASSUME WellFormed(program), NEW x \in DOMAIN program.kind
    PROVE  /\ Created(program, x) \subseteq DOMAIN program.requires
           /\ Kind(x) = "workflow" => Created(program, x) = {Id(x), program.default_id[x]}
           /\ Kind(x) \in {"task", "launch_plan"} => Created(program, x) = {Id(x)}
           /\ Kind(x) \in {"remote_task", "reference"} => Created(program, x) = {}
  <1>1. Created(program, x) \subseteq DOMAIN program.requires
    BY DEF WellFormed
  <1> QED
    BY <1>1 DEF Created, Kind, Id

LEMMA WorkflowIds ==
    ASSUME WellFormed(program),
           NEW w \in DOMAIN program.kind, NEW x \in DOMAIN program.kind,
           Kind(w) = "workflow", Id(w) \in Created(program, x)
    PROVE  Kind(x) = "workflow" /\ Id(w) = Id(x)
  <1>1. Kind(x) = "workflow" /\ Id(w) # program.default_id[x]
    BY DEF WellFormed, Kind, Id
  <1> QED
    BY <1>1, CreatedFacts

LEMMA OrderFacts ==
    ASSUME WellFormed(program), NEW r \in Roots, NEW i \in 1 .. Len(program.others[r]),
           NEW x, x = program.others[r][i],
           \A y \in Mapped(program, r, i) : Done(y)
    PROVE  /\ x \in DOMAIN program.kind
           /\ Kind(x) \in {"workflow", "launch_plan"} => program.requires[Id(x)] \subseteq admin
           /\ Kind(x) = "workflow" =>
                /\ program.requires[program.default_id[x]] \subseteq admin \cup {Id(x)}
                /\ \A l \in program.auto_activate :
                        Id(l) \in program.requires[Id(x)] => Id(l) \in active
  <1> DEFINE there == UNION {Created(program, y) : y \in Mapped(program, r, i)}
  <1>1. there \subseteq admin
    BY DEF Done
  <1>2. x \in DOMAIN program.kind
    BY RootFacts
  <1>3. /\ program.kind[x] \in {"workflow", "launch_plan"} =>
                program.requires[program.id[x]] \subseteq there
        /\ program.kind[x] = "workflow" =>
                /\ program.requires[program.default_id[x]] \subseteq there \cup {program.id[x]}
                /\ \A l \in program.auto_activate :
                        program.id[l] \in program.requires[program.id[x]] =>
                            l \in Mapped(program, r, i)
    BY DEF WellFormed, Roots
  <1> HIDE DEF there
  <1> QED
    BY <1>1, <1>2, <1>3 DEF Kind, Id, Done

(* A task refers to nothing.                                               *)
LEMMA TaskCreatable ==
    ASSUME WellFormed(program), NEW t \in DOMAIN program.kind, Kind(t) = "task"
    PROVE  Creatable(Id(t))
  <1>1. program.requires[Id(t)] = {}
    BY DEF WellFormed, Kind, Id
  <1> QED
    BY <1>1, CreatedFacts DEF Creatable

(* The entity whose turn it is comes after all it refers to.               *)
LEMMA EntityCreatable ==
    ASSUME Inv, NEW c \in Client, pc[c] = "others", at[c] <= Len(Others(c)),
           Kind(Entity(c)) \in {"workflow", "launch_plan"}
    PROVE  Creatable(Id(Entity(c))) /\ Entity(c) \in DOMAIN program.kind
  <1> DEFINE x == Entity(c)
  <1>1. /\ WellFormed(program) /\ target[c] \in Roots
        /\ at[c] \in 1 .. Len(program.others[target[c]])
        /\ \A y \in Mapped(program, target[c], at[c]) : Done(y)
    <2>1. program.others[target[c]] \in Seq(DOMAIN program.kind)
      BY RootFacts DEF Inv, TypeOK
    <2> QED
      BY <2>1 DEF Inv, TypeOK, ClientOK, Others
  <1>2. x = program.others[target[c]][at[c]]
    BY DEF Entity, Others
  <1>3. /\ x \in DOMAIN program.kind
        /\ program.requires[Id(x)] \subseteq admin
        /\ Kind(x) = "workflow" =>
                \A l \in program.auto_activate :
                        Id(l) \in program.requires[Id(x)] => Id(l) \in active
    BY <1>1, <1>2, OrderFacts
  <1>4. Id(x) \in DOMAIN program.requires /\ Id(x) \in Created(program, x)
    BY <1>1, <1>3, CreatedFacts
  <1> HIDE DEF x
  <1>5. ASSUME NEW w \in DOMAIN program.kind, NEW l \in program.auto_activate,
               Kind(w) = "workflow", Id(w) = Id(x), Id(l) \in program.requires[Id(x)]
        PROVE  Id(l) \in active
    BY <1>1, <1>3, <1>4, <1>5, WorkflowIds
  <1>6. Creatable(Id(x)) /\ x \in DOMAIN program.kind
    BY <1>3, <1>4, <1>5 DEF Creatable
  <1> QED
    BY <1>6 DEF x

(* A default launch plan comes after its workflow.                         *)
LEMMA DefaultCreatable ==
    ASSUME Inv, NEW c \in Client, pc[c] = "default_launch_plan"
    PROVE  Creatable(program.default_id[Entity(c)]) /\ Entity(c) \in DOMAIN program.kind
  <1> DEFINE x == Entity(c)
  <1>1. /\ WellFormed(program) /\ target[c] \in Roots
        /\ at[c] \in 1 .. Len(program.others[target[c]])
        /\ \A y \in Mapped(program, target[c], at[c]) : Done(y)
        /\ Kind(x) = "workflow" /\ Id(x) \in admin
    <2>1. program.others[target[c]] \in Seq(DOMAIN program.kind)
      BY RootFacts DEF Inv, TypeOK
    <2> QED
      BY <2>1 DEF Inv, TypeOK, ClientOK, Others
  <1>2. x = program.others[target[c]][at[c]]
    BY DEF Entity, Others
  <1>3. /\ x \in DOMAIN program.kind
        /\ program.requires[program.default_id[x]] \subseteq admin \cup {Id(x)}
    BY <1>1, <1>2, OrderFacts
  <1>4. Created(program, x) = {Id(x), program.default_id[x]}
    BY <1>1, <1>3, CreatedFacts
  <1>5. program.default_id[x] \in DOMAIN program.requires
    BY <1>1, <1>3, <1>4, CreatedFacts
  <1> HIDE DEF x
  <1>6. ASSUME NEW w \in DOMAIN program.kind, Kind(w) = "workflow",
               Id(w) = program.default_id[x]
        PROVE  FALSE
    BY <1>1, <1>3, <1>4, <1>6 DEF WellFormed, Id, Kind
  <1>7. Creatable(program.default_id[x]) /\ x \in DOMAIN program.kind
    BY <1>1, <1>3, <1>5, <1>6 DEF Creatable
  <1> QED
    BY <1>7 DEF x

(* A launch plan of the main workflow needs only that.                     *)
LEMMA LaunchPlanCreatable ==
    ASSUME WellFormed(program), NEW l \in LaunchPlans, Id(program.main) \in admin
    PROVE  Creatable(Id(l)) /\ l \in DOMAIN program.kind
  <1>1. /\ l \in DOMAIN program.kind /\ Kind(l) = "launch_plan"
        /\ program.requires[Id(l)] \subseteq admin
    BY RootFacts
  <1>2. Id(l) \in DOMAIN program.requires /\ Id(l) \in Created(program, l)
    BY <1>1, CreatedFacts
  <1>3. ASSUME NEW w \in DOMAIN program.kind, Kind(w) = "workflow", Id(w) = Id(l)
        PROVE  FALSE
    BY <1>1, <1>2, <1>3, WorkflowIds
  <1> QED
    BY <1>1, <1>2, <1>3 DEF Creatable

-----------------------------------------------------------------------------
(* Steps.                                                                  *)

(* How a step may change the backend.                                      *)
BackendStep ==
    /\ program' = program
    /\ \/ admin' = admin /\ active' = active
       \/ \E id : Creatable(id) /\ admin' = admin \cup {id} /\ active' = active
       \/ \E id \in admin : active' = active \cup {id} /\ admin' = admin

Grows == program' = program /\ admin \subseteq admin' /\ active \subseteq active'

(* The client d stays where it is.                                         *)
Stays(d) ==
    /\ pc'[d] = pc[d] /\ target'[d] = target[d] /\ pending'[d] = pending[d]
    /\ failed'[d] = failed[d] /\ at'[d] = at[d]

ControlTypeOK ==
    /\ pc \in [Client -> {"idle", "fetch_workflow", "fetch_launch_plan", "wf_exists",
                          "tasks", "others", "default_launch_plan", "only_launch_plan",
                          "activate", "activate_only", "fetch_registered",
                          "create_execution"}]
    /\ op \in [Client -> Operations \cup {"none"}]
    /\ target \in [Client -> Roots]
    /\ pending \in [Client -> SUBSET DOMAIN program.kind]
    /\ failed \in [Client -> BOOLEAN]
    /\ at \in [Client -> Nat]

(* The control of c changes and nobody else's.                             *)
ControlStep(c) ==
    /\ ControlTypeOK'
    /\ ClientOK(c)'
    /\ \A d \in Client \ {c} : Stays(d)

(* What every action of a client is shown to do.                           *)
StepOK(c) ==
    /\ BackendStep
    /\ ControlStep(c)
    /\ executions' \subseteq executions \cup admin
    /\ promised' \subseteq promised \cup {e \in Roots : Promise(e)}
    /\ calls' \in 0 .. MaxCalls /\ faults' \in 0 .. MaxFaults /\ crashes' \in 0 .. MaxCrashes

LEMMA BackendGrows == BackendStep => Grows
  BY DEF BackendStep, Grows

LEMMA DoneKept ==
    ASSUME Grows, NEW x, Done(x)
    PROVE  Done(x)'
  BY DEF Grows, Done, Id

LEMMA PromiseKept ==
    ASSUME Grows, NEW e, Promise(e)
    PROVE  Promise(e)'
  BY DEF Grows, Promise, Id, Kind, Parts

(* A client that stays where it is keeps what it has achieved.             *)
LEMMA ClientKept ==
    ASSUME Grows, NEW d, Stays(d), ClientOK(d)
    PROVE  ClientOK(d)'
  <1>1. Others(d)' = Others(d) /\ Entity(d)' = Entity(d) /\ LaunchPlans' = LaunchPlans
    BY DEF Grows, Stays, Others, Entity, LaunchPlans
  <1>2. \A x : Done(x) => Done(x)'
    BY DoneKept
  <1>3. Promise(target[d]) => Promise(target[d])'
    BY DEF Grows, Stays, Promise, Id, Kind, Parts
  <1>4. (\A t \in program.tasks[target[d]] \ pending[d] : Done(t)) =>
            (\A t \in program.tasks[target[d]] \ pending[d] : Done(t))'
    BY <1>2 DEF Grows, Stays
  <1>5. (\A x \in Mapped(program, target[d], at[d]) : Done(x)) =>
            (\A x \in Mapped(program, target[d], at[d]) : Done(x))'
    <2>1. Mapped(program, target[d], at[d])' = Mapped(program, target[d], at[d])
      BY DEF Grows, Stays, Mapped
    <2> QED
      BY <1>2, <2>1
  <1>6. \A x : Kind(x)' = Kind(x) /\ Id(x)' = Id(x)
    BY DEF Grows, Kind, Id
  <1> QED
    BY <1>1, <1>3, <1>4, <1>5, <1>6 DEF ClientOK, Grows, Stays

(* The backend stays closed under references.                              *)
LEMMA BackendOK ==
    ASSUME Inv, BackendStep
    PROVE  /\ Closed' /\ ActiveBeforeUse'
           /\ (admin \subseteq DOMAIN program.requires)'
           /\ (active \subseteq admin)'
  <1>1. CASE admin' = admin /\ active' = active
    BY <1>1 DEF BackendStep, Inv, TypeOK, Closed, ActiveBeforeUse, Kind, Id
  <1>2. ASSUME NEW id, Creatable(id), admin' = admin \cup {id}, active' = active
        PROVE  /\ Closed' /\ ActiveBeforeUse'
               /\ (admin \subseteq DOMAIN program.requires)'
               /\ (active \subseteq admin)'
    BY <1>2 DEF BackendStep, Inv, TypeOK, Closed, ActiveBeforeUse, Kind, Id, Creatable
  <1>3. ASSUME NEW id \in admin, active' = active \cup {id}, admin' = admin
        PROVE  /\ Closed' /\ ActiveBeforeUse'
               /\ (admin \subseteq DOMAIN program.requires)'
               /\ (active \subseteq admin)'
    BY <1>3 DEF BackendStep, Inv, TypeOK, Closed, ActiveBeforeUse, Kind, Id
  <1> QED
    BY <1>1, <1>2, <1>3 DEF BackendStep

(* A step that is as it should be preserves the invariant.                 *)
LEMMA StepPreserves ==
    ASSUME Inv, NEW c \in Client, StepOK(c)
    PROVE  Inv'
  <1>1. Grows
    BY BackendGrows DEF StepOK
  <1>2. TypeOK'
    <2>1. executions' \subseteq admin'
      BY <1>1 DEF StepOK, Inv, TypeOK, Grows
    <2>2. promised' \subseteq Roots'
      BY <1>1 DEF StepOK, Inv, TypeOK, Grows, Roots
    <2> QED
      BY <2>1, <2>2, BackendOK DEF StepOK, ControlStep, ControlTypeOK, TypeOK
  <1>3. PromisedIsRegistered'
    <2>1. \A e : Promise(e) => Promise(e)'
      BY <1>1, PromiseKept
    <2>2. \A e \in promised : Promise(e)
      BY DEF Inv, PromisedIsRegistered, Promise
    <2>3. \A e \in promised' : Promise(e)'
      BY <2>1, <2>2 DEF StepOK
    <2> QED
      BY <2>3 DEF PromisedIsRegistered, Promise
  <1>4. \A d \in Client : ClientOK(d)'
    BY <1>1, ClientKept DEF StepOK, ControlStep, Inv
  <1>5. WellFormed(program)'
    BY <1>1 DEF Inv, Grows
  <1> QED
    BY <1>2, <1>3, <1>4, <1>5, BackendOK DEF Inv, StepOK

-----------------------------------------------------------------------------
(* The moves that actions are made of.                                     *)

LEMMA CountersStay ==
    ASSUME Inv, Answered \/ Fails, calls' = calls
    PROVE  calls' \in 0 .. MaxCalls /\ faults' \in 0 .. MaxFaults /\ crashes' \in 0 .. MaxCrashes
  BY BoundsAssumption DEF Inv, TypeOK, Answered, Fails

LEMMA CreateStep ==
    ASSUME NEW id, Creatable(id), CreateRaises(id) \/ Create(id),
           program' = program, active' = active
    PROVE  BackendStep
  BY DEF CreateRaises, Create, BackendStep

LEMMA ActivateStep ==
    ASSUME NEW id \in admin, active' \in {active, active \cup {id}},
           program' = program, admin' = admin
    PROVE  BackendStep
  BY DEF BackendStep

LEMMA EndsStep ==
    ASSUME Inv, NEW c \in Client, program' = program, Ends(c)
    PROVE  ControlStep(c)
  <1>1. ControlTypeOK'
    BY DEF Inv, TypeOK, Ends, Goto, ControlTypeOK, Roots
  <1>2. ClientOK(c)'
    BY DEF Inv, TypeOK, Ends, Goto, ClientOK
  <1>3. \A d \in Client \ {c} : Stays(d)
    BY DEF Inv, TypeOK, Ends, Goto, Stays
  <1> QED
    BY <1>1, <1>2, <1>3 DEF ControlStep

LEMMA GotoStep ==
    ASSUME Inv, NEW c \in Client, program' = program,
           NEW l \in {"fetch_workflow", "fetch_launch_plan", "wf_exists",
                      "tasks", "others", "default_launch_plan", "only_launch_plan",
                      "activate", "activate_only", "fetch_registered", "create_execution"},
           Goto(c, l), UNCHANGED Progress, ClientOK(c)'
    PROVE  ControlStep(c)
  <1>1. ControlTypeOK'
    BY DEF Inv, TypeOK, Goto, Progress, ControlTypeOK, Roots
  <1>2. \A d \in Client \ {c} : Stays(d)
    BY DEF Inv, TypeOK, Goto, Progress, Stays
  <1> QED
    BY <1>1, <1>2 DEF ControlStep

LEMMA NextEntityStep ==
    ASSUME Inv, NEW c \in Client, Grows, NextEntity(c),
           pc[c] \in {"others", "default_launch_plan", "activate"},
           at[c] <= Len(Others(c)), NEW x, x = Entity(c), Done(x)'
    PROVE  ControlStep(c)
  <1>1. /\ pc' = [pc EXCEPT ![c] = "others"] /\ at' = [at EXCEPT ![c] = @ + 1]
        /\ UNCHANGED <<op, target, pending, failed>> /\ program' = program
    BY DEF NextEntity, Goto, Grows
  <1>2. ControlTypeOK'
    BY <1>1 DEF Inv, TypeOK, ControlTypeOK, Roots
  <1>3. \A d \in Client \ {c} : Stays(d)
    BY <1>1 DEF Inv, TypeOK, Stays
  <1>4. /\ pc'[c] = "others" /\ at'[c] = at[c] + 1 /\ target'[c] = target[c]
        /\ at[c] \in Nat \ {0} /\ target[c] \in Roots
    BY <1>1 DEF Inv, TypeOK, ClientOK
  <1>5. Len(Others(c)) \in Nat /\ Others(c)' = Others(c)
    BY <1>1, <1>4, RootFacts DEF Inv, Others
  <1>6. Mapped(program, target[c], at[c] + 1) = Mapped(program, target[c], at[c]) \cup {x}
    BY <1>4 DEF Mapped, Entity, Others
  <1>7. \A y \in Mapped(program, target[c], at[c]) : Done(y)'
    BY DoneKept DEF Inv, ClientOK
  <1>8. (\A y \in Mapped(program, target[c], at[c]) : Done(y))'
    BY <1>1, <1>4, <1>6, <1>7
  <1>9. ClientOK(c)'
    BY <1>4, <1>5, <1>8 DEF ClientOK
  <1> QED
    BY <1>2, <1>3, <1>9 DEF ControlStep

(* The tasks of e go to the pool, none registered so far.                  *)
LEMMA SerializeStep ==
    ASSUME Inv, NEW c \in Client, program' = program, NEW e \in Roots,
           _serialize_and_register(c, e), op' \in [Client -> Operations \cup {"none"}]
    PROVE  ControlStep(c)
  <1>1. program.tasks[e] \in SUBSET DOMAIN program.kind
    BY RootFacts DEF Inv
  <1>2. ControlTypeOK'
    BY <1>1 DEF Inv, TypeOK, ControlTypeOK, Roots, _serialize_and_register, Goto
  <1>3. \A d \in Client \ {c} : Stays(d)
    BY DEF Inv, TypeOK, Stays, _serialize_and_register, Goto
  <1>4. ClientOK(c)'
    BY DEF Inv, TypeOK, ClientOK, _serialize_and_register, Goto
  <1> QED
    BY <1>2, <1>3, <1>4 DEF ControlStep

-----------------------------------------------------------------------------
(* The actions.                                                            *)

LEMMA RawRegisterTask ==
    ASSUME Inv, NEW c \in Client, NEW t \in pending[c], raw_register_task(c, t)
    PROVE  StepOK(c)
  <1>1. /\ pc[c] = "tasks" /\ program' = program /\ active' = active
        /\ pending' = [pending EXCEPT ![c] = @ \ {t}]
        /\ \/ failed' = failed
           \/ failed' = [failed EXCEPT ![c] = TRUE]
        /\ UNCHANGED <<executions, pc, op, target, at, promised, calls>>
    BY DEF raw_register_task, Rest
  <1>2. t \in DOMAIN program.kind
    BY DEF Inv, TypeOK
  <1>3. BackendStep
    <2>1. CASE Kind(t) = "task"
      BY <1>1, <1>2, <2>1, TaskCreatable, CreateStep DEF raw_register_task, Inv
    <2>2. CASE Kind(t) # "task"
      BY <1>1, <2>2 DEF raw_register_task, BackendStep
    <2> QED
      BY <2>1, <2>2
  <1>4. ControlTypeOK'
    BY <1>1 DEF Inv, TypeOK, ControlTypeOK, Roots
  <1>5. \A d \in Client \ {c} : Stays(d)
    BY <1>1 DEF Inv, TypeOK, Stays
  <1>6. failed'[c] = FALSE /\ t \in program.tasks[target[c]] => Done(t)'
    <2>1. SUFFICES ASSUME failed'[c] = FALSE, t \in program.tasks[target[c]]
                   PROVE  Done(t)'
      OBVIOUS
    <2>2. Kind(t) \in {"task", "remote_task"} /\ t \notin program.auto_activate
      BY <2>1, <1>2, RootFacts DEF Inv, TypeOK
    <2>3. IF Kind(t) = "task" THEN Create(Id(t)) ELSE UNCHANGED admin
      BY <2>1 DEF raw_register_task, Inv, TypeOK
    <2>4. Created(program, t) \subseteq admin'
      BY <2>2, <2>3, <1>2, CreatedFacts DEF Create, Inv
    <2> QED
      BY <2>2, <2>4, <1>1 DEF Done
  <1>7. ~ failed'[c] => \A x \in program.tasks[target[c]] \ pending'[c] : Done(x)'
    <2>1. SUFFICES ASSUME ~ failed'[c], NEW x \in program.tasks[target[c]] \ pending'[c]
                   PROVE  Done(x)'
      OBVIOUS
    <2>2. ~ failed[c] /\ failed'[c] = FALSE
      BY <1>1, <2>1 DEF Inv, TypeOK
    <2>3. x # t => Done(x)
      BY <1>1, <2>1, <2>2 DEF Inv, TypeOK, ClientOK
    <2> QED
      BY <1>3, <1>6, <2>2, <2>3, DoneKept, BackendGrows
  <1>8. ClientOK(c)'
    BY <1>1, <1>7 DEF Inv, TypeOK, ClientOK
  <1>9. Answered \/ Fails
    BY DEF raw_register_task
  <1> QED
    BY <1>1, <1>3, <1>4, <1>5, <1>8, <1>9, CountersStay DEF StepOK, ControlStep

LEMMA Gather ==
    ASSUME Inv, NEW c \in Client, gather(c)
    PROVE  StepOK(c)
  <1>1. /\ program' = program /\ UNCHANGED <<admin, active, executions, promised, calls>>
        /\ Answered /\ BackendStep
    BY DEF gather, Rest, Backend, Answered, BackendStep
  <1>2. CASE ~ AllRegistered(c)
    BY <1>1, <1>2, EndsStep, CountersStay DEF gather, StepOK
  <1>3. CASE AllRegistered(c)
    <2>1. /\ pc' = [pc EXCEPT ![c] = "others"] /\ at' = [at EXCEPT ![c] = 1]
          /\ UNCHANGED <<op, target, pending, failed>>
          /\ pc[c] = "tasks" /\ pending[c] = {} /\ ~ failed[c]
      BY <1>3 DEF gather, Goto, AllRegistered
    <2>2. ControlTypeOK'
      BY <1>1, <2>1 DEF Inv, TypeOK, ControlTypeOK, Roots
    <2>3. \A d \in Client \ {c} : Stays(d)
      BY <2>1 DEF Inv, TypeOK, Stays
    <2>4. pc'[c] = "others" /\ at'[c] = 1 /\ target'[c] = target[c] /\ target[c] \in Roots
      BY <2>1 DEF Inv, TypeOK
    <2>5. Len(Others(c)) \in Nat /\ Others(c)' = Others(c)
      BY <1>1, <2>4, RootFacts DEF Inv, Others
    <2>6. Mapped(program, target[c], 1) = program.tasks[target[c]]
      BY DEF Mapped
    <2>7. \A x \in Mapped(program, target[c], 1) : Done(x)'
      BY <1>1, <2>1, <2>6, DoneKept, BackendGrows DEF Inv, ClientOK
    <2>8. (\A x \in Mapped(program, target[c], at[c]) : Done(x))'
      BY <1>1, <2>4, <2>7
    <2>9. ClientOK(c)'
      BY <2>4, <2>5, <2>8 DEF ClientOK
    <2> QED
      BY <1>1, <2>2, <2>3, <2>9, CountersStay DEF StepOK, ControlStep
  <1> QED
    BY <1>2, <1>3

LEMMA RawRegisterWorkflow ==
    ASSUME Inv, NEW c \in Client, raw_register_workflow(c)
    PROVE  StepOK(c)
  <1>1. /\ program' = program /\ UNCHANGED <<active, executions, promised, calls>>
        /\ pc[c] = "others" /\ at[c] <= Len(Others(c)) /\ Kind(Entity(c)) = "workflow"
        /\ CreateRaises(Id(Entity(c))) \/ Create(Id(Entity(c)))
        /\ Answered \/ Fails
    BY DEF raw_register_workflow, Rest
  <1>2. BackendStep
    BY <1>1, EntityCreatable, CreateStep
  <1>3. CASE Ends(c)
    BY <1>1, <1>2, <1>3, EndsStep, CountersStay DEF StepOK
  <1>4. CASE Create(Id(Entity(c))) /\ Goto(c, "default_launch_plan") /\ UNCHANGED Progress
    <2>1. pc'[c] = "default_launch_plan" /\ target' = target /\ at' = at
      BY <1>4 DEF Inv, TypeOK, Goto, Progress
    <2>2. Others(c)' = Others(c) /\ Entity(c)' = Entity(c)
      BY <1>1, <2>1 DEF Others, Entity
    <2>3. \A x \in Mapped(program, target[c], at[c]) : Done(x)'
      BY <1>1, <1>2, DoneKept, BackendGrows DEF Inv, ClientOK
    <2>4. (\A x \in Mapped(program, target[c], at[c]) : Done(x))'
      BY <1>1, <2>1, <2>3
    <2>5. (Kind(Entity(c)) = "workflow" /\ Id(Entity(c)) \in admin)'
      BY <1>1, <1>4, <2>2 DEF Create, Kind, Id
    <2>6. ClientOK(c)'
      BY <1>1, <2>1, <2>2, <2>4, <2>5 DEF Inv, ClientOK
    <2> QED
      BY <1>1, <1>2, <1>4, <2>6, GotoStep, CountersStay DEF StepOK
  <1> QED
    BY <1>3, <1>4 DEF raw_register_workflow

LEMMA CreateDefaultLaunchPlan ==
    ASSUME Inv, NEW c \in Client, create_default_launch_plan(c)
    PROVE  StepOK(c)
  <1> DEFINE id == program.default_id[Entity(c)]
  <1>1. /\ program' = program /\ UNCHANGED <<active, executions, promised, calls>>
        /\ pc[c] = "default_launch_plan"
        /\ CreateRaises(id) \/ Create(id)
        /\ Answered \/ Fails
    BY DEF create_default_launch_plan, Rest
  <1>2. BackendStep
    BY <1>1, DefaultCreatable, CreateStep
  <1>3. CASE Ends(c)
    BY <1>1, <1>2, <1>3, EndsStep, CountersStay DEF StepOK
  <1>4. CASE Create(id) /\ NextEntity(c)
    <2>1. /\ at[c] <= Len(Others(c)) /\ Kind(Entity(c)) = "workflow" /\ Id(Entity(c)) \in admin
          /\ Entity(c) \in DOMAIN program.kind
      BY <1>1, DefaultCreatable DEF Inv, ClientOK
    <2>2. PICK x : x = Entity(c)
      OBVIOUS
    <2>3. Created(program, x) = {Id(x), id} /\ x \notin program.auto_activate
      BY <2>1, <2>2, CreatedFacts, RootFacts DEF Inv
    <2>4. Done(x)'
      BY <1>1, <1>4, <2>1, <2>2, <2>3 DEF Done, Create
    <2> QED
      BY <1>1, <1>2, <1>4, <2>1, <2>2, <2>4, BackendGrows, NextEntityStep, CountersStay DEF StepOK
  <1> QED
    BY <1>3, <1>4 DEF create_default_launch_plan

LEMMA RawRegisterLaunchPlan ==
    ASSUME Inv, NEW c \in Client, raw_register_launch_plan(c)
    PROVE  StepOK(c)
  <1>1. /\ program' = program /\ UNCHANGED <<active, executions, promised, calls>>
        /\ pc[c] = "others" /\ at[c] <= Len(Others(c)) /\ Kind(Entity(c)) = "launch_plan"
        /\ CreateRaises(Id(Entity(c))) \/ Create(Id(Entity(c)))
        /\ Answered \/ Fails
    BY DEF raw_register_launch_plan, Rest
  <1>2. BackendStep /\ Entity(c) \in DOMAIN program.kind
    BY <1>1, EntityCreatable, CreateStep
  <1>3. CASE Ends(c)
    BY <1>1, <1>2, <1>3, EndsStep, CountersStay DEF StepOK
  <1>4. CASE Create(Id(Entity(c))) /\ Goto(c, "activate") /\ UNCHANGED Progress
    <2>1. pc'[c] = "activate" /\ target' = target /\ at' = at
      BY <1>4 DEF Inv, TypeOK, Goto, Progress
    <2>2. Others(c)' = Others(c) /\ Entity(c)' = Entity(c)
      BY <1>1, <2>1 DEF Others, Entity
    <2>3. \A x \in Mapped(program, target[c], at[c]) : Done(x)'
      BY <1>1, <1>2, DoneKept, BackendGrows DEF Inv, ClientOK
    <2>4. (\A x \in Mapped(program, target[c], at[c]) : Done(x))'
      BY <1>1, <2>1, <2>3
    <2>5. (Kind(Entity(c)) = "launch_plan" /\ Id(Entity(c)) \in admin)'
      BY <1>1, <1>4, <2>2 DEF Create, Kind, Id
    <2>6. ClientOK(c)'
      BY <1>1, <2>1, <2>2, <2>4, <2>5 DEF Inv, ClientOK
    <2> QED
      BY <1>1, <1>2, <1>4, <2>6, GotoStep, CountersStay DEF StepOK
  <1>5. CASE Create(Id(Entity(c))) /\ ~ should_auto_activate(Entity(c)) /\ NextEntity(c)
    <2>1. PICK x : x = Entity(c)
      OBVIOUS
    <2>2. Created(program, x) = {Id(x)}
      BY <1>1, <1>2, <2>1, CreatedFacts DEF Inv
    <2>3. Done(x)'
      BY <1>1, <1>5, <2>1, <2>2 DEF Done, Create, should_auto_activate
    <2> QED
      BY <1>1, <1>2, <1>5, <2>1, <2>3, BackendGrows, NextEntityStep, CountersStay DEF StepOK
  <1> QED
    BY <1>3, <1>4, <1>5 DEF raw_register_launch_plan

LEMMA UpdateLaunchPlan ==
    ASSUME Inv, NEW c \in Client, update_launch_plan(c)
    PROVE  StepOK(c)
  <1>1. /\ program' = program /\ UNCHANGED <<admin, executions, promised, calls>>
        /\ pc[c] = "activate" /\ active' \in {active, active \cup {Id(Entity(c))}}
        /\ Answered \/ Fails
    BY DEF update_launch_plan, Rest
  <1>2. /\ at[c] <= Len(Others(c)) /\ Kind(Entity(c)) = "launch_plan" /\ Id(Entity(c)) \in admin
    BY <1>1 DEF Inv, ClientOK
  <1>3. BackendStep
    BY <1>1, <1>2, ActivateStep
  <1>4. CASE Ends(c)
    BY <1>1, <1>3, <1>4, EndsStep, CountersStay DEF StepOK
  <1>5. CASE active' = active \cup {Id(Entity(c))} /\ NextEntity(c)
    <2>1. PICK x : x = Entity(c)
      OBVIOUS
    <2>2. Entity(c) \in DOMAIN program.kind
      <3>1. at[c] \in Nat \ {0} /\ target[c] \in Roots
        BY DEF Inv, TypeOK, ClientOK
      <3>2. Others(c) \in Seq(DOMAIN program.kind)
        BY <3>1, RootFacts DEF Inv, Others
      <3> QED
        BY <1>2, <3>1, <3>2 DEF Entity
    <2>3. Created(program, x) = {Id(x)}
      BY <1>2, <2>1, <2>2, CreatedFacts DEF Inv
    <2>4. Done(x)'
      BY <1>1, <1>2, <1>5, <2>1, <2>3 DEF Done, Id
    <2> QED
      BY <1>1, <1>2, <1>3, <1>5, <2>1, <2>4, BackendGrows, NextEntityStep, CountersStay DEF StepOK
  <1> QED
    BY <1>4, <1>5 DEF update_launch_plan

LEMMA RegistrationSkipped ==
    ASSUME Inv, NEW c \in Client, registration_skipped(c)
    PROVE  StepOK(c)
  <1>1. /\ program' = program /\ UNCHANGED <<admin, active, executions, promised, calls>>
        /\ pc[c] = "others" /\ at[c] <= Len(Others(c)) /\ Kind(Entity(c)) = "reference"
        /\ NextEntity(c) /\ Answered
    BY DEF registration_skipped, Rest, Backend, Answered
  <1>2. BackendStep
    BY <1>1 DEF BackendStep
  <1>3. PICK x : x = Entity(c)
    OBVIOUS
  <1>4. x \in DOMAIN program.kind
    <2>1. at[c] \in Nat \ {0} /\ target[c] \in Roots
      BY DEF Inv, TypeOK, ClientOK
    <2>2. Others(c) \in Seq(DOMAIN program.kind)
      BY <2>1, RootFacts DEF Inv, Others
    <2> QED
      BY <1>1, <1>3, <2>1, <2>2 DEF Entity
  <1>5. Created(program, x) = {} /\ x \notin program.auto_activate
    BY <1>1, <1>3, <1>4, CreatedFacts, RootFacts DEF Inv
  <1>6. Done(x)'
    BY <1>1, <1>5 DEF Done
  <1> QED
    BY <1>1, <1>2, <1>3, <1>6, BackendGrows, NextEntityStep, CountersStay DEF StepOK

(* Everything in the mapping is done, the root itself included.            *)
LEMMA SerializedRegistered ==
    ASSUME Inv, NEW c \in Client, serialized_registered(c)
    PROVE  StepOK(c)
  <1>1. /\ program' = program /\ UNCHANGED <<admin, active, executions, promised, calls>>
        /\ pc[c] = "others" /\ at[c] > Len(Others(c))
        /\ Goto(c, "fetch_registered") /\ UNCHANGED Progress /\ Answered
    BY DEF serialized_registered, Rest, Backend, Answered
  <1>2. BackendStep
    BY <1>1 DEF BackendStep
  <1>3. /\ target[c] \in Roots /\ at[c] = Len(program.others[target[c]]) + 1
        /\ program.others[target[c]] \in Seq(DOMAIN program.kind)
        /\ WellFormed(program)
    <2>1. target[c] \in Roots /\ at[c] \in Nat /\ at[c] <= Len(Others(c)) + 1
      BY <1>1 DEF Inv, TypeOK, ClientOK
    <2>2. program.others[target[c]] \in Seq(DOMAIN program.kind)
      BY <2>1, RootFacts DEF Inv
    <2> QED
      BY <1>1, <2>1, <2>2 DEF Inv, Others
  <1>4. \A x \in Mapped(program, target[c], at[c]) : Done(x)
    BY <1>1 DEF Inv, ClientOK
  <1>5. target[c] \in Mapped(program, target[c], at[c])
    BY <1>3, RootFacts DEF Mapped
  <1>6. Id(target[c]) \in Created(program, target[c])
    <2>1. /\ target[c] \in DOMAIN program.kind
          /\ Kind(target[c]) \in {"workflow", "launch_plan"}
      BY <1>3, RootFacts DEF Roots, LaunchPlans
    <2> QED
      BY <1>3, <2>1, CreatedFacts
  <1>7. Parts(target[c]) \subseteq admin
    BY <1>3, <1>4 DEF Parts, Done
  <1>8. Promise(target[c])
    BY <1>4, <1>5, <1>6, <1>7 DEF Promise, Done
  <1>9. ClientOK(c)'
    <2>1. pc'[c] = "fetch_registered" /\ target' = target /\ at' = at
      BY <1>1 DEF Inv, TypeOK, Goto, Progress
    <2>2. Promise(target[c])'
      BY <1>1, <1>8, <2>1 DEF Promise, Id, Kind, Parts
    <2> QED
      BY <2>1, <2>2 DEF Inv, ClientOK
  <1> QED
    BY <1>1, <1>2, <1>9, GotoStep, CountersStay DEF StepOK

LEMMA RegisterLaunchPlan ==
    ASSUME Inv, NEW c \in Client, register_launch_plan(c)
    PROVE  StepOK(c)
  <1>1. /\ program' = program /\ UNCHANGED <<admin, active, executions, promised, calls>>
        /\ pc[c] = "wf_exists"
        /\ Answered \/ Fails
    BY DEF register_launch_plan, Rest, Backend
  <1>2. BackendStep
    BY <1>1 DEF BackendStep
  <1>3. target[c] \in LaunchPlans /\ target[c] \in Roots /\ at[c] \in Nat \ {0}
    BY <1>1 DEF Inv, TypeOK, ClientOK
  <1>4. CASE Ends(c)
    BY <1>1, <1>2, <1>4, EndsStep, CountersStay DEF StepOK
  <1>5. CASE _wf_exists(c) /\ Goto(c, "only_launch_plan") /\ UNCHANGED Progress
    <2>1. /\ pc'[c] = "only_launch_plan" /\ target' = target /\ at' = at
          /\ LaunchPlans' = LaunchPlans
      BY <1>1, <1>5 DEF Inv, TypeOK, Goto, Progress, LaunchPlans
    <2>2. ClientOK(c)'
      BY <1>1, <1>3, <1>5, <2>1 DEF ClientOK, _wf_exists, Id
    <2> QED
      BY <1>1, <1>2, <1>5, <2>2, GotoStep, CountersStay DEF StepOK
  <1>6. CASE _serialize_and_register(c, target[c]) /\ UNCHANGED op
    <2>1. op' \in [Client -> Operations \cup {"none"}]
      BY <1>6 DEF Inv, TypeOK
    <2> QED
      BY <1>1, <1>2, <1>3, <1>6, <2>1, SerializeStep, CountersStay DEF StepOK
  <1> QED
    BY <1>4, <1>5, <1>6 DEF register_launch_plan

LEMMA RegisterOnlyLaunchPlan ==
    ASSUME Inv, NEW c \in Client, register_only_launch_plan(c)
    PROVE  StepOK(c)
  <1>1. /\ program' = program /\ UNCHANGED <<active, executions, promised, calls>>
        /\ pc[c] = "only_launch_plan"
        /\ CreateRaises(Id(target[c])) \/ Create(Id(target[c]))
        /\ Answered \/ Fails
    BY DEF register_only_launch_plan, Rest
  <1>2. /\ target[c] \in LaunchPlans /\ Id(program.main) \in admin /\ WellFormed(program)
        /\ at[c] \in Nat \ {0}
    BY <1>1 DEF Inv, ClientOK
  <1>3. BackendStep
    BY <1>1, <1>2, LaunchPlanCreatable, CreateStep
  <1>4. CASE Ends(c)
    BY <1>1, <1>3, <1>4, EndsStep, CountersStay DEF StepOK
  <1>5. CASE /\ Create(Id(target[c])) /\ UNCHANGED Progress
             /\ Goto(c, IF should_auto_activate(target[c]) THEN "activate_only"
                        ELSE "fetch_registered")
    <2>1. /\ pc'[c] = IF should_auto_activate(target[c]) THEN "activate_only"
                      ELSE "fetch_registered"
          /\ target' = target /\ at' = at /\ LaunchPlans' = LaunchPlans
      BY <1>1, <1>5 DEF Inv, TypeOK, Goto, Progress, LaunchPlans
    <2>2. Id(target[c])' \in admin' /\ Kind(target[c])' = "launch_plan"
      BY <1>1, <1>2, <1>5, <2>1, RootFacts DEF Create, Id, Kind
    <2>3. ClientOK(c)'
      BY <1>1, <1>2, <2>1, <2>2 DEF ClientOK, Promise, should_auto_activate
    <2> QED
      BY <1>1, <1>3, <1>5, <2>3, GotoStep, CountersStay DEF StepOK
  <1> QED
    BY <1>4, <1>5 DEF register_only_launch_plan

LEMMA ActivateOnlyLaunchPlan ==
    ASSUME Inv, NEW c \in Client, activate_only_launch_plan(c)
    PROVE  StepOK(c)
  <1>1. /\ program' = program /\ UNCHANGED <<admin, executions, promised, calls>>
        /\ pc[c] = "activate_only" /\ active' \in {active, active \cup {Id(target[c])}}
        /\ Answered \/ Fails
    BY DEF activate_only_launch_plan, Rest
  <1>2. /\ target[c] \in LaunchPlans /\ Id(target[c]) \in admin /\ WellFormed(program)
        /\ at[c] \in Nat \ {0}
    BY <1>1 DEF Inv, ClientOK
  <1>3. BackendStep
    BY <1>1, <1>2, ActivateStep
  <1>4. CASE Ends(c)
    BY <1>1, <1>3, <1>4, EndsStep, CountersStay DEF StepOK
  <1>5. CASE /\ active' = active \cup {Id(target[c])}
             /\ Goto(c, "fetch_registered") /\ UNCHANGED Progress
    <2>1. pc'[c] = "fetch_registered" /\ target' = target /\ at' = at
      BY <1>5 DEF Inv, TypeOK, Goto, Progress
    <2>2. /\ Id(target[c])' \in admin' /\ Id(target[c])' \in active'
          /\ Kind(target[c])' = "launch_plan"
      BY <1>1, <1>2, <1>5, <2>1, RootFacts DEF Id, Kind
    <2>3. ClientOK(c)'
      BY <1>2, <2>1, <2>2 DEF ClientOK, Promise
    <2> QED
      BY <1>1, <1>3, <1>5, <2>3, GotoStep, CountersStay DEF StepOK
  <1> QED
    BY <1>4, <1>5 DEF activate_only_launch_plan

(* A launch plan is aimed at before anything is registered.                *)
LEMMA AimStep ==
    ASSUME Inv, NEW c \in Client, program' = program, NEW e \in LaunchPlans,
           NEW l \in {"wf_exists", "fetch_workflow", "fetch_launch_plan"},
           Goto(c, l), target' = [target EXCEPT ![c] = e],
           UNCHANGED <<pending, failed, at>>, op' \in [Client -> Operations \cup {"none"}]
    PROVE  ControlStep(c)
  <1>1. e \in Roots
    BY RootFacts DEF Inv
  <1>2. ControlTypeOK'
    BY <1>1 DEF Inv, TypeOK, ControlTypeOK, Roots, Goto
  <1>3. \A d \in Client \ {c} : Stays(d)
    BY DEF Inv, TypeOK, Stays, Goto
  <1>4. pc'[c] = l /\ target'[c] = e /\ at[c] \in Nat \ {0} /\ LaunchPlans' = LaunchPlans
    BY DEF Inv, TypeOK, Goto, ClientOK, LaunchPlans
  <1>5. ClientOK(c)'
    BY <1>4 DEF ClientOK
  <1> QED
    BY <1>2, <1>3, <1>5 DEF ControlStep

LEMMA CallMethodOK ==
    ASSUME Inv, NEW c \in Client, NEW o \in Operations, CallMethod(c, o)
    PROVE  StepOK(c)
  <1>1. /\ program' = program /\ UNCHANGED <<admin, active, executions, promised>>
        /\ calls' \in 0 .. MaxCalls /\ faults' = faults /\ crashes' = crashes
        /\ op' \in [Client -> Operations \cup {"none"}]
    BY BoundsAssumption DEF CallMethod, Backend, Inv, TypeOK
  <1>2. BackendStep
    BY <1>1 DEF BackendStep
  <1>3. program.main \in Roots /\ program.launch_plan \in LaunchPlans
        /\ program.default_launch_plan \in LaunchPlans
    BY DEF Roots, LaunchPlans
  <1>4. ControlStep(c)
    <2>1. CASE o = "register_workflow"
      BY <1>1, <1>3, <2>1, SerializeStep DEF CallMethod
    <2>2. CASE o = "register_launch_plan"
      BY <1>1, <1>3, <2>2, AimStep DEF CallMethod
    <2>3. CASE o = "execute_local_workflow"
      BY <1>1, <1>3, <2>3, AimStep DEF CallMethod
    <2>4. CASE o = "execute_local_launch_plan"
      BY <1>1, <1>3, <2>4, AimStep DEF CallMethod
    <2> QED
      BY <2>1, <2>2, <2>3, <2>4, OperationsAssumption
  <1> QED
    BY <1>1, <1>2, <1>4 DEF StepOK, Inv, TypeOK

LEMMA FetchWorkflow ==
    ASSUME Inv, NEW c \in Client, fetch_workflow(c)
    PROVE  StepOK(c)
  <1>1. /\ program' = program /\ UNCHANGED <<admin, active, executions, promised, calls>>
        /\ pc[c] = "fetch_workflow"
        /\ Answered \/ Fails
    BY DEF fetch_workflow, Rest, Backend
  <1>2. BackendStep
    BY <1>1 DEF BackendStep
  <1>3. target[c] \in LaunchPlans /\ at[c] \in Nat \ {0} /\ program.main \in Roots
    BY <1>1 DEF Inv, ClientOK, Roots
  <1>4. CASE Ends(c)
    BY <1>1, <1>2, <1>4, EndsStep, CountersStay DEF StepOK
  <1>5. CASE Goto(c, "fetch_launch_plan") /\ UNCHANGED Progress
    <2>1. /\ pc'[c] = "fetch_launch_plan" /\ target' = target /\ at' = at
          /\ LaunchPlans' = LaunchPlans
      BY <1>1, <1>5 DEF Inv, TypeOK, Goto, Progress, LaunchPlans
    <2>2. ClientOK(c)'
      BY <1>3, <2>1 DEF ClientOK
    <2> QED
      BY <1>1, <1>2, <1>5, <2>2, GotoStep, CountersStay DEF StepOK
  <1>6. CASE _serialize_and_register(c, program.main) /\ UNCHANGED op
    <2>1. op' \in [Client -> Operations \cup {"none"}]
      BY <1>6 DEF Inv, TypeOK
    <2> QED
      BY <1>1, <1>2, <1>3, <1>6, <2>1, SerializeStep, CountersStay DEF StepOK
  <1> QED
    BY <1>4, <1>5, <1>6 DEF fetch_workflow

LEMMA FetchLaunchPlan ==
    ASSUME Inv, NEW c \in Client, fetch_launch_plan(c)
    PROVE  StepOK(c)
  <1>1. /\ program' = program /\ UNCHANGED <<admin, active, executions, promised, calls>>
        /\ pc[c] = "fetch_launch_plan"
        /\ Answered \/ Fails
    BY DEF fetch_launch_plan, Rest, Backend
  <1>2. BackendStep
    BY <1>1 DEF BackendStep
  <1>3. target[c] \in LaunchPlans /\ at[c] \in Nat \ {0}
    BY <1>1 DEF Inv, ClientOK
  <1>4. CASE Ends(c)
    BY <1>1, <1>2, <1>4, EndsStep, CountersStay DEF StepOK
  <1>5. CASE /\ CanFetchLaunchPlan(target[c])
             /\ Goto(c, "create_execution") /\ UNCHANGED Progress
    <2>1. pc'[c] = "create_execution" /\ target' = target /\ at' = at
      BY <1>5 DEF Inv, TypeOK, Goto, Progress
    <2>2. ClientOK(c)'
      BY <1>1, <1>3, <1>5, <2>1 DEF ClientOK, CanFetchLaunchPlan, Id
    <2> QED
      BY <1>1, <1>2, <1>5, <2>2, GotoStep, CountersStay DEF StepOK
  <1>6. CASE Goto(c, "wf_exists") /\ UNCHANGED Progress
    <2>1. /\ pc'[c] = "wf_exists" /\ target' = target /\ at' = at
          /\ LaunchPlans' = LaunchPlans
      BY <1>1, <1>6 DEF Inv, TypeOK, Goto, Progress, LaunchPlans
    <2>2. ClientOK(c)'
      BY <1>3, <2>1 DEF ClientOK
    <2> QED
      BY <1>1, <1>2, <1>6, <2>2, GotoStep, CountersStay DEF StepOK
  <1> QED
    BY <1>4, <1>5, <1>6 DEF fetch_launch_plan

LEMMA FetchRegistered ==
    ASSUME Inv, NEW c \in Client, fetch_registered(c)
    PROVE  StepOK(c)
  <1>1. /\ program' = program /\ UNCHANGED <<admin, active, executions, calls>>
        /\ pc[c] = "fetch_registered"
        /\ Answered \/ Fails
        /\ promised' \in {promised, promised \cup {target[c]}}
    BY DEF fetch_registered, Backend
  <1>2. BackendStep
    BY <1>1 DEF BackendStep
  <1>3. target[c] \in Roots /\ Promise(target[c]) /\ at[c] \in Nat \ {0}
    BY <1>1 DEF Inv, TypeOK, ClientOK
  <1>4. promised' \subseteq promised \cup {e \in Roots : Promise(e)}
    BY <1>1, <1>3
  <1>5. CASE Ends(c)
    BY <1>1, <1>2, <1>4, <1>5, EndsStep, CountersStay DEF StepOK
  <1>6. CASE /\ Goto(c, "fetch_launch_plan")
             /\ target' = [target EXCEPT ![c] = program.default_launch_plan]
             /\ UNCHANGED <<op, pending, failed, at>>
    <2>1. program.default_launch_plan \in LaunchPlans
      BY DEF LaunchPlans
    <2>2. op' \in [Client -> Operations \cup {"none"}]
      BY <1>6 DEF Inv, TypeOK
    <2> QED
      BY <1>1, <1>2, <1>4, <1>6, <2>1, <2>2, AimStep, CountersStay DEF StepOK
  <1>7. CASE Goto(c, "create_execution") /\ UNCHANGED Progress
    <2>1. pc'[c] = "create_execution" /\ target' = target /\ at' = at
      BY <1>7 DEF Inv, TypeOK, Goto, Progress
    <2>2. ClientOK(c)'
      BY <1>1, <1>3, <2>1 DEF ClientOK, Promise, Id
    <2> QED
      BY <1>1, <1>2, <1>4, <1>7, <2>2, GotoStep, CountersStay DEF StepOK
  <1> QED
    BY <1>5, <1>6, <1>7 DEF fetch_registered

LEMMA CreateExecution ==
    ASSUME Inv, NEW c \in Client, create_execution(c)
    PROVE  StepOK(c)
  <1>1. /\ program' = program /\ UNCHANGED <<admin, active, promised, calls>>
        /\ Id(target[c]) \in admin /\ Ends(c)
        /\ executions' \in {executions, executions \cup {Id(target[c])}}
        /\ Answered \/ Fails
    BY DEF create_execution, Rest, Inv, ClientOK
  <1>2. BackendStep /\ executions' \subseteq executions \cup admin
    BY <1>1 DEF BackendStep
  <1> QED
    BY <1>1, <1>2, EndsStep, CountersStay DEF StepOK

LEMMA Crash ==
    ASSUME Inv, NEW c \in Client, crash(c)
    PROVE  StepOK(c)
  <1>1. /\ program' = program /\ UNCHANGED <<admin, active, executions, promised, calls, faults>>
        /\ Ends(c) /\ crashes' \in 0 .. MaxCrashes
    BY BoundsAssumption DEF crash, Rest, Backend, Inv, TypeOK
  <1>2. BackendStep
    BY <1>1 DEF BackendStep
  <1> QED
    BY <1>1, <1>2, EndsStep DEF StepOK, Inv, TypeOK

LEMMA EveryStepOK ==
    ASSUME Inv, Next
    PROVE  \E c \in Client : StepOK(c)
  <1>1. PICK c \in Client : \/ \E o \in Operations : CallMethod(c, o)
                           \/ Step(c)
                           \/ crash(c)
    BY DEF Next
  <1>2. CASE \E o \in Operations : CallMethod(c, o)
    BY <1>2, CallMethodOK
  <1>3. CASE crash(c)
    BY <1>3, Crash
  <1>4. CASE Step(c)
    BY <1>4, RawRegisterTask, Gather, RawRegisterWorkflow, CreateDefaultLaunchPlan,
       RawRegisterLaunchPlan, UpdateLaunchPlan, RegistrationSkipped, SerializedRegistered,
       RegisterLaunchPlan, RegisterOnlyLaunchPlan, ActivateOnlyLaunchPlan,
       FetchWorkflow, FetchLaunchPlan, FetchRegistered, CreateExecution DEF Step
  <1> QED
    BY <1>1, <1>2, <1>3, <1>4

-----------------------------------------------------------------------------
(* Theorems.                                                               *)

LEMMA InitInv == Init => Inv
  <1> SUFFICES ASSUME Init PROVE Inv
    OBVIOUS
  <1>1. WellFormed(program)
    BY ProgramsAssumption DEF Init
  <1>2. TypeOK
    BY BoundsAssumption DEF Init, TypeOK, Roots
  <1>3. Closed /\ ActiveBeforeUse /\ PromisedIsRegistered
    BY DEF Init, Closed, ActiveBeforeUse, PromisedIsRegistered
  <1>4. ASSUME NEW c \in Client PROVE ClientOK(c)
    <2>1. pc[c] = "idle" /\ at[c] = 1
      BY DEF Init
    <2> QED
      BY <2>1 DEF ClientOK
  <1> QED
    BY <1>1, <1>2, <1>3, <1>4 DEF Inv

LEMMA StutterInv == Inv /\ UNCHANGED vars => Inv'
  <1> SUFFICES ASSUME Inv, UNCHANGED vars PROVE Inv'
    OBVIOUS
  <1>1. CASE Client = {}
    BY <1>1 DEF Inv, vars, TypeOK, Roots, Closed, ActiveBeforeUse, PromisedIsRegistered, Parts, Kind, Id
  <1>2. ASSUME NEW c \in Client PROVE Inv'
    <2>1. Grows /\ BackendStep
      BY DEF vars, Grows, BackendStep
    <2>2. \A d \in Client : ClientOK(d)'
      BY <2>1, ClientKept DEF Inv, Stays, vars
    <2>3. ControlTypeOK'
      BY DEF Inv, TypeOK, ControlTypeOK, vars, Roots
    <2>4. StepOK(c)
      BY <2>1, <2>2, <2>3 DEF StepOK, ControlStep, Stays, Inv, TypeOK, vars
    <2> QED
      BY <2>4, StepPreserves
  <1> QED
    BY <1>1, <1>2

(* The inductive invariant: where each client is tells what the backend    *)
(* has already.                                                            *)
THEOREM Invariance == Spec => []Inv
  <1>1. Inv /\ [Next]_vars => Inv'
    BY EveryStepOK, StepPreserves, StutterInv
  <1> QED
    BY <1>1, InitInv, PTL DEF Spec

(* Every variable keeps its type; executions are of registered plans only. *)
THEOREM TypeCorrect == Spec => []TypeOK
  BY Invariance, PTL DEF Inv

(* What _wf_exists and fetch_workflow conclude from finding an entity: all *)
(* it refers to is registered, whatever failed or died on the way there.   *)
THEOREM ExistingComplete == Spec => []ExistingIsComplete
  <1>1. Inv => ExistingIsComplete
    BY DEF Inv, Closed, ExistingIsComplete
  <1> QED
    BY <1>1, Invariance, PTL

(* The launch plans that a registered workflow runs were activated before  *)
(* it was registered, and stay active.                                     *)
THEOREM PlansActive == Spec => []ActiveBeforeUse
  BY Invariance, PTL DEF Inv

(* When register_workflow or register_launch_plan has returned, what it    *)
(* was called for is registered with all its parts, and active.            *)
THEOREM PromisesKept == Spec => []PromisedIsRegistered
  BY Invariance, PTL DEF Inv

(* _serialize_and_register, however often it is interrupted and by however *)
(* many clients it is run, implements the catalogue.                       *)
THEOREM Refinement == Spec => ImplementsCatalog
  <1>1. Init => C!Init
    BY DEF Init, C!Init
  <1>2. Inv /\ [Next]_vars => [C!Next]_C!vars
    <2> SUFFICES ASSUME Inv, [Next]_vars
                 PROVE  [C!Next]_C!vars
      OBVIOUS
    <2>1. CASE UNCHANGED vars
      BY <2>1 DEF vars, C!vars
    <2>2. CASE Next
      <3>1. BackendStep
        BY <2>2, EveryStepOK DEF StepOK
      <3>2. CASE admin' = admin /\ active' = active
        BY <3>1, <3>2 DEF BackendStep, C!vars
      <3>3. ASSUME NEW id, Creatable(id), admin' = admin \cup {id}, active' = active
            PROVE  C!Next
        BY <3>1, <3>3 DEF BackendStep, Creatable, C!Next, C!Register
      <3>4. ASSUME NEW id \in admin, active' = active \cup {id}, admin' = admin
            PROVE  C!Next
        BY <3>1, <3>4 DEF BackendStep, Inv, TypeOK, C!Next, C!Activate
      <3> QED
        BY <3>1, <3>2, <3>3, <3>4 DEF BackendStep
    <2> QED
      BY <2>1, <2>2
  <1> QED
    BY <1>1, <1>2, Invariance, PTL DEF Spec, ImplementsCatalog, C!Spec

=============================================================================
