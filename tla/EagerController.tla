--------------------------- MODULE EagerController ---------------------------
(***************************************************************************)
(* The controller behind eager tasks (flytekit/core/worker_queue.py) and   *)
(* the eager task that drives it (flytekit/core/python_function_task.py).  *)
(*                                                                         *)
(* Three actors share the controller's `entries`:                          *)
(*   - the event loop runs one coroutine per entity call; `add` appends a  *)
(*     WorkItem under entries_lock and then polls item.status WITHOUT it;  *)
(*   - the controller thread repeats _poll: gather, reconcile each item    *)
(*     against Flyte Admin outside the lock, apply the updates under the   *)
(*     lock, render the deck under the lock, sleep;                        *)
(*   - the main thread runs the eager function, renders the deck when it   *)
(*     ends (without the lock) and joins the controller thread at exit.    *)
(* Admin keeps the executions. They outlive the process: a later attempt   *)
(* of the same eager task finds them again by name, and the clean-up task  *)
(* of the eager workflow terminates the ones left running.                 *)
(***************************************************************************)
EXTENDS Naturals, Sequences, FiniteSets

CONSTANTS
    Call,         \* the entity calls the eager function makes
    Entity,       \* the entities (tasks, workflows, launch plans) it calls
    Input,        \* the values of input_kwargs
    EntityOf,     \* EntityOf[c]: the entity that c calls
    InputOf,      \* InputOf[c]: the inputs that c passes
    Awaits,       \* Awaits[c]: the calls whose outcome is awaited before c
    IssuedAfter,  \* IssuedAfter[c]: the calls that are always added before c
    None,         \* Python's None
    Faults,       \* the faults that may happen, a subset of FaultKind
    EndPhases,    \* the terminal phases an execution may reach by itself
    MaxAttempts   \* bound on the attempts of the eager task

(* What can fail outside the controller: create_execution is refused, its
   reply is lost after Admin created the execution, sync_execution raises,
   as_python_native cannot convert the outputs, the deck cannot be uploaded,
   the pod is killed, a signal is delivered, terminate_execution is refused. *)
FaultKind == {"launch", "reply", "sync", "convert", "publish", "kill",
              "signal", "terminate"}

ItemStatus == {"PENDING", "RUNNING", "SUCCESS", "FAILED"}
TerminalStatus == {"SUCCESS", "FAILED"}

LivePhase == {"QUEUED", "RUNNING"}
EndPhase == {"SUCCEEDED", "FAILED", "ABORTED", "TIMED_OUT"}
Phase == LivePhase \cup EndPhase

(* Controller.get_execution_name: the eager execution's tag, the entity and
   its type, the position of the call among the calls of that entity, and the
   inputs, hashed. The tag is the same for every name this specification
   builds, and the hash is taken to be injective. *)
Name == [entity : Entity, idx : Nat, input : Input]
NameWithoutPosition(c, idx) ==
    [entity |-> EntityOf[c], idx |-> 0, input |-> InputOf[c]]
get_execution_name(c, idx) ==
    [entity |-> EntityOf[c], idx |-> idx, input |-> InputOf[c]]

(* "captured" is an exception that reconcile_one caught and put in the
   update, "eager" the EagerException built from the execution's closure. *)
ErrorKind == {"captured", "eager"}

Update == [idx : Nat, status : ItemStatus \cup {None},
           wf_exec : Name \cup {None}, error : ErrorKind \cup {None}]

ASSUME ProgramAssumption ==
    /\ EntityOf \in [Call -> Entity]
    /\ InputOf \in [Call -> Input]
    /\ Awaits \in [Call -> SUBSET Call]
    /\ IssuedAfter \in [Call -> SUBSET Call]

ASSUME NoneAssumption ==
    /\ None \notin Name
    /\ None \notin Update
    /\ None \notin Call
    /\ None \notin ErrorKind
    /\ None \notin ItemStatus

ASSUME BoundAssumption ==
    /\ Faults \subseteq FaultKind
    /\ EndPhases \subseteq EndPhase
    /\ MaxAttempts \in Nat \ {0}

VARIABLES
    entries,   \* Controller.entries: the calls of each entity, in call order
    status,    \* WorkItem.status
    wfExec,    \* WorkItem.wf_exec: the execution attached to the item, or None
    result,    \* WorkItem.result: the execution whose outputs it holds, or None
    error,     \* WorkItem.error
    coro,      \* where the coroutine of each call stands
    pc,        \* where the controller thread stands
    updates,   \* update_items of the current round: an Update or None per call
    todo,      \* the calls the current loop of the controller has left
    cur,       \* the item between item.status = ... and item.result/error = ...
    stop,      \* Controller.stopping_condition
    main,      \* where the main thread stands
    verdict,   \* how this attempt of the eager task ended
    handling,  \* the module's handling_signal flag
    attempt,   \* number of the current attempt
    admin,     \* Admin: the phase of every execution ever created
    cleanup,   \* where the clean-up task stands
    targets    \* the executions the clean-up task listed and has to terminate

items == <<entries, status, wfExec, result, error>>
ctl == <<pc, updates, todo, cur>>
proc == <<stop, main, verdict, handling, attempt>>
clean == <<cleanup, targets>>
vars == <<items, coro, ctl, proc, admin, clean>>

CoroState == {"idle", "waiting", "returned", "returnedNone", "raised", "asserted"}
Settled == {"returned", "returnedNone", "raised", "asserted"}
ControllerState == {"top", "reconcile", "apply", "outcome", "render",
                    "stopped", "dead"}
MainState == {"running", "rendering", "ended", "joining", "exited"}
Verdict == {"none", "ok", "eager", "nonrecoverable", "other", "killed"}
CleanupState == {"idle", "listing", "terminating", "done", "failed"}

(* Every variable has its type; in particular updates keep the form of Update,
   with an execution's name or None, through both loops of _poll
   (worker_queue.py 75-114, 261-306). *)
TypeOK ==
    /\ entries \in [Entity -> Seq(Call)]
    /\ status \in [Call -> ItemStatus]
    /\ wfExec \in [Call -> Name \cup {None}]
    /\ result \in [Call -> Name \cup {None}]
    /\ error \in [Call -> ErrorKind \cup {None}]
    /\ coro \in [Call -> CoroState]
    /\ pc \in ControllerState
    /\ updates \in [Call -> Update \cup {None}]
    /\ todo \subseteq Call
    /\ cur \in Call \cup {None}
    /\ stop \in BOOLEAN
    /\ main \in MainState
    /\ verdict \in Verdict
    /\ handling \in 0..3
    /\ attempt \in 1..MaxAttempts
    /\ DOMAIN admin \subseteq Name
    /\ admin \in [DOMAIN admin -> Phase]
    /\ cleanup \in CleanupState
    /\ targets \subseteq DOMAIN admin

-----------------------------------------------------------------------------
(* Derived state *)

(* The calls that have a WorkItem in `entries`, and the position of each. *)
IsAt(c, i) == /\ i \in DOMAIN entries[EntityOf[c]]
              /\ entries[EntityOf[c]][i] = c
Added(c) == \E i \in DOMAIN entries[EntityOf[c]] : entries[EntityOf[c]][i] = c
IdxOf(c) == CHOOSE i \in DOMAIN entries[EntityOf[c]] : entries[EntityOf[c]][i] = c

(* entries_lock is held by the controller thread while it applies updates;
   its other critical sections are single steps. *)
LockHeld == pc \in {"apply", "outcome"}

(* The process of the current attempt is still there. *)
Alive == main # "exited"

(* render_html dereferences item.wf_exec.id of every item in `entries`. *)
RenderRaises == \E c \in Call : Added(c) /\ wfExec[c] = None

(* _execute catches whatever _poll raises, logs it and calls exit(1), which
   ends only the controller thread. *)
ThreadDies == pc' = "dead"

-----------------------------------------------------------------------------
(* Initial state: a new process, and no execution in Admin *)

OfEachCall(v) == [c \in Call |-> v]

Init ==
    /\ entries = [e \in Entity |-> <<>>]
    /\ status = OfEachCall("PENDING")
    /\ wfExec = OfEachCall(None)
    /\ result = OfEachCall(None)
    /\ error = OfEachCall(None)
    /\ coro = OfEachCall("idle")
    /\ pc = "top"
    /\ updates = OfEachCall(None)
    /\ todo = {}
    /\ cur = None
    /\ stop = FALSE
    /\ main = "running"
    /\ verdict = "none"
    /\ handling = 0
    /\ attempt = 1
    /\ admin = [n \in {} |-> "QUEUED"]
    /\ cleanup = "idle"
    /\ targets = {}

-----------------------------------------------------------------------------
(* Controller.add, in the event loop *)

(* The eager function awaits the calls in Awaits[c] before it makes c. *)
Ready(c) ==
    /\ coro[c] = "idle"
    /\ \A d \in Awaits[c] : coro[d] \in Settled
    /\ \A d \in IssuedAfter[c] : coro[d] # "idle"

Add(c) ==
    /\ main = "running"
    /\ Ready(c)
    /\ ~LockHeld
    /\ entries' = [entries EXCEPT ![EntityOf[c]] = Append(@, c)]
    /\ coro' = [coro EXCEPT ![c] = "waiting"]
    /\ UNCHANGED <<status, wfExec, result, error, ctl, proc, admin, clean>>

AddReturns(c) ==
    /\ main = "running"
    /\ coro[c] = "waiting"
    /\ status[c] = "SUCCESS"
    /\ coro' = [coro EXCEPT ![c] = IF result[c] = None THEN "returnedNone" ELSE "returned"]
    /\ UNCHANGED <<items, ctl, proc, admin, clean>>

AddRaises(c) ==
    /\ main = "running"
    /\ coro[c] = "waiting"
    /\ status[c] = "FAILED"
    /\ coro' = [coro EXCEPT ![c] = IF error[c] = None THEN "asserted" ELSE "raised"]
    /\ UNCHANGED <<items, ctl, proc, admin, clean>>

-----------------------------------------------------------------------------
(* The controller thread: one round of _poll *)

(* _get_update_items skips the items that are in a terminal state. *)
NeedsUpdateUnlessPending(c) == Added(c) /\ status[c] = "PENDING"
NeedsUpdateAlways(c) == Added(c)
NeedsUpdate(c) == Added(c) /\ status[c] \notin TerminalStatus

NewUpdate(c) == [idx |-> IdxOf(c), status |-> None, wf_exec |-> None, error |-> None]

PollTopIgnoresStop ==
    /\ Alive
    /\ pc = "top"
    /\ pc' = "reconcile"
    /\ updates' = [c \in Call |-> IF NeedsUpdate(c) THEN NewUpdate(c) ELSE None]
    /\ todo' = {c \in Call : NeedsUpdate(c)}
    /\ UNCHANGED <<items, coro, cur, proc, admin, clean>>

PollTop ==
    /\ Alive
    /\ pc = "top"
    /\ \/ /\ stop
          /\ pc' = "stopped"
          /\ UNCHANGED <<updates, todo, cur>>
       \/ /\ ~stop
          /\ pc' = "reconcile"
          /\ updates' = [c \in Call |-> IF NeedsUpdate(c) THEN NewUpdate(c) ELSE None]
          /\ todo' = {c \in Call : NeedsUpdate(c)}
          /\ UNCHANGED cur
    /\ UNCHANGED <<items, coro, proc, admin, clean>>

(* One turn of the loop over update_items: reconcile_one(up) for c's item.
   Nothing is locked, and the item itself is only read. *)
Reconciling(c) ==
    /\ Alive
    /\ pc = "reconcile"
    /\ c \in todo
    /\ todo' = todo \ {c}
    /\ UNCHANGED <<items, coro, pc, cur, proc, clean>>

SetUpdate(c, st, wf, err) ==
    updates' = [updates EXCEPT ![c] = [idx |-> @.idx, status |-> st,
                                       wf_exec |-> wf, error |-> err]]

(* Any exception in reconcile_one ends up in the update; its wf_exec was not
   assigned yet. *)
Captured(c) == SetUpdate(c, "FAILED", None, "captured")

(* FlyteRemote.execute: an execution that already has this name is returned
   as it is, otherwise Admin creates it. *)
CreateExecution(n) ==
    admin' = [m \in DOMAIN admin \cup {n} |-> IF m \in DOMAIN admin THEN admin[m] ELSE "QUEUED"]

NameOfThisAttempt(c) == get_execution_name(c, updates[c].idx + 10 * attempt)
LaunchName(c) == get_execution_name(c, updates[c].idx)

MayLaunch(c) == result[c] = None /\ error[c] = None

Launch(c) ==
    /\ Reconciling(c)
    /\ wfExec[c] = None
    /\ MayLaunch(c)
    /\ CreateExecution(LaunchName(c))
    /\ SetUpdate(c, "RUNNING", LaunchName(c), None)

(* Admin created the execution but the caller saw an exception. *)
LaunchReplyLost(c) ==
    /\ "reply" \in Faults
    /\ Reconciling(c)
    /\ wfExec[c] = None
    /\ MayLaunch(c)
    /\ CreateExecution(LaunchName(c))
    /\ Captured(c)

LaunchRaises(c) ==
    /\ Reconciling(c)
    /\ wfExec[c] = None
    /\ "launch" \in Faults \/ ~MayLaunch(c)
    /\ Captured(c)
    /\ UNCHANGED admin

TimeoutIsSuccess(ph) ==
    IF ph \in {"SUCCEEDED", "TIMED_OUT"} THEN "SUCCESS"
    ELSE IF ph \in EndPhase THEN "FAILED" ELSE "RUNNING"
StatusOfPhase(ph) ==
    CASE ph = "SUCCEEDED" -> "SUCCESS"
      [] ph \in {"FAILED", "ABORTED", "TIMED_OUT"} -> "FAILED"
      [] OTHER -> "RUNNING"

Sync(c) ==
    /\ Reconciling(c)
    /\ wfExec[c] # None
    /\ SetUpdate(c, StatusOfPhase(admin[wfExec[c]]), wfExec[c], None)
    /\ UNCHANGED admin

SyncRaises(c) ==
    /\ "sync" \in Faults
    /\ Reconciling(c)
    /\ wfExec[c] # None
    /\ Captured(c)
    /\ UNCHANGED admin

(* _apply_updates takes entries_lock ... *)
ReconcileDone ==
    /\ Alive
    /\ pc = "reconcile"
    /\ todo = {}
    /\ pc' = "apply"
    /\ todo' = {c \in Call : updates[c] # None}
    /\ UNCHANGED <<items, coro, updates, cur, proc, admin, clean>>

(* ... assigns item.wf_exec and item.status ... *)
ApplyStatus(c) ==
    /\ Alive
    /\ pc = "apply"
    /\ c \in todo
    /\ wfExec' = [wfExec EXCEPT ![c] = updates[c].wf_exec]
    /\ status' = [status EXCEPT ![c] = updates[c].status]
    /\ todo' = todo \ {c}
    /\ IF updates[c].status \in TerminalStatus
       THEN pc' = "outcome" /\ cur' = c
       ELSE UNCHANGED <<pc, cur>>
    /\ UNCHANGED <<entries, result, error, coro, updates, proc, admin, clean>>

(* ... and only then item.result, or item.error. *)
ApplyOutcome ==
    /\ Alive
    /\ pc = "outcome"
    /\ IF updates[cur].status = "SUCCESS"
       THEN /\ result' = [result EXCEPT ![cur] = updates[cur].wf_exec]
            /\ UNCHANGED error
       ELSE /\ error' = [error EXCEPT ![cur] = IF updates[cur].error # None
                                                  THEN updates[cur].error
                                                  ELSE "eager"]
            /\ UNCHANGED result
    /\ pc' = "apply"
    /\ cur' = None
    /\ UNCHANGED <<entries, status, wfExec, coro, updates, todo, proc, admin, clean>>

(* outputs.as_python_native raises: the exception leaves _apply_updates. *)
ConversionRaises ==
    /\ "convert" \in Faults
    /\ Alive
    /\ pc = "outcome"
    /\ updates[cur].status = "SUCCESS"
    /\ ThreadDies
    /\ UNCHANGED <<items, coro, updates, todo, cur, proc, admin, clean>>

ApplyDone ==
    /\ Alive
    /\ pc = "apply"
    /\ todo = {}
    /\ pc' = "render"
    /\ updates' = OfEachCall(None)
    /\ UNCHANGED <<items, coro, todo, cur, proc, admin, clean>>

(* The lock is taken again to render and publish the deck, unless nothing was
   ever added; then the thread sleeps and starts over. *)
RenderDeck ==
    /\ Alive
    /\ pc = "render"
    /\ IF RenderRaises THEN ThreadDies ELSE pc' = "top"
    /\ UNCHANGED <<items, coro, updates, todo, cur, proc, admin, clean>>

PublishRaises ==
    /\ "publish" \in Faults
    /\ Alive
    /\ pc = "render"
    /\ \E e \in Entity : entries[e] # <<>>
    /\ ThreadDies
    /\ UNCHANGED <<items, coro, updates, todo, cur, proc, admin, clean>>

-----------------------------------------------------------------------------
(* The main thread: run_with_backend, the exit of the process *)

(* The eager function awaited all its calls, handled whatever they raised, and
   returned. *)
FunctionReturns ==
    /\ main = "running"
    /\ \A c \in Call : coro[c] \in Settled
    /\ main' = "rendering"
    /\ verdict' = "ok"
    /\ UNCHANGED <<items, coro, ctl, stop, handling, attempt, admin, clean>>

(* The outcome of a call leaves the eager function as an exception. Only an
   EagerException is caught by run_with_backend. *)
FunctionRaises(c) ==
    /\ main = "running"
    /\ coro[c] \in {"raised", "asserted"}
    /\ IF coro[c] = "raised" /\ error[c] = "eager"
       THEN main' = "rendering" /\ verdict' = "eager"
       ELSE main' = "ended" /\ verdict' = "other"
    /\ UNCHANGED <<items, coro, ctl, stop, handling, attempt, admin, clean>>

(* The deck is rendered once more, now by the main thread and without the
   lock. Then a caught EagerException is re-raised as a non-recoverable one. *)
MainRenders ==
    /\ main = "rendering"
    /\ main' = "ended"
    /\ verdict' = CASE RenderRaises -> "other"
                    [] ~RenderRaises /\ verdict = "eager" -> "nonrecoverable"
                    [] OTHER -> verdict
    /\ UNCHANGED <<items, coro, ctl, stop, handling, attempt, admin, clean>>

(* Controller._close, an atexit callback: ask the thread to stop ... *)
Close ==
    /\ main = "ended"
    /\ main' = "joining"
    /\ stop' = TRUE
    /\ UNCHANGED <<items, coro, ctl, verdict, handling, attempt, admin, clean>>

(* ... and join it. *)
Join ==
    /\ main = "joining"
    /\ pc \in {"stopped", "dead"}
    /\ main' = "exited"
    /\ UNCHANGED <<items, coro, ctl, stop, verdict, handling, attempt, admin, clean>>

(* SIGINT or SIGTERM on the main thread. The first one sets the flag and then
   raises AttributeError (the controller has no __loop), before anything is
   terminated; the next two only count; a later one exits. What is raised
   unwinds the main thread, or abandons the join in the atexit callback. *)
Interrupted ==
    IF main = "joining"
    THEN main' = "exited" /\ UNCHANGED verdict
    ELSE main' = "ended" /\ verdict' = "other"

Signal ==
    /\ "signal" \in Faults
    /\ Alive
    /\ CASE handling = 0 -> handling' = 1 /\ Interrupted
         [] handling \in 1..2 -> handling' = handling + 1 /\ UNCHANGED <<main, verdict>>
         [] OTHER -> Interrupted /\ UNCHANGED handling
    /\ UNCHANGED <<items, coro, ctl, stop, attempt, admin, clean>>

(* The pod is killed or evicted. *)
Kill ==
    /\ "kill" \in Faults
    /\ Alive
    /\ main' = "exited"
    /\ verdict' = "killed"
    /\ UNCHANGED <<items, coro, ctl, stop, handling, attempt, admin, clean>>

(* The engine retries the eager task: same execution id, hence the same tag,
   in a new process. *)
NewAttempt ==
    /\ main = "exited"
    /\ verdict \in {"other", "killed"}
    /\ cleanup = "idle"
    /\ attempt < MaxAttempts
    /\ entries' = [e \in Entity |-> <<>>]
    /\ status' = OfEachCall("PENDING")
    /\ wfExec' = OfEachCall(None)
    /\ result' = OfEachCall(None)
    /\ error' = OfEachCall(None)
    /\ coro' = OfEachCall("idle")
    /\ pc' = "top"
    /\ updates' = OfEachCall(None)
    /\ todo' = {}
    /\ cur' = None
    /\ stop' = FALSE
    /\ main' = "running"
    /\ verdict' = "none"
    /\ handling' = 0
    /\ attempt' = attempt + 1
    /\ UNCHANGED <<admin, clean>>

-----------------------------------------------------------------------------
(* EagerFailureHandlerTask.dispatch_execute, the workflow's failure node *)

CleanupStarts ==
    /\ cleanup = "idle"
    /\ main = "exited"
    /\ verdict # "ok"
    /\ cleanup' = "listing"
    /\ UNCHANGED <<items, coro, ctl, proc, admin, targets>>

(* The filters of the listing: the phase_filter of the clean-up task. *)
CleanupListsRunning ==
    /\ cleanup = "listing"
    /\ targets' = {n \in DOMAIN admin : admin[n] = "RUNNING"}
    /\ cleanup' = IF targets' = {} THEN "done" ELSE "terminating"
    /\ UNCHANGED <<items, coro, ctl, proc, admin>>
CleanupListsEverything ==
    /\ cleanup = "listing"
    /\ targets' = DOMAIN admin
    /\ cleanup' = IF targets' = {} THEN "done" ELSE "terminating"
    /\ UNCHANGED <<items, coro, ctl, proc, admin>>
CleanupLists ==
    /\ cleanup = "listing"
    /\ targets' = {n \in DOMAIN admin : admin[n] \in LivePhase}
    /\ cleanup' = IF targets' = {} THEN "done" ELSE "terminating"
    /\ UNCHANGED <<items, coro, ctl, proc, admin>>

(* Terminating an execution that has finished since it was listed changes
   nothing, or is refused; the clean-up task does not handle a refusal. *)
CleanupTerminates(n) ==
    /\ cleanup = "terminating"
    /\ n \in targets
    /\ targets' = targets \ {n}
    /\ admin' = IF admin[n] \in LivePhase THEN [admin EXCEPT ![n] = "ABORTED"] ELSE admin
    /\ cleanup' = IF targets' = {} THEN "listing" ELSE "terminating"
    /\ UNCHANGED <<items, coro, ctl, proc>>

TerminateRaises(n) ==
    /\ "terminate" \in Faults
    /\ cleanup = "terminating"
    /\ n \in targets
    /\ admin[n] \in EndPhase
    /\ cleanup' = "failed"
    /\ UNCHANGED <<items, coro, ctl, proc, admin, targets>>

-----------------------------------------------------------------------------
(* Admin: executions run and end by themselves *)

ExecutionStarts(n) ==
    /\ admin[n] = "QUEUED"
    /\ admin' = [admin EXCEPT ![n] = "RUNNING"]
    /\ UNCHANGED <<items, coro, ctl, proc, clean>>

ExecutionEnds(n) ==
    /\ admin[n] \in LivePhase
    /\ \E ph \in EndPhases : admin' = [admin EXCEPT ![n] = ph]
    /\ UNCHANGED <<items, coro, ctl, proc, clean>>

-----------------------------------------------------------------------------
Coroutine(c) == Add(c) \/ AddReturns(c) \/ AddRaises(c)

Reconcile(c) == Launch(c) \/ LaunchReplyLost(c) \/ LaunchRaises(c) \/ Sync(c) \/ SyncRaises(c)

Controller ==
    \/ PollTop
    \/ \E c \in Call : Reconcile(c)
    \/ ReconcileDone
    \/ \E c \in Call : ApplyStatus(c)
    \/ ApplyOutcome
    \/ ConversionRaises
    \/ ApplyDone
    \/ RenderDeck
    \/ PublishRaises

Main ==
    \/ FunctionReturns
    \/ \E c \in Call : FunctionRaises(c)
    \/ MainRenders
    \/ Close
    \/ Join

Cleanup ==
    \/ CleanupStarts
    \/ CleanupLists
    \/ \E n \in targets : CleanupTerminates(n) \/ TerminateRaises(n)

Execution(n) == ExecutionStarts(n) \/ ExecutionEnds(n)

Next ==
    \/ \E c \in Call : Coroutine(c)
    \/ Controller
    \/ Main
    \/ Signal
    \/ Kill
    \/ NewAttempt
    \/ Cleanup
    \/ \E n \in DOMAIN admin : Execution(n)

Spec == Init /\ [][Next]_vars

(* Fairness. The controller thread and the clean-up task are loops that only
   sleep; a polling coroutine wakes every two seconds; the main thread runs to
   its exit; Admin's executions end. Nothing is assumed of faults, signals,
   retries, or of whether the eager function makes another call. *)
Fairness ==
    /\ WF_vars(Controller)
    /\ WF_vars(Main)
    /\ WF_vars(Cleanup)
    /\ \A c \in Call : WF_vars(AddReturns(c) \/ AddRaises(c))
    /\ WF_vars(\E n \in DOMAIN admin : ExecutionEnds(n))

FairSpec == Spec /\ Fairness

-----------------------------------------------------------------------------
(* Safety *)

(* Two WorkItems never watch the same execution, so that no call receives the
   outcome of another one: positions in `entries` are never reused or shifted
   while updates computed outside the lock are in flight (worker_queue.py
   261-306, 356-371). *)
NoSharedExecution ==
    \A c, d \in Call :
        (c # d /\ wfExec[c] # None /\ wfExec[d] # None) => wfExec[c] # wfExec[d]

(* What add returns is the output of an execution of the entity that was
   called, with the inputs that were passed, and Admin holds it as succeeded,
   whichever attempt created that execution (worker_queue.py 224-306). *)
ResultIsOwn ==
    \A c \in Call : coro[c] = "returned" =>
        /\ result[c] \in DOMAIN admin
        /\ admin[result[c]] = "SUCCEEDED"
        /\ result[c].entity = EntityOf[c]
        /\ result[c].input = InputOf[c]

(* "execution names should be deterministic and unique" (worker_queue.py 202):
   the attempts of one eager task together never create more executions of an
   entity on given inputs than the eager function makes such calls. *)
NoDuplicateWork ==
    \A e \in Entity, v \in Input :
        Cardinality({n \in DOMAIN admin : n.entity = e /\ n.input = v})
            <= Cardinality({c \in Call : EntityOf[c] = e /\ InputOf[c] = v})

(* "This task is responsible only for ensuring that all executions are
   terminated" (python_function_task.py 712): when the clean-up task returns,
   no execution of any attempt is live, also the ones whose WorkItem was lost
   with the process, was dropped by a failed sync or a lost reply. *)
NothingLeftRunning ==
    cleanup = "done" => \A n \in DOMAIN admin : admin[n] \notin LivePhase

(* A WorkItem that reached a terminal status keeps it, with the outcome that
   was recorded for it, until the process ends: a late sync, a failed sync or
   a stale update never changes what a waiting coroutine will see
   (worker_queue.py 261-306). *)
OutcomeIsFinal ==
    [][\A c \in Call : (status[c] \in TerminalStatus /\ attempt' = attempt) =>
          /\ status'[c] = status[c]
          /\ result[c] # None => result'[c] = result[c]
          /\ error[c] # None => error'[c] = error[c]]_vars

(* The controller, its thread and the coroutines implement CallService,
   through kills, retries, lost replies and late syncs: a call that returns is
   answered, once, with an execution of its own, of the entity it calls on the
   inputs it passes, which Admin holds as succeeded; an answer stays as it was
   given; nothing is launched but for a call that was made (worker_queue.py
   224-306, 356-371, 420-431). *)
CallState ==
    [c \in Call |-> IF coro[c] = "idle" THEN "new"
                    ELSE IF coro[c] = "waiting" THEN "open"
                    ELSE IF coro[c] = "returned" THEN "answered" ELSE "failed"]

AnswerOf == [c \in Call |-> IF coro[c] = "returned" THEN result[c] ELSE None]

WorkOfCall == [c \in Call |-> [entity |-> EntityOf[c], input |-> InputOf[c]]]
JobsBegun == [n \in DOMAIN admin |-> [entity |-> n.entity, input |-> n.input]]
JobsSucceeded == {n \in DOMAIN admin : admin[n] = "SUCCEEDED"}

Service == INSTANCE CallService WITH
    WorkOf <- WorkOfCall, jobs <- JobsBegun, succeeded <- JobsSucceeded,
    call <- CallState, answer <- AnswerOf

ImplementsCallService == Service!Spec

-----------------------------------------------------------------------------
(* Liveness *)

(* As long as the controller thread lives, a call that was added ends: add
   returns or raises, unless the eager task itself is over
   (worker_queue.py 420-431). *)
AddFinishes ==
    \A c \in Call : coro[c] = "waiting" ~> (coro[c] # "waiting" \/ pc = "dead" \/ main # "running")

(* The process exits once the eager function is over: _close joins a thread
   that always reaches its stop test (worker_queue.py 218-222, 308-313). *)
ProcessExits == main = "ended" ~> main = "exited"

(* The clean-up task ends (python_function_task.py 735-753). *)
CleanupEnds == cleanup = "listing" ~> cleanup \in {"done", "failed"}

-----------------------------------------------------------------------------
(* The inductive invariant behind the safety properties *)

(* `entries` holds each call at most once, in the list of its own entity, and
   only calls that were made. *)
EntriesOK ==
    \A e \in Entity : \A i \in DOMAIN entries[e] :
        /\ EntityOf[entries[e][i]] = e
        /\ coro[entries[e][i]] # "idle"
        /\ \A j \in DOMAIN entries[e] : entries[e][i] = entries[e][j] => i = j

(* n is the name of call c at its current position, and Admin knows it. *)
Owned(c, n) ==
    /\ n \in DOMAIN admin
    /\ n.entity = EntityOf[c]
    /\ n.input = InputOf[c]
    /\ IsAt(c, n.idx)

AttachedOwned == \A c \in Call : wfExec[c] # None => Owned(c, wfExec[c])

(* An update belongs to an item that was not terminal when it was gathered,
   remembers the item's position, and reports success only of an execution
   that succeeded. *)
UpdatesOK ==
    \A c \in Call : updates[c] # None =>
        /\ IsAt(c, updates[c].idx)
        /\ updates[c].wf_exec # None => Owned(c, updates[c].wf_exec)
        /\ updates[c].status = "SUCCESS" =>
             /\ updates[c].wf_exec # None
             /\ admin[updates[c].wf_exec] = "SUCCEEDED"

(* Where the controller's loops stand. *)
LoopsOK ==
    /\ \A c \in todo : updates[c] # None /\ status[c] \notin TerminalStatus
    /\ pc = "reconcile" => \A c \in Call :
         updates[c] # None => /\ c \in todo \/ updates[c].status # None
                              /\ status[c] \notin TerminalStatus
    /\ pc \in {"apply", "outcome"} => \A c \in Call :
         updates[c] # None => updates[c].status # None
    /\ pc = "outcome" =>
         /\ cur \in Call
         /\ cur \notin todo
         /\ updates[cur] # None
         /\ updates[cur].status \in TerminalStatus
         /\ status[cur] = updates[cur].status
         /\ result[cur] = None
         /\ error[cur] = None
    /\ pc \in {"top", "render"} => todo = {}

(* An item has an outcome only in a terminal state, and its result comes from
   its own execution, which succeeded. *)
OutcomesOK ==
    /\ \A c \in Call : (result[c] # None \/ error[c] # None) => status[c] \in TerminalStatus
    /\ \A c \in Call : result[c] # None =>
         Owned(c, result[c]) /\ admin[result[c]] = "SUCCEEDED"
    /\ \A c \in Call : coro[c] = "returned" => result[c] # None

(* The clean-up task runs when no process of the eager task is left. *)
CleanupOK ==
    /\ cleanup # "idle" => main = "exited"
    /\ NothingLeftRunning

IInv ==
    /\ TypeOK
    /\ EntriesOK
    /\ AttachedOwned
    /\ UpdatesOK
    /\ LoopsOK
    /\ OutcomesOK
    /\ CleanupOK

-----------------------------------------------------------------------------
(* What the repository says and the code does not do *)

(* "Error should not be None if status is failed" (worker_queue.py 428), and
   add returns the output of an execution that succeeded (test_controller of
   tests/flytekit/unit/core/test_worker_queue.py): a coroutine that sees a
   terminal status also sees the item's error or its result. *)
EndedItemIsComplete == \A c \in Call : coro[c] \notin {"asserted", "returnedNone"}

(* "wait for it to finish one way or another" (worker_queue.py 421): add
   always ends while the eager function runs. *)
AddAlwaysFinishes ==
    \A c \in Call : coro[c] = "waiting" ~> (coro[c] # "waiting" \/ main # "running")

=============================================================================
