# A TLA+ verification of flytekit

flytekit is the Python SDK of Flyte: it declares tasks and workflows, runs inside
the containers that execute them, and talks to Flyte Admin on behalf of users and of
running tasks. Most of its lines describe immutable things (task templates, literals,
types, command lines). What can go wrong in ways a unit test hardly reaches is in the
parts where several threads, coroutines, containers, processes or attempts share state,
and in those where the nesting of calls decides what shared state means. Those parts
are the subject of this project.

Contents: [inventory](#inventory), [plan](#plan), [the models](#the-models),
[runs](#runs), [proofs](#proofs), [findings and known issues](#findings-and-known-issues),
[what is not modelled](#what-is-not-modelled).

## Inventory

| component | state | operations | interacts with | hard behaviour | what makes it correct |
|---|---|---|---|---|---|
| eager controller (`core/worker_queue.py`) | `entries` of work items, the poll thread, the stop flag, the signal flag | `add`, `_poll` (gather, reconcile, apply, render), `_close`, signal handler | coroutines of the eager function, Admin, the rate limiter, the deck | status polled without the lock; thread death; executions that outlive the process | a call gets the outcome of its own execution, outcomes are final, calls end |
| eager task and clean-up task (`core/python_function_task.py`) | the attempt, the workflow around it | `run_with_backend`, `EagerFailureHandlerTask.dispatch_execute` | controller, Admin | kills and retries; listing while phases change | nothing left running; no work done twice |
| rate limiter (`utils/rate_limiter.py`) | deque of timestamps, semaphore | `acquire` | the controller, the loop | an await between reserving and returning | at most rpm requests in a window |
| authentication (`clients/auth/`, `clients/grpc_utils/`) | credentials, keyring, client singleton, lock, cache | two interceptors, four authenticators, login, refresh | all threads that call Admin, the token endpoint, the browser, the OS keyring | threads rejected together; crash between two keyring writes; retries | one login at a time, bounded retries, a usable keyring |
| task dispatch (`bin/entrypoint.py`, `core/base_task.py`, `core/shim_task.py`) | what is to be uploaded, the shared output prefix | `_dispatch_execute`, `dispatch_execute` | blob store, other containers of the attempt, the backend | failure of every step; kills during the upload; several writers | no silent end, no dangling references, no results of failures |
| context stack (`core/context_manager.py`) | a list in a context variable, signal handlers | push, pop, `with_context` | every other part | coroutines share one list | pops match pushes |
| conditionals (`core/condition.py`) | cases, branch contexts | start and end of branches | context stack, workflows | nesting, exceptions in a branch | exactly one case runs, the context is restored |
| connectors and sensors (`extend/backend/`, `sensor/`) | resource meta, phase, clean-up flag, signal handlers | create, get, delete, signal handler | external services | signal between create and registration, a second signal in the handler | a created job is deleted or observed to its end |
| remote client, registration (`remote/`, `tools/translator.py`) | what the backend has | serialize, register, activate, execute | Admin, other clients | crashes and failures between two calls, a pool of threads | nothing is registered before what it refers to |
| remote client, executions (`remote/`) | execution objects | execute, wait, sync, terminate | Admin | lost answers, an execution that moves between two reads | idempotent execute, a returned object is consistent |
| loop manager (`utils/asyn.py`) | a runner per thread name | `run_sync` | everything synchronous that calls async code | nested calls, name clashes, shutdown | no coroutine waits for its own loop |
| local cache, checkpointer, map tasks | cache keys; saved files; counters | get/set; save/restore/read; threshold | local execution | several attempts, rounding | same inputs same key; the latest checkpoint is read |
| workflows, nodes, promises, launch plans, gates | the graph under construction, the compiled flag | compile, local execution, imperative workflows | context stack, type engine | nested compilation, exceptions half way | the graph is the one the function describes |
| type engine, types, models, configuration, image specs, command line, plugins | none that is shared | conversions, I/O | | | sequential |

`PROJECT.json` lists every component with its status, and under "hazards" each hard
place with its line and the property that watches it.

## Plan

Done, in this order: `EagerController` with `CallService` above it (the most concurrent part, and the
one whose mistakes cost users' work), `RateLimiter` (used by it), `AuthFlow` (under every call
of it), `TaskDispatch` (what every container runs), `LocalExecution` (context stack,
conditionals, calls, array nodes and workflows composed), `Connector`, `Registration`
with `Translator` below it and `Catalog` above it, `RemoteExecution`, `Compilation`.
Proofs followed the same order; `CompilationProofs` came last.

Next: the connector service with its registry, and the checkpointer over several attempts.

## The models

A definition's source lines are in `PROJECT.json` under "map". Operators that stand
before a definition and are commented as a variant of it (or named for what they leave out)
are not part of any specification: they are mutated forms with which the properties
are tested.

### EagerController

Three actors of one process and the world around it.

* Coroutines: `Add(c)` appends the item under the lock; `AddReturns` and `AddRaises`
  look at `status` without it. `Awaits` and `IssuedAfter` say which calls an eager
  function makes after which; any program is an instance.
* The controller thread is a loop over `pc`: `PollTop` (gather), `Launch`, `Sync` and
  their failures for one item each (outside the lock), `ApplyStatus` and `ApplyOutcome`
  (two steps, because a reader does not take the lock), `RenderDeck`. Where the code
  raises out of the loop, the thread is dead (`ThreadDies`).
* The main thread: `FunctionReturns`, `FunctionRaises`, `MainRenders`, `Close`, `Join`.
* `Kill` and `NewAttempt` end the process and start it again with nothing but Admin's
  executions; `Signal` is the handler; `Cleanup...` is the failure handler of the
  eager workflow.

An execution's name is the triple that is hashed in the code; the tag is constant and
the hash is taken to be injective. Outputs are represented by the execution they come
from. Admin is external: it creates an execution under a name or returns the one that
exists, moves it through its phases and terminates it on request. The lock itself is
not a variable: what is done under it is one step, except where a reader ignores it.

`CallService` is what the callers rely on: a call is answered once, by a job of its
own that did the work it asked for and has succeeded, or fails; jobs are begun only for
calls that were made; a restart forgets the calls and keeps the jobs. Jobs are mapped to
Admin's executions, a call's standing to its coroutine (`CallState`), its answer
to the execution whose outputs were returned (`AnswerOf`). A coroutine that returns
without a result has failed in its terms. Every other step of the controller, of the
main thread and of the clean-up task is a stutter there.

### RateLimiter

`acquire` runs without interruption up to its sleep, so it is one step
(`AcquireFree`, `AcquireDue`, `AcquireSleeps`) and `Wake`. Time is an integer; the
loop resumes a sleeper at most `Jitter` late. `stamps` and `grants` are histories.

### AuthFlow

Threads make one call each through both interceptors and share one authenticator.
A token is the number of the grant it came from; `accepted` and `fresh` are what Admin
and the token endpoint take. `refresh_credentials` is split at every point where
another thread or a crash can come between: creating the client, the request to the
token endpoint, each write to the keyring, the login. `LoginStray` is a request to
another path of the callback server. Device-code and direct (client credentials,
command) authenticators have their own steps. Not modelled: the id token (stored next
to the others and not read by the flow), a keyring that is not installed, the proxy
header's second interceptor, the HTTP adapter, and the lazy creation of the
authenticator, which is taken as done. `Prepared` says whether the AuthorizationClient
exists already; without it, two threads may create two.

### TaskDispatch

The containers of one attempt, each going through `_dispatch_execute`: a step that
returns moves `pc` on, a step that raises goes to one of the three except clauses
(`Handle`). What the clauses tell apart is the exception's class and what a
`FlyteUserRuntimeException` wraps. `Record` is the writing of the engine directory;
the upload then proceeds file by file in any order (`PutFile`), and may raise or be
killed at any point. A document is reduced to its author, its kind and origin if it is
an error, and the names of the offloaded literals it refers to. Only an elastic task
runs in more than one container. The branch of the local execution, the choice of
the file system, and the text of the documents are left out.

### LocalExecution

One thread, and a program that is arbitrary: it opens sections, starts and ends their
branches, calls tasks, gates, workflows, map tasks and array nodes, returns, and raises
anywhere, in any order that Python allows. `frames` is what Python has open, `ctxs` the
list behind `flyte_context_Var`. The point of the model is in `es`: the branch mode is
kept in an `ExecutionState` object, contexts copy the reference, and so which section's
mode a call reads depends on who made a copy (`ChildContext`, `enter_conditional_section`).
`with_context_exit` pops until the list is as long as before, which removes what a
failed section left behind. Values are reduced to whether a promise holds one. `seen`
is a history of the last call: whether it ran and whether it should have. A program
that catches exceptions inside a workflow is not modelled.

### Compilation

The other thing a call can do: make a node. `stack` is the compilations under way, each
with its `CompilationState`; a section pushes one, a call of a workflow that has not been
compiled compiles it first, and `compile` ends with the failure handler, in a state of
its own with an `f` appended to the prefix. An id is a prefix and the number of nodes
there are, as in the code. `Raise` unwinds everything from any point, which leaves
`compiled` set. The imperative workflow keeps its state between calls and so keeps the
nodes of calls that raised (`Raise`, `CreateNodeFails`). A call takes the outputs of all
nodes that are visible to it (fewer lead to fewer demands); a script either reads
function workflows or builds an imperative one, because the two share nothing. Output
bindings, literals, overrides, and references to remote entities are left out.
`Careless` admits programs in which a case makes several calls, or a section has no
`else_`.

### Connector

A script that calls connector tasks one after another in the main thread, where Ctrl-C
interrupts it. `handling` is a stack, as the handler of one signal may be interrupted by
the next. Between `create_returns` and `_create_registers` the job exists and no handler
knows of it. What a connector's create, get, delete and do answer is external, as is
the job. A sensor is an asynchronous task whose get polls. `CoroDelete` are connectors
whose delete is a coroutine, which the handler cannot run while the loop polls
(`handler_cannot_delete`).

### Translator, Registration and Catalog

`Translator` has `get_serializable` as a recursive operator over small programs: the
order in which entities enter the mapping, and the sub-workflows that are sent along
with a workflow. `MCRegistration` builds programs from it. In `Registration` clients
run `register_workflow`, `register_launch_plan` and the two forms of `execute` on one
program: a pool of threads registers the tasks in any order, the other entities follow
in the order of the mapping, and every call may fail before or after the backend has
carried it out. A client may die between any two calls; another goes on. The backend is
a set of ids. What serialization guarantees about a program is written down as
`WellFormed`, an assumption about `Programs` that TLC evaluates for every program that
`MCRegistration` derives from `Translator`. `Catalog` is what this promises: an entity appears when everything it
refers to is there, nothing disappears, a plan becomes active when it is there.
`ImplementsCatalog` is the refinement, with `registered` mapped to `admin`.

### RemoteExecution

One client, `_execute` through the retrying interceptor, then `sync` and `wait`, which
read the execution, its data, its nodes and the executions below them with one call
each. The backend is external: it moves the objects of a tree through their phases, an
object ending after those below it, and may be told to abort. A step of the backend is
taken only before a read, because local steps of the client commute with it. The
repetitions of a read that fails are collapsed into its final failure, those of the
create are not, as each may take effect. Lists are sets: the listed objects are synced
in any order. `IsTree` is what is assumed of an execution: every object but the root has
one parent, nothing is below itself, a node over a launch plan launches one execution. A
gate node also stands for a branch node,
whose children the code does not sync. How an execution is named is varied only where
nothing lies below it.

## Runs

`MCx` instantiates `x`; the constants are in the `.cfg` of the run.

| run | instance | properties |
|---|---|---|
| `eager_safety` | three calls of one entity, two with equal inputs, one awaiting another; lost replies, failed syncs, kill, refused termination; two attempts | `ImplementsCallService`, `NothingLeftRunning`, `NoSharedExecution`, `NoDuplicateWork`, `OutcomeIsFinal` |
| `eager_liveness` | two calls, refused launches, failed syncs, conversions and deck uploads, kill, signals; fairness | `AddFinishes`, `ProcessExits`, `CleanupEnds` |
| `rate_limiter` | six requests, two per window of three units, sleepers up to two late | `QueueBounded`, `StampsSpaced`, `RateRespected` |
| `auth_login` | a unary and a stream call with PKCE, rejection, refusal, unknown errors, a taken port, expiry, a cache of one unit; fairness | `LoginsWait`, `LoginsSpaced`, `CallsEnd` |
| `auth_crash` | one thread, every authenticator, stray requests, two restarts | `KeyringRefreshable` |
| `dispatch` | plain, dynamic, shim and elastic (three containers) tasks, two outputs of sizes below, at and above the limits, kills | `EndsAreRecorded`, `OutputsResolve`, `FailedLeavesNoOutputs` |
| `local_execution` | five calls, five levels deep, sections of three cases, a plain and a cached task, array nodes of two items under each kind of threshold | `ContextRestored`, `NoLeakedContext`, `FlatBranches`, `UntakenRunsNothing`, `FailureHandlerRuns`, `ArrayMeetsMinimum` |
| `local_nested` | two levels of sections of two cases | `BranchesRunAsWritten`, violated: see [findings](#findings-and-known-issues) |
| `compilation` | two workflows, one of them also a dynamic task, three choices of failure handlers, five nodes, sections of three cases, one exception; or an imperative workflow with one input | `GraphIsWhole`, `BindingsResolve`, `ImperativeInOrder` |
| `connector` | three calls of a query, a sensor or a prompt task, two signals, deletes that raise; fairness | `ExitDeletesJobs`, `InterruptEndsProcess`, `JobsAreKnown`, `CallsEnd` |
| `registration` | 56 programs, two clients, two methods, one failed call, one crash | `ExistingIsComplete`, `ActiveBeforeUse`, `PromisedIsRegistered`, `SubWorkflowsComplete`, `ImplementsCatalog` |
| `remote_execution` | seven trees, three ways to name an execution, three methods, one read that fails; fairness | `SucceededHasOutputs`, `DoneIsWhole`, `OneExecutionPerCall`, `WaitNoticesEnd` |

All of them hold except `BranchesRunAsWritten`. The comment above each property says
what it is about and quotes the code where the code says it.

**Bounds.** Faults are divided between the eager runs to keep each small; the
theorems are about all of them together. `eager_*`: two calls of one entity are needed for positions to matter, the
third, which waits for the first and has its inputs, for a call that is made after
outcomes are known and for names that differ in the position only. Two attempts are
needed for a restart; a third meets the same Admin. Rpm 2 is the least for which one
coroutine can sleep while another reserves, and six requests go three times through the
window. Two threads suffice for every race of `AuthFlow`; the number of grants, of
expiries and of restarts is bounded, because each call refreshes at most four times.
Three containers allow two besides rank 0. The clock bounds (`MaxTime`) only cut
behaviours off. `LocalExecution`: a section in a section in a workflow in a section is
four levels, and its proofs have no bound. `Compilation`: a section in a section in a
workflow is three frames (a failure handler may add one), five nodes make a branch node
with three cases of one call each and a call that uses its output. `Connector`: three
calls let a job of an earlier call be pending while the current one is interrupted, two
signals let one interrupt the other. `Registration`: what can differ is who refers
to whom, so `MCRegistration` combines five lists of nodes (tasks, sub-workflows, launch
plans, branch nodes, entities that live elsewhere) with or without a failure node, a
default launch plan and activation; two clients and a crash give three partial
registrations. `MaxRetries`
of `RemoteExecution` is the code's own 3; three methods allow an execute, a sync that
fails half way and the one that repairs it.

**Deadlock** is not checked: in all models every process may legitimately be over (all
calls answered, all containers ended, the script at its end), and a bound stops time.

**Fairness.** `EagerController`: weak fairness of the controller thread, of the main
thread, of each coroutine that polls, of the clean-up task, each a loop that sleeps and
goes on, and of Admin ending its executions; none of faults, signals, retries or of the
function making another call. `AddFinishes` assumes in its premise that the controller
thread is alive; without that it is false, which is a known issue. `AuthFlow`: weak
fairness of every thread, which includes that the user answers in the browser; stray
requests are excluded from `auth_login`, because nothing in the code bounds the wait
for the code. The code's own bounds (four attempts, a limited number of polls) do
the rest. `Connector`: weak fairness of the main thread, of the service accepting a job
and of jobs ending, sensors excepted; none of signals. `RemoteExecution`: weak fairness
of the client's steps only; `WaitNoticesEnd` starts from an execution that has ended.
The other modules have safety properties only: their calls end when the user's code
does.

**Mutants.** Every property of a passing run has a mutated form of one definition that
violates it, listed in `PROJECT.json`; most are a single dropped or swapped statement.

## Proofs

TLAPS proves, for every value of the constants that satisfies the named assumptions:

* `EagerControllerProofs`: `TypeCorrect`, `UniqueExecutions`, `OwnResults`,
  `CallsAreServed` (`ImplementsCallService`), `CleanupIsComplete` and `FinalOutcomes`,
  for any eager function, number of calls, attempts and set of faults. `IInv` (in `EagerController`) is the inductive invariant.
  Its parts: an item's position in `entries` is the one its update carries
  (`EntriesOK`, `UpdatesOK`), an attached execution has the name of that position
  (`AttachedOwned`), the loop's work list holds items with an update of the
  right form for the loop (`LoopsOK`), a result is that of a succeeded execution
  attached to the item (`OutcomesOK`), and the clean-up runs only when no process of the
  eager task is left to launch anything behind it (`CleanupOK`). The properties alone are
  not inductive: what `ApplyOutcome` assigns depends on an update computed many steps
  earlier, outside the lock. The refinement follows action by action: `Launch` begins
  a job or finds the one that an earlier attempt or a lost reply left (`LaunchBegins`);
  `AddReturns` answers, and no two calls with one execution, because a name holds a
  position (`AddAnswers`); `ApplyOutcome` is not seen, because the item it completes has
  not returned anything yet (`OutcomeUnseen`).
  `WorkIsNotRepeated` proves `NoDuplicateWork` for eager functions that make finitely
  many calls and issue those of one entity in a fixed order (`OrderedCalls`). Without
  that it is false (`EagerDuplicateWork.cfg`). `DInv` gives a call a rank, the number of
  calls that always come before it, and says that its position is its rank in every
  attempt and that every execution has the name of some call at its rank. A surjection
  from calls to names then bounds the executions.
* For the `RateLimiter` that the controller's thread goes through (in the same module):
  `LimiterTypeCorrect`, `QueueNeverOutgrows`, `DueTimesSpaced` and `RateIsRespected`, for
  any rate, window, lateness and number of requests. `LInv`
  says that the queue is a suffix of the history, that a stamp which has left it was
  replaced rpm places later or is older than a window, and that permits and sleepers
  add up. The rate is about `grants`, the times at which requests really go through, and
  the loop may wake sleepers in another order than they reserved in; `GInv` therefore
  says that grants and waiting sleepers can be matched one to one with stamps, each
  grant at most `Jitter` after its stamp. rpm + 1 grants in a short window would have
  rpm + 1 different stamps in one, which the spacing excludes (a pigeonhole argument).
* `TaskDispatchProofs`: `DispatchTypeCorrect`, `NoSilentEnd`, `NoDanglingReference`,
  `NoResultsOfFailures`, for any number of containers and outputs. `IInv` there rests on
  ownership: no two containers hold a document for the same file (`Owns`), because
  error files carry the container's uuid and only rank 0's container gets as far as
  outputs. `Contents` says what a container may be going to upload, and `UploadedInv`
  and `PrefixInv` relate that to the prefix in both directions.
* `LocalExecutionProofs`: `LocalTypeCorrect`, `CallsRestoreContext`, `LeaksAreInvisible`
  and `HandlersRun`, for every program, at any depth. The inductive invariant `IInv`
  (there) says of the list of contexts and the open frames that there is one context per
  frame except while an exception travels (`Clean`), that a call owns the
  ExecutionStates of all contexts above its caller's (`CallOK`), so that no branch in it
  writes below, and that a call is not open in a skipped branch. Without the ownership,
  `ContextRestored` is not inductive: that it holds is due to `ChildContext` copying the
  state, which the mutant that shares it shows.
  `BranchesRun` and `UntakenBranchesAreIdle` prove `FlatBranches` and
  `UntakenRunsNothing`. Sections inside an active branch do share their state, so no
  invariant speaks of all open sections; `BInv` speaks of the outermost one. Below it
  nothing has a branch mode; in a branch of it that is not taken, only skipped sections
  are open, each with a state of its own; in the one that is taken, every call inherits
  the active mode until a section is opened in it. `ArraysMeetMinimum` is an
  invariant of all array frames, for any size and threshold.
* `RegistrationProofs`: `TypeCorrect`, `ExistingComplete`, `PlansActive`, `PromisesKept`
  and `Refinement` (`ImplementsCatalog`), for any `WellFormed` programs, clients, faults
  and crashes. The invariant says what the backend has got by the time a client is at a
  given place: at the i-th of the other entities everything before it in the mapping is
  registered and, where it is to be, active (`ClientOK`). Since nothing is ever removed,
  a step of one client leaves what another has achieved intact, and each call to the
  backend is one that the catalogue admits.
* `CompilationProofs`: `TypeCorrect`, `ImperativeStaysInOrder`, `GraphsAreWhole` and
  `BindingsAreResolved`, for any workflows, handlers, programs and exceptions, at any
  depth. `MInv` carries the first two: the nodes of the imperative workflow are numbered in
  order and take outputs of those before (`Ordered`), and so are those of the call that
  adds to it, whatever is compiled for it meanwhile (`AddingOK`). The other two assume
  `~ Careless`: a case makes one call, and a section ends with `else_`. This cannot be
  dropped (`CompilationCareless.cfg`). `CInv` says of every moment of every compilation
  where a node is: on one frame (`FrameNodes`), in a case of one branch node and nowhere
  else (`BranchNodes`), or in the graph of its workflow, unless that raised (`Located`);
  that a section has handed every node of a complete case to it (`SectionOK`) and that
  what a body's calls take are nodes of the body itself, sections around it included
  (`Bound`). The ids of a finished graph are numbers under one prefix, the failure node's
  under another (`GraphIds`), and so a binding's id names one node, although the nodes of
  a section have the same ids: none of their outputs leaves the section. One lemma for
  each way in which the stack changes (`CoreRetop`, `CorePush`, `CoreLink`, `CorePop`,
  `CoreUnwind`, `CoreImperative`) shows that this is kept; the actions are instances of
  them.
* `ConnectorProofs`: `TypeCorrect`, `ExitDeletes`, `InterruptEnds` and `KnownJobs`, for
  any tasks and numbers of calls and signals. The invariant is about every level of the
  stack of handlers that interrupt each other: a job whose handler a level has got past
  is not running (`HandledOK`), and a live job is registered, about to be, or belongs to a
  call that a signal cut short (`Known`).
* `AuthFlowProofs`: `TypeCorrect`, for any threads, authenticators and faults.
  `LoginsWaitForEachOther` and `LoginsAreSpaced` assume that the AuthorizationClient
  exists from the start (`Prepared`, otherwise see `AuthTwoLogins.cfg`) and that the
  process does not restart, because a new process has a new lock and an empty cache.
  `LoginInv`: a thread in the browser holds the one lock, and the cache is empty or has
  the time of the last login. `KeyringStaysRefreshable` assumes one thread and a refresh
  token in every grant (`AlwaysRefresh`); with two threads it is false. `KeyringInv` says
  for each place between two writes what the keyring, the credentials and the cache
  have, so that a crash there leaves a usable keyring.
* `RemoteExecutionProofs`: `TypeCorrect`, `OutputsOfSuccess`, `CreatedOnce` and
  `EverythingFound`, for any tree, number of retries, calls and faults. `SInv`: the calls
  under way are a path down the tree, each object that was listed is on that path, on a
  list of it, or has been completed, and an outcome that was read as terminal is the
  final one. `WInv`, for `DoneIsWhole`: once the root has been read as done nothing below
  it moves any more, so what was listed is what there is; everything that is not missing
  has a parent whose children were found, and since nothing is below itself, nothing is
  missing.

The assumptions are typings of constants, that `None` and `Nobody` differ from real
values, `WellFormed` programs, `IsTree` executions, and in `TaskDispatch` that the
distributed error strategy is set when an attempt has several containers (the backend
does this). Further hypotheses are part of the theorems that need them, as said above;
the runs satisfy them all.

Only model-checked: everything under fairness (`AddFinishes`, `ProcessExits`,
`CleanupEnds`, `CallsEnd`, `WaitNoticesEnd`), which is out of the prover's reach, and
`SubWorkflowsComplete`, which is about what the recursive `Translator` computes for a
program: the modules with proofs take programs as given.

## Findings and known issues

`local_nested` is a run in which TLC finds what a docstring says to be false: a section
inside an active branch shares the `ExecutionState` of its surroundings, which is still
marked active when its first case starts, so a task in a false first case is executed;
and the end of the inner section leaves the outer branch marked skipped. The results are
right, because the section takes them from the right case; what ran is not.

The following configurations are kept for whoever changes the code in question. Each
checks one property that a comment or a test states and that TLC finds violated; they
are not among the runs of `PROJECT.json`.

| configuration (module) | property | what happens |
|---|---|---|
| `EagerTornOutcome.cfg` (`MCEagerController`) | `EndedItemIsComplete` | `_apply_updates` assigns `item.status` before the result or the error, and `add` polls it without the lock. A coroutine that looks in between returns `None`, or raises the AssertionError the code believes impossible |
| `EagerAddHangs.cfg` (`MCEagerController`) | `AddAlwaysFinishes` | `render_html` dereferences the execution of items that have none yet; the controller thread ends, and every waiting `add` polls forever |
| `EagerDuplicateWork.cfg` (`MCEagerController`) | `NoDuplicateWork` | execution names are deterministic only if calls are made in a fixed order; independent coroutines can swap positions in a second attempt, and the work is run again |
| `AuthTwoLogins.cfg` (`MCAuthFlow`) | `LoginsWait` | the AuthorizationClient singleton is created by an unlocked check; two threads may log in at the same time and the second finds the port taken |
| `TaskDispatchIgnored.cfg` (`MCTaskDispatch`) | `IgnoredWithoutError` | `IgnoreOutputs` raised by `post_execute` is uploaded as an error |
| `ConnectorAsyncDelete.cfg` (`MCConnector`) | `HandlerDeletesJob` | `asyncio.run` refuses to run in a handler that interrupts a running loop, so a delete that is a coroutine is never started, no later handler runs, and the process goes on |
| `CompilationCareless.cfg` (`MCCompilation`) | `GraphIsWhole` | "Nodes created in the conditional compilation state are captured in the to_case_block? Always?" No: of several calls in one case only the node of the output is, and a section without `else_` loses everything called after it |

Seen while modelling, contained in the models, and not given a configuration:

* rendering the deck of a failed eager task can raise the same AttributeError in
  `run_with_backend`, and replaces the original error (`MainRenders`);
* the retrying interceptor ignores its `max_retries` argument, and repeats every
  FlyteException, ALREADY_EXISTS included; a create without name or prefix whose answers
  are lost starts up to four executions (`RemoteExecution`, `OneExecutionPerCall` is
  about named ones);
* the login cache may return the token that was just rejected (`LoginFromCache`);
* concurrent stores can leave the keyring with the access token of one grant and the
  refresh token of another (`StoreRefresh`, `StoreAccess` of two threads);
* `retry_request` decorates coroutine functions with a plain function and so retries
  nothing (`PutRaises`);
* the shim has no `interface`, so offloading one of its outputs raises (`Recordable`);
* an array node without outputs never fails, whatever `min_successes`, and
  `min_successes = 0` counts as unset (`TooManyFailures`, `MinSuccesses`);
* `compile` sets `compiled` first: after an exception the workflow counts as compiled
  and has no nodes (`Raise` of `Compilation`); `fail` in any case but the last raises
  UnboundLocalError (`to_ifelse_block`); a workflow that is first compiled for a failure
  handler or a dynamic task keeps its caller's prefix in its ids (`start_compile`);
  a workflow whose call raises under compilation adds the node of its failure handler
  to the graph of its caller (`CreateNodeFails`);
* `ImperativeWorkflow.create_conditional` calls `with_context` without entering it, so
  the section has no state to compile into and always raises; it is not an action;
* sub-workflows below a branch node inside another branch node are not sent along
  (`SubWorkflowsComplete` excepts them); an id that exists with other content is taken
  for registered;
* an execution that was aborted has no error in its closure: it is returned as done
  without error and with empty outputs; a sync without nodes keeps the nodes of the last
  one; a sync that raises leaves a new closure beside old outputs (`RemoteExecution`);
  an execution that ends in the last sleep before the timeout is reported as timed out.

## What is not modelled

`PROJECT.json` gives each component's status and reason. Three of those left out have
state of their own: the loop manager (one runner per thread name; two threads of one
name would share it), the checkpointer (attempts with one directory each; what can go
wrong is in the paths) and the connector service (stateless calls around the registry).
The others stay out because they are sequential conversions or pure I/O: the type
engine and the data models, which are by far most of the repository's lines, immutable
declarations, the command lines, image building, interactive sessions, and the plugins,
which adapt third-party systems. They have no interleaving and no state between calls
that a model checker would explore; a model of them would restate them. Within modelled
components, listing, uploads, backfill and lazy entities of the remote client, output
bindings and overrides of nodes, the local backend of eager tasks, and the execution of
one element of a map task in a container are left out.

Admin, propeller, the token endpoint, the browser, the OS keyring, the blob store and
the services behind connectors are outside the repository and appear as the environment.
