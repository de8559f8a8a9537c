------------------------------ MODULE Connector ------------------------------
(***************************************************************************)
(* Connector tasks run by a local script.  AsyncConnectorExecutorMixin     *)
(* (extend/backend/base_connector.py) creates a job in an outside service, *)
(* appends a handler that deletes it to the process's signal handlers, and *)
(* polls the job until it ends; SyncConnectorExecutorMixin asks once.      *)
(* Both run their coroutines on local_connector_loop in the main thread,   *)
(* where Ctrl-C interrupts them: main_signal_handler                       *)
(* (core/context_manager.py) calls every handler in turn, then exits.      *)
(*                                                                         *)
(* A second Ctrl-C interrupts the handler of the first, so what is being   *)
(* handled is a stack.  An exception from a handler is raised at the point *)
(* that was interrupted, and no later handler runs.                        *)
(*                                                                         *)
(* Jobs, and what a connector's create, get, delete and do return, are     *)
(* external.  Inputs, outputs and the progress bar are left out.           *)
(***************************************************************************)
EXTENDS Naturals, Sequences, Functions

CONSTANTS
    AsyncTasks,     \* the tasks with AsyncConnectorExecutorMixin
    SyncTasks,      \* the tasks with SyncConnectorExecutorMixin
    CoroDelete,     \* the async tasks whose connector's delete is a coroutine
    Sensors,        \* the async tasks that are sensors
    DeleteMayFail,  \* whether a plain delete may raise
    MaxCalls,       \* bound on the calls of the script
    MaxSignals      \* bound on the signals the process gets

ASSUME TasksAssumption ==
    /\ AsyncTasks \cap SyncTasks = {}
    /\ CoroDelete \subseteq AsyncTasks
    /\ Sensors \subseteq CoroDelete
    /\ DeleteMayFail \in BOOLEAN
    /\ MaxCalls \in Nat /\ MaxSignals \in Nat

VARIABLES
    pc,                 \* where the script is
    n,                  \* how many calls it has made; n is the current one
    task,               \* the task of each call
    job,                \* the job of each call, in the outside service
    result,             \* how each call ended
    phase,              \* the phase the last get returned
    signal_handlers,    \* the calls whose job a signal deletes, in order
    clean_up_task,      \* _clean_up_task of each task
    handling,           \* the running main_signal_handlers, innermost last
    signals,            \* how many signals there were
    cut_short,          \* whether a handler has raised
    end                 \* how the process ended

vars == <<pc, n, task, job, result, phase, signal_handlers, clean_up_task,
          handling, signals, cut_short, end>>

Tasks == AsyncTasks \cup SyncTasks
Calls == 1 .. MaxCalls

-----------------------------------------------------------------------------
(* Phases and jobs.                                                        *)

(* Variant: a failed job is not seen to have ended.                        *)
ForgetsFailed(p) == p \in {"SUCCEEDED", "ABORTED"}

is_terminal_phase(p) == p \in {"SUCCEEDED", "ABORTED", "FAILED"}

(* execute returns the outputs of this phase and raises for the others.    *)
has_result(p) == p = "SUCCEEDED"

JobStates == {"none", "requested", "running", "succeeded", "failed", "deleted"}

(* The phases of a job's states (convert_to_flyte_phase): a job that was   *)
(* cancelled has failed.  A connector may report ABORTED by itself.        *)
PhasesOf(j) ==
    CASE j = "running"   -> {"INITIALIZING", "RUNNING"}
      [] j = "succeeded" -> {"SUCCEEDED"}
      [] j = "failed"    -> {"FAILED", "ABORTED"}
      [] j = "deleted"   -> {"FAILED"}
      [] OTHER           -> {}

Phases == {"INITIALIZING", "RUNNING", "SUCCEEDED", "FAILED", "ABORTED"}

(* Deleting is idempotent and leaves a job that has ended alone.           *)
Deleted(j) == IF j = "running" THEN "deleted" ELSE j

-----------------------------------------------------------------------------
(* The main thread: in a signal handler, or in the code it interrupted.    *)

Undisturbed == handling = <<>> /\ pc # "over"

Top == handling[Len(handling)]

(* Variant: the job created last is forgotten.                             *)
AllButTheLast == Top.at < Len(signal_handlers)

(* for handler in signal_handlers: there is one more.                      *)
more_handlers == Top.at <= Len(signal_handlers)

(* The call of the handler that runs, or is about to.                      *)
Current == signal_handlers[Top.at]

(* Whether an event loop runs in the main thread: the connector's, or that *)
(* of a delete that a second signal interrupted.                           *)
loop_running ==
    \/ pc \in {"create", "add_signal_handler", "sleep", "get", "got", "do"}
    \/ \E i \in 1 .. Len(handling) :
        /\ handling[i].deleting
        /\ task[signal_handlers[handling[i].at]] \in CoroDelete

TypeOK ==
    /\ pc \in {"script", "create", "add_signal_handler", "created", "sleep",
               "get", "got", "do", "over"}
    /\ n \in 0 .. MaxCalls
    /\ pc \notin {"script", "over"} => n \in Calls
    /\ task \in [1 .. n -> Tasks]
    /\ job \in [1 .. n -> JobStates]
    /\ result \in [1 .. n -> {"none", "returned", "raised"}]
    /\ phase \in Phases
    /\ signal_handlers \in Seq(1 .. n)
    /\ clean_up_task \in [AsyncTasks -> BOOLEAN]
    /\ handling \in Seq([at : 1 .. Len(signal_handlers) + 1, deleting : BOOLEAN])
    /\ \A i \in 1 .. Len(handling) :
        handling[i].deleting => handling[i].at \in 1 .. Len(signal_handlers)
    /\ signals \in 0 .. MaxSignals
    /\ cut_short \in BOOLEAN
    /\ end \in {"no", "done", "signal", "poll"}

Init ==
    /\ pc = "script"
    /\ n = 0
    /\ task = <<>> /\ job = <<>> /\ result = <<>>
    /\ phase = "RUNNING"
    /\ signal_handlers = <<>>
    /\ clean_up_task = [t \in AsyncTasks |-> FALSE]
    /\ handling = <<>>
    /\ signals = 0
    /\ cut_short = FALSE
    /\ end = "no"

-----------------------------------------------------------------------------
(* execute.                                                                *)

(* The current call ends with an exception, which the script may catch.    *)
CallRaises ==
    /\ pc' = "script"
    /\ result' = IF pc = "script" THEN result ELSE [result EXCEPT ![n] = "raised"]

(* The script calls a task: create, or do, is sent to the service.         *)
execute(t) ==
    /\ Undisturbed /\ pc = "script"
    /\ n < MaxCalls
    /\ n' = n + 1
    /\ task' = Append(task, t)
    /\ result' = Append(result, "none")
    /\ \/ /\ t \in AsyncTasks
          /\ pc' = "create"
          /\ job' = Append(job, "requested")
       \/ /\ t \in SyncTasks
          /\ pc' = "do"
          /\ job' = Append(job, "none")
    /\ UNCHANGED <<phase, signal_handlers, clean_up_task, handling, signals,
                   cut_short, end>>

(* get_connector, the conversion of the inputs or the service refuses.     *)
create_raises ==
    /\ Undisturbed /\ pc = "create"
    /\ job[n] = "requested"
    /\ job' = [job EXCEPT ![n] = "none"]
    /\ CallRaises
    /\ UNCHANGED <<n, task, phase, signal_handlers, clean_up_task, handling,
                   signals, cut_short, end>>

create_returns ==
    /\ Undisturbed /\ pc = "create"
    /\ job[n] # "requested"
    /\ pc' = "add_signal_handler"
    /\ UNCHANGED <<n, task, job, result, phase, signal_handlers, clean_up_task,
                   handling, signals, cut_short, end>>

(* Variant: the handler of the first job only.                             *)
KeepsFirstHandler(c) ==
    signal_handlers' = IF signal_handlers = <<>> THEN <<c>> ELSE signal_handlers

add_signal_handler(c) == signal_handlers' = Append(signal_handlers, c)

_create_registers ==
    /\ Undisturbed /\ pc = "add_signal_handler"
    /\ add_signal_handler(n)
    /\ pc' = "created"
    /\ UNCHANGED <<n, task, job, result, phase, clean_up_task, handling, signals,
                   cut_short, end>>

_get_starts ==
    /\ Undisturbed /\ pc = "created"
    /\ pc' = "sleep"
    /\ phase' = "RUNNING"
    /\ UNCHANGED <<n, task, job, result, signal_handlers, clean_up_task, handling,
                   signals, cut_short, end>>

sleeps ==
    /\ Undisturbed /\ pc = "sleep"
    /\ pc' = "get"
    /\ UNCHANGED <<n, task, job, result, phase, signal_handlers, clean_up_task,
                   handling, signals, cut_short, end>>

get_returns ==
    /\ Undisturbed /\ pc = "get"
    /\ pc' = "got"
    /\ phase' \in PhasesOf(job[n])
    /\ UNCHANGED <<n, task, job, result, signal_handlers, clean_up_task, handling,
                   signals, cut_short, end>>

(* The poll has no retry: an error of get ends the call, not the job.      *)
get_raises ==
    /\ Undisturbed /\ pc = "get"
    /\ CallRaises
    /\ UNCHANGED <<n, task, job, phase, signal_handlers, clean_up_task, handling,
                   signals, cut_short, end>>

(* After get: leave if the task was cleaned up, else poll on or conclude.  *)
_get_continues ==
    /\ Undisturbed /\ pc = "got"
    /\ \/ /\ clean_up_task[task[n]]
          /\ pc' = "over" /\ end' = "poll"
          /\ UNCHANGED result
       \/ /\ ~ clean_up_task[task[n]]
          /\ ~ is_terminal_phase(phase)
          /\ pc' = "sleep"
          /\ UNCHANGED <<result, end>>
       \/ /\ ~ clean_up_task[task[n]]
          /\ is_terminal_phase(phase)
          /\ has_result(phase)
          /\ pc' = "script"
          /\ result' = [result EXCEPT ![n] = "returned"]
          /\ UNCHANGED end
       \/ /\ ~ clean_up_task[task[n]]     \* a bad phase, or no outputs to read
          /\ is_terminal_phase(phase)
          /\ CallRaises
          /\ UNCHANGED end
    /\ UNCHANGED <<n, task, job, phase, signal_handlers, clean_up_task, handling,
                   signals, cut_short>>

(* SyncConnectorExecutorMixin: one answer, in any phase, or an exception.  *)
_do ==
    /\ Undisturbed /\ pc = "do"
    /\ \/ \E p \in Phases :
            /\ phase' = p
            /\ IF has_result(p)
               THEN /\ pc' = "script"
                    /\ result' = [result EXCEPT ![n] = "returned"]
               ELSE CallRaises
       \/ CallRaises /\ UNCHANGED phase
    /\ UNCHANGED <<n, task, job, signal_handlers, clean_up_task, handling, signals,
                   cut_short, end>>

(* The script returns, or does not catch an exception.                     *)
script_ends ==
    /\ Undisturbed /\ pc = "script"
    /\ pc' = "over" /\ end' = "done"
    /\ UNCHANGED <<n, task, job, result, phase, signal_handlers, clean_up_task,
                   handling, signals, cut_short>>

-----------------------------------------------------------------------------
(* Signals.                                                                *)

(* SIGINT reaches the main thread, which may be in a handler already.      *)
main_signal_handler ==
    /\ pc # "over"
    /\ signals < MaxSignals
    /\ signals' = signals + 1
    /\ handling' = Append(handling, [at |-> 1, deleting |-> FALSE])
    /\ UNCHANGED <<pc, n, task, job, result, phase, signal_handlers, clean_up_task,
                   cut_short, end>>

(* A handler raises: the exception leaves every main_signal_handler and is *)
(* raised in the call.                                                     *)
HandlerRaises ==
    /\ handling' = <<>>
    /\ cut_short' = TRUE
    /\ CallRaises
    /\ UNCHANGED <<n, task, phase, signal_handlers, clean_up_task, signals, end>>

(* asyncio.run refuses to run where a loop runs already.                   *)
delete_can_run(t) == t \in CoroDelete => ~ loop_running

(* connector_signal_handler: the service deletes the job.                  *)
handler_deletes ==
    /\ handling # <<>> /\ more_handlers /\ ~ Top.deleting
    /\ delete_can_run(task[Current])
    /\ handling' = [handling EXCEPT ![Len(handling)] =
                        [at |-> @.at, deleting |-> TRUE]]
    /\ job' = [job EXCEPT ![Current] = Deleted(@)]
    /\ UNCHANGED <<pc, n, task, result, phase, signal_handlers, clean_up_task,
                   signals, cut_short, end>>

handler_cannot_delete ==
    /\ handling # <<>> /\ more_handlers /\ ~ Top.deleting
    /\ \/ ~ delete_can_run(task[Current])
       \/ DeleteMayFail
    /\ HandlerRaises
    /\ UNCHANGED job

(* The delete has returned: the flag is set and the next handler's turn.   *)
handler_returns ==
    /\ handling # <<>> /\ Top.deleting
    /\ clean_up_task' = [clean_up_task EXCEPT ![task[Current]] = TRUE]
    /\ handling' = [handling EXCEPT ![Len(handling)] =
                        [at |-> @.at + 1, deleting |-> FALSE]]
    /\ UNCHANGED <<pc, n, task, job, result, phase, signal_handlers, signals,
                   cut_short, end>>

(* Variant: returns to the interrupted code after the handlers.            *)
GoesOn ==
    /\ pc' = pc /\ end' = end
    /\ handling' = SubSeq(handling, 1, Len(handling) - 1)

(* exit(1): SystemExit leaves the handlers, the call and the script.       *)
exit_process ==
    /\ pc' = "over" /\ end' = "signal"
    /\ handling' = <<>>

handlers_done ==
    /\ handling # <<>> /\ ~ more_handlers
    /\ exit_process
    /\ UNCHANGED <<n, task, job, result, phase, signal_handlers, clean_up_task,
                   signals, cut_short>>

-----------------------------------------------------------------------------
(* The outside service, external.                                          *)

(* The request takes effect, though the call may be gone: a plain create   *)
(* runs in an executor thread, which the interpreter joins before it ends. *)
job_starts(c) ==
    /\ job[c] = "requested"
    /\ job' = [job EXCEPT ![c] = "running"]
    /\ UNCHANGED <<pc, n, task, result, phase, signal_handlers, clean_up_task,
                   handling, signals, cut_short, end>>

(* A sensor's job ends only with the condition it waits for.               *)
job_ends(c) ==
    /\ job[c] = "running"
    /\ \E s \in IF task[c] \in Sensors THEN {"succeeded"} ELSE {"succeeded", "failed"} :
        job' = [job EXCEPT ![c] = s]
    /\ UNCHANGED <<pc, n, task, result, phase, signal_handlers, clean_up_task,
                   handling, signals, cut_short, end>>

-----------------------------------------------------------------------------

MainThread ==
    \/ create_raises \/ create_returns \/ _create_registers
    \/ _get_starts \/ sleeps \/ get_returns \/ get_raises \/ _get_continues
    \/ _do
    \/ handler_deletes \/ handler_cannot_delete \/ handler_returns
    \/ handlers_done

Next ==
    \/ \E t \in Tasks : execute(t)
    \/ MainThread
    \/ script_ends
    \/ main_signal_handler
    \/ \E c \in 1 .. n : job_starts(c) \/ job_ends(c)

Spec == Init /\ [][Next]_vars

(* The main thread runs on, the service answers, and jobs other than       *)
(* sensors end.                                                            *)
FairSpec ==
    /\ Spec
    /\ WF_vars(MainThread)
    /\ \A c \in Calls :
        /\ WF_vars(c \in 1 .. n /\ job_starts(c))
        /\ WF_vars(c \in 1 .. n /\ task[c] \notin Sensors /\ job_ends(c))

-----------------------------------------------------------------------------
(* Properties.                                                             *)

(* When main_signal_handler gets to exit, no job it knows of runs on: not  *)
(* that of an earlier call whose poll failed, nor one whose delete a       *)
(* second Ctrl-C interrupted.                                              *)
ExitDeletesJobs ==
    end = "signal" =>
        \A c \in Range(signal_handlers) : job[c] # "running"

(* A Ctrl-C ends the process unless a handler raised: execute never goes   *)
(* on, or leaves at its own check of _clean_up_task, after handlers that   *)
(* all did their work.                                                     *)
InterruptEndsProcess ==
    /\ handling = <<>>
    /\ \/ signals > 0
       \/ \E t \in AsyncTasks : clean_up_task[t]
    => end = "signal" \/ cut_short

(* A job runs with no handler to delete it only while its create is on its *)
(* way to the registration, or when a signal or a handler's exception cut  *)
(* that very call short; a job the script got past is always known to the  *)
(* handlers.                                                               *)
JobsAreKnown ==
    \A c \in 1 .. n :
        job[c] = "running" /\ c \notin Range(signal_handlers) =>
            \/ c = n /\ pc \in {"create", "add_signal_handler"}
            \/ c = n /\ end = "signal" /\ result[c] = "none"
            \/ cut_short /\ result[c] = "raised"

(* A call ends: execute returns or raises once the job has ended, or the   *)
(* process is over.  A sensor may wait for ever.                           *)
CallsEnd ==
    \A c \in Calls :
        (n = c /\ pc # "script" /\ task[c] \notin Sensors)
            ~> (pc \in {"script", "over"} \/ n > c)

(* The handler of a job deletes it, whatever the signal interrupted: "Use  *)
(* asyncio.run to run the async function in the main thread since the loop *)
(* manager is killed when the signal is received"                          *)
(* (base_connector.py:461).                                                *)
HandlerDeletesJob ==
    [][\A c \in 1 .. n :
        (/\ handling # <<>> /\ more_handlers /\ Current = c
         /\ handling' = <<>>)
        => job'[c] # "running"]_vars

=============================================================================
