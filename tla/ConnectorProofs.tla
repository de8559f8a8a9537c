-------------------------- MODULE ConnectorProofs --------------------------
(***************************************************************************)
(* Proofs about Connector, for all sets of tasks, any number of calls and  *)
(* of signals.                                                             *)
(*                                                                         *)
(* While a signal is handled no call goes on, so the list of handlers does *)
(* not change; and a job in the list was started before it was put there.  *)
(* Hence what a handler has deleted stays deleted, however the handlers of *)
(* several signals interrupt one another.                                  *)
(***************************************************************************)
EXTENDS Connector, SequenceTheorems, TLAPS

-----------------------------------------------------------------------------
(* The inductive invariant.                                                *)

(* The job of c runs, or may yet start.                                    *)
Alive(c) == job[c] \in {"requested", "running"}

(* The process is over for a reason, and is then not handling anything.    *)
EndOK ==
    /\ pc = "over" <=> end # "no"
    /\ pc = "over" => handling = <<>>

(* The call that is being made has no result.                              *)
CallOK ==
    /\ pc \notin {"script", "over"} => n \in Calls /\ result[n] = "none"
    /\ pc = "add_signal_handler" => job[n] # "requested"

(* Handlers run, and set _clean_up_task, for a signal only.                *)
SignalOK ==
    handling # <<>> \/ (\E t \in AsyncTasks : clean_up_task[t]) => signals > 0

(* A job is there before its handler is.                                   *)
RegisteredStarted ==
    \A k \in 1 .. Len(signal_handlers) : job[signal_handlers[k]] # "requested"

(* The handlers that a signal has got past have deleted their jobs.        *)
HandledOK ==
    \A i \in 1 .. Len(handling) : \A k \in 1 .. Len(signal_handlers) :
        k < handling[i].at \/ (k = handling[i].at /\ handling[i].deleting) =>
            job[signal_handlers[k]] # "running"

(* JobsAreKnown, of jobs that may yet start as well.                       *)
Known ==
    \A c \in 1 .. n :
        Alive(c) /\ c \notin Range(signal_handlers) =>
            \/ c = n /\ pc \in {"create", "add_signal_handler"}
            \/ c = n /\ end = "signal" /\ result[c] = "none"
            \/ cut_short /\ result[c] = "raised"

Inv ==
    /\ TypeOK /\ EndOK /\ CallOK /\ SignalOK
    /\ RegisteredStarted /\ HandledOK /\ Known
    /\ ExitDeletesJobs /\ InterruptEndsProcess

-----------------------------------------------------------------------------
(* Lemmas about the operators.                                             *)

LEMMA PhasesTyped ==
    ASSUME NEW j \in JobStates
    PROVE  PhasesOf(j) \subseteq Phases
  <1>1. CASE j = "running"
    BY <1>1, Zenon DEF PhasesOf, Phases
  <1>2. CASE j = "succeeded"
    BY <1>2, Zenon DEF PhasesOf, Phases
  <1>3. CASE j = "failed"
    BY <1>3, Zenon DEF PhasesOf, Phases
  <1>4. CASE j = "deleted"
    BY <1>4, Zenon DEF PhasesOf, Phases
  <1>5. CASE j = "none" \/ j = "requested"
    BY <1>5, Zenon DEF PhasesOf, Phases
  <1> QED
    BY <1>1, <1>2, <1>3, <1>4, <1>5 DEF JobStates

LEMMA AppendCall ==
    ASSUME NEW m \in Nat, NEW S, NEW f \in [1 .. m -> S], NEW x \in S
    PROVE  /\ Append(f, x) \in [1 .. m + 1 -> S]
           /\ \A i \in 1 .. m : Append(f, x)[i] = f[i]
           /\ Append(f, x)[m + 1] = x
  <1>1. f \in Seq(S) /\ Len(f) = m
    OBVIOUS
  <1>2. Append(f, x) \in Seq(S) /\ Len(Append(f, x)) = m + 1
    BY <1>1, AppendProperties
  <1>3. Append(f, x) \in [1 .. m + 1 -> S]
    BY <1>2, LenProperties
  <1> QED
    BY <1>1, <1>3, AppendProperties

LEMMA HandlerRange ==
    ASSUME TypeOK
    PROVE  Range(signal_handlers) = {signal_handlers[k] : k \in 1 .. Len(signal_handlers)}
  BY DEF TypeOK, Range

-----------------------------------------------------------------------------
(* The script and execute.                                                 *)

(* Steps of execute that change only where it is, and what it was told.    *)
LEMMA QuietStep ==
    ASSUME Inv, Undisturbed, pc \notin {"script", "over"},
           pc' \in {"add_signal_handler", "sleep", "get", "got"},
           pc' = "add_signal_handler" => job[n] # "requested",
           pc \in {"create", "add_signal_handler"} => pc' = "add_signal_handler",
           phase' \in Phases,
           UNCHANGED <<n, task, job, result, signal_handlers, clean_up_task, handling,
                       signals, cut_short, end>>
    PROVE  Inv'
  <1>1. TypeOK'
    BY DEF Inv, TypeOK, Undisturbed
  <1>2. EndOK' /\ CallOK' /\ SignalOK'
    BY DEF Inv, EndOK, CallOK, SignalOK, Undisturbed
  <1>3. RegisteredStarted' /\ HandledOK' /\ ExitDeletesJobs' /\ InterruptEndsProcess'
    BY DEF Inv, RegisteredStarted, HandledOK, ExitDeletesJobs, InterruptEndsProcess
  <1>4. Known'
    BY DEF Inv, Known, Alive
  <1> QED
    BY <1>1, <1>2, <1>3, <1>4 DEF Inv

(* The current call ends, the job and the handlers are left alone.         *)
LEMMA EndOfCall ==
    ASSUME Inv, Undisturbed, pc \notin {"script", "create", "add_signal_handler"},
           pc' = "script", phase' \in Phases,
           NEW r \in {"returned", "raised"}, result' = [result EXCEPT ![n] = r],
           UNCHANGED <<n, task, job, signal_handlers, clean_up_task, handling,
                       signals, cut_short, end>>
    PROVE  Inv'
  <1>1. TypeOK'
    BY DEF Inv, TypeOK, Undisturbed
  <1>2. EndOK' /\ CallOK' /\ SignalOK'
    BY DEF Inv, EndOK, CallOK, SignalOK, Undisturbed
  <1>3. RegisteredStarted' /\ HandledOK' /\ ExitDeletesJobs' /\ InterruptEndsProcess'
    BY DEF Inv, RegisteredStarted, HandledOK, ExitDeletesJobs, InterruptEndsProcess
  <1>4. Known'
    BY DEF Inv, TypeOK, EndOK, CallOK, Known, Alive, Undisturbed
  <1> QED
    BY <1>1, <1>2, <1>3, <1>4 DEF Inv

LEMMA ExecuteStep ==
    ASSUME Inv, NEW t \in Tasks, execute(t)
    PROVE  Inv'
  <1>0. PICK j : j = IF t \in AsyncTasks THEN "requested" ELSE "none"
    OBVIOUS
  <1>1. /\ handling = <<>> /\ pc = "script" /\ n < MaxCalls /\ n' = n + 1
        /\ task' = Append(task, t) /\ result' = Append(result, "none")
        /\ job' = Append(job, j)
        /\ pc' = IF t \in AsyncTasks THEN "create" ELSE "do"
        /\ UNCHANGED <<phase, signal_handlers, clean_up_task, handling, signals, cut_short, end>>
    BY <1>0, TasksAssumption DEF execute, Undisturbed
  <1>2. n \in Nat /\ n' \in 0 .. MaxCalls /\ n' \in Calls
    BY <1>1, TasksAssumption DEF Inv, TypeOK, Calls
  <1>3. /\ task' \in [1 .. n' -> Tasks]
        /\ job' \in [1 .. n' -> JobStates] /\ job'[n'] = j
        /\ result' \in [1 .. n' -> {"none", "returned", "raised"}] /\ result'[n'] = "none"
        /\ \A i \in 1 .. n : job'[i] = job[i] /\ result'[i] = result[i]
    <2>1. task' \in [1 .. n' -> Tasks]
      BY <1>1, <1>2, AppendCall DEF Inv, TypeOK
    <2>2. /\ job' \in [1 .. n' -> JobStates] /\ job'[n'] = j
          /\ \A i \in 1 .. n : job'[i] = job[i]
      <3>1. j \in JobStates /\ job \in [1 .. n -> JobStates]
        BY <1>0 DEF JobStates, Inv, TypeOK
      <3>2. job \in Seq(JobStates) /\ Len(job) = n
        BY <1>2, <3>1
      <3>3. Append(job, j) \in Seq(JobStates) /\ Len(Append(job, j)) = n + 1
        BY <3>1, <3>2, AppendProperties
      <3>4. Append(job, j) \in [1 .. n + 1 -> JobStates]
        BY <3>3, LenProperties
      <3> QED
        BY <1>1, <3>1, <3>2, <3>4, AppendProperties
    <2>3. /\ result' \in [1 .. n' -> {"none", "returned", "raised"}] /\ result'[n'] = "none"
          /\ \A i \in 1 .. n : result'[i] = result[i]
      <3> DEFINE S == {"none", "returned", "raised"}
      <3>1. "none" \in S /\ result \in [1 .. n -> S]
        BY DEF Inv, TypeOK
      <3> HIDE DEF S
      <3>2. /\ Append(result, "none") \in [1 .. n + 1 -> S]
            /\ \A i \in 1 .. n : Append(result, "none")[i] = result[i]
            /\ Append(result, "none")[n + 1] = "none"
        BY <1>2, <3>1, AppendCall, SMT
      <3> QED
        BY <1>1, <3>2 DEF S
    <2> QED
      BY <2>1, <2>2, <2>3
  <1>4. /\ Len(signal_handlers) \in Nat /\ signal_handlers \in Seq(1 .. n')
        /\ \A k \in 1 .. Len(signal_handlers) : signal_handlers[k] \in 1 .. n
    BY <1>1, <1>2 DEF Inv, TypeOK
  <1>5. TypeOK'
    BY <1>1, <1>2, <1>3, <1>4 DEF Inv, TypeOK
  <1>6. EndOK' /\ CallOK' /\ SignalOK'
    BY <1>1, <1>2, <1>3 DEF Inv, EndOK, CallOK, SignalOK
  <1>7. RegisteredStarted' /\ HandledOK' /\ ExitDeletesJobs' /\ InterruptEndsProcess'
    BY <1>1, <1>3, <1>4 DEF Inv, EndOK, RegisteredStarted, HandledOK, ExitDeletesJobs,
       InterruptEndsProcess
  <1>8. Known'
    <2> SUFFICES ASSUME NEW c \in 1 .. n', Alive(c)', c \notin Range(signal_handlers)
                 PROVE  \/ c = n' /\ pc' \in {"create", "add_signal_handler"}
                        \/ cut_short' /\ result'[c] = "raised"
      BY <1>1 DEF Known
    <2>1. CASE c = n'
      BY <1>0, <1>1, <1>3, <2>1 DEF Alive
    <2>2. CASE c \in 1 .. n
      BY <1>1, <1>3, <2>2 DEF Inv, EndOK, Known, Alive
    <2>3. c = n' \/ c \in 1 .. n
      BY <1>1, <1>2, SMT
    <2> QED
      BY <2>1, <2>2, <2>3
  <1> QED
    BY <1>5, <1>6, <1>7, <1>8 DEF Inv

LEMMA CreateRaisesStep ==
    ASSUME Inv, create_raises
    PROVE  Inv'
  <1>1. /\ Undisturbed /\ pc = "create" /\ n \in Calls /\ n \in 1 .. n
        /\ pc' = "script" /\ result' = [result EXCEPT ![n] = "raised"]
        /\ job' = [job EXCEPT ![n] = "none"]
        /\ UNCHANGED <<n, task, phase, signal_handlers, clean_up_task, handling,
                       signals, cut_short, end>>
    BY DEF create_raises, CallRaises, Inv, CallOK, Calls
  <1>2. TypeOK'
    BY <1>1 DEF Inv, TypeOK, JobStates
  <1>3. EndOK' /\ CallOK' /\ SignalOK'
    BY <1>1 DEF Inv, EndOK, CallOK, SignalOK, Undisturbed
  <1>4. \A k \in 1 .. Len(signal_handlers) : job'[signal_handlers[k]] \in {job[signal_handlers[k]], "none"}
    BY <1>1 DEF Inv, TypeOK
  <1>5. RegisteredStarted' /\ HandledOK' /\ InterruptEndsProcess'
    BY <1>1, <1>4 DEF Inv, RegisteredStarted, HandledOK, InterruptEndsProcess
  <1>6. ExitDeletesJobs'
    BY <1>1 DEF Inv, EndOK, ExitDeletesJobs, Undisturbed
  <1>7. Known'
    BY <1>1 DEF Inv, TypeOK, EndOK, Known, Alive, Undisturbed
  <1> QED
    BY <1>2, <1>3, <1>5, <1>6, <1>7 DEF Inv

LEMMA CreateRegistersStep ==
    ASSUME Inv, _create_registers
    PROVE  Inv'
  <1>1. /\ Undisturbed /\ pc = "add_signal_handler" /\ n \in Calls /\ n \in 1 .. n
        /\ pc' = "created" /\ signal_handlers' = Append(signal_handlers, n)
        /\ job[n] # "requested"
        /\ UNCHANGED <<n, task, job, result, phase, clean_up_task, handling, signals,
                       cut_short, end>>
    BY DEF _create_registers, add_signal_handler, Inv, CallOK, Calls
  <1>2. /\ signal_handlers' \in Seq(1 .. n) /\ Len(signal_handlers') = Len(signal_handlers) + 1
        /\ Len(signal_handlers) \in Nat
        /\ signal_handlers'[Len(signal_handlers) + 1] = n
        /\ \A k \in 1 .. Len(signal_handlers) : signal_handlers'[k] = signal_handlers[k]
    BY <1>1, AppendProperties DEF Inv, TypeOK
  <1>3. TypeOK'
    <2>1. handling' = <<>>
      BY <1>1 DEF Undisturbed
    <2> QED
      BY <1>1, <1>2, <2>1 DEF Inv, TypeOK
  <1>4. EndOK' /\ CallOK' /\ SignalOK'
    BY <1>1 DEF Inv, EndOK, CallOK, SignalOK, Undisturbed
  <1>5. RegisteredStarted'
    BY <1>1, <1>2 DEF Inv, RegisteredStarted
  <1>6. HandledOK' /\ InterruptEndsProcess' /\ ExitDeletesJobs'
    BY <1>1 DEF Inv, EndOK, HandledOK, InterruptEndsProcess, ExitDeletesJobs, Undisturbed
  <1>7. Range(signal_handlers)' = Range(signal_handlers) \cup {n}
    <2>1. /\ DOMAIN signal_handlers = 1 .. Len(signal_handlers)
          /\ DOMAIN signal_handlers' = 1 .. Len(signal_handlers) + 1
      BY <1>2, LenProperties DEF Inv, TypeOK
    <2> QED
      BY <1>2, <2>1 DEF Range
  <1>8. Known'
    BY <1>1, <1>7 DEF Inv, Known, Alive
  <1> QED
    BY <1>3, <1>4, <1>5, <1>6, <1>8 DEF Inv

(* The process is over otherwise than by a signal.                         *)
LEMMA OverStep ==
    ASSUME Inv, Undisturbed, pc' = "over", end' \in {"done", "poll"},
           pc \in {"script", "got"},
           UNCHANGED <<n, task, job, result, phase, signal_handlers, clean_up_task,
                       handling, signals, cut_short>>
    PROVE  Inv'
  <1>1. TypeOK'
    BY DEF Inv, TypeOK, Undisturbed
  <1>2. EndOK' /\ CallOK' /\ SignalOK'
    BY DEF Inv, EndOK, CallOK, SignalOK, Undisturbed
  <1>3. RegisteredStarted' /\ HandledOK' /\ ExitDeletesJobs'
    BY DEF Inv, RegisteredStarted, HandledOK, ExitDeletesJobs
  <1>4. InterruptEndsProcess' /\ Known'
    BY DEF Inv, EndOK, InterruptEndsProcess, Known, Alive, Undisturbed
  <1> QED
    BY <1>1, <1>2, <1>3, <1>4 DEF Inv

LEMMA GetContinuesStep ==
    ASSUME Inv, _get_continues
    PROVE  Inv'
  <1>1. /\ Undisturbed /\ pc = "got"
        /\ UNCHANGED <<n, task, job, phase, signal_handlers, clean_up_task, handling,
                       signals, cut_short>>
    BY DEF _get_continues
  <1>2. phase' \in Phases
    BY <1>1 DEF Inv, TypeOK
  <1>3. CASE pc' = "over" /\ end' = "poll" /\ UNCHANGED result
    BY <1>1, <1>3, OverStep
  <1>4. CASE pc' = "sleep" /\ UNCHANGED <<result, end>>
    BY <1>1, <1>2, <1>4, QuietStep
  <1>5. CASE pc' = "script" /\ result' = [result EXCEPT ![n] = "returned"] /\ UNCHANGED end
    BY <1>1, <1>2, <1>5, EndOfCall
  <1>6. CASE CallRaises /\ UNCHANGED end
    BY <1>1, <1>2, <1>6, EndOfCall DEF CallRaises
  <1> QED
    BY <1>3, <1>4, <1>5, <1>6 DEF _get_continues

LEMMA DoStep ==
    ASSUME Inv, _do
    PROVE  Inv'
  <1>1. /\ Undisturbed /\ pc = "do" /\ phase' \in Phases
        /\ UNCHANGED <<n, task, job, signal_handlers, clean_up_task, handling, signals,
                       cut_short, end>>
    BY DEF _do, Inv, TypeOK
  <1>2. CASE pc' = "script" /\ result' = [result EXCEPT ![n] = "returned"]
    BY <1>1, <1>2, EndOfCall
  <1>3. CASE CallRaises
    BY <1>1, <1>3, EndOfCall DEF CallRaises
  <1> QED
    BY <1>2, <1>3 DEF _do

-----------------------------------------------------------------------------
(* Signals.                                                                *)

LEMMA TopFacts ==
    ASSUME Inv, handling # <<>>
    PROVE  /\ Len(handling) \in Nat \ {0} /\ Len(signal_handlers) \in Nat
           /\ Top \in [at : 1 .. Len(signal_handlers) + 1, deleting : BOOLEAN]
           /\ Top.deleting => Top.at \in 1 .. Len(signal_handlers)
           /\ pc # "over" /\ end = "no"
           /\ \A k \in 1 .. Len(signal_handlers) :
                /\ signal_handlers[k] \in 1 .. n
                /\ k < Top.at \/ (k = Top.at /\ Top.deleting) => job[signal_handlers[k]] # "running"
  <1>1. /\ Len(handling) \in Nat \ {0} /\ Len(signal_handlers) \in Nat
        /\ \A k \in 1 .. Len(signal_handlers) : signal_handlers[k] \in 1 .. n
    BY DEF Inv, TypeOK
  <1>2. /\ Top \in [at : 1 .. Len(signal_handlers) + 1, deleting : BOOLEAN]
        /\ Top.deleting => Top.at \in 1 .. Len(signal_handlers)
    <2> DEFINE R == [at : 1 .. Len(signal_handlers) + 1, deleting : BOOLEAN]
    <2>1. handling \in Seq(R)
      BY DEF Inv, TypeOK
    <2>2. Top \in R
      <3> HIDE DEF R
      <3> QED
        BY <1>1, <2>1, ElementOfSeq DEF Top
    <2>3. Top.deleting => Top.at \in 1 .. Len(signal_handlers)
      BY <1>1 DEF Inv, TypeOK, Top
    <2> QED
      BY <2>2, <2>3
  <1>3. \A k \in 1 .. Len(signal_handlers) :
            k < Top.at \/ (k = Top.at /\ Top.deleting) => job[signal_handlers[k]] # "running"
    BY <1>1 DEF Inv, HandledOK, Top
  <1>4. pc # "over" /\ end = "no"
    BY DEF Inv, EndOK
  <1> QED
    BY <1>1, <1>2, <1>3, <1>4

LEMMA SignalStep ==
    ASSUME Inv, main_signal_handler
    PROVE  Inv'
  <1>1. /\ pc # "over" /\ signals < MaxSignals /\ signals' = signals + 1
        /\ handling' = Append(handling, [at |-> 1, deleting |-> FALSE])
        /\ UNCHANGED <<pc, n, task, job, result, phase, signal_handlers, clean_up_task,
                       cut_short, end>>
    BY DEF main_signal_handler
  <1> DEFINE R == [at : 1 .. Len(signal_handlers) + 1, deleting : BOOLEAN]
  <1>2. Len(signal_handlers) \in Nat /\ handling \in Seq(R)
    BY DEF Inv, TypeOK
  <1>3. [at |-> 1, deleting |-> FALSE] \in R
    BY <1>2
  <1>4. /\ handling' \in Seq(R) /\ handling' # <<>>
        /\ Len(handling') = Len(handling) + 1 /\ Len(handling) \in Nat
        /\ handling'[Len(handling) + 1] = [at |-> 1, deleting |-> FALSE]
        /\ \A i \in 1 .. Len(handling) : handling'[i] = handling[i]
    <2> HIDE DEF R
    <2> QED
      BY <1>1, <1>2, <1>3, AppendProperties
  <1>5. signals' \in 0 .. MaxSignals /\ signals' > 0
    BY <1>1, TasksAssumption DEF Inv, TypeOK
  <1>6. TypeOK'
    BY <1>1, <1>4, <1>5 DEF Inv, TypeOK
  <1>7. EndOK' /\ CallOK' /\ SignalOK' /\ InterruptEndsProcess'
    BY <1>1, <1>4, <1>5 DEF Inv, EndOK, CallOK, SignalOK, InterruptEndsProcess
  <1>8. RegisteredStarted' /\ ExitDeletesJobs' /\ Known'
    BY <1>1 DEF Inv, RegisteredStarted, ExitDeletesJobs, Known, Alive
  <1>9. HandledOK'
    BY <1>1, <1>4 DEF Inv, HandledOK
  <1> QED
    BY <1>6, <1>7, <1>8, <1>9 DEF Inv

LEMMA HandlerDeletesStep ==
    ASSUME Inv, handler_deletes
    PROVE  Inv'
  <1> DEFINE c == signal_handlers[Top.at]
             h == Len(handling)
  <1>1. /\ handling # <<>> /\ Top.at <= Len(signal_handlers) /\ ~ Top.deleting
        /\ handling' = [handling EXCEPT ![h] = [at |-> @.at, deleting |-> TRUE]]
        /\ job' = [job EXCEPT ![c] = Deleted(@)]
        /\ UNCHANGED <<pc, n, task, result, phase, signal_handlers, clean_up_task,
                       signals, cut_short, end>>
    BY DEF handler_deletes, more_handlers, Current
  <1>2. Top.at \in 1 .. Len(signal_handlers) /\ c \in 1 .. n /\ h \in Nat \ {0}
    BY <1>1, TopFacts
  <1>3. /\ job' \in [1 .. n -> JobStates] /\ job'[c] # "running"
        /\ job[c] # "requested" /\ job'[c] # "requested"
        /\ \A d \in 1 .. n : d # c => job'[d] = job[d]
    BY <1>1, <1>2 DEF Inv, TypeOK, RegisteredStarted, Deleted, JobStates
  <1>4. /\ handling' \in Seq([at : 1 .. Len(signal_handlers) + 1, deleting : BOOLEAN])
        /\ Len(handling') = h /\ handling' # <<>>
        /\ handling'[h].at = Top.at /\ handling'[h].deleting = TRUE
        /\ \A i \in 1 .. h : i # h => handling'[i] = handling[i]
    <2> DEFINE R == [at : 1 .. Len(signal_handlers) + 1, deleting : BOOLEAN]
    <2>1. handling \in Seq(R)
      BY DEF Inv, TypeOK
    <2>2. PICK e : e = [at |-> Top.at, deleting |-> TRUE]
      OBVIOUS
    <2>3. e \in R /\ e.at = Top.at /\ e.deleting = TRUE
      BY <1>1, <2>2, TopFacts
    <2>4. handling' = [handling EXCEPT ![h] = e]
      BY <1>1, <2>2 DEF Top
    <2>5. handling' \in Seq(R) /\ Len(handling') = h
      <3> HIDE DEF R
      <3> QED
        BY <1>2, <2>1, <2>3, <2>4, ExceptSeq
    <2>6. handling'[h] = e /\ \A i \in 1 .. h : i # h => handling'[i] = handling[i]
      <3> HIDE DEF R
      <3> QED
        BY <1>2, <2>1, <2>3, <2>4, ExceptSeq
    <2> QED
      BY <1>2, <2>3, <2>5, <2>6
  <1>5. TypeOK'
    BY <1>1, <1>2, <1>3, <1>4 DEF Inv, TypeOK
  <1>6. EndOK' /\ CallOK' /\ SignalOK' /\ InterruptEndsProcess'
    <2>1. n \in 1 .. n => job'[n] \in {job[n], "none"} \/ job'[n] # "requested"
      BY <1>3
    <2> QED
      BY <1>1, <1>3, <1>4, <2>1 DEF Inv, EndOK, CallOK, SignalOK, InterruptEndsProcess, Calls
  <1>7. \A d \in 1 .. n : /\ job[d] # "running" => job'[d] # "running"
                          /\ job[d] # "requested" => job'[d] # "requested"
    BY <1>3
  <1>8. \A k \in 1 .. Len(signal_handlers) : signal_handlers[k] \in 1 .. n
    BY <1>1, TopFacts
  <1>9. RegisteredStarted' /\ ExitDeletesJobs'
    BY <1>1, <1>7, <1>8, TopFacts DEF Inv, RegisteredStarted, ExitDeletesJobs
  <1>10. HandledOK'
    BY <1>1, <1>2, <1>3, <1>4, <1>7, <1>8, TopFacts DEF Inv, HandledOK
  <1>11. Known'
    BY <1>1, <1>7 DEF Inv, TypeOK, JobStates, Known, Alive
  <1> QED
    BY <1>5, <1>6, <1>9, <1>10, <1>11 DEF Inv

LEMMA HandlerRaisesStep ==
    ASSUME Inv, handler_cannot_delete
    PROVE  Inv'
  <1>1. /\ handling # <<>> /\ handling' = <<>> /\ cut_short' = TRUE
        /\ pc' = "script"
        /\ result' = IF pc = "script" THEN result ELSE [result EXCEPT ![n] = "raised"]
        /\ UNCHANGED <<n, task, job, phase, signal_handlers, clean_up_task, signals, end>>
    BY DEF handler_cannot_delete, HandlerRaises, CallRaises
  <1>2. pc # "over" /\ end = "no"
    BY <1>1, TopFacts
  <1>3. TypeOK'
    <2>1. result' \in [1 .. n -> {"none", "returned", "raised"}]
      BY <1>1 DEF Inv, TypeOK
    <2>2. /\ handling' \in Seq([at : 1 .. Len(signal_handlers) + 1, deleting : BOOLEAN])
          /\ Len(handling') = 0
      BY <1>1, EmptySeq
    <2> QED
      BY <1>1, <2>1, <2>2 DEF Inv, TypeOK
  <1>4. EndOK' /\ CallOK' /\ SignalOK' /\ InterruptEndsProcess'
    BY <1>1, <1>2 DEF Inv, EndOK, CallOK, SignalOK, InterruptEndsProcess
  <1>5. RegisteredStarted' /\ ExitDeletesJobs' /\ HandledOK'
    BY <1>1 DEF Inv, RegisteredStarted, ExitDeletesJobs, HandledOK
  <1>6. Known'
    BY <1>1, <1>2 DEF Inv, TypeOK, CallOK, Known, Alive
  <1> QED
    BY <1>3, <1>4, <1>5, <1>6 DEF Inv

LEMMA HandlerReturnsStep ==
    ASSUME Inv, handler_returns
    PROVE  Inv'
  <1> DEFINE h == Len(handling)
  <1>1. /\ handling # <<>> /\ Top.deleting
        /\ handling' = [handling EXCEPT ![h] = [at |-> @.at + 1, deleting |-> FALSE]]
        /\ clean_up_task' \in [AsyncTasks -> BOOLEAN]
        /\ UNCHANGED <<pc, n, task, job, result, phase, signal_handlers, signals,
                       cut_short, end>>
    BY DEF handler_returns, Inv, TypeOK
  <1>2. Top.at \in 1 .. Len(signal_handlers) /\ h \in Nat \ {0} /\ Len(signal_handlers) \in Nat
    BY <1>1, TopFacts
  <1>3. /\ handling' \in Seq([at : 1 .. Len(signal_handlers) + 1, deleting : BOOLEAN])
        /\ Len(handling') = h /\ handling' # <<>>
        /\ handling'[h].at = Top.at + 1 /\ handling'[h].deleting = FALSE
        /\ \A i \in 1 .. h : i # h => handling'[i] = handling[i]
    BY <1>1, <1>2 DEF Inv, TypeOK, Top
  <1>4. TypeOK'
    BY <1>1, <1>2, <1>3 DEF Inv, TypeOK
  <1>5. EndOK' /\ CallOK' /\ SignalOK' /\ InterruptEndsProcess'
    BY <1>1, <1>3, TopFacts DEF Inv, EndOK, CallOK, SignalOK, InterruptEndsProcess
  <1>6. RegisteredStarted' /\ ExitDeletesJobs' /\ Known'
    BY <1>1 DEF Inv, RegisteredStarted, ExitDeletesJobs, Known, Alive
  <1>7. HandledOK'
    <2> SUFFICES ASSUME NEW i \in 1 .. h, NEW k \in 1 .. Len(signal_handlers),
                        \/ k < handling'[i].at
                        \/ k = handling'[i].at /\ handling'[i].deleting
                 PROVE  job[signal_handlers[k]] # "running"
      BY <1>1, <1>3 DEF HandledOK
    <2>1. CASE i = h
      <3>1. k < Top.at + 1
        BY <1>3, <2>1
      <3>2. k < Top.at \/ k = Top.at
        BY <1>2, <3>1
      <3> QED
        BY <1>1, <3>2, TopFacts
    <2>2. CASE i # h
      BY <1>3, <2>2 DEF Inv, HandledOK
    <2> QED
      BY <2>1, <2>2
  <1> QED
    BY <1>4, <1>5, <1>6, <1>7 DEF Inv

(* All handlers have run, so no job they know of runs on.                  *)
LEMMA HandlersDoneStep ==
    ASSUME Inv, handlers_done
    PROVE  Inv'
  <1>1. /\ handling # <<>> /\ ~ (Top.at <= Len(signal_handlers))
        /\ pc' = "over" /\ end' = "signal" /\ handling' = <<>>
        /\ UNCHANGED <<n, task, job, result, phase, signal_handlers, clean_up_task,
                       signals, cut_short>>
    BY DEF handlers_done, more_handlers, exit_process
  <1>2. \A k \in 1 .. Len(signal_handlers) : job[signal_handlers[k]] # "running"
    BY <1>1, TopFacts
  <1>3. TypeOK'
    BY <1>1 DEF Inv, TypeOK
  <1>4. EndOK' /\ CallOK' /\ SignalOK' /\ InterruptEndsProcess'
    BY <1>1, TopFacts DEF Inv, EndOK, CallOK, SignalOK, InterruptEndsProcess
  <1>5. RegisteredStarted' /\ HandledOK'
    BY <1>1 DEF Inv, RegisteredStarted, HandledOK
  <1>6. ExitDeletesJobs'
    BY <1>1, <1>2, HandlerRange DEF Inv, ExitDeletesJobs
  <1>7. Known'
    BY <1>1, TopFacts DEF Inv, CallOK, Known, Alive
  <1> QED
    BY <1>3, <1>4, <1>5, <1>6, <1>7 DEF Inv

-----------------------------------------------------------------------------
(* The service.                                                            *)

LEMMA JobStartsStep ==
    ASSUME Inv, NEW c \in 1 .. n, job_starts(c)
    PROVE  Inv'
  <1>1. /\ job[c] = "requested" /\ job' = [job EXCEPT ![c] = "running"]
        /\ UNCHANGED <<pc, n, task, result, phase, signal_handlers, clean_up_task,
                       handling, signals, cut_short, end>>
    BY DEF job_starts
  <1>2. job' \in [1 .. n -> JobStates] /\ \A d \in 1 .. n : d # c => job'[d] = job[d]
    BY <1>1 DEF Inv, TypeOK, JobStates
  <1>3. \A k \in 1 .. Len(signal_handlers) :
            signal_handlers[k] \in 1 .. n /\ job'[signal_handlers[k]] = job[signal_handlers[k]]
    BY <1>1, <1>2 DEF Inv, TypeOK, RegisteredStarted
  <1>4. TypeOK'
    BY <1>1, <1>2 DEF Inv, TypeOK
  <1>5. EndOK' /\ CallOK' /\ SignalOK' /\ InterruptEndsProcess'
    <2>1. job'[c] = "running"
      BY <1>1 DEF Inv, TypeOK
    <2> QED
      BY <1>1, <1>2, <2>1 DEF Inv, EndOK, CallOK, SignalOK, InterruptEndsProcess, Calls
  <1>6. RegisteredStarted' /\ HandledOK'
    BY <1>1, <1>3 DEF Inv, RegisteredStarted, HandledOK
  <1>7. ExitDeletesJobs'
    BY <1>1, <1>3, HandlerRange DEF Inv, ExitDeletesJobs
  <1>8. Known'
    BY <1>1, <1>2 DEF Inv, Known, Alive
  <1> QED
    BY <1>4, <1>5, <1>6, <1>7, <1>8 DEF Inv

LEMMA JobEndsStep ==
    ASSUME Inv, NEW c \in 1 .. n, job_ends(c)
    PROVE  Inv'
  <1>1. PICK s \in {"succeeded", "failed"} :
            /\ job[c] = "running" /\ job' = [job EXCEPT ![c] = s]
            /\ UNCHANGED <<pc, n, task, result, phase, signal_handlers, clean_up_task,
                           handling, signals, cut_short, end>>
    BY DEF job_ends
  <1>2. /\ job' \in [1 .. n -> JobStates] /\ job'[c] = s
        /\ \A d \in 1 .. n : d # c => job'[d] = job[d]
    BY <1>1 DEF Inv, TypeOK, JobStates
  <1>3. \A k \in 1 .. Len(signal_handlers) : signal_handlers[k] \in 1 .. n
    BY DEF Inv, TypeOK
  <1>4. TypeOK'
    BY <1>1, <1>2 DEF Inv, TypeOK
  <1>5. EndOK' /\ CallOK' /\ SignalOK' /\ InterruptEndsProcess'
    BY <1>1, <1>2 DEF Inv, EndOK, CallOK, SignalOK, InterruptEndsProcess, Calls
  <1>6. RegisteredStarted' /\ HandledOK'
    BY <1>1, <1>2, <1>3 DEF Inv, RegisteredStarted, HandledOK
  <1>7. ExitDeletesJobs'
    BY <1>1, <1>2, <1>3, HandlerRange DEF Inv, ExitDeletesJobs
  <1>8. Known'
    BY <1>1, <1>2 DEF Inv, Known, Alive
  <1> QED
    BY <1>4, <1>5, <1>6, <1>7, <1>8 DEF Inv

-----------------------------------------------------------------------------
(* Theorems.                                                               *)

LEMMA InitInv == Init => Inv
  <1> SUFFICES ASSUME Init PROVE Inv
    OBVIOUS
  <1>1. TypeOK
    <2>1. /\ signal_handlers \in Seq(1 .. n) /\ Len(signal_handlers) = 0
          /\ handling \in Seq([at : 1 .. Len(signal_handlers) + 1, deleting : BOOLEAN])
          /\ Len(handling) = 0
      BY EmptySeq DEF Init
    <2>2. /\ task \in [1 .. n -> Tasks] /\ job \in [1 .. n -> JobStates]
          /\ result \in [1 .. n -> {"none", "returned", "raised"}]
      BY DEF Init
    <2>3. n \in 0 .. MaxCalls /\ signals \in 0 .. MaxSignals
      BY TasksAssumption DEF Init
    <2>4. /\ pc = "script" /\ phase \in Phases /\ end = "no" /\ cut_short \in BOOLEAN
          /\ clean_up_task \in [AsyncTasks -> BOOLEAN]
      BY Zenon DEF Init, Phases
    <2>5. \A i \in 1 .. Len(handling) :
            handling[i].deleting => handling[i].at \in 1 .. Len(signal_handlers)
      BY <2>1
    <2> QED
      BY <2>1, <2>2, <2>3, <2>4, <2>5, Zenon DEF TypeOK
  <1>2. EndOK /\ CallOK /\ SignalOK /\ InterruptEndsProcess
    BY DEF Init, EndOK, CallOK, SignalOK, InterruptEndsProcess
  <1>3. RegisteredStarted /\ HandledOK /\ Known /\ ExitDeletesJobs
    BY EmptySeq DEF Init, RegisteredStarted, HandledOK, Known, ExitDeletesJobs
  <1> QED
    BY <1>1, <1>2, <1>3 DEF Inv

LEMMA MainThreadStep ==
    ASSUME Inv, MainThread
    PROVE  Inv'
  <1>1. CASE create_raises
    BY <1>1, CreateRaisesStep
  <1>2. CASE create_returns
    BY <1>2, QuietStep DEF create_returns, Inv, TypeOK
  <1>3. CASE _create_registers
    BY <1>3, CreateRegistersStep
  <1>4. CASE _get_starts
    BY <1>4, QuietStep DEF _get_starts, Phases
  <1>5. CASE sleeps
    BY <1>5, QuietStep DEF sleeps, Inv, TypeOK
  <1>6. CASE get_returns
    <2>1. job[n] \in JobStates
      BY <1>6 DEF get_returns, Inv, TypeOK, CallOK, Calls
    <2>2. phase' \in Phases
      BY <1>6, <2>1, PhasesTyped DEF get_returns
    <2> QED
      BY <1>6, <2>2, QuietStep DEF get_returns
  <1>7. CASE get_raises
    <2>1. phase' \in Phases
      BY <1>7 DEF get_raises, Inv, TypeOK
    <2> QED
      BY <1>7, <2>1, EndOfCall DEF get_raises, CallRaises
  <1>8. CASE _get_continues
    BY <1>8, GetContinuesStep
  <1>9. CASE _do
    BY <1>9, DoStep
  <1>10. CASE handler_deletes
    BY <1>10, HandlerDeletesStep
  <1>11. CASE handler_cannot_delete
    BY <1>11, HandlerRaisesStep
  <1>12. CASE handler_returns
    BY <1>12, HandlerReturnsStep
  <1>13. CASE handlers_done
    BY <1>13, HandlersDoneStep
  <1> QED
    BY <1>1, <1>2, <1>3, <1>4, <1>5, <1>6, <1>7, <1>8, <1>9, <1>10, <1>11, <1>12, <1>13
       DEF MainThread

LEMMA StutterStep ==
    ASSUME Inv, UNCHANGED vars
    PROVE  Inv'
  BY DEF Inv, vars, TypeOK, EndOK, CallOK, SignalOK, RegisteredStarted, HandledOK, Known, Alive,
     ExitDeletesJobs, InterruptEndsProcess

(* The inductive invariant: what the signal handlers have got past is      *)
(* deleted, and a live job is known to them or its call was cut short.     *)
THEOREM Invariance == Spec => []Inv
  <1>1. ASSUME Inv, [Next]_vars
        PROVE  Inv'
    <2>1. CASE \E t \in Tasks : execute(t)
      BY <1>1, <2>1, ExecuteStep
    <2>2. CASE MainThread
      BY <1>1, <2>2, MainThreadStep
    <2>3. CASE script_ends
      BY <1>1, <2>3, OverStep DEF script_ends
    <2>4. CASE main_signal_handler
      BY <1>1, <2>4, SignalStep
    <2>5. CASE \E c \in 1 .. n : job_starts(c) \/ job_ends(c)
      BY <1>1, <2>5, JobStartsStep, JobEndsStep
    <2>6. CASE UNCHANGED vars
      BY <1>1, <2>6, StutterStep
    <2> QED
      BY <1>1, <2>1, <2>2, <2>3, <2>4, <2>5, <2>6 DEF Next
  <1> QED
    BY <1>1, InitInv, PTL DEF Spec

(* Every variable of the script, the service and the handlers keeps its    *)
(* type; a handler that deletes is one of those registered.                *)
THEOREM TypeCorrect == Spec => []TypeOK
  BY Invariance, PTL DEF Inv

(* An exit by main_signal_handler leaves no registered job running,        *)
(* however many signals interrupted one another's handlers.                *)
THEOREM ExitDeletes == Spec => []ExitDeletesJobs
  BY Invariance, PTL DEF Inv

(* A signal ends the process unless one of its handlers raised.            *)
THEOREM InterruptEnds == Spec => []InterruptEndsProcess
  BY Invariance, PTL DEF Inv

(* A job runs without a handler that knows it only on the way through      *)
(* _create, or when a signal cut that very call short.                     *)
THEOREM KnownJobs == Spec => []JobsAreKnown
  <1>1. Inv => JobsAreKnown
    BY DEF Inv, Known, Alive, JobsAreKnown
  <1> QED
    BY <1>1, Invariance, PTL

=============================================================================
