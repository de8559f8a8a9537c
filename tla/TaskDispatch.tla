----------------------------- MODULE TaskDispatch -----------------------------
(***************************************************************************)
(* One attempt of a task on the cluster: every container of the attempt    *)
(* runs pyflyte-execute, whose _dispatch_execute (bin/entrypoint.py) loads *)
(* the task, downloads the inputs, calls the task's dispatch_execute       *)
(* (core/base_task.py, core/shim_task.py) and uploads what came of it, file *)
(* by file, under the output prefix that all containers of the attempt     *)
(* share.  Containers may be killed at any point, and each call that       *)
(* leaves the process may raise.                                           *)
(*                                                                         *)
(* The documents are reduced to who wrote them and to what the receiver    *)
(* tells apart: the kind and origin of an error, and the names of the      *)
(* literals that an outputs.pb refers to instead of holding them.          *)
(***************************************************************************)
EXTENDS Naturals

CONSTANTS
    Workers,        \* the containers of the attempt
    Rank0,          \* the one that hosts rank 0 of a distributed task
    Nobody,         \* the author of a file that is not there
    TaskKinds,      \* which implementations of dispatch_execute are tried
    OutputNames,    \* the outputs the task declares
    Sizes,          \* the literals' sizes
    MinSize,        \* _F_L_MIN_SIZE_MB
    MaxSize,        \* _F_L_MAX_SIZE_MB
    Offloading,     \* whether _F_L_MIN_SIZE_MB is set
    DistErrors,     \* whether FLYTE_INTERNAL_DIST_ERROR_STRATEGY is set
    FailOnError,    \* FLYTE_FAIL_ON_ERROR
    EnableDeck      \* not task_def.disable_deck (a shim has no deck)

(***************************************************************************)
(* Only an elastic task is run by more containers than rank 0's; the       *)
(* backend sets the distributed error strategy for it.                     *)
(***************************************************************************)
ASSUME WorkersAssumption ==
    /\ Rank0 \in Workers
    /\ Nobody \notin Workers
    /\ TaskKinds \subseteq {"Python", "Shim", "Elastic"}
    /\ Workers # {Rank0} => DistErrors

ASSUME SizesAssumption ==
    /\ Sizes \subseteq Nat
    /\ MinSize \in Nat /\ MaxSize \in Nat
    /\ {Offloading, DistErrors, FailOnError, EnableDeck} \subseteq BOOLEAN

VARIABLES
    task_kind,          \* the class of the task
    pc,                 \* where each container is in _dispatch_execute
    task_def,           \* whether the container has loaded the task
    returned,           \* the type of what dispatch_execute returned
    raised,             \* the exception that reached _dispatch_execute, or NoExc
    output_file_dict,   \* what the container is going to upload
    pending,            \* the files of it that are not uploaded yet
    prefix,             \* the files under the shared output prefix
    exit                \* how each container ended

vars == <<task_kind, pc, task_def, returned, raised, output_file_dict, pending,
          prefix, exit>>

-----------------------------------------------------------------------------
(* Files and documents.                                                    *)

OUTPUT_FILE_NAME == <<"outputs.pb">>
FUTURES_FILE_NAME == <<"futures.pb">>
DECK_FILE_NAME == <<"deck.html">>
Offloaded(k) == <<"offloaded_metadata.pb", k>>

(* Variant: every container of a distributed task uses the one name.       *)
SharedErrorName(w) == <<"error.pb", Rank0>>

(* With the distributed strategy the name holds a uuid of the process.     *)
error_file_name(w) == IF DistErrors THEN <<"error.pb", w>> ELSE <<"error.pb", Rank0>>

Files == {OUTPUT_FILE_NAME, FUTURES_FILE_NAME, DECK_FILE_NAME}
            \cup {Offloaded(k) : k \in OutputNames}
            \cup {error_file_name(w) : w \in Workers}

Document == [type   : {"none", "outputs", "futures", "literal", "deck", "error"},
             by     : Workers \cup {Nobody},
             kind   : {"", "RECOVERABLE", "NON_RECOVERABLE"},
             origin : {"", "USER", "SYSTEM"},
             refs   : SUBSET OutputNames]

Doc(w, type, refs) ==
    [type |-> type, by |-> w, kind |-> "", origin |-> "", refs |-> refs]

NoDoc == Doc(Nobody, "none", {})

ContainerError(w, kind, origin) ==
    [type |-> "error", by |-> w, kind |-> kind, origin |-> origin, refs |-> {}]

(***************************************************************************)
(* An exception as _dispatch_execute sees it: its class, and for a         *)
(* FlyteUserRuntimeException what it wraps.                                *)
(***************************************************************************)
Values == {"Plain", "Recoverable", "IgnoreOutputs"}
NoExc == [class |-> "None", value |-> "Plain"]
Exceptions == [class : {"User", "NonRecoverableSystem", "Other"}, value : Values]

ErrorKind(e) ==
    IF e.class = "NonRecoverableSystem" \/ (e.class = "User" /\ e.value # "Recoverable")
    THEN "NON_RECOVERABLE"
    ELSE "RECOVERABLE"

ErrorOrigin(e) == IF e.class = "User" THEN "USER" ELSE "SYSTEM"

(* A user exception that wraps IgnoreOutputs is no failure.                *)
IsIgnored(e) == e.class = "User" /\ e.value = "IgnoreOutputs"

-----------------------------------------------------------------------------
(* The three except clauses of _dispatch_execute.                          *)

Empty == [f \in Files |-> NoDoc]

(* The documents are written to the engine directory and put_data starts.  *)
Record(w, docs) ==
    /\ output_file_dict' = [output_file_dict EXCEPT ![w] = docs]
    /\ pending' = [pending EXCEPT ![w] = {f \in Files : docs[f] # NoDoc}]
    /\ pc' = [pc EXCEPT ![w] = "upload"]
    /\ UNCHANGED <<task_kind, task_def, prefix, exit>>

(* Step 3b: the function returns, nothing is uploaded.                     *)
Ignore(w) ==
    /\ pc' = [pc EXCEPT ![w] = "done"]
    /\ exit' = [exit EXCEPT ![w] = "Zero"]
    /\ UNCHANGED <<task_kind, task_def, output_file_dict, pending, prefix>>

(* Step 3c: the exception is recorded in the error document.               *)
Handle(w, e) ==
    /\ raised' = [raised EXCEPT ![w] = e]
    /\ UNCHANGED returned
    /\ IF IsIgnored(e)
       THEN Ignore(w)
       ELSE Record(w, [output_file_dict[w] EXCEPT ![error_file_name(w)] =
                                ContainerError(w, ErrorKind(e), ErrorOrigin(e))])

User(v) == [class |-> "User", value |-> v]
NonRecoverableSystem == [class |-> "NonRecoverableSystem", value |-> "Plain"]
Other(v) == [class |-> "Other", value |-> v]

(* A step of the try block that returns.                                   *)
Goto(w, from, to) ==
    /\ pc[w] = from
    /\ pc' = [pc EXCEPT ![w] = to]
    /\ UNCHANGED <<task_kind, raised, output_file_dict, pending, prefix, exit>>

-----------------------------------------------------------------------------
(* Loading, inputs and the task's own steps.                               *)

LoadTask(w) ==
    /\ Goto(w, "load_task", "get_data")
    /\ task_def' = [task_def EXCEPT ![w] = TRUE]
    /\ UNCHANGED returned

(* Whatever load_task raises is the user's: a missing dependency, say.     *)
LoadTaskRaises(w) ==
    /\ pc[w] = "load_task"
    /\ \E v \in {"Plain", "Recoverable"} : Handle(w, User(v))

GetInputs(w) == Goto(w, "get_data", "pre_execute") /\ UNCHANGED <<task_def, returned>>

GetInputsRaises(w) ==
    /\ pc[w] = "get_data"
    /\ \E v \in {"Plain", "Recoverable"} : Handle(w, Other(v))

PreExecute(w) == Goto(w, "pre_execute", "convert_inputs") /\ UNCHANGED <<task_def, returned>>

(* Only subclasses of PythonTask override pre_execute and post_execute.    *)
PreExecuteRaises(w) ==
    /\ pc[w] = "pre_execute" /\ task_kind = "Python"
    /\ \E v \in {"Plain", "Recoverable"} : Handle(w, Other(v))

(* Conversions: a failed transfer is raised as it is, any other exception  *)
(* as FlyteNonRecoverableSystemException; the shim wraps nothing.          *)
ConversionErrors ==
    IF task_kind = "Shim" THEN {Other("Plain"), Other("Recoverable")}
                          ELSE {NonRecoverableSystem, Other("Recoverable")}

ConvertInputs(w) == Goto(w, "convert_inputs", "execute") /\ UNCHANGED <<task_def, returned>>

ConvertInputsRaises(w) ==
    /\ pc[w] = "convert_inputs"
    /\ \E e \in ConversionErrors : Handle(w, e)

(* The elastic task returns from rank 0's container only.                  *)
Execute(w) ==
    /\ task_kind = "Elastic" => w = Rank0
    /\ Goto(w, "execute", "post_execute")
    /\ UNCHANGED <<task_def, returned>>

(* The user's exception, wrapped unless a shim runs the task; the elastic  *)
(* task raises IgnoreOutputs elsewhere than in rank 0's container, and when *)
(* the launcher is signalled.                                              *)
ExecuteRaises(w) ==
    /\ pc[w] = "execute"
    /\ \E v \in Values : Handle(w, IF task_kind = "Shim" THEN Other(v) ELSE User(v))

PostExecute(w) ==
    /\ Goto(w, "post_execute", "convert_outputs")
    /\ UNCHANGED <<task_def, returned>>

(* A dynamic task's spec, or its literal map, is not converted.            *)
PostExecuteShortCircuit(w) ==
    /\ task_kind # "Elastic"
    /\ Goto(w, "post_execute", "record")
    /\ \E t \in {"DynamicJobSpec", "LiteralMap"} : returned' = [returned EXCEPT ![w] = t]
    /\ UNCHANGED task_def

(* What post_execute raises is not wrapped.                                *)
PostExecuteRaises(w) ==
    /\ pc[w] = "post_execute" /\ task_kind = "Python"
    /\ \E v \in Values : Handle(w, Other(v))

(* Other subclasses may return a VoidPromise or what nobody handles.       *)
ConvertOutputs(w) ==
    /\ Goto(w, "convert_outputs", "record")
    /\ \E t \in IF task_kind = "Python" THEN {"LiteralMap", "VoidPromise", "Unknown"}
                                         ELSE {"LiteralMap"} :
            returned' = [returned EXCEPT ![w] = t]
    /\ UNCHANGED task_def

ConvertOutputsRaises(w) ==
    /\ pc[w] = "convert_outputs"
    /\ \E e \in ConversionErrors : Handle(w, e)

-----------------------------------------------------------------------------
(* Step 3a: what dispatch_execute returned becomes files.                  *)

Returns(w, t, docs) ==
    /\ pc[w] = "record" /\ returned[w] = t
    /\ UNCHANGED <<raised, returned>>
    /\ Record(w, docs)

RecordVoid(w) ==
    Returns(w, "VoidPromise", [Empty EXCEPT ![OUTPUT_FILE_NAME] = Doc(w, "outputs", {})])

RecordSpec(w) ==
    Returns(w, "DynamicJobSpec", [Empty EXCEPT ![FUTURES_FILE_NAME] = Doc(w, "futures", {})])

RecordUnknown(w) ==
    Returns(w, "Unknown", [output_file_dict[w] EXCEPT ![error_file_name(w)] =
                                    ContainerError(w, "RECOVERABLE", "SYSTEM")])

(* The literals that go to a file of their own, given all sizes.           *)
ToOffload(size) == IF Offloading THEN {k \in OutputNames : size[k] >= MinSize} ELSE {}

(* Variant: the offloaded literals are not added to output_file_dict.      *)
LiteralsNotAdded(w, refs) ==
    [Empty EXCEPT ![OUTPUT_FILE_NAME] = Doc(w, "outputs", refs)]

LiteralFiles(w, refs) ==
    [f \in Files |->
        IF f = OUTPUT_FILE_NAME THEN Doc(w, "outputs", refs)
        ELSE IF \E k \in refs : f = Offloaded(k) THEN Doc(w, "literal", {})
        ELSE NoDoc]

(* Offloading asks the task for its interface, which a loaded shim has not. *)
Recordable(size) ==
    Offloading => /\ \A k \in OutputNames : size[k] < MaxSize
                  /\ task_kind = "Shim" => ToOffload(size) = {}

RecordLiterals(w) ==
    \E size \in [OutputNames -> Sizes] :
        Recordable(size) /\ Returns(w, "LiteralMap", LiteralFiles(w, ToOffload(size)))

(* Variant: output_file_dict is assigned before the sizes are checked.     *)
RaisesWithOutputs(w) ==
    /\ pc[w] = "record" /\ returned[w] = "LiteralMap"
    /\ \E size \in [OutputNames -> Sizes] : ~Recordable(size)
    /\ raised' = [raised EXCEPT ![w] = Other("Plain")]
    /\ Record(w, [LiteralFiles(w, {}) EXCEPT ![error_file_name(w)] =
                            ContainerError(w, "RECOVERABLE", "SYSTEM")])
    /\ UNCHANGED returned

(* A literal that is too large, or that the shim cannot offload.           *)
RecordLiteralsRaises(w) ==
    /\ pc[w] = "record" /\ returned[w] = "LiteralMap"
    /\ \E size \in [OutputNames -> Sizes] : ~Recordable(size)
    /\ Handle(w, Other("Plain"))

-----------------------------------------------------------------------------
(* The upload of the engine directory, the deck and the end.               *)

PutFile(w, f) ==
    /\ pc[w] = "upload" /\ f \in pending[w]
    /\ prefix' = [prefix EXCEPT ![f] = output_file_dict[w][f]]
    /\ pending' = [pending EXCEPT ![w] = @ \ {f}]
    /\ UNCHANGED <<task_kind, pc, task_def, returned, raised, output_file_dict, exit>>

PutEnds(w) ==
    /\ pending[w] = {}
    /\ Goto(w, "upload", IF task_def[w] /\ EnableDeck /\ task_kind # "Shim"
                         THEN "deck" ELSE "exit")
    /\ UNCHANGED <<task_def, returned>>

(* _put raises, or writing to the engine directory did; nobody catches it. *)
(* retry_request wraps the coroutine function _put in a plain function: it *)
(* returns the coroutine, and what the coroutine raises passes it by, also *)
(* when the store asks to reduce the request rate.                         *)
PutRaises(w) ==
    /\ pc[w] = "upload"
    /\ pc' = [pc EXCEPT ![w] = "done"]
    /\ exit' = [exit EXCEPT ![w] = "Raised"]
    /\ UNCHANGED <<task_kind, task_def, returned, raised, output_file_dict, pending,
                   prefix>>

(* _output_deck logs what it raises.                                       *)
OutputDeck(w) ==
    /\ pc[w] = "deck"
    /\ pc' = [pc EXCEPT ![w] = "exit"]
    /\ prefix' \in {prefix, [prefix EXCEPT ![DECK_FILE_NAME] = Doc(w, "deck", {})]}
    /\ UNCHANGED <<task_kind, task_def, returned, raised, output_file_dict, pending,
                   exit>>

Exit(w) ==
    /\ pc[w] = "exit"
    /\ pc' = [pc EXCEPT ![w] = "done"]
    /\ exit' = [exit EXCEPT ![w] =
                   IF FailOnError /\ output_file_dict[w][error_file_name(w)] # NoDoc
                   THEN "One" ELSE "Zero"]
    /\ UNCHANGED <<task_kind, task_def, returned, raised, output_file_dict, pending,
                   prefix>>

(* The container is evicted, out of memory, or its node is lost.           *)
Kill(w) ==
    /\ pc[w] # "done"
    /\ pc' = [pc EXCEPT ![w] = "done"]
    /\ exit' = [exit EXCEPT ![w] = "Killed"]
    /\ UNCHANGED <<task_kind, task_def, returned, raised, output_file_dict, pending,
                   prefix>>

-----------------------------------------------------------------------------
Init ==
    /\ task_kind \in TaskKinds
    /\ pc = [w \in Workers |-> IF task_kind = "Elastic" \/ w = Rank0
                               THEN "load_task" ELSE "done"]
    /\ task_def = [w \in Workers |-> FALSE]
    /\ returned = [w \in Workers |-> "None"]
    /\ raised = [w \in Workers |-> NoExc]
    /\ output_file_dict = [w \in Workers |-> Empty]
    /\ pending = [w \in Workers |-> {}]
    /\ prefix = Empty
    /\ exit = [w \in Workers |-> "None"]

Run(w) ==
    \/ LoadTask(w) \/ LoadTaskRaises(w)
    \/ GetInputs(w) \/ GetInputsRaises(w)
    \/ PreExecute(w) \/ PreExecuteRaises(w)
    \/ ConvertInputs(w) \/ ConvertInputsRaises(w)
    \/ Execute(w) \/ ExecuteRaises(w)
    \/ PostExecute(w) \/ PostExecuteShortCircuit(w) \/ PostExecuteRaises(w)
    \/ ConvertOutputs(w) \/ ConvertOutputsRaises(w)
    \/ RecordVoid(w) \/ RecordSpec(w) \/ RecordUnknown(w)
    \/ RecordLiterals(w) \/ RecordLiteralsRaises(w)
    \/ \E f \in Files : PutFile(w, f)
    \/ PutEnds(w) \/ PutRaises(w)
    \/ OutputDeck(w)
    \/ Exit(w)

Next == \E w \in Workers : Run(w) \/ Kill(w)

Spec == Init /\ [][Next]_vars

-----------------------------------------------------------------------------
(* Properties.                                                             *)

(* Every variable has its type; in particular every error document has a kind *)
(* and an origin that the backend knows (models/core/errors.py).             *)
TypeOK ==
    /\ task_kind \in TaskKinds
    /\ pc \in [Workers -> {"load_task", "get_data", "pre_execute", "convert_inputs",
                           "execute", "post_execute", "convert_outputs", "record",
                           "upload", "deck", "exit", "done"}]
    /\ task_def \in [Workers -> BOOLEAN]
    /\ returned \in [Workers -> {"None", "LiteralMap", "DynamicJobSpec", "VoidPromise",
                                 "Unknown"}]
    /\ raised \in [Workers -> Exceptions \cup {NoExc}]
    /\ output_file_dict \in [Workers -> [Files -> Document]]
    /\ pending \in [Workers -> SUBSET Files]
    /\ prefix \in [Files -> Document]
    /\ exit \in [Workers -> {"None", "Zero", "One", "Raised", "Killed"}]

(* The process ended by itself, after the upload.                          *)
Ended(w) == exit[w] \in {"Zero", "One"}

(***************************************************************************)
(* A container that ends by itself and was not told to ignore its outputs  *)
(* has told the backend what became of it: its own error document, with    *)
(* the kind and origin of what was raised, is under the prefix and no      *)
(* other container has overwritten it, or its own outputs or futures are.  *)
(* The uuid in the error file's name (_build_error_file_name) is what      *)
(* keeps the documents of a distributed task apart.                        *)
(***************************************************************************)
EndsAreRecorded ==
    \A w \in Workers : Ended(w) /\ ~IsIgnored(raised[w]) =>
        IF raised[w] # NoExc
        THEN prefix[error_file_name(w)] =
                ContainerError(w, ErrorKind(raised[w]), ErrorOrigin(raised[w]))
        ELSE \E f \in {OUTPUT_FILE_NAME, FUTURES_FILE_NAME, error_file_name(w)} :
                prefix[f].by = w

(***************************************************************************)
(* No dangling references: once the writer of outputs.pb has ended by      *)
(* itself, every literal that outputs.pb refers to is under the prefix,    *)
(* from the same container.                                                *)
(***************************************************************************)
OutputsResolve ==
    \A w \in Workers : Ended(w) /\ prefix[OUTPUT_FILE_NAME].by = w =>
        \A k \in prefix[OUTPUT_FILE_NAME].refs :
            prefix[Offloaded(k)] = Doc(w, "literal", {})

(***************************************************************************)
(* A container that failed, in whichever step, has left neither outputs    *)
(* nor futures nor an offloaded literal under the prefix: downstream nodes *)
(* cannot pick up results of a failed attempt.                             *)
(***************************************************************************)
FailedLeavesNoOutputs ==
    \A w \in Workers : raised[w] # NoExc =>
        \A f \in Files : prefix[f].by = w => prefix[f].type \in {"error", "deck"}

(***************************************************************************)
(* What the comments of dispatch_execute and _dispatch_execute say:        *)
(* IgnoreOutputs, raised by execute or by post_execute, ends the container *)
(* without an error document.                                              *)
(***************************************************************************)
IgnoredWithoutError ==
    \A w \in Workers :
        raised[w].value = "IgnoreOutputs" => output_file_dict[w] = Empty

=============================================================================
