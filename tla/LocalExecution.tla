--------------------------- MODULE LocalExecution ---------------------------
(***************************************************************************)
(* Local execution of tasks and workflows: what happens, in one thread,    *)
(* between the calls that user code makes.  The module composes            *)
(*   - the context stack (FlyteContextManager, core/context_manager.py),   *)
(*   - conditional sections (core/condition.py), whose branch mode lives   *)
(*     in an ExecutionState that several contexts of the stack may share,  *)
(*   - the call handler that every entity goes through                     *)
(*     (flyte_entity_call_handler, core/promise.py) with the local         *)
(*     execution of tasks and their cache, gates, map tasks, array nodes,  *)
(*     and workflows with their on_failure handler.                        *)
(*                                                                         *)
(* The user's program is arbitrary: it opens sections, starts and ends     *)
(* branches, calls entities and returns, in any order Python allows; it    *)
(* does not catch exceptions.  Values are reduced to whether a promise     *)
(* holds one ("val") or holds None because its call was skipped ("none").  *)
(***************************************************************************)
EXTENDS Integers, Sequences

CONSTANTS
    Tasks,          \* the tasks of the program
    CachedTasks,    \* the ones declared with cache=True
    CacheOverwrite, \* LocalConfig.cache_overwrite
    Policies,       \* min_successes and min_success_ratio (in percent) of array nodes
    ItemCounts,     \* how many items an array node may map over
    MaxCases,       \* bound: cases of one conditional section
    MaxDepth,       \* bound: calls, sections and array nodes open at a time
    MaxCalls        \* bound: calls and sections in one behaviour

ASSUME LocalAssumption ==
    /\ CachedTasks \subseteq Tasks
    /\ CacheOverwrite \in BOOLEAN
    /\ Policies \subseteq [successes : Nat, ratio : Nat]
    /\ ItemCounts \subseteq Nat
    /\ MaxCases \in Nat /\ MaxDepth \in Nat /\ MaxCalls \in Nat

VARIABLES
    ctxs,       \* flyte_context_Var: the list of FlyteContexts
    frames,     \* what Python has open: workflow calls, sections, array nodes
    exc,        \* whether an exception is travelling up
    cache,      \* LocalTaskCache: the tasks it has an entry for
    calls,      \* how many calls and sections there were (for MaxCalls)
    seen        \* the call of the last step: whether it ran, and should have

vars == <<ctxs, frames, exc, cache, calls, seen>>

-----------------------------------------------------------------------------
(***************************************************************************)
(* The context stack.  A FlyteContext refers to an ExecutionState; es is   *)
(* the position of the context that this object was made for, where its    *)
(* mutable branch_eval_mode is kept.  Contexts of different positions may  *)
(* have the same es.                                                       *)
(***************************************************************************)
BranchEvalMode == {"none", "active", "skipped"}

Context == [es : Nat \ {0}, local : BOOLEAN, branch : BranchEvalMode,
            in_a_condition : BOOLEAN]

Front(s) == SubSeq(s, 1, Len(s) - 1)
Last(s) == s[Len(s)]

current_context == Last(ctxs)
Top == Last(frames)
TopKind == IF frames = <<>> THEN "script" ELSE Top.kind

(* The mode in the ExecutionState of the current context.                  *)
CurrentMode == ctxs[current_context.es].branch

Default == [es |-> 1, local |-> FALSE, branch |-> "none", in_a_condition |-> FALSE]

is_local_execution == ctxs[current_context.es].local

push_context(c) == Append(ctxs, c)

pop_context(s) == Front(s)

(* take_branch and branch_complete write into the shared object.           *)
SetMode(s, mode) == [s EXCEPT ![Last(s).es].branch = mode]

(* Variant: with_context pops its own context only.                        *)
PopOne(s, l) == Front(s)

(***************************************************************************)
(* The finally clause of with_context: pop until the list is shorter than  *)
(* it was with this context on top (l), leaked contexts included.          *)
(***************************************************************************)
with_context_exit(s, l) == SubSeq(s, 1, l - 1)

(***************************************************************************)
(* The builder of a new section: a section in a condition that is being    *)
(* executed keeps the ExecutionState object of its surroundings.           *)
(***************************************************************************)
enter_conditional_section ==
    LET own(mode) == [es |-> Len(ctxs) + 1, local |-> TRUE, branch |-> mode,
                      in_a_condition |-> TRUE]
    IN  IF ~current_context.in_a_condition \/ CurrentMode = "skipped"
        THEN own("skipped")
        ELSE [es |-> current_context.es, local |-> TRUE, branch |-> "none",
              in_a_condition |-> TRUE]

(* Variant: the child context keeps the caller's ExecutionState.           *)
SharedChildContext ==
    IF is_local_execution
    THEN [es |-> current_context.es, local |-> TRUE, branch |-> "none",
          in_a_condition |-> current_context.in_a_condition]
    ELSE [es |-> Len(ctxs) + 1, local |-> TRUE, branch |-> "none",
          in_a_condition |-> current_context.in_a_condition]

(***************************************************************************)
(* The context that a call runs in: with_params copies the ExecutionState, *)
(* its branch mode included; a call that starts a local execution gets a   *)
(* new one.                                                                *)
(***************************************************************************)
ChildContext ==
    [es |-> Len(ctxs) + 1, local |-> TRUE,
     branch |-> IF is_local_execution THEN CurrentMode ELSE "none",
     in_a_condition |-> current_context.in_a_condition]

IsSkipped == is_local_execution /\ CurrentMode = "skipped"

-----------------------------------------------------------------------------
(***************************************************************************)
(* Frames.  base is the length l that with_context recorded, or for a      *)
(* section the length after its constructor's push.  There for the         *)
(* properties only: saved, what the list was before the call; chosen, the  *)
(* case that the program's text says must be taken (the first true one, or *)
(* else the last); nested, whether a section was opened in one of its      *)
(* branches, or in what these call.                                        *)
(***************************************************************************)
Values == {"val", "none"}

WorkflowFrame == [kind : {"workflow"}, base : Nat, saved : Seq(Context),
                  on_failure : BOOLEAN, out : Values, nested : BOOLEAN]

SectionFrame == [kind : {"section"}, base : Nat, skipped : BOOLEAN,
                 cases : Nat, last_case : BOOLEAN, in_branch : BOOLEAN,
                 selected : Nat, result : Values \cup {"err"}, chosen : Nat,
                 out : Values, nested : BOOLEAN]

ArrayFrame == [kind : {"array"}, base : Nat, saved : Seq(Context), count : Nat,
               done : Nat, failed : Nat, min_successes : Nat, outputs : BOOLEAN,
               nested : BOOLEAN]

Frame == WorkflowFrame \cup SectionFrame \cup ArrayFrame

NoCall == [call |-> "no", ran |-> FALSE, wanted |-> FALSE, flat |-> FALSE]

Sections(fs) == {i \in DOMAIN fs : fs[i].kind = "section"}

(* What the program's text asks for: every open section is in its chosen   *)
(* branch.                                                                 *)
Wanted(fs) == \A i \in Sections(fs) : fs[i].cases = fs[i].chosen

(* At most one section is open, and none has been opened in its branches.  *)
Flat(fs) ==
    /\ \A i, j \in Sections(fs) : i = j
    /\ \A i \in DOMAIN fs : ~fs[i].nested

MarkNested(fs) ==
    [i \in DOMAIN fs |->
        [fs[i] EXCEPT !.nested = @ \/ \E j \in Sections(fs) : j <= i]]

Observe(call, ran, fs) ==
    seen' = [call |-> call, ran |-> ran, wanted |-> Wanted(fs),
             flat |-> Flat(fs)]

(* The value of a call arrives in the expression that made it; an array    *)
(* node counts the item.                                                   *)
Deliver(fs, v) ==
    IF fs = <<>> THEN fs
    ELSE IF Last(fs).kind = "array"
         THEN [fs EXCEPT ![Len(fs)].done = @ + 1]
         ELSE [fs EXCEPT ![Len(fs)].out = v]

(* The list is never empty (the assertion in pop_context).                 *)
TypeOK ==
    /\ ctxs \in Seq(Context) /\ ctxs # <<>>
    /\ frames \in Seq(Frame)
    /\ exc \in BOOLEAN
    /\ cache \subseteq Tasks
    /\ calls \in Nat
    /\ seen \in [call : {"no", "task", "workflow", "handler"}, ran : BOOLEAN,
                 wanted : BOOLEAN, flat : BOOLEAN]

Init ==
    /\ ctxs = <<Default>>
    /\ frames = <<>>
    /\ exc = FALSE
    /\ cache = {}
    /\ calls = 0
    /\ seen = NoCall

(* User code runs at the top level, in the body of a workflow, and in the  *)
(* arguments of then(...).                                                 *)
InUserCode ==
    /\ ~exc
    /\ TopKind = "section" => Top.in_branch
    /\ TopKind # "array"

MayCall == InUserCode /\ calls < MaxCalls

Counted == calls' = calls + 1

Room == Len(frames) < MaxDepth

-----------------------------------------------------------------------------
(* Leaf calls: the entity is over before user code goes on.  Contexts that *)
(* its own with_context calls push are popped again, whichever way it ends. *)

Skip(call) ==
    /\ IsSkipped
    /\ frames' = Deliver(frames, "none")
    /\ Observe(call, FALSE, frames)
    /\ UNCHANGED <<ctxs, exc, cache>>

Answer(call) ==
    /\ frames' = Deliver(frames, "val")
    /\ Observe(call, TRUE, frames)
    /\ UNCHANGED <<ctxs, exc>>

Raise(call) ==
    /\ exc' = TRUE
    /\ Observe(call, TRUE, frames)
    /\ UNCHANGED <<ctxs, frames, cache>>

Hit(t) == t \in CachedTasks /\ t \in cache /\ ~CacheOverwrite

(* Task.local_execute: the cache is asked first and filled after a         *)
(* successful execution only.                                              *)
local_execute(t) ==
    \/ Hit(t) /\ Answer("task") /\ UNCHANGED cache
    \/ /\ ~Hit(t)
       /\ Answer("task")
       /\ cache' = IF t \in CachedTasks THEN cache \cup {t} ELSE cache
    \/ ~Hit(t) /\ Raise("task")

CallTask ==
    /\ MayCall /\ Counted
    /\ \E t \in Tasks : Skip("task") \/ (~IsSkipped /\ local_execute(t))

(* create_node, in local execution only, does not accept a skipped branch. *)
CreateNode ==
    /\ MayCall /\ Counted
    /\ is_local_execution
    /\ \/ IsSkipped /\ exc' = TRUE /\ seen' = NoCall /\ UNCHANGED <<ctxs, frames, cache>>
       \/ \E t \in Tasks : ~IsSkipped /\ local_execute(t)

(* sleep and wait_for_input answer; approve raises if the user disagrees.  *)
CallGate ==
    /\ MayCall /\ Counted
    /\ \/ Skip("task")
       \/ ~IsSkipped /\ ((Answer("task") /\ UNCHANGED cache) \/ Raise("task"))

(***************************************************************************)
(* How many items must succeed.  A count or a ratio of 0 is the same as    *)
(* none given.                                                             *)
(***************************************************************************)
MinSuccesses(count, p) ==
    CASE p.successes # 0 -> p.successes
      [] p.successes = 0 /\ p.ratio # 0 -> (count * p.ratio + 99) \div 100
      [] OTHER -> count

(* A map task runs the function on every item and raises at the failure    *)
(* that makes the minimum impossible.                                      *)
CallMapTask ==
    /\ MayCall /\ Counted
    /\ \/ Skip("task")
       \/ \E count \in ItemCounts, p \in Policies : \E failed \in 0..count :
            /\ ~IsSkipped
            /\ IF count - failed < MinSuccesses(count, p) /\ failed > 0
               THEN Raise("task")
               ELSE Answer("task") /\ UNCHANGED cache

-----------------------------------------------------------------------------
(* Workflows and launch plans.                                             *)

Enter(frame) ==
    /\ ctxs' = push_context(ChildContext)
    /\ frames' = Append(frames, frame)

NewWorkflow(handler) ==
    [kind |-> "workflow", base |-> Len(ctxs) + 1, saved |-> ctxs,
     on_failure |-> handler, out |-> "val", nested |-> FALSE]

CallWorkflow ==
    /\ MayCall /\ Counted
    /\ \/ Skip("workflow")
       \/ /\ ~IsSkipped /\ Room
          /\ \E handler \in BOOLEAN : Enter(NewWorkflow(handler))
          /\ Observe("workflow", TRUE, frames)
          /\ UNCHANGED <<exc, cache>>

ReturnWorkflow ==
    /\ ~exc /\ TopKind = "workflow"
    /\ ctxs' = with_context_exit(ctxs, Top.base)
    /\ frames' = Deliver(Front(frames), Top.out)
    /\ seen' = NoCall
    /\ UNCHANGED <<exc, cache, calls>>

(***************************************************************************)
(* The exception leaves the workflow: with_context cleans up, and then     *)
(* WorkflowBase.__call__ calls the handler in the context of the caller.   *)
(* What the handler returns or raises is of no consequence for what        *)
(* follows: an exception goes on upwards.                                  *)
(***************************************************************************)
WorkflowFails ==
    /\ exc /\ TopKind = "workflow"
    /\ ctxs' = with_context_exit(ctxs, Top.base)
    /\ frames' = Front(frames)
    /\ IF Top.on_failure
       THEN LET c == Last(ctxs')
            IN  Observe("handler", ~(ctxs'[c.es].local /\ ctxs'[c.es].branch = "skipped"),
                        Front(frames))
       ELSE seen' = NoCall
    /\ UNCHANGED <<exc, cache, calls>>

(* At the top level the script ends with the traceback; a notebook or a    *)
(* test goes on in the same process.                                       *)
ScriptFails ==
    /\ exc /\ TopKind = "script"
    /\ exc' = FALSE
    /\ seen' = NoCall
    /\ UNCHANGED <<ctxs, frames, cache, calls>>

-----------------------------------------------------------------------------
(* Array nodes over a launch plan.                                         *)

CallArrayNode ==
    /\ MayCall /\ Counted
    /\ \/ Skip("workflow")
       \/ /\ ~IsSkipped /\ Room
          /\ \E count \in ItemCounts, p \in Policies, outputs \in BOOLEAN :
                Enter([kind |-> "array", base |-> Len(ctxs) + 1, saved |-> ctxs,
                       count |-> count, done |-> 0, failed |-> 0,
                       min_successes |-> MinSuccesses(count, p), outputs |-> outputs,
                       nested |-> FALSE])
          /\ Observe("workflow", TRUE, frames)
          /\ UNCHANGED <<exc, cache>>

ArrayItem ==
    /\ ~exc /\ TopKind = "array"
    /\ Top.done < Top.count
    /\ Room
    /\ \E handler \in BOOLEAN : Enter(NewWorkflow(handler))
    /\ Observe("workflow", TRUE, frames)
    /\ UNCHANGED <<exc, cache, calls>>

(* Variant: the comparison lets one failure too many pass.                 *)
OneFailureMore(f) ==
    IF f.outputs THEN f.count - f.failed < f.min_successes ELSE FALSE

(* Failures are counted only where outputs are expected.                   *)
TooManyFailures(f) ==
    IF f.outputs THEN f.count - (f.failed + 1) < f.min_successes ELSE FALSE

ArrayItemFails ==
    /\ exc /\ TopKind = "array"
    /\ IF TooManyFailures(Top)
       THEN /\ ctxs' = with_context_exit(ctxs, Top.base)
            /\ frames' = Front(frames)
            /\ UNCHANGED exc
       ELSE /\ frames' = [frames EXCEPT ![Len(frames)].done = @ + 1,
                                        ![Len(frames)].failed =
                                            IF Top.outputs THEN @ + 1 ELSE @]
            /\ exc' = FALSE
            /\ UNCHANGED ctxs
    /\ seen' = NoCall
    /\ UNCHANGED <<cache, calls>>

ReturnArray ==
    /\ ~exc /\ TopKind = "array"
    /\ Top.done = Top.count
    /\ ctxs' = with_context_exit(ctxs, Top.base)
    /\ frames' = Deliver(Front(frames), "val")
    /\ seen' = NoCall
    /\ UNCHANGED <<exc, cache, calls>>

-----------------------------------------------------------------------------
(* Conditional sections.                                                   *)

(* Variant: a section in a skipped branch is executed like any other.      *)
ExecutedSection ==
    [kind |-> "section", base |-> Len(ctxs) + 1, skipped |-> FALSE,
     cases |-> 0, last_case |-> FALSE, in_branch |-> FALSE, selected |-> 0,
     result |-> "none", chosen |-> 0, out |-> "val", nested |-> FALSE]

(* SkippedConditionalSection in a skipped branch, else                     *)
(* LocalExecutedConditionalSection.                                        *)
NewSection ==
    [kind |-> "section", base |-> Len(ctxs) + 1, skipped |-> CurrentMode = "skipped",
     cases |-> 0, last_case |-> FALSE, in_branch |-> FALSE, selected |-> 0,
     result |-> "none", chosen |-> 0, out |-> "val", nested |-> FALSE]

(* conditional(name) refuses to start outside of a workflow; else the      *)
(* constructor pushes the section's context.                               *)
Conditional ==
    /\ MayCall /\ Counted
    /\ \/ /\ ~is_local_execution
          /\ exc' = TRUE
          /\ UNCHANGED <<ctxs, frames>>
       \/ /\ is_local_execution /\ Room
          /\ ctxs' = push_context(enter_conditional_section)
          /\ frames' = Append(MarkNested(frames), NewSection)
          /\ UNCHANGED exc
    /\ seen' = NoCall
    /\ UNCHANGED cache

(* Variant: start_branch does not look whether a case is selected already. *)
SelectAgain(f, truth, last) == ~f.skipped /\ (truth \/ last)

(* LocalExecutedConditionalSection: the first true case, or the last.      *)
Selects(f, truth, last) == ~f.skipped /\ f.selected = 0 /\ (truth \/ last)

(***************************************************************************)
(* if_, elif_ and else_ (last): truth is the value of the expression.      *)
(* Only an if_ can come first.                                             *)
(***************************************************************************)
start_branch(truth, last) ==
    LET f == Top IN
    /\ ~exc /\ TopKind = "section"
    /\ ~f.in_branch
    /\ IF last THEN f.cases >= 1 ELSE f.cases < MaxCases - 1
    /\ frames' = [frames EXCEPT ![Len(frames)] =
            [f EXCEPT !.cases = @ + 1, !.last_case = last, !.in_branch = TRUE,
                      !.selected = IF Selects(f, truth, last) THEN f.cases + 1 ELSE @,
                      !.chosen = IF @ = 0 /\ (truth \/ last) THEN f.cases + 1 ELSE @,
                      !.out = "val"]]
    /\ ctxs' = IF Selects(f, truth, last) THEN SetMode(ctxs, "active") ELSE ctxs
    /\ seen' = NoCall
    /\ UNCHANGED <<exc, cache, calls>>

IfElifElse == \E truth, last \in BOOLEAN : start_branch(truth, last)

(* Variant: the branch is not marked as complete.                          *)
LeaveActive(f) == ctxs

branch_complete(f) == IF f.skipped THEN ctxs ELSE SetMode(ctxs, "skipped")

(* The promise or the error of the selected case.                          *)
SelectedResult(f, result) == IF f.selected = f.cases THEN result ELSE f.result

(***************************************************************************)
(* then(p) with the promise of the branch, or fail(err).  The last branch  *)
(* pops the context before anything is raised.                             *)
(***************************************************************************)
end_branch(result) ==
    LET f == Top
        r == SelectedResult(f, result)
    IN
    /\ ~exc /\ TopKind = "section"
    /\ f.in_branch
    /\ IF f.last_case
       THEN /\ ctxs' = pop_context(branch_complete(f))
            /\ exc' = (~f.skipped /\ r = "err")
            /\ frames' = IF exc' THEN Front(frames)
                         ELSE Deliver(Front(frames), IF f.skipped THEN "none" ELSE r)
       ELSE /\ ctxs' = branch_complete(f)
            /\ frames' = [frames EXCEPT ![Len(frames)].in_branch = FALSE,
                                        ![Len(frames)].result = r]
            /\ UNCHANGED exc
    /\ seen' = NoCall
    /\ UNCHANGED <<cache, calls>>

Then == TopKind = "section" /\ end_branch(Top.out)

Fail == end_branch("err")

(* An exception leaves an expression in which a section is open: nobody    *)
(* pops the section's context.                                             *)
SectionFails ==
    /\ exc /\ TopKind = "section"
    /\ frames' = Front(frames)
    /\ seen' = NoCall
    /\ UNCHANGED <<ctxs, exc, cache, calls>>

-----------------------------------------------------------------------------
Next ==
    \/ CallTask \/ CreateNode \/ CallGate \/ CallMapTask
    \/ CallWorkflow \/ ReturnWorkflow \/ WorkflowFails \/ ScriptFails
    \/ CallArrayNode \/ ArrayItem \/ ArrayItemFails \/ ReturnArray
    \/ Conditional \/ IfElifElse \/ Then \/ Fail \/ SectionFails

Spec == Init /\ [][Next]_vars

-----------------------------------------------------------------------------
(* Properties.                                                             *)

(***************************************************************************)
(* A call leaves no trace on the stack.  As long as a workflow or an array *)
(* node is open, the part of the list below its own context is exactly     *)
(* what it was before the call (same contexts, same branch modes), and     *)
(* with nothing open only the default context is left.  This is what the   *)
(* loop in with_context is for: sections that failed leave their contexts  *)
(* behind.                                                                 *)
(***************************************************************************)
ContextRestored ==
    /\ \A i \in DOMAIN frames : frames[i].kind # "section" =>
        SubSeq(ctxs, 1, frames[i].base - 1) = frames[i].saved
    /\ frames = <<>> => ctxs = <<Default>>

(***************************************************************************)
(* User code never runs in a leaked context: whenever no exception is      *)
(* travelling, the current context is the one that the innermost open      *)
(* call, section or array node has pushed.                                 *)
(***************************************************************************)
NoLeakedContext ==
    ~exc /\ frames # <<>> => Len(ctxs) = Top.base

(***************************************************************************)
(* Where sections are not nested, a call runs if and only if the program   *)
(* asks for it: the branch that is executed is the first whose condition   *)
(* is true, else the last, and no other (start_branch, end_branch and the  *)
(* skip test of flyte_entity_call_handler together).                       *)
(***************************************************************************)
FlatBranches ==
    seen.call \in {"task", "workflow"} /\ seen.flat => seen.ran = seen.wanted

(***************************************************************************)
(* What the docstring of BranchEvalMode says, with sections nested in any  *)
(* way: in an active branch a call runs, in a skipped one it does not.     *)
(***************************************************************************)
BranchesRunAsWritten ==
    seen.call \in {"task", "workflow"} => seen.ran = seen.wanted

(***************************************************************************)
(* Nothing runs inside a branch that an outermost section has not taken,   *)
(* however deep sections are nested in it (SkippedConditionalSection).     *)
(***************************************************************************)
UntakenRunsNothing ==
    seen.call \in {"task", "workflow"} /\ seen.ran =>
        \A i \in Sections(frames) :
            (\A j \in Sections(frames) : i <= j) => frames[i].cases = frames[i].chosen

(***************************************************************************)
(* The handler of a workflow that failed is really run, not skipped, even  *)
(* if the workflow failed in the middle of branches of its own or of its   *)
(* caller (WorkflowBase.__call__ calls it in the caller's context).        *)
(***************************************************************************)
FailureHandlerRuns == seen.call = "handler" => seen.ran

(***************************************************************************)
(* An array node with outputs goes on, and returns, only if the minimum of *)
(* successes has not become impossible.                                    *)
(***************************************************************************)
ArrayMeetsMinimum ==
    \A i \in DOMAIN frames :
        /\ frames[i].kind = "array" /\ frames[i].outputs
        /\ frames[i].min_successes <= frames[i].count
        => frames[i].count - frames[i].failed >= frames[i].min_successes

=============================================================================
