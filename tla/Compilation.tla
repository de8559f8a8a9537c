----------------------------- MODULE Compilation -----------------------------
(***************************************************************************)
(* How calls become the graph of a workflow.  PythonFunctionWorkflow.      *)
(* compile (core/workflow.py) runs the user's function once, in a context  *)
(* whose CompilationState collects a node for every entity that is called. *)
(* A conditional section (core/condition.py) collects in a state of its    *)
(* own and turns it into a branch node; a call of a workflow compiles that *)
(* workflow first; the failure handler is compiled after the function.  An *)
(* ImperativeWorkflow keeps its state between the calls that add to it.    *)
(*                                                                         *)
(* Every context that is pushed here has its own CompilationState, so the  *)
(* context stack and the call stack are one.  A body is any sequence of    *)
(* calls.  Interfaces, types, literals, overrides and the bindings of a    *)
(* workflow's outputs are left out; the bindings of a node are the nodes   *)
(* whose outputs it takes.                                                 *)
(***************************************************************************)
EXTENDS Naturals, Sequences, Functions

CONSTANTS
    Workflows,      \* the function workflows
    Dynamic,        \* those that are the body of a dynamic task
    Handlers,       \* the on_failure arguments to consider, [Workflows -> Entities \cup {None}]
    Inputs,         \* names of inputs of the imperative workflow
    MaxNodes,       \* bound on the nodes made
    MaxDepth,       \* bound on the stack
    MaxCases,       \* bound on the cases of a section
    MaxRaises,      \* bound on the exceptions
    Careless        \* whether a case may make several calls, and a section
                    \* may lack its else

Task == "task"
None == "none"
Imperative == "imperative"
Entities == Workflows \cup {Task}
Owners == Workflows \cup {Imperative}

ASSUME CompilationAssumption ==
    /\ Workflows \cap {Task, None, Imperative} = {}
    /\ Dynamic \subseteq Workflows
    /\ Handlers \subseteq [Workflows -> Entities \cup {None}]
    /\ MaxNodes \in Nat /\ MaxDepth \in Nat /\ MaxCases \in Nat /\ MaxRaises \in Nat
    /\ Careless \in BOOLEAN

VARIABLES
    on_failure,     \* the failure handler of each workflow
    script,         \* what the script does: read the graphs of function workflows
                    \* or build an imperative one
    stack,          \* the calls under way, with their CompilationStates
    heap,           \* all nodes ever made; a node is its index
    compiled,       \* the workflows whose compiled flag is set
    nodes,          \* _nodes of each workflow
    failure_node,   \* _failure_node of each, {} or a set of one
    inputs,         \* _inputs of the imperative workflow
    _unbound_inputs,
    raised,         \* workflows whose compilation raised (history)
    raises          \* how often that happened

vars == <<on_failure, script, stack, heap, compiled, nodes, failure_node, inputs,
          _unbound_inputs, raised, raises>>

Nodes == 1 .. Len(heap)

(* A frame: what runs, for which workflow, its CompilationState, and for a *)
(* section its cases so far.  mark is how many nodes there were when the   *)
(* open case began.  The bindings are those of the node that is made when  *)
(* the frame, that of a called workflow, is done.                          *)
Frame ==
    [kind : {"workflow", "failure", "section", "add_entity", "add_on_failure"},
     of : Owners, prefix : Seq({"d", "f"}), nodes : Seq(Nat), stage : {"body", "outputs"},
     called : BOOLEAN, bindings : SUBSET Nat, inputs : SUBSET Inputs,
     conditions : SUBSET Nat, cases : Seq(SUBSET Nat), case : {"none", "open", "last"},
     mark : Nat]

NodeRecord ==
    [id : [prefix : Seq({"d", "e", "f"}), number : Nat], of : Owners,
     bindings : SUBSET Nat, then_nodes : SUBSET Nat]

NewFrame(kind, w, prefix) ==
    [kind |-> kind, of |-> w, prefix |-> prefix, nodes |-> <<>>, stage |-> "body",
     called |-> FALSE, bindings |-> {}, inputs |-> {}, conditions |-> {}, cases |-> <<>>,
     case |-> "none", mark |-> 0]

(* Every variable has its type, and whatever refers to a node refers to    *)
(* one that was made.                                                      *)
TypeOK ==
    /\ on_failure \in [Workflows -> Entities \cup {None}] /\ script \in {"functions", Imperative}
    /\ stack \in Seq(Frame) /\ heap \in Seq(NodeRecord)
    /\ \A i \in DOMAIN stack :
           Range(stack[i].nodes) \cup stack[i].bindings \cup stack[i].conditions \subseteq Nodes
    /\ \A i \in DOMAIN stack : \A c \in Range(stack[i].cases) : c \subseteq Nodes
    /\ \A n \in Nodes : heap[n].bindings \cup heap[n].then_nodes \subseteq Nodes
    /\ compiled \subseteq Workflows
    /\ nodes \in [Owners -> Seq(Nat)] /\ failure_node \in [Owners -> SUBSET Nat]
    /\ \A w \in Owners : Range(nodes[w]) \cup failure_node[w] \subseteq Nodes
    /\ _unbound_inputs \subseteq inputs /\ inputs \subseteq Inputs
    /\ raised \subseteq Owners /\ raises \in 0 .. MaxRaises

Init ==
    /\ on_failure \in Handlers /\ script \in {"functions", Imperative}
    /\ stack = <<>> /\ heap = <<>>
    /\ compiled = {}
    /\ nodes = [w \in Owners |-> <<>>]
    /\ failure_node = [w \in Owners |-> {}]
    /\ inputs = {} /\ _unbound_inputs = {}
    /\ raised = {} /\ raises = 0

Top == stack[Len(stack)]
Below == SubSeq(stack, 1, Len(stack) - 1)
AtTop(kind) == stack # <<>> /\ Top.kind = kind

-----------------------------------------------------------------------------
(* Nodes.                                                                  *)

(* f"{prefix}n{len(nodes)}"                                                *)
node_id(f) == [prefix |-> f.prefix, number |-> Len(f.nodes)]

DEFAULT_FAILURE_NODE_ID == [prefix |-> <<"e", "f">>, number |-> 0]

Node(f, bindings, then_nodes) ==
    [id |-> node_id(f), of |-> f.of, bindings |-> bindings, then_nodes |-> then_nodes]

add_node(f) == [f EXCEPT !.nodes = Append(@, Len(heap) + 1)]

(* A node is made in the CompilationState of frame f, over the frames fs.  *)
create_and_link_node(fs, f, bindings) ==
    /\ heap' = Append(heap, Node(f, bindings, {}))
    /\ stack' = Append(fs, add_node(f))

(* The outputs at hand in the code that runs: those of calls made before   *)
(* in the same function, or in the same case of a section around it.  A    *)
(* call and a condition take them all: what fewer lead to is among it.     *)
Scope(i) == {stack[i].nodes[k] : k \in (stack[i].mark + 1) .. Len(stack[i].nodes)}

IsBody(i) == stack[i].kind \in {"workflow", "add_entity"}

(* In the frame at depth d.                                                *)
Visible(d) ==
    UNION {Scope(i) : i \in {j \in 1 .. d : \A k \in j + 1 .. d : ~ IsBody(k)}}

-----------------------------------------------------------------------------
(* Compiling a function workflow.                                          *)

(* The state that compile starts in has the prefix of its surroundings.    *)
start_compile(w, fs, prefix, bindings) ==
    /\ compiled' = compiled \cup {w}
    /\ stack' = Append(fs, [NewFrame("workflow", w, prefix) EXCEPT !.bindings = bindings])
    /\ UNCHANGED heap

(* w.nodes, w.output_bindings or w(...) in a script.                       *)
compile(w) ==
    /\ script = "functions" /\ stack = <<>> /\ w \notin compiled
    /\ start_compile(w, <<>>, <<>>, {})
    /\ UNCHANGED <<on_failure, script, nodes, failure_node, inputs, _unbound_inputs, raised,
                   raises>>

(* The task of w runs in its container.                                    *)
compile_into_workflow(w) ==
    /\ script = "functions" /\ stack = <<>> /\ w \in Dynamic /\ w \notin compiled
    /\ start_compile(w, <<>>, <<"d">>, {})
    /\ UNCHANGED <<on_failure, script, nodes, failure_node, inputs, _unbound_inputs, raised,
                   raises>>

(* Code of the user runs: the function of a workflow, or a case.  After a  *)
(* section without else, the section's context is still there.             *)
InBody ==
    \/ AtTop("workflow") /\ Top.stage = "body"
    \/ AtTop("section") /\ Careless
    \/ AtTop("section") /\ Top.case # "none" /\ Len(Top.nodes) = Top.mark

(* flyte_entity_call_handler: a workflow is compiled, then a node is made. *)
call(e, f, bindings) ==
    /\ Len(heap) < MaxNodes
    /\ IF e \in Workflows \ compiled
       THEN Len(stack) < MaxDepth /\ start_compile(e, Append(Below, f), f.prefix, bindings)
       ELSE create_and_link_node(Below, f, bindings) /\ UNCHANGED compiled

CallEntity(e) ==
    /\ InBody
    /\ call(e, Top, Visible(Len(stack)))
    /\ UNCHANGED <<on_failure, script, nodes, failure_node, inputs, _unbound_inputs, raised, raises>>

(* The function returns; sections it left open are popped with its context. *)
ReturnsFrom(i) ==
    /\ stack[i].kind = "workflow" /\ stack[i].stage = "body"
    /\ \A k \in i + 1 .. Len(stack) :
           Careless /\ stack[k].kind = "section" /\ stack[k].case = "none"

Finish(w, f, fs) ==
    /\ nodes' = [nodes EXCEPT ![w] = f.nodes]
    /\ IF fs = <<>> THEN stack' = fs /\ UNCHANGED heap
       ELSE create_and_link_node(SubSeq(fs, 1, Len(fs) - 1), fs[Len(fs)], f.bindings)

(* Variant: the failure node's state has the prefix of the workflow.       *)
SamePrefix(prefix) == prefix

failure_prefix(prefix) == Append(prefix, "f")

(* _validate_add_on_failure_handler, or what follows it without a handler. *)
ReturnFunction ==
    \E i \in DOMAIN stack :
        LET f == stack[i]
            fs == SubSeq(stack, 1, i - 1)
        IN  /\ ReturnsFrom(i)
            /\ IF on_failure[f.of] = None
               THEN Finish(f.of, f, fs)
               ELSE /\ stack' = fs \o <<[f EXCEPT !.stage = "outputs"],
                                        NewFrame("failure", f.of, failure_prefix(f.prefix))>>
                    /\ UNCHANGED <<heap, nodes>>
            /\ UNCHANGED <<on_failure, script, compiled, failure_node, inputs, _unbound_inputs,
                           raised, raises>>

CallHandler ==
    /\ AtTop("failure") /\ ~ Top.called
    /\ call(on_failure[Top.of], [Top EXCEPT !.called = TRUE], {})
    /\ UNCHANGED <<on_failure, script, nodes, failure_node, inputs, _unbound_inputs, raised,
                   raises>>

(* The one node made is the failure node.  The outputs are bound, compile  *)
(* is over and the node of the call that needed it is made.                *)
CompileEnds ==
    /\ AtTop("failure") /\ Top.called
    /\ failure_node' = [failure_node EXCEPT ![Top.of] = Range(Top.nodes)]
    /\ LET f == stack[Len(stack) - 1]
       IN  Finish(f.of, f, SubSeq(stack, 1, Len(stack) - 2))
    /\ UNCHANGED <<on_failure, script, compiled, inputs, _unbound_inputs, raised, raises>>

(* An exception of the user's code, of a call or of a binding leaves all   *)
(* that runs.  compiled stays set, and so do the nodes of an imperative    *)
(* workflow, the last one included, and a failure node where the exception *)
(* comes from the outputs.                                                 *)
Unwind ==
    /\ raises < MaxRaises /\ raises' = raises + 1
    /\ stack' = <<>>
    /\ raised' = raised \cup {stack[i].of : i \in DOMAIN stack}
    /\ nodes' = IF stack[1].of = Imperative
                THEN [nodes EXCEPT ![Imperative] = stack[1].nodes] ELSE nodes
    /\ failure_node' = IF AtTop("failure") /\ Top.called
                       THEN [failure_node EXCEPT ![Top.of] = Range(Top.nodes)]
                       ELSE failure_node
    /\ UNCHANGED <<heap, compiled>>

Raise ==
    /\ stack # <<>>
    /\ Unwind
    /\ UNCHANGED <<on_failure, script, inputs, _unbound_inputs>>

-----------------------------------------------------------------------------
(* Conditional sections.                                                   *)

Conditional ==
    /\ InBody /\ Len(stack) < MaxDepth
    /\ stack' = Append(stack, NewFrame("section", Top.of, Top.prefix))
    /\ UNCHANGED <<on_failure, script, heap, compiled, nodes, failure_node, inputs,
                   _unbound_inputs, raised, raises>>

(* if_ and elif_, whose condition looks at an output, and else_.           *)
start_branch(last_case) ==
    /\ AtTop("section") /\ Top.case = "none" /\ Len(Top.cases) < MaxCases
    /\ stack' = Append(Below,
           [Top EXCEPT !.conditions = IF last_case THEN @ ELSE @ \cup Visible(Len(Below)),
                       !.case = IF last_case THEN "last" ELSE "open",
                       !.mark = Len(Top.nodes)])
    /\ UNCHANGED <<on_failure, script, heap, compiled, nodes, failure_node, inputs,
                   _unbound_inputs, raised, raises>>

(* The blocks of the branch node: there are two cases at least, and none   *)
(* but the last fails.                                                     *)
to_ifelse_block(cases) ==
    /\ Len(cases) >= 2
    /\ \A i \in 1 .. Len(cases) - 1 : cases[i] # {}

(* Variant: the node of the last case is forgotten.                        *)
WithoutElse(cases) == UNION {cases[i] : i \in 1 .. Len(cases) - 1}

(* The nodes that become part of the branch node.                          *)
then_nodes(cases) == UNION Range(cases)

(* The case is complete.  The last one pops the context and makes the      *)
(* branch node in the context around it.                                   *)
end_branch(output) ==
    LET cs == Append(Top.cases, output)
        outer == stack[Len(stack) - 1]
    IN  IF Top.case # "last"
        THEN /\ stack' = Append(Below, [Top EXCEPT !.cases = cs, !.case = "none"])
             /\ UNCHANGED <<heap, compiled, nodes, failure_node, raised, raises>>
        ELSE IF to_ifelse_block(cs)
        THEN /\ Len(heap) < MaxNodes
             /\ heap' = Append(heap, Node(outer, Top.conditions, then_nodes(cs)))
             /\ stack' = Append(SubSeq(stack, 1, Len(stack) - 2), add_node(outer))
             /\ UNCHANGED <<compiled, nodes, failure_node, raised, raises>>
        ELSE Unwind

(* then: the node of the output, which the last call of the case made.     *)
Then ==
    /\ AtTop("section") /\ Top.case # "none" /\ Len(Top.nodes) > Top.mark
    /\ end_branch({Top.nodes[Len(Top.nodes)]})
    /\ UNCHANGED <<on_failure, script, inputs, _unbound_inputs>>

Fail ==
    /\ AtTop("section") /\ Top.case # "none" /\ Len(Top.nodes) = Top.mark
    /\ end_branch({})
    /\ UNCHANGED <<on_failure, script, inputs, _unbound_inputs>>

-----------------------------------------------------------------------------
(* The imperative workflow.                                                *)

add_workflow_input(i) ==
    /\ script = Imperative /\ stack = <<>> /\ i \notin inputs
    /\ inputs' = inputs \cup {i} /\ _unbound_inputs' = _unbound_inputs \cup {i}
    /\ UNCHANGED <<on_failure, script, stack, heap, compiled, nodes, failure_node, raised,
                   raises>>

(* The context with the workflow's CompilationState.                       *)
EnterImperative(kind, ins, bindings) ==
    /\ script = Imperative /\ stack = <<>>
    /\ stack' = <<[NewFrame(kind, Imperative, <<>>) EXCEPT
                      !.nodes = nodes[Imperative], !.inputs = ins, !.bindings = bindings]>>
    /\ UNCHANGED <<on_failure, script, heap, compiled, nodes, failure_node, inputs,
                   _unbound_inputs, raised, raises>>

(* With outputs of earlier nodes and inputs of the workflow.               *)
add_entity ==
    \E ins \in SUBSET inputs : EnterImperative("add_entity", ins, Range(nodes[Imperative]))

add_on_failure_handler == EnterImperative("add_on_failure", inputs, {})

(* create_node, which may still raise when the node has been made.         *)
CreateNode(e) ==
    /\ (AtTop("add_entity") \/ AtTop("add_on_failure")) /\ ~ Top.called
    /\ call(e, [Top EXCEPT !.called = TRUE], Top.bindings)
    /\ UNCHANGED <<on_failure, script, nodes, failure_node, inputs, _unbound_inputs, raised,
                   raises>>

(* A workflow whose call raises calls its failure handler in the same      *)
(* state, before the exception goes on: the handler's node stays.          *)
CreateNodeFails(w) ==
    /\ (AtTop("add_entity") \/ AtTop("add_on_failure")) /\ ~ Top.called
    /\ w \in compiled /\ on_failure[w] \in compiled \cup {Task}
    /\ Len(heap) < MaxNodes /\ raises < MaxRaises
    /\ heap' = Append(heap, Node(Top, Top.bindings, {}))
    /\ nodes' = [nodes EXCEPT ![Imperative] = add_node(Top).nodes]
    /\ stack' = <<>>
    /\ raised' = raised \cup {Imperative} /\ raises' = raises + 1
    /\ UNCHANGED <<on_failure, script, compiled, failure_node, inputs, _unbound_inputs>>

AddEntityReturns ==
    /\ AtTop("add_entity") /\ Top.called
    /\ nodes' = [nodes EXCEPT ![Imperative] = Top.nodes]
    /\ _unbound_inputs' = _unbound_inputs \ Top.inputs
    /\ stack' = <<>>
    /\ UNCHANGED <<on_failure, script, heap, compiled, failure_node, inputs, raised, raises>>

(* Variant: the node stays among the others.                               *)
KeepsNode(ns) == ns

(* nodes.pop(-1)                                                           *)
without_failure_node(ns) == SubSeq(ns, 1, Len(ns) - 1)

AddOnFailureReturns ==
    /\ AtTop("add_on_failure") /\ Top.called
    /\ LET n == Top.nodes[Len(Top.nodes)]
       IN  /\ failure_node' = [failure_node EXCEPT ![Imperative] = {n}]
           /\ heap' = [heap EXCEPT ![n].id = DEFAULT_FAILURE_NODE_ID]
    /\ nodes' = [nodes EXCEPT ![Imperative] = without_failure_node(Top.nodes)]
    /\ stack' = <<>>
    /\ UNCHANGED <<on_failure, script, compiled, inputs, _unbound_inputs, raised, raises>>

ready == nodes[Imperative] # <<>> /\ _unbound_inputs = {}

-----------------------------------------------------------------------------

Next ==
    \/ \E w \in Workflows : compile(w) \/ compile_into_workflow(w) \/ CreateNodeFails(w)
    \/ \E e \in Entities : CallEntity(e) \/ CreateNode(e)
    \/ ReturnFunction \/ CallHandler \/ CompileEnds \/ Raise
    \/ Conditional \/ \E l \in BOOLEAN : start_branch(l)
    \/ Then \/ Fail
    \/ \E i \in Inputs : add_workflow_input(i)
    \/ add_entity \/ add_on_failure_handler \/ AddEntityReturns \/ AddOnFailureReturns

Spec == Init /\ [][Next]_vars

-----------------------------------------------------------------------------
(* Properties.                                                             *)

(* The workflows whose graph is there for whoever reads it.                *)
Compiled ==
    {w \in compiled \ raised : \A i \in DOMAIN stack : stack[i].of # w}

(* "Nodes created in the conditional compilation state are captured in the *)
(* to_case_block?  Always?" (condition.py 88): when a workflow has been    *)
(* compiled, every node that its function made is one of its nodes, its    *)
(* failure node, or in a case of a branch node, and in one place only;     *)
(* unless compile had raised.  Where a case makes several calls, or a      *)
(* section has no else, it is false.                                       *)
GraphIsWhole ==
    \A w \in Compiled : \A n \in Nodes : heap[n].of = w =>
        LET branches == {m \in Nodes : n \in heap[m].then_nodes}
            flat == {k \in DOMAIN nodes[w] : nodes[w][k] = n}
        IN  \/ n \in failure_node[w] /\ branches = {} /\ flat = {}
            \/ \E k \in Nodes : branches = {k} /\ flat = {}
            \/ \E k \in DOMAIN nodes[w] : branches = {} /\ flat = {k}

(* The backend finds the node of a binding by its id among the nodes of    *)
(* the workflow, from within a case too: it is the one the function meant, *)
(* although every section counts its nodes from zero.                      *)
BindingsResolve ==
    \A w \in Compiled : \A n \in Nodes : heap[n].of = w =>
        \A m \in heap[n].bindings :
            {k \in Range(nodes[w]) \cup failure_node[w] : heap[k].id = heap[m].id} = {m}

(* "we can just iterate through the nodes in order": a node takes outputs  *)
(* of nodes before it only, ids are unique, and the failure node is not    *)
(* among them, whichever calls raised (workflow.py 514-519, 685-717).      *)
ImperativeInOrder ==
    ready =>
        LET ns == nodes[Imperative]
        IN  \A k \in DOMAIN ns :
                /\ \A m \in heap[ns[k]].bindings : \E j \in 1 .. k - 1 : ns[j] = m
                /\ \A j \in DOMAIN ns : j # k => heap[ns[j]].id # heap[ns[k]].id
                /\ ns[k] \notin failure_node[Imperative]

=============================================================================
