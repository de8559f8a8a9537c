----------------------------- MODULE Translator -----------------------------
(***************************************************************************)
(* The order in which a workflow or launch plan and what it is made of are *)
(* serialized (tools/translator.py): a recursive walk that adds an entity  *)
(* to an ordered dictionary after everything it refers to.                 *)
(*                                                                         *)
(* A program is a record: the kind of each entity, the nodes of each       *)
(* workflow, its failure node and the workflow of each launch plan.  A     *)
(* node is over an entity, or a branch node over the nodes of its cases.   *)
(* Templates, containers and interfaces are left out, and so are the       *)
(* dictionary's entries for nodes, which are never registered.             *)
(***************************************************************************)
EXTENDS Sequences, SequencesExt

RECURSIVE get_serializable(_, _, _), get_serializable_node(_, _, _),
          sub_workflows(_, _), EntitiesIn(_), Nested(_, _)

BranchNode == "BranchNode"
Gate == "Gate"

(* An array node or map task counts as a node over its target.             *)
NodeOver(e) == [flyte_entity |-> e, cases |-> <<>>]
NodeOfCases(cs) == [flyte_entity |-> BranchNode, cases |-> cs]

-----------------------------------------------------------------------------
(* get_serializable.  m is the entity_mapping so far; the result is the    *)
(* mapping after the call.                                                 *)

(* "This needs to be at the bottom": what the entity refers to comes first.*)
add_to_mapping(m, e) == Append(m, e)

get_serializable_node(p, m, n) ==
    IF n.flyte_entity = BranchNode
    THEN FoldLeft(LAMBDA acc, case : get_serializable_node(p, acc, case), m, n.cases)
    ELSE IF n.flyte_entity = Gate
         THEN m
         ELSE get_serializable(p, m, n.flyte_entity)

(* The nodes in their order, the failure node last.                        *)
get_serializable_workflow(p, m, w) ==
    FoldLeft(LAMBDA acc, n : get_serializable_node(p, acc, n),
             m, p.nodes[w] \o p.failure_node[w])

get_serializable_launch_plan(p, m, l) == get_serializable(p, m, p.workflow[l])

get_serializable(p, m, e) ==
    IF e \in ToSet(m)
    THEN m
    ELSE LET downstream == CASE p.kind[e] = "workflow" ->
                                    get_serializable_workflow(p, m, e)
                             [] p.kind[e] = "launch_plan" ->
                                    get_serializable_launch_plan(p, m, e)
                             [] OTHER -> m
         IN  add_to_mapping(downstream, e)

-----------------------------------------------------------------------------
(* The sub_workflows of a WorkflowSpec.                                    *)

IsWorkflow(p, e) == e \in DOMAIN p.kind /\ p.kind[e] = "workflow"

(* Variant: the cases of branch nodes are not looked into.                 *)
OnlyTheNode(n) == <<n>>

(* The nodes that are looked at for a node of the workflow: itself, or the *)
(* nodes of its cases when it is a branch node.                            *)
leaf_nodes(n) == IF n.flyte_entity = BranchNode THEN n.cases ELSE <<n>>

sub_workflows(p, w) ==
    LET seen == UNION ({ToSet(leaf_nodes(p.nodes[w][i])) : i \in DOMAIN p.nodes[w]}
                        \cup {ToSet(p.failure_node[w])})
        direct == {s \in {n.flyte_entity : n \in seen} : IsWorkflow(p, s)}
    IN  direct \cup UNION {sub_workflows(p, s) : s \in direct}

-----------------------------------------------------------------------------
(* What the backend needs in order to compile an entity.                   *)

(* The entities of a node, through all levels of branch nodes.             *)
EntitiesIn(n) ==
    IF n.flyte_entity = BranchNode
    THEN UNION {EntitiesIn(n.cases[i]) : i \in DOMAIN n.cases}
    ELSE {n.flyte_entity}

NodesOf(p, w) == ToSet(p.nodes[w] \o p.failure_node[w])

UsedBy(p, w) == UNION {EntitiesIn(n) : n \in NodesOf(p, w)} \cap DOMAIN p.kind

(* The sub-workflows a workflow refers to, directly or through others.     *)
Nested(p, w) ==
    LET direct == {s \in UsedBy(p, w) : IsWorkflow(p, s)}
    IN  direct \cup UNION {Nested(p, s) : s \in direct}

(* The tasks and launch plans it refers to in the same way.  Sub-workflows *)
(* are sent along and need not be registered.                              *)
References(p, w) ==
    {e \in UNION {UsedBy(p, x) : x \in {w} \cup Nested(p, w)} :
        p.kind[e] \in {"task", "launch_plan"}}

(* A branch node inside a case of a branch node.                           *)
HasNestedBranch(p, w) ==
    \E n \in NodesOf(p, w) : \E i \in DOMAIN n.cases :
        n.cases[i].flyte_entity = BranchNode
=============================================================================
