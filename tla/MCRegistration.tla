--------------------------- MODULE MCRegistration ---------------------------
(***************************************************************************)
(* Programs for Registration, serialized by Translator: a main workflow    *)
(* over tasks, a sub-workflow, a launch plan, branch nodes and entities    *)
(* that live elsewhere, with or without a failure node.                    *)
(***************************************************************************)
EXTENDS Registration, Translator

(* t and u are tasks, inner is a launch plan that nodes run, outer one of  *)
(* the main workflow.                                                      *)
KindOf == [t |-> "task", u |-> "task", fetched |-> "remote_task",
           ref |-> "reference", leaf |-> "workflow", sub |-> "workflow",
           main |-> "workflow", inner |-> "launch_plan", outer |-> "launch_plan",
           dflt |-> "launch_plan"]

Entities == DOMAIN KindOf
Workflows == {e \in Entities : KindOf[e] = "workflow"}

(* Nodes of the main workflow.                                             *)
MainNodes ==
    <<<<NodeOver("t"), NodeOver("sub")>>,
      <<NodeOver("sub"), NodeOver("inner"), NodeOver(Gate)>>,
      <<NodeOfCases(<<NodeOver("u"), NodeOver("inner"), NodeOver("sub")>>)>>,
      <<NodeOfCases(<<NodeOver("t"), NodeOfCases(<<NodeOver("sub"), NodeOver("inner")>>)>>)>>,
      <<NodeOver("fetched"), NodeOver("ref")>>>>

(* A program by its number: the nodes of the main workflow, a failure node *)
(* or none; the plan inner runs the workflow leaf or the sub-workflow, may *)
(* be the default launch plan of it, and may be activated by itself.       *)
Numbers == 0 .. 79

Shape(k) ==
    [nodes     |-> MainNodes[(k % 5) + 1],
     failure   |-> IF (k \div 5) % 2 = 0 THEN <<>> ELSE <<NodeOver("sub")>>,
     runs      |-> IF (k \div 10) % 2 = 0 THEN "leaf" ELSE "sub",
     default   |-> (k \div 20) % 2 = 0,
     activates |-> k \div 40 = 0]

Source(s) ==
    [kind         |-> KindOf,
     nodes        |-> [leaf |-> <<NodeOver("u")>>,
                       sub  |-> IF s.runs = "leaf" THEN <<NodeOver("inner")>>
                                ELSE <<NodeOver("t")>>,
                       main |-> s.nodes],
     failure_node |-> [leaf |-> <<>>, sub |-> <<>>, main |-> s.failure],
     workflow     |-> [inner |-> s.runs, outer |-> "main", dflt |-> "main"]]

(* A launch plan's name is that of its workflow when it is the default.    *)
IdOf(s, e) ==
    CASE KindOf[e] = "task"     -> <<"TASK", e>>
      [] KindOf[e] = "workflow" -> <<"WORKFLOW", e>>
      [] e = "dflt"             -> <<"LAUNCH_PLAN", "main">>
      [] e = "inner" /\ s.default -> <<"LAUNCH_PLAN", s.runs>>
      [] OTHER                  -> <<"LAUNCH_PLAN", e>>

RootNames == {"main", "outer", "dflt"}
IsTask(e) == KindOf[e] \in {"task", "remote_task"}
IsNoTask(e) == ~ IsTask(e)

SerializedShape(s) ==
    LET p == Source(s)
        mapping == [r \in RootNames |-> get_serializable(p, <<>>, r)]
        ids == {IdOf(s, e) : e \in {x \in Entities : KindOf[x] \in {"task", "workflow", "launch_plan"}}}
                \cup {<<"LAUNCH_PLAN", w>> : w \in Workflows}
        wf(id) == CHOOSE w \in Workflows :
                    \/ id = <<"LAUNCH_PLAN", w>>
                    \/ \E l \in DOMAIN p.workflow : IdOf(s, l) = id /\ p.workflow[l] = w
    IN  [kind          |-> KindOf,
         id            |-> [e \in Entities |-> IdOf(s, e)],
         default_id    |-> [w \in Workflows |-> <<"LAUNCH_PLAN", w>>],
         main          |-> "main",
         launch_plan   |-> "outer",
         default_launch_plan |-> "dflt",
         auto_activate |-> IF s.activates THEN {"inner", "outer"} ELSE {},
         tasks         |-> [r \in RootNames |-> ToSet(SelectSeq(mapping[r], IsTask))],
         others        |-> [r \in RootNames |-> SelectSeq(mapping[r], IsNoTask)],
         requires      |-> [id \in ids |->
                                CASE id[1] = "TASK" -> {}
                                  [] id[1] = "WORKFLOW" ->
                                        {IdOf(s, e) : e \in References(p, id[2])}
                                  [] OTHER -> {<<"WORKFLOW", wf(id)>>}],
         sub_workflows |-> [w \in Workflows |-> sub_workflows(p, w)],
         nested        |-> [w \in Workflows |-> Nested(p, w)],
         nested_branch |-> [w \in Workflows |->
                                \E x \in {w} \cup Nested(p, w) : HasNestedBranch(p, x)]]

MCPrograms == {SerializedShape(Shape(k)) : k \in Numbers}
=============================================================================
