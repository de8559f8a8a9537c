-------------------------- MODULE CompilationProofs --------------------------
(***************************************************************************)
(* Proofs about Compilation: what an imperative workflow keeps between the *)
(* calls that add to it is in order, for every program; the graph of a     *)
(* function workflow is whole and its bindings resolve, for every program  *)
(* that makes one call in each case of a section and ends sections with    *)
(* else.                                                                   *)
(***************************************************************************)
EXTENDS Compilation, SequenceTheorems, TLAPS

-----------------------------------------------------------------------------
(* The inductive invariants.                                               *)

AddKinds == {"add_entity", "add_on_failure"}

(* How the frame at i stands on those below.                               *)
Stands(st, i) ==
    /\ st[i].kind \in AddKinds <=> st[i].of = Imperative
    /\ st[i].kind \in AddKinds => i = 1
    /\ st[i].kind = "failure" =>
           i > 1 /\ st[i - 1].kind = "workflow" /\ st[i].of = st[i - 1].of
    /\ st[i].kind = "section" => i > 1 /\ st[i - 1].kind \in {"workflow", "section"}

FramesOK(st) == \A i \in 1 .. Len(st) : Stands(st, i)

(* The nodes ns of the imperative workflow, which are not among the        *)
(* failure nodes fn: they are numbered, and take outputs of those before.  *)
Ordered(ns, hp, fn) ==
    \A k \in 1 .. Len(ns) :
        /\ hp[ns[k]].id = [prefix |-> <<>>, number |-> k - 1]
        /\ hp[ns[k]].of = Imperative
        /\ ns[k] \notin fn
        /\ \A m \in hp[ns[k]].bindings : \E j \in 1 .. k - 1 : ns[j] = m

(* The call that adds to the imperative workflow.  A node is made when all *)
(* that was compiled for it has returned.                                  *)
AddingOK ==
    stack # <<>> /\ stack[1].of = Imperative =>
        LET f == stack[1]
        IN  /\ f.prefix = <<>>
            /\ Ordered(f.nodes, heap, failure_node[Imperative])
            /\ ~ f.called => Len(stack) = 1 /\ f.bindings \subseteq Range(f.nodes)
            /\ f.called /\ Len(stack) = 1 => Len(f.nodes) >= 1
            /\ Len(stack) > 1 => stack[2].kind = "workflow"
                                 /\ stack[2].bindings \subseteq Range(f.nodes)

MInv ==
    /\ TypeOK /\ FramesOK(stack) /\ AddingOK
    /\ Ordered(nodes[Imperative], heap, failure_node[Imperative])

(* The nodes of the body of w, while it is compiled and after.             *)
BodyNodes(st, nd, w) ==
    Range(nd[w]) \cup
    UNION {Range(st[i].nodes) : i \in {j \in 1 .. Len(st) : st[j].kind = "workflow" /\ st[j].of = w}}

(* The section at i is in the body at b, and so are those in between.      *)
InBodyAt(st, i, b) ==
    /\ st[b].kind = "workflow"
    /\ \A k \in b + 1 .. i : st[k].kind = "section" /\ st[k].of = st[b].of

(* The cases that are complete have all nodes of the section but the one   *)
(* of the open case.                                                       *)
SectionOK(f) ==
    f.kind = "section" =>
        IF f.case = "none" THEN UNION Range(f.cases) = Range(f.nodes)
        ELSE /\ f.mark <= Len(f.nodes) /\ Len(f.nodes) <= f.mark + 1
             /\ UNION Range(f.cases) = {f.nodes[k] : k \in 1 .. f.mark}

(* A frame whose code waits for another to return.                         *)
Waits(f) ==
    /\ f.kind = "section" => f.case # "none" /\ Len(f.nodes) = f.mark
    /\ f.kind = "failure" => f.called /\ f.nodes = <<>>

Runs(f) == f.kind = "failure" => Len(f.nodes) = IF f.called THEN 1 ELSE 0

(* The frames st, over the nodes hp, with the graphs nd and failure nodes  *)
(* fn of the workflows, of which cp are compiled and rs have raised.       *)
Stacked(st) ==
    \A i \in 1 .. Len(st) :
        /\ st[i].kind = "failure" => st[i].prefix = Append(st[i - 1].prefix, "f")
        /\ st[i].kind = "section" => \E b \in 1 .. i - 1 : InBodyAt(st, i, b)
        /\ SectionOK(st[i])
        /\ i < Len(st) => Waits(st[i])
        /\ \A j \in 1 .. Len(st) :
               st[i].kind = "workflow" /\ st[j].kind = "workflow" /\ st[i].of = st[j].of => i = j

(* A workflow has no graph before its compilation has ended.               *)
GraphLater(st, hp, nd, fn, cp, rs) ==
    /\ \A i \in 1 .. Len(st) : st[i].of \in Workflows =>
           st[i].of \in cp \ rs /\ nd[st[i].of] = <<>> /\ fn[st[i].of] = {}
    /\ \A w \in Workflows \ cp :
           /\ w \notin rs /\ nd[w] = <<>> /\ fn[w] = {}
           /\ \A n \in 1 .. Len(hp) : hp[n].of # w

(* The nodes of a frame are its own.                                       *)
FrameNodes(st, hp) ==
    \A i \in 1 .. Len(st) : \A k \in 1 .. Len(st[i].nodes) :
        /\ hp[st[i].nodes[k]].of = st[i].of
        /\ hp[st[i].nodes[k]].id = [prefix |-> st[i].prefix, number |-> k - 1]
        /\ \A j \in 1 .. Len(st) : \A l \in 1 .. Len(st[j].nodes) :
               st[i].nodes[k] = st[j].nodes[l] => i = j

(* A node in a case of a branch node is nowhere else.                      *)
BranchNodes(st, hp, nd, fn) ==
    \A m \in 1 .. Len(hp) : \A n \in hp[m].then_nodes :
        /\ hp[n].of \in Workflows
        /\ n \notin Range(nd[hp[n].of]) /\ n \notin fn[hp[n].of]
        /\ \A i \in 1 .. Len(st) : n \notin Range(st[i].nodes)
        /\ \A k \in 1 .. Len(hp) : n \in hp[k].then_nodes => k = m

GraphIds(hp, ns, fn, w, p) ==
    /\ \A k \in 1 .. Len(ns) :
           hp[ns[k]].of = w /\ hp[ns[k]].id = [prefix |-> p, number |-> k - 1]
    /\ \A n \in fn : hp[n].of = w /\ hp[n].id = [prefix |-> Append(p, "f"), number |-> 0]

Graphs(hp, nd, fn) ==
    \A w \in Workflows : \E p \in Seq({"d", "f"}) : GraphIds(hp, nd[w], fn[w], w, p)

Located(st, hp, nd, fn, rs) ==
    \A n \in 1 .. Len(hp) : hp[n].of \in Workflows \ rs =>
        \/ \E i \in 1 .. Len(st) : n \in Range(st[i].nodes)
        \/ \E m \in 1 .. Len(hp) : n \in hp[m].then_nodes
        \/ n \in Range(nd[hp[n].of])
        \/ n \in fn[hp[n].of]

Bound(st, hp, nd, rs) ==
    /\ \A n \in 1 .. Len(hp) :
           hp[n].of \in Workflows \ rs => hp[n].bindings \subseteq BodyNodes(st, nd, hp[n].of)
    /\ \A i \in 2 .. Len(st) :
           st[i].kind = "workflow" /\ st[i - 1].of \in Workflows =>
               st[i].bindings \subseteq BodyNodes(st, nd, st[i - 1].of)
    /\ \A i \in 1 .. Len(st) :
           st[i].kind = "section" => st[i].conditions \subseteq BodyNodes(st, nd, st[i].of)

Core(st, hp, nd, fn, cp, rs) ==
    /\ Stacked(st) /\ GraphLater(st, hp, nd, fn, cp, rs) /\ FrameNodes(st, hp)
    /\ BranchNodes(st, hp, nd, fn) /\ Graphs(hp, nd, fn)
    /\ Located(st, hp, nd, fn, rs) /\ Bound(st, hp, nd, rs)

CInv ==
    /\ MInv /\ Core(stack, heap, nodes, failure_node, compiled, raised)
    /\ stack # <<>> => Runs(Top)

-----------------------------------------------------------------------------
(* Types.                                                                  *)

(* A frame that refers to the first n nodes only.                          *)
FrameTyped(f, n) ==
    /\ f \in Frame
    /\ Range(f.nodes) \cup f.bindings \cup f.conditions \subseteq 1 .. n
    /\ \A c \in Range(f.cases) : c \subseteq 1 .. n

StackTyped(st, n) == st \in Seq(Frame) /\ \A i \in 1 .. Len(st) : FrameTyped(st[i], n)

HeapTyped(hp) ==
    /\ hp \in Seq(NodeRecord)
    /\ \A n \in 1 .. Len(hp) : hp[n].bindings \cup hp[n].then_nodes \subseteq 1 .. Len(hp)

GraphsTyped(nd, fn, n) ==
    /\ nd \in [Owners -> Seq(Nat)] /\ fn \in [Owners -> SUBSET Nat]
    /\ \A w \in Owners : Range(nd[w]) \cup fn[w] \subseteq 1 .. n

RestTyped ==
    /\ on_failure \in [Workflows -> Entities \cup {None}] /\ script \in {"functions", Imperative}
    /\ compiled \subseteq Workflows
    /\ _unbound_inputs \subseteq inputs /\ inputs \subseteq Inputs
    /\ raised \subseteq Owners /\ raises \in 0 .. MaxRaises

Typed ==
    /\ StackTyped(stack, Len(heap)) /\ HeapTyped(heap)
    /\ GraphsTyped(nodes, failure_node, Len(heap)) /\ RestTyped

LEMMA TypedIsTypeOK == TypeOK <=> Typed
  <1>1. stack \in Seq(Frame) =>
            /\ DOMAIN stack = 1 .. Len(stack)
            /\ \A i \in 1 .. Len(stack) : stack[i] \in Frame
    OBVIOUS
  <1>2. ASSUME TypeOK PROVE Typed
    BY <1>1, <1>2 DEF TypeOK, Typed, StackTyped, FrameTyped, HeapTyped, GraphsTyped, RestTyped,
                      Nodes
  <1>3. ASSUME Typed PROVE TypeOK
    BY <1>1, <1>3 DEF TypeOK, Typed, StackTyped, FrameTyped, HeapTyped, GraphsTyped, RestTyped,
                      Nodes
  <1> QED
    BY <1>2, <1>3

(* The lowest frames of a stack, with another one on top.                  *)
LEMMA Rebuilt ==
    ASSUME NEW S, NEW st \in Seq(S), NEW m \in 0 .. Len(st), NEW f
    PROVE  LET lower == SubSeq(st, 1, m)
               r == Append(lower, f)
           IN  /\ lower \in Seq(S) /\ Len(lower) = m
               /\ \A j \in 1 .. m : lower[j] = st[j]
               /\ f \in S => r \in Seq(S)
               /\ Len(r) = m + 1 /\ r[m + 1] = f
               /\ \A j \in 1 .. m : r[j] = st[j]
  <1> DEFINE lower == SubSeq(st, 1, m)
  <1>1. Len(st) \in Nat /\ m \in Nat /\ m <= Len(st)
    OBVIOUS
  <1>2. lower \in Seq(S) /\ Len(lower) = m /\ \A j \in 1 .. m : lower[j] = st[j]
    <2>1. CASE m = 0
      BY <2>1, <1>1
    <2>2. CASE m > 0
      BY <2>2, <1>1
    <2> QED
      BY <2>1, <2>2, <1>1
  <1> HIDE DEF lower
  <1>3. Len(Append(lower, f)) = m + 1 /\ Append(lower, f)[m + 1] = f
        /\ \A j \in 1 .. m : Append(lower, f)[j] = lower[j]
    BY <1>2, <1>1
  <1>4. f \in S => Append(lower, f) \in Seq(S)
    BY <1>2
  <1> QED
    BY <1>2, <1>3, <1>4 DEF lower

(* The frame at m in another form, those above gone.                       *)
LEMMA Replaced ==
    ASSUME NEW S, NEW st \in Seq(S), NEW m \in 1 .. Len(st), NEW f
    PROVE  LET r == Append(SubSeq(st, 1, m - 1), f)
           IN  /\ Len(r) = m /\ r[m] = f /\ \A j \in 1 .. m - 1 : r[j] = st[j]
               /\ f \in S => r \in Seq(S)
  <1>1. m - 1 \in 0 .. Len(st) /\ (m - 1) + 1 = m
    OBVIOUS
  <1> DEFINE k == m - 1
  <1>2. k \in 0 .. Len(st) /\ k + 1 = m
    BY <1>1
  <1> HIDE DEF k
  <1>3. LET r == Append(SubSeq(st, 1, k), f)
        IN  /\ Len(r) = k + 1 /\ r[k + 1] = f /\ \A j \in 1 .. k : r[j] = st[j]
            /\ f \in S => r \in Seq(S)
    BY <1>2, Rebuilt
  <1> QED
    BY <1>2, <1>3 DEF k

LEMMA FrameTypedGrows ==
    ASSUME NEW n \in Nat, NEW m \in Nat, n <= m, NEW f, FrameTyped(f, n)
    PROVE  FrameTyped(f, m)
  <1>1. 1 .. n \subseteq 1 .. m
    OBVIOUS
  <1> QED
    BY <1>1 DEF FrameTyped

LEMMA StackTypedGrows ==
    ASSUME NEW n \in Nat, NEW m \in Nat, n <= m, NEW st, StackTyped(st, n)
    PROVE  StackTyped(st, m)
  BY FrameTypedGrows DEF StackTyped

LEMMA StackTypedRebuilt ==
    ASSUME NEW n \in Nat, NEW st, StackTyped(st, n), NEW m \in 0 .. Len(st),
           NEW f, FrameTyped(f, n)
    PROVE  /\ StackTyped(SubSeq(st, 1, m), n)
           /\ StackTyped(Append(SubSeq(st, 1, m), f), n)
  <1>1. st \in Seq(Frame) /\ f \in Frame /\ Len(st) \in Nat
    BY DEF StackTyped, FrameTyped
  <1>2. /\ SubSeq(st, 1, m) \in Seq(Frame) /\ Len(SubSeq(st, 1, m)) = m
        /\ \A j \in 1 .. m : SubSeq(st, 1, m)[j] = st[j]
    BY <1>1, Rebuilt
  <1>3. /\ Append(SubSeq(st, 1, m), f) \in Seq(Frame)
        /\ Len(Append(SubSeq(st, 1, m), f)) = m + 1
        /\ Append(SubSeq(st, 1, m), f)[m + 1] = f
        /\ \A j \in 1 .. m : Append(SubSeq(st, 1, m), f)[j] = st[j]
    BY <1>1, Rebuilt
  <1>4. \A j \in 1 .. m : FrameTyped(st[j], n)
    BY <1>1 DEF StackTyped
  <1>5. \A j \in 1 .. m + 1 : FrameTyped(Append(SubSeq(st, 1, m), f)[j], n)
    BY <1>3, <1>4
  <1> QED
    BY <1>2, <1>3, <1>4, <1>5 DEF StackTyped

LEMMA StackTypedAppend ==
    ASSUME NEW n \in Nat, NEW st, StackTyped(st, n), NEW f, FrameTyped(f, n)
    PROVE  StackTyped(Append(st, f), n)
  <1>1. st \in Seq(Frame) /\ f \in Frame /\ Len(st) \in Nat
    BY DEF StackTyped, FrameTyped
  <1>2. /\ Append(st, f) \in Seq(Frame) /\ Len(Append(st, f)) = Len(st) + 1
        /\ Append(st, f)[Len(st) + 1] = f
        /\ \A j \in 1 .. Len(st) : Append(st, f)[j] = st[j]
    BY <1>1
  <1>3. \A j \in 1 .. Len(st) + 1 : FrameTyped(Append(st, f)[j], n)
    BY <1>1, <1>2 DEF StackTyped
  <1> QED
    BY <1>2, <1>3 DEF StackTyped

(* What a step makes of frames and nodes.                                  *)
LEMMA NewFrameTyped ==
    ASSUME NEW kind \in {"workflow", "failure", "section", "add_entity", "add_on_failure"},
           NEW w \in Owners, NEW prefix \in Seq({"d", "f"}), NEW n \in Nat
    PROVE  FrameTyped(NewFrame(kind, w, prefix), n)
  <1>1. NewFrame(kind, w, prefix) \in Frame
    BY DEF NewFrame, Frame
  <1>2. Range(<<>>) = {}
    BY DEF Range
  <1> QED
    BY <1>1, <1>2 DEF FrameTyped, NewFrame

(* The parts of a frame that tell what it is.                              *)
Same(f, g) ==
    g.kind = f.kind /\ g.of = f.of /\ g.prefix = f.prefix /\ g.nodes = f.nodes

LEMMA FrameUpdates ==
    ASSUME NEW f, NEW n \in Nat, FrameTyped(f, n)
    PROVE  /\ \A b \in SUBSET (1 .. n) :
                  LET g == [f EXCEPT !.bindings = b]
                  IN  FrameTyped(g, n) /\ Same(f, g) /\ g.bindings = b
                      /\ g.called = f.called /\ g.stage = f.stage
           /\ LET g == [f EXCEPT !.called = TRUE]
              IN  FrameTyped(g, n) /\ Same(f, g) /\ g.bindings = f.bindings /\ g.called
                  /\ g.conditions = f.conditions /\ g.inputs = f.inputs
           /\ LET g == [f EXCEPT !.stage = "outputs"]
              IN  FrameTyped(g, n) /\ Same(f, g) /\ g.bindings = f.bindings
                  /\ g.called = f.called /\ g.conditions = f.conditions
  <1>1. f \in Frame /\ 1 .. n \in SUBSET Nat
    BY DEF FrameTyped
  <1>2. ASSUME NEW b \in SUBSET (1 .. n), NEW g, g = [f EXCEPT !.bindings = b]
        PROVE  FrameTyped(g, n) /\ Same(f, g) /\ g.bindings = b
               /\ g.called = f.called /\ g.stage = f.stage
    <2>1. /\ g \in Frame /\ g.bindings = b /\ Same(f, g) /\ g.conditions = f.conditions
          /\ g.called = f.called /\ g.stage = f.stage /\ g.cases = f.cases
      BY <1>1, <1>2 DEF Frame, Same
    <2> QED
      BY <2>1 DEF FrameTyped, Same
  <1>3. ASSUME NEW g, g = [f EXCEPT !.called = TRUE]
        PROVE  FrameTyped(g, n) /\ Same(f, g) /\ g.bindings = f.bindings /\ g.called
               /\ g.conditions = f.conditions /\ g.inputs = f.inputs
    <2>1. /\ g \in Frame /\ g.bindings = f.bindings /\ Same(f, g) /\ g.conditions = f.conditions
          /\ g.called /\ g.cases = f.cases /\ g.inputs = f.inputs
      BY <1>1, <1>3 DEF Frame, Same
    <2> QED
      BY <2>1 DEF FrameTyped, Same
  <1>4. ASSUME NEW g, g = [f EXCEPT !.stage = "outputs"]
        PROVE  FrameTyped(g, n) /\ Same(f, g) /\ g.bindings = f.bindings
               /\ g.called = f.called /\ g.conditions = f.conditions
    <2>1. /\ g \in Frame /\ g.bindings = f.bindings /\ Same(f, g) /\ g.conditions = f.conditions
          /\ g.called = f.called /\ g.cases = f.cases
      BY <1>1, <1>4 DEF Frame, Same
    <2> QED
      BY <2>1 DEF FrameTyped, Same
  <1> QED
    BY <1>2, <1>3, <1>4

LEMMA RangeOfAppend ==
    ASSUME NEW S, NEW s \in Seq(S), NEW x
    PROVE  Range(Append(s, x)) = Range(s) \cup {x}
  <1>1. /\ Len(s) \in Nat /\ DOMAIN s = 1 .. Len(s) /\ DOMAIN Append(s, x) = 1 .. Len(s) + 1
        /\ Append(s, x)[Len(s) + 1] = x /\ \A j \in 1 .. Len(s) : Append(s, x)[j] = s[j]
    OBVIOUS
  <1> QED
    BY <1>1 DEF Range

LEMMA AddNodeTyped ==
    ASSUME NEW f, Len(heap) \in Nat, FrameTyped(f, Len(heap))
    PROVE  /\ FrameTyped(add_node(f), Len(heap) + 1)
           /\ add_node(f).nodes = Append(f.nodes, Len(heap) + 1)
           /\ \A x \in {"kind", "of", "prefix", "stage", "called", "bindings", "inputs",
                         "conditions", "cases", "case", "mark"} : add_node(f)[x] = f[x]
  <1>1. f \in Frame /\ f.nodes \in Seq(Nat) /\ Len(heap) + 1 \in Nat
    BY DEF FrameTyped, Frame
  <1>2. Append(f.nodes, Len(heap) + 1) \in Seq(Nat)
    BY <1>1
  <1>3. /\ add_node(f) \in Frame /\ add_node(f).nodes = Append(f.nodes, Len(heap) + 1)
        /\ \A x \in {"kind", "of", "prefix", "stage", "called", "bindings", "inputs",
                      "conditions", "cases", "case", "mark"} : add_node(f)[x] = f[x]
    BY <1>1, <1>2 DEF add_node, Frame
  <1>4. Range(add_node(f).nodes) = Range(f.nodes) \cup {Len(heap) + 1}
    BY <1>1, <1>3, RangeOfAppend
  <1> QED
    BY <1>3, <1>4 DEF FrameTyped

LEMMA NodeTyped ==
    ASSUME NEW f, NEW n \in Nat, FrameTyped(f, n),
           NEW b \in SUBSET (1 .. n), NEW t \in SUBSET (1 .. n)
    PROVE  Node(f, b, t) \in NodeRecord
  <1>1. f \in Frame /\ f.nodes \in Seq(Nat) /\ f.prefix \in Seq({"d", "f"}) /\ f.of \in Owners
    BY DEF FrameTyped, Frame
  <1>2. f.prefix \in Seq({"d", "e", "f"}) /\ Len(f.nodes) \in Nat
    BY <1>1
  <1> QED
    BY <1>1, <1>2 DEF Node, node_id, NodeRecord

LEMMA HeapTypedAppend ==
    ASSUME NEW hp, HeapTyped(hp), NEW x \in NodeRecord,
           x.bindings \cup x.then_nodes \subseteq 1 .. Len(hp)
    PROVE  /\ HeapTyped(Append(hp, x)) /\ Len(hp) \in Nat /\ Len(Append(hp, x)) = Len(hp) + 1
           /\ Append(hp, x)[Len(hp) + 1] = x
           /\ \A n \in 1 .. Len(hp) : Append(hp, x)[n] = hp[n]
  <1>1. /\ Len(hp) \in Nat /\ Append(hp, x) \in Seq(NodeRecord)
        /\ Len(Append(hp, x)) = Len(hp) + 1 /\ Append(hp, x)[Len(hp) + 1] = x
        /\ \A n \in 1 .. Len(hp) : Append(hp, x)[n] = hp[n]
    BY DEF HeapTyped
  <1>2. \A n \in 1 .. Len(hp) + 1 :
            Append(hp, x)[n].bindings \cup Append(hp, x)[n].then_nodes \subseteq 1 .. Len(hp)
    BY <1>1 DEF HeapTyped
  <1>3. 1 .. Len(hp) \subseteq 1 .. Len(hp) + 1
    BY <1>1
  <1> QED
    BY <1>1, <1>2, <1>3 DEF HeapTyped

LEMMA GraphsTypedExcept ==
    ASSUME NEW n \in Nat, NEW nd, NEW fn, GraphsTyped(nd, fn, n), NEW w \in Owners,
           NEW ns \in Seq(Nat), NEW t \in SUBSET (1 .. n), Range(ns) \subseteq 1 .. n
    PROVE  GraphsTyped([nd EXCEPT ![w] = ns], [fn EXCEPT ![w] = t], n)
  <1> DEFINE nd2 == [nd EXCEPT ![w] = ns]
             fn2 == [fn EXCEPT ![w] = t]
  <1>1. nd \in [Owners -> Seq(Nat)] /\ fn \in [Owners -> SUBSET Nat] /\ t \in SUBSET Nat
    BY DEF GraphsTyped
  <1>2. nd2 \in [Owners -> Seq(Nat)] /\ fn2 \in [Owners -> SUBSET Nat]
    BY <1>1
  <1>3. /\ nd2[w] = ns /\ fn2[w] = t
        /\ \A x \in Owners : x # w => nd2[x] = nd[x] /\ fn2[x] = fn[x]
    BY <1>1
  <1> HIDE DEF nd2, fn2
  <1>4. \A x \in Owners : Range(nd2[x]) \cup fn2[x] \subseteq 1 .. n
    BY <1>3 DEF GraphsTyped
  <1>5. GraphsTyped(nd2, fn2, n)
    BY <1>2, <1>4 DEF GraphsTyped
  <1> QED
    BY <1>5 DEF nd2, fn2

LEMMA GraphsTypedGrows ==
    ASSUME NEW n \in Nat, NEW m \in Nat, n <= m, NEW nd, NEW fn, GraphsTyped(nd, fn, n)
    PROVE  GraphsTyped(nd, fn, m)
  <1>1. 1 .. n \subseteq 1 .. m
    OBVIOUS
  <1> QED
    BY <1>1 DEF GraphsTyped

(* A node is made for the frame f over the lowest m frames of st.          *)
LEMMA LinkTyped ==
    ASSUME HeapTyped(heap), NEW st, StackTyped(st, Len(heap)), NEW m \in 0 .. Len(st),
           NEW f, FrameTyped(f, Len(heap)),
           NEW b \in SUBSET (1 .. Len(heap)), NEW t \in SUBSET (1 .. Len(heap)),
           heap' = Append(heap, Node(f, b, t)),
           stack' = Append(SubSeq(st, 1, m), add_node(f)),
           NEW nd, NEW fn, GraphsTyped(nd, fn, Len(heap))
    PROVE  /\ StackTyped(stack', Len(heap')) /\ HeapTyped(heap')
           /\ GraphsTyped(nd, fn, Len(heap'))
           /\ Len(heap') = Len(heap) + 1 /\ Len(heap) \in Nat
           /\ heap'[Len(heap) + 1] = Node(f, b, t)
           /\ \A n \in 1 .. Len(heap) : heap'[n] = heap[n]
  <1>1. Len(heap) \in Nat
    BY DEF HeapTyped
  <1>2. Node(f, b, t) \in NodeRecord
    BY <1>1, NodeTyped
  <1>3. Node(f, b, t).bindings = b /\ Node(f, b, t).then_nodes = t
    BY DEF Node
  <1>4. /\ HeapTyped(heap') /\ Len(heap') = Len(heap) + 1
        /\ heap'[Len(heap) + 1] = Node(f, b, t)
        /\ \A n \in 1 .. Len(heap) : heap'[n] = heap[n]
    BY <1>2, <1>3, HeapTypedAppend
  <1>5. FrameTyped(add_node(f), Len(heap')) /\ StackTyped(st, Len(heap'))
    BY <1>1, <1>4, AddNodeTyped, StackTypedGrows
  <1>6. StackTyped(stack', Len(heap'))
    BY <1>1, <1>4, <1>5, StackTypedRebuilt
  <1>7. GraphsTyped(nd, fn, Len(heap'))
    BY <1>1, <1>4, GraphsTypedGrows
  <1> QED
    BY <1>1, <1>4, <1>6, <1>7

LEMMA TopFacts ==
    ASSUME Typed, stack # <<>>
    PROVE  /\ Len(heap) \in Nat /\ Len(stack) \in Nat /\ Len(stack) >= 1
           /\ stack \in Seq(Frame) /\ FrameTyped(Top, Len(heap))
           /\ Below \in Seq(Frame) /\ Len(Below) = Len(stack) - 1
           /\ \A j \in 1 .. Len(stack) - 1 : Below[j] = stack[j]
  <1>1. /\ stack \in Seq(Frame) /\ Len(stack) \in Nat /\ Len(stack) >= 1 /\ Len(heap) \in Nat
        /\ FrameTyped(Top, Len(heap))
    BY DEF Typed, StackTyped, HeapTyped, Top
  <1> DEFINE k == Len(stack) - 1
  <1>2. k \in 0 .. Len(stack)
    BY <1>1
  <1> HIDE DEF k
  <1>3. LET lower == SubSeq(stack, 1, k)
        IN  lower \in Seq(Frame) /\ Len(lower) = k /\ \A j \in 1 .. k : lower[j] = stack[j]
    BY <1>1, <1>2, Rebuilt
  <1> QED
    BY <1>1, <1>3 DEF Below, k

LEMMA VisibleTyped ==
    ASSUME Typed, NEW d \in 0 .. Len(stack)
    PROVE  Visible(d) \subseteq 1 .. Len(heap)
  <1>1. Len(stack) \in Nat /\ \A i \in 1 .. Len(stack) : FrameTyped(stack[i], Len(heap))
    BY DEF Typed, StackTyped
  <1>2. ASSUME NEW i \in 1 .. d PROVE Scope(i) \subseteq 1 .. Len(heap)
    <2>1. /\ stack[i].nodes \in Seq(Nat) /\ stack[i].mark \in Nat
          /\ Range(stack[i].nodes) \subseteq 1 .. Len(heap)
      BY <1>1 DEF FrameTyped, Frame
    <2>2. \A k \in stack[i].mark + 1 .. Len(stack[i].nodes) : k \in DOMAIN stack[i].nodes
      BY <2>1
    <2> QED
      BY <2>1, <2>2 DEF Scope, Range
  <1> QED
    BY <1>2 DEF Visible

LEMMA StartCompileTyped ==
    ASSUME Typed, NEW w \in Workflows, NEW fs, StackTyped(fs, Len(heap)),
           NEW prefix \in Seq({"d", "f"}), NEW b \in SUBSET (1 .. Len(heap)),
           start_compile(w, fs, prefix, b),
           UNCHANGED <<on_failure, script, nodes, failure_node, inputs, _unbound_inputs,
                       raised, raises>>
    PROVE  Typed'
  <1> DEFINE f == NewFrame("workflow", w, prefix)
             g == [f EXCEPT !.bindings = b]
  <1>1. Len(heap) \in Nat /\ heap' = heap
    BY DEF Typed, HeapTyped, start_compile
  <1>2. FrameTyped(f, Len(heap))
    BY <1>1, NewFrameTyped DEF Owners
  <1> HIDE DEF f
  <1>3. FrameTyped(g, Len(heap))
    BY <1>1, <1>2, FrameUpdates
  <1>4. stack' = Append(fs, g) /\ compiled' = compiled \cup {w}
    BY DEF start_compile, f, g
  <1> HIDE DEF g
  <1>5. StackTyped(stack', Len(heap))
    BY <1>1, <1>3, <1>4, StackTypedAppend
  <1> QED
    BY <1>1, <1>4, <1>5 DEF Typed, RestTyped

(* The frame f, with the same nodes as the one on top, makes the call.     *)
LEMMA CallTyped ==
    ASSUME Typed, stack # <<>>, NEW e, NEW f, FrameTyped(f, Len(heap)),
           NEW b \in SUBSET (1 .. Len(heap)), call(e, f, b),
           UNCHANGED <<on_failure, script, nodes, failure_node, inputs, _unbound_inputs,
                       raised, raises>>
    PROVE  Typed'
  <1>1. /\ Len(stack) - 1 \in 0 .. Len(stack) /\ StackTyped(stack, Len(heap)) /\ HeapTyped(heap)
        /\ Len(heap) \in Nat /\ GraphsTyped(nodes, failure_node, Len(heap)) /\ RestTyped
    BY TopFacts DEF Typed
  <1>2. ASSUME NEW w \in Workflows, start_compile(w, Append(Below, f), f.prefix, b)
        PROVE  Typed'
    <2>1. StackTyped(Append(Below, f), Len(heap))
      BY <1>1, StackTypedRebuilt DEF Below
    <2>2. f.prefix \in Seq({"d", "f"})
      BY DEF FrameTyped, Frame
    <2> QED
      BY <1>2, <2>1, <2>2, StartCompileTyped
  <1>3. CASE create_and_link_node(Below, f, b) /\ UNCHANGED compiled
    <2>1. /\ heap' = Append(heap, Node(f, b, {}))
          /\ stack' = Append(SubSeq(stack, 1, Len(stack) - 1), add_node(f))
      BY <1>3 DEF create_and_link_node, Below
    <2>2. /\ StackTyped(stack', Len(heap')) /\ HeapTyped(heap')
          /\ GraphsTyped(nodes, failure_node, Len(heap'))
      BY <1>1, <2>1, LinkTyped
    <2> QED
      BY <1>1, <1>3, <2>2 DEF Typed, RestTyped
  <1> QED
    BY <1>2, <1>3 DEF call

LEMMA FinishTyped ==
    ASSUME Typed, NEW m \in 1 .. Len(stack), NEW w \in Owners,
           Finish(w, stack[m], SubSeq(stack, 1, m - 1)),
           NEW t \in SUBSET (1 .. Len(heap)), failure_node' = [failure_node EXCEPT ![w] = t],
           UNCHANGED <<on_failure, script, compiled, inputs, _unbound_inputs, raised, raises>>
    PROVE  Typed'
  <1> DEFINE fs == SubSeq(stack, 1, m - 1)
             f == stack[m]
  <1>1. /\ Len(stack) \in Nat /\ m - 1 \in 0 .. Len(stack) /\ StackTyped(stack, Len(heap))
        /\ HeapTyped(heap) /\ Len(heap) \in Nat /\ RestTyped
        /\ GraphsTyped(nodes, failure_node, Len(heap)) /\ FrameTyped(f, Len(heap))
    BY DEF Typed, HeapTyped, StackTyped
  <1>2. nodes' = [nodes EXCEPT ![w] = f.nodes]
    BY DEF Finish
  <1>3. f.nodes \in Seq(Nat) /\ Range(f.nodes) \subseteq 1 .. Len(heap)
        /\ f.bindings \subseteq 1 .. Len(heap)
    BY <1>1 DEF FrameTyped, Frame
  <1>4. GraphsTyped(nodes', failure_node', Len(heap))
    BY <1>1, <1>2, <1>3, GraphsTypedExcept
  <1>5. StackTyped(fs, Len(heap)) /\ Len(fs) = m - 1 /\ (\A j \in 1 .. m - 1 : fs[j] = stack[j])
        /\ fs \in Seq(Frame)
    <2>1. stack \in Seq(Frame)
      BY <1>1 DEF StackTyped
    <2> QED
      BY <1>1, <2>1, StackTypedRebuilt, Rebuilt
  <1>6. CASE fs = <<>>
    <2>1. stack' = fs /\ heap' = heap
      BY <1>6 DEF Finish
    <2> QED
      BY <1>1, <1>4, <1>5, <2>1 DEF Typed, RestTyped
  <1>7. CASE fs # <<>>
    <2>1. /\ heap' = Append(heap, Node(fs[Len(fs)], f.bindings, {}))
          /\ stack' = Append(SubSeq(fs, 1, Len(fs) - 1), add_node(fs[Len(fs)]))
      BY <1>7 DEF Finish, create_and_link_node
    <2>2. Len(fs) \in 1 .. Len(fs) /\ Len(fs) - 1 \in 0 .. Len(fs)
      BY <1>5, <1>7
    <2>3. FrameTyped(fs[Len(fs)], Len(heap))
      BY <1>5, <2>2 DEF StackTyped
    <2> HIDE DEF fs, f
    <2> DEFINE l == Len(fs) - 1
               g == fs[Len(fs)]
               b == f.bindings
    <2>6. b \in SUBSET (1 .. Len(heap)) /\ {} \in SUBSET (1 .. Len(heap)) /\ l \in 0 .. Len(fs)
      BY <1>3, <2>2
    <2>7. /\ heap' = Append(heap, Node(g, b, {})) /\ FrameTyped(g, Len(heap))
          /\ stack' = Append(SubSeq(fs, 1, l), add_node(g))
      BY <2>1, <2>3
    <2> HIDE DEF l, g, b
    <2>4. /\ StackTyped(stack', Len(heap')) /\ HeapTyped(heap')
          /\ Len(heap') = Len(heap) + 1
      BY <1>1, <1>5, <2>6, <2>7, LinkTyped
    <2>5. GraphsTyped(nodes', failure_node', Len(heap'))
      BY <1>1, <1>4, <2>4, GraphsTypedGrows
    <2> QED
      BY <1>1, <2>4, <2>5 DEF Typed, RestTyped
  <1> QED
    BY <1>6, <1>7

-----------------------------------------------------------------------------
(* The imperative workflow.                                                *)

(* The frame at m in another form.                                         *)
LEMMA StillStands ==
    ASSUME NEW st, NEW st2, Len(st) \in Nat, NEW m \in 1 .. Len(st), FramesOK(st),
           \A j \in 1 .. m - 1 : st2[j] = st[j],
           st2[m].kind = st[m].kind, st2[m].of = st[m].of
    PROVE  \A i \in 1 .. m : Stands(st2, i)
  <1>1. \A i \in 1 .. m : st2[i].kind = st[i].kind /\ st2[i].of = st[i].of
    OBVIOUS
  <1>2. ASSUME NEW i \in 1 .. m PROVE Stands(st2, i)
    <2>1. Stands(st, i) /\ i \in 1 .. Len(st)
      BY DEF FramesOK
    <2>2. st2[i].kind = st[i].kind /\ st2[i].of = st[i].of
      BY <1>1
    <2>3. CASE i = 1
      BY <2>1, <2>2, <2>3 DEF Stands
    <2>4. CASE i > 1
      <3>1. i - 1 \in 1 .. m
        BY <2>4
      <3>2. st2[i - 1].kind = st[i - 1].kind /\ st2[i - 1].of = st[i - 1].of
        BY <1>1, <3>1
      <3> QED
        BY <2>1, <2>2, <2>4, <3>2 DEF Stands
    <2> QED
      BY <2>3, <2>4
  <1> QED
    BY <1>2

Extends(hp, hp2) ==
    Len(hp) <= Len(hp2) /\ \A n \in 1 .. Len(hp) : hp2[n] = hp[n]

LEMMA OrderedGrows ==
    ASSUME NEW ns \in Seq(Nat), NEW hp, NEW hp2, NEW fn, Extends(hp, hp2),
           Range(ns) \subseteq 1 .. Len(hp), Ordered(ns, hp, fn)
    PROVE  Ordered(ns, hp2, fn)
  <1>1. \A k \in 1 .. Len(ns) : ns[k] \in 1 .. Len(hp)
    BY DEF Range
  <1> QED
    BY <1>1 DEF Ordered, Extends

LEMMA OrderedLink ==
    ASSUME NEW ns \in Seq(Nat), NEW hp, NEW hp2, NEW fn, Extends(hp, hp2), Len(hp) \in Nat,
           Range(ns) \cup fn \subseteq 1 .. Len(hp), Ordered(ns, hp, fn),
           hp2[Len(hp) + 1].id = [prefix |-> <<>>, number |-> Len(ns)],
           hp2[Len(hp) + 1].of = Imperative,
           hp2[Len(hp) + 1].bindings \subseteq Range(ns)
    PROVE  Ordered(Append(ns, Len(hp) + 1), hp2, fn)
  <1> DEFINE r == Append(ns, Len(hp) + 1)
             n == Len(ns)
  <1>1. n \in Nat /\ Len(r) = n + 1 /\ r[n + 1] = Len(hp) + 1 /\ \A k \in 1 .. n : r[k] = ns[k]
    OBVIOUS
  <1>2. Ordered(ns, hp2, fn)
    BY OrderedGrows
  <1>3. \A m \in Range(ns) : \E j \in 1 .. n : ns[j] = m
    BY DEF Range
  <1>4. Len(hp) + 1 \notin fn
    OBVIOUS
  <1> HIDE DEF r
  <1>5. ASSUME NEW k \in 1 .. n + 1
        PROVE  /\ hp2[r[k]].id = [prefix |-> <<>>, number |-> k - 1]
               /\ hp2[r[k]].of = Imperative
               /\ r[k] \notin fn
               /\ \A m \in hp2[r[k]].bindings : \E j \in 1 .. k - 1 : r[j] = m
    <2>1. CASE k = n + 1
      <3>1. \A m \in hp2[r[k]].bindings : \E j \in 1 .. n : r[j] = m
        BY <1>1, <1>3, <2>1
      <3>2. k - 1 = n /\ r[k] = Len(hp) + 1
        BY <1>1, <2>1
      <3> QED
        BY <1>1, <1>4, <3>1, <3>2
    <2>2. CASE k \in 1 .. n
      <3>1. /\ r[k] = ns[k] /\ k - 1 \in 0 .. n
            /\ \A j \in 1 .. k - 1 : r[j] = ns[j]
        BY <1>1, <2>2
      <3>2. /\ hp2[ns[k]].id = [prefix |-> <<>>, number |-> k - 1]
            /\ hp2[ns[k]].of = Imperative
            /\ ns[k] \notin fn
            /\ \A m \in hp2[ns[k]].bindings : \E j \in 1 .. k - 1 : ns[j] = m
        BY <1>2, <2>2 DEF Ordered
      <3>3. \A m \in hp2[r[k]].bindings : \E j \in 1 .. k - 1 : r[j] = m
        BY <3>1, <3>2
      <3> QED
        BY <3>1, <3>2, <3>3
    <2> QED
      BY <1>1, <2>1, <2>2
  <1>6. Ordered(r, hp2, fn)
    BY <1>1, <1>5 DEF Ordered
  <1> QED
    BY <1>6 DEF r

LEMMA ImperativeFacts ==
    ASSUME Typed
    PROVE  /\ Imperative \in Owners /\ Imperative \notin Workflows
           /\ nodes[Imperative] \in Seq(Nat) /\ Len(heap) \in Nat
           /\ Range(nodes[Imperative]) \cup failure_node[Imperative] \subseteq 1 .. Len(heap)
           /\ \A i \in 1 .. Len(stack) :
                  stack[i].nodes \in Seq(Nat) /\ Range(stack[i].nodes) \subseteq 1 .. Len(heap)
  <1>1. Imperative \in Owners /\ Imperative \notin Workflows
    BY CompilationAssumption DEF Owners
  <1>2. \A i \in 1 .. Len(stack) : FrameTyped(stack[i], Len(heap))
    BY DEF Typed, StackTyped
  <1> QED
    BY <1>1, <1>2 DEF Typed, GraphsTyped, HeapTyped, FrameTyped, Frame

(* A step that leaves the call which adds to the imperative workflow alone.*)
LEMMA AddingKept ==
    ASSUME MInv, Typed', FramesOK(stack'), Extends(heap, heap'),
           nodes'[Imperative] = nodes[Imperative],
           failure_node'[Imperative] = failure_node[Imperative],
           stack' # <<>> /\ stack'[1].of = Imperative =>
               /\ stack # <<>> /\ stack'[1] = stack[1] /\ Len(stack) > 1 /\ Len(stack') > 1
               /\ stack'[2].kind = "workflow" /\ stack'[2].bindings = stack[2].bindings
    PROVE  MInv'
  <1>1. Typed
    BY TypedIsTypeOK DEF MInv
  <1>2. Ordered(nodes[Imperative], heap', failure_node[Imperative])
    BY <1>1, ImperativeFacts, OrderedGrows DEF MInv
  <1>3. AddingOK'
    <2> SUFFICES ASSUME stack' # <<>>, stack'[1].of = Imperative
                 PROVE  AddingOK'
      BY DEF AddingOK
    <2>1. Len(stack) \in Nat /\ 1 \in 1 .. Len(stack)
      BY <1>1 DEF Typed, StackTyped
    <2>2. Ordered(stack[1].nodes, heap', failure_node[Imperative])
      BY <1>1, <2>1, ImperativeFacts, OrderedGrows DEF MInv, AddingOK
    <2> QED
      BY <2>1, <2>2 DEF MInv, AddingOK
  <1>4. TypeOK'
    BY TypedIsTypeOK, PTL
  <1> QED
    BY <1>2, <1>3, <1>4 DEF MInv

(* A node is made for the frame at m, in the form g; those above are gone. *)
NodeMade(m, g, b, t) ==
    /\ heap' = Append(heap, Node(g, b, t))
    /\ stack' = Append(SubSeq(stack, 1, m - 1), add_node(g))

LEMMA Linked ==
    ASSUME Typed, NEW m \in 1 .. Len(stack), NEW g, FrameTyped(g, Len(heap)),
           NEW b \in SUBSET (1 .. Len(heap)), NEW t \in SUBSET (1 .. Len(heap)),
           NodeMade(m, g, b, t)
    PROVE  /\ Len(heap) \in Nat /\ Len(stack) \in Nat /\ Len(stack') = m
           /\ stack'[m] = add_node(g) /\ \A j \in 1 .. m - 1 : stack'[j] = stack[j]
           /\ stack'[m].nodes = Append(g.nodes, Len(heap) + 1)
           /\ \A x \in {"kind", "of", "prefix", "stage", "called", "bindings", "inputs",
                         "conditions", "cases", "case", "mark"} : stack'[m][x] = g[x]
           /\ Len(heap') = Len(heap) + 1 /\ heap'[Len(heap) + 1] = Node(g, b, t)
           /\ \A n \in 1 .. Len(heap) : heap'[n] = heap[n]
           /\ Extends(heap, heap')
           /\ StackTyped(stack', Len(heap')) /\ HeapTyped(heap')
           /\ GraphsTyped(nodes, failure_node, Len(heap'))
  <1>1. /\ Len(heap) \in Nat /\ Len(stack) \in Nat /\ stack \in Seq(Frame) /\ m - 1 \in 0 .. Len(stack)
        /\ StackTyped(stack, Len(heap)) /\ HeapTyped(heap)
        /\ GraphsTyped(nodes, failure_node, Len(heap))
    BY DEF Typed, StackTyped, HeapTyped
  <1>2. /\ Len(stack') = (m - 1) + 1 /\ stack'[(m - 1) + 1] = add_node(g)
        /\ \A j \in 1 .. m - 1 : stack'[j] = stack[j]
    BY <1>1, Rebuilt DEF NodeMade
  <1>3. /\ add_node(g).nodes = Append(g.nodes, Len(heap) + 1)
        /\ \A x \in {"kind", "of", "prefix", "stage", "called", "bindings", "inputs",
                      "conditions", "cases", "case", "mark"} : add_node(g)[x] = g[x]
    BY <1>1, AddNodeTyped
  <1>4. /\ StackTyped(stack', Len(heap')) /\ HeapTyped(heap')
        /\ GraphsTyped(nodes, failure_node, Len(heap'))
        /\ Len(heap') = Len(heap) + 1 /\ heap'[Len(heap) + 1] = Node(g, b, t)
        /\ \A n \in 1 .. Len(heap) : heap'[n] = heap[n]
    BY <1>1, LinkTyped DEF NodeMade
  <1>5. (m - 1) + 1 = m
    BY <1>1
  <1> QED
    BY <1>1, <1>2, <1>3, <1>4, <1>5 DEF Extends

LEMMA NodeMadeKeeps ==
    ASSUME MInv, Typed', NEW m \in 1 .. Len(stack), NEW g, FrameTyped(g, Len(heap)),
           NEW b \in SUBSET (1 .. Len(heap)), NEW t \in SUBSET (1 .. Len(heap)),
           NodeMade(m, g, b, t), Same(stack[m], g), g.bindings = stack[m].bindings,
           m = 1 /\ stack[1].of = Imperative => g.called /\ b \subseteq Range(g.nodes),
           nodes'[Imperative] = nodes[Imperative],
           failure_node'[Imperative] = failure_node[Imperative]
    PROVE  MInv'
  <1>1. Typed
    BY TypedIsTypeOK DEF MInv
  <1>2. /\ Len(heap) \in Nat /\ Len(stack) \in Nat /\ Len(stack') = m
        /\ \A j \in 1 .. m - 1 : stack'[j] = stack[j]
        /\ stack'[m].nodes = Append(g.nodes, Len(heap) + 1)
        /\ stack'[m].kind = g.kind /\ stack'[m].of = g.of /\ stack'[m].prefix = g.prefix
        /\ stack'[m].called = g.called /\ stack'[m].bindings = g.bindings
        /\ Len(heap') = Len(heap) + 1 /\ heap'[Len(heap) + 1] = Node(g, b, t)
        /\ Extends(heap, heap')
    <2>1. /\ Len(heap) \in Nat /\ Len(stack) \in Nat /\ Len(stack') = m
          /\ \A j \in 1 .. m - 1 : stack'[j] = stack[j]
          /\ stack'[m].nodes = Append(g.nodes, Len(heap) + 1)
          /\ Len(heap') = Len(heap) + 1 /\ heap'[Len(heap) + 1] = Node(g, b, t)
          /\ Extends(heap, heap')
      BY <1>1, Linked, ZenonT(40)
    <2>2. \A x \in {"kind", "of", "prefix", "stage", "called", "bindings", "inputs",
                     "conditions", "cases", "case", "mark"} : stack'[m][x] = g[x]
      BY <1>1, Linked
    <2>3. /\ stack'[m].kind = g.kind /\ stack'[m].of = g.of /\ stack'[m].prefix = g.prefix
          /\ stack'[m].called = g.called /\ stack'[m].bindings = g.bindings
      BY <2>2
    <2> QED
      BY <2>1, <2>3
  <1>3. FramesOK(stack')
    BY <1>2, StillStands DEF MInv, FramesOK, Same
  <1>4. CASE m = 1 /\ stack[1].of = Imperative
    <2>1. /\ g.nodes \in Seq(Nat) /\ g.of = Imperative /\ g.prefix = <<>>
          /\ Range(g.nodes) \cup failure_node[Imperative] \subseteq 1 .. Len(heap)
          /\ Ordered(g.nodes, heap, failure_node[Imperative])
      BY <1>1, <1>2, <1>4, ImperativeFacts DEF MInv, AddingOK, Same
    <2>2. /\ heap'[Len(heap) + 1].id = [prefix |-> <<>>, number |-> Len(g.nodes)]
          /\ heap'[Len(heap) + 1].of = Imperative /\ heap'[Len(heap) + 1].bindings = b
      BY <1>2, <2>1 DEF Node, node_id
    <2>3. Ordered(stack'[1].nodes, heap', failure_node[Imperative])
      <3>1. heap'[Len(heap) + 1].bindings \subseteq Range(g.nodes)
        BY <1>4, <2>2
      <3>2. Extends(heap, heap') /\ Len(heap) \in Nat
        BY <1>2
      <3>3. Ordered(Append(g.nodes, Len(heap) + 1), heap', failure_node[Imperative])
        BY <2>1, <2>2, <3>1, <3>2, OrderedLink
      <3> QED
        BY <1>2, <1>4, <3>3
    <2>4. Len(stack'[1].nodes) >= 1
      BY <1>2, <1>4, <2>1
    <2>5. AddingOK'
      BY <1>2, <1>4, <2>1, <2>3, <2>4 DEF AddingOK
    <2>6. Ordered(nodes[Imperative], heap', failure_node[Imperative])
      BY <1>1, <1>2, ImperativeFacts, OrderedGrows DEF MInv
    <2>7. TypeOK'
      BY TypedIsTypeOK, PTL
    <2> QED
      BY <1>3, <2>5, <2>6, <2>7 DEF MInv
  <1>5. CASE ~ (m = 1 /\ stack[1].of = Imperative)
    <2>1. ASSUME stack' # <<>>, stack'[1].of = Imperative
          PROVE  /\ stack # <<>> /\ stack'[1] = stack[1] /\ Len(stack) > 1 /\ Len(stack') > 1
                 /\ stack'[2].kind = "workflow" /\ stack'[2].bindings = stack[2].bindings
      <3>1. m > 1 /\ stack'[1] = stack[1]
        BY <1>2, <1>5, <2>1 DEF Same
      <3>2. stack[2].kind = "workflow"
        BY <1>1, <1>2, <2>1, <3>1 DEF MInv, AddingOK
      <3>3. stack'[2].kind = stack[2].kind /\ stack'[2].bindings = stack[2].bindings
        <4>1. CASE m = 2
          BY <1>2, <4>1 DEF Same
        <4>2. CASE m > 2
          <5>1. 2 \in 1 .. m - 1
            BY <1>2, <4>2
          <5> QED
            BY <1>2, <5>1
        <4> QED
          BY <1>2, <3>1, <4>1, <4>2
      <3> QED
        BY <1>2, <3>1, <3>2, <3>3
    <2> QED
      BY <1>2, <1>3, <2>1, AddingKept
  <1> QED
    BY <1>4, <1>5

(* The frame at m takes the form g, and h is pushed on it.                 *)
Pushed(m, g, h) == stack' = Append(Append(SubSeq(stack, 1, m - 1), g), h)

LEMMA PushFacts ==
    ASSUME Typed, NEW m \in 1 .. Len(stack), NEW g, NEW h, Pushed(m, g, h)
    PROVE  /\ Len(stack) \in Nat /\ m \in Nat /\ m >= 1 /\ m <= Len(stack)
           /\ Len(stack') = m + 1 /\ stack'[m + 1] = h /\ stack'[m] = g
           /\ \A j \in 1 .. m - 1 : stack'[j] = stack[j]
           /\ Append(SubSeq(stack, 1, m - 1), g)[m] = g
           /\ FrameTyped(g, Len(heap)) /\ FrameTyped(h, Len(heap)) => StackTyped(stack', Len(heap))
  <1> DEFINE a == Append(SubSeq(stack, 1, m - 1), g)
             k == m - 1
  <1>1. /\ stack \in Seq(Frame) /\ Len(stack) \in Nat /\ m \in Nat /\ m >= 1 /\ m <= Len(stack)
        /\ StackTyped(stack, Len(heap)) /\ Len(heap) \in Nat /\ k \in 0 .. Len(stack)
    BY DEF Typed, StackTyped, HeapTyped
  <1>2. stack \in Seq(Frame \cup {g})
    BY <1>1
  <1>3. Len(a) = m /\ a[m] = g /\ (\A j \in 1 .. m - 1 : a[j] = stack[j]) /\ a \in Seq(Frame \cup {g})
    BY <1>2, Replaced
  <1>4. FrameTyped(g, Len(heap)) => StackTyped(a, Len(heap))
    <2>1. a = Append(SubSeq(stack, 1, k), g)
      OBVIOUS
    <2> HIDE DEF a, k
    <2> QED
      BY <1>1, <2>1, StackTypedRebuilt
  <1> HIDE DEF a
  <1>5. Len(Append(a, h)) = m + 1 /\ Append(a, h)[m + 1] = h
        /\ \A j \in 1 .. m : Append(a, h)[j] = a[j]
    BY <1>1, <1>3
  <1>6. FrameTyped(g, Len(heap)) /\ FrameTyped(h, Len(heap)) => StackTyped(Append(a, h), Len(heap))
    BY <1>1, <1>4, StackTypedAppend
  <1>7. stack' = Append(a, h)
    BY DEF Pushed, a
  <1>8. stack'[m] = g /\ \A j \in 1 .. m - 1 : stack'[j] = stack[j]
    BY <1>1, <1>3, <1>5, <1>7
  <1> QED
    BY <1>1, <1>3, <1>5, <1>6, <1>7, <1>8 DEF a

LEMMA PushKeeps ==
    ASSUME MInv, Typed', NEW m \in 1 .. Len(stack), NEW g, NEW h, Pushed(m, g, h), heap' = heap,
           Same(stack[m], g), g.bindings = stack[m].bindings,
           h.kind \notin AddKinds, h.of # Imperative,
           h.kind = "failure" => g.kind = "workflow" /\ h.of = g.of,
           h.kind = "section" => g.kind \in {"workflow", "section"},
           m = 1 /\ stack[1].of = Imperative =>
               g.called /\ h.kind = "workflow" /\ h.bindings \subseteq Range(g.nodes),
           nodes'[Imperative] = nodes[Imperative],
           failure_node'[Imperative] = failure_node[Imperative]
    PROVE  MInv'
  <1>1. Typed
    BY TypedIsTypeOK DEF MInv
  <1>2. /\ Len(stack) \in Nat /\ m \in Nat /\ m >= 1 /\ m <= Len(stack)
        /\ Len(stack') = m + 1 /\ stack'[m + 1] = h /\ stack'[m] = g
        /\ \A j \in 1 .. m - 1 : stack'[j] = stack[j]
    BY <1>1, PushFacts
  <1>3. FramesOK(stack')
    <2>1. FramesOK(stack)
      BY DEF MInv
    <2>2. \A i \in 1 .. m : Stands(stack', i)
      BY <1>2, <2>1, StillStands DEF Same
    <2>3. Stands(stack', m + 1)
      <3>1. (m + 1) - 1 = m /\ m + 1 > 1
        BY <1>2
      <3> QED
        BY <1>2, <3>1 DEF Stands
    <2> QED
      BY <1>2, <2>2, <2>3 DEF FramesOK
  <1>4. Extends(heap, heap')
    BY <1>1 DEF Extends, Typed, HeapTyped
  <1>5. CASE m = 1 /\ stack[1].of = Imperative
    <2>1. g.of = Imperative /\ g.prefix = <<>> /\ Ordered(g.nodes, heap, failure_node[Imperative])
      BY <1>1, <1>2, <1>5 DEF MInv, AddingOK, Same
    <2>2. AddingOK'
      BY <1>2, <1>5, <2>1 DEF AddingOK
    <2>3. TypeOK'
      BY TypedIsTypeOK, PTL
    <2> QED
      BY <1>3, <2>2, <2>3 DEF MInv
  <1>6. CASE ~ (m = 1 /\ stack[1].of = Imperative)
    <2>1. ASSUME stack' # <<>>, stack'[1].of = Imperative
          PROVE  /\ stack # <<>> /\ stack'[1] = stack[1] /\ Len(stack) > 1 /\ Len(stack') > 1
                 /\ stack'[2].kind = "workflow" /\ stack'[2].bindings = stack[2].bindings
      <3>1. m > 1 /\ Len(stack) > 1
        BY <1>2, <1>6, <2>1 DEF Same
      <3>2. stack'[1] = stack[1]
        BY <1>2, <3>1
      <3>3. stack[2].kind = "workflow"
        BY <2>1, <3>1, <3>2 DEF MInv, AddingOK
      <3>4. stack'[2].kind = stack[2].kind /\ stack'[2].bindings = stack[2].bindings
        <4>1. CASE m = 2
          BY <1>2, <4>1 DEF Same
        <4>2. CASE m > 2
          <5>1. 2 \in 1 .. m - 1
            BY <1>2, <4>2
          <5> QED
            BY <1>2, <5>1
        <4> QED
          BY <1>2, <3>1, <4>1, <4>2
      <3> QED
        BY <1>2, <3>1, <3>2, <3>3, <3>4
    <2> QED
      BY <1>3, <1>4, <2>1, AddingKept
  <1> QED
    BY <1>5, <1>6

(* The frame on top takes the form g.                                      *)
LEMMA TopKeeps ==
    ASSUME MInv, stack # <<>>, NEW g, FrameTyped(g, Len(heap)),
           stack' = Append(Below, g), Top.of # Imperative,
           g.kind = Top.kind, g.of = Top.of, g.bindings = Top.bindings,
           UNCHANGED <<on_failure, script, heap, compiled, nodes, failure_node, inputs,
                       _unbound_inputs, raised, raises>>
    PROVE  MInv'
  <1> DEFINE n == Len(stack)
  <1>1. Typed
    BY TypedIsTypeOK DEF MInv
  <1>2. n \in Nat /\ n >= 1 /\ n - 1 \in 0 .. n /\ stack \in Seq(Frame) /\ Len(heap) \in Nat
        /\ StackTyped(stack, Len(heap))
    BY <1>1, TopFacts DEF Typed
  <1>3. /\ Len(stack') = n /\ stack'[n] = g
        /\ \A j \in 1 .. n - 1 : stack'[j] = stack[j]
    <2>1. n \in 1 .. Len(stack) /\ stack' = Append(SubSeq(stack, 1, n - 1), g)
      BY <1>2 DEF Below
    <2> HIDE DEF n
    <2> QED
      BY <1>2, <2>1, Replaced
  <1>4. Len(stack') = n /\ stack'[n] = g
    BY <1>3
  <1>5. StackTyped(stack', Len(heap))
    BY <1>2, StackTypedRebuilt DEF Below
  <1>6. Typed'
    BY <1>1, <1>5 DEF Typed, RestTyped
  <1>7. FramesOK(stack')
    <2>1. n \in 1 .. Len(stack) /\ Top = stack[n]
      BY <1>2 DEF Top
    <2>2. FramesOK(stack) /\ Len(stack) \in Nat
      BY <1>2 DEF MInv
    <2>3. stack'[n].kind = stack[n].kind /\ stack'[n].of = stack[n].of
      BY <1>3, <2>1
    <2>4. \A j \in 1 .. n - 1 : stack'[j] = stack[j]
      BY <1>3
    <2>5. Len(stack') = n
      BY <1>3
    <2> HIDE DEF n
    <2>6. \A i \in 1 .. n : Stands(stack', i)
      BY <2>1, <2>2, <2>3, <2>4, StillStands
    <2> QED
      BY <2>5, <2>6 DEF FramesOK
  <1>8. Extends(heap, heap')
    BY <1>2 DEF Extends
  <1>9. ASSUME stack' # <<>>, stack'[1].of = Imperative
        PROVE  /\ stack # <<>> /\ stack'[1] = stack[1] /\ Len(stack) > 1 /\ Len(stack') > 1
               /\ stack'[2].kind = "workflow" /\ stack'[2].bindings = stack[2].bindings
    <2>1. n > 1
      BY <1>2, <1>4, <1>9 DEF Top
    <2>2. stack'[1] = stack[1] /\ stack[2].kind = "workflow"
      BY <1>2, <1>3, <1>9, <2>1 DEF MInv, AddingOK
    <2>3. stack'[2].kind = stack[2].kind /\ stack'[2].bindings = stack[2].bindings
      <3>1. CASE n = 2
        BY <1>4, <3>1 DEF Top
      <3>2. CASE n > 2
        <4>1. 2 \in 1 .. n - 1
          BY <1>2, <3>2
        <4> QED
          BY <1>3, <4>1
      <3>3. n = 2 \/ n > 2
        <4>1. n \in Nat
          BY <1>2
        <4> HIDE DEF n
        <4> QED
          BY <2>1, <4>1
      <3> QED
        BY <3>1, <3>2, <3>3
    <2> QED
      BY <1>4, <2>1, <2>2, <2>3
  <1> QED
    BY <1>6, <1>7, <1>8, <1>9, AddingKept

(* Nothing runs after the step.                                            *)
LEMMA EmptyKeeps ==
    ASSUME Typed', stack' = <<>>,
           Ordered(nodes'[Imperative], heap', failure_node'[Imperative])
    PROVE  MInv'
  <1>1. TypeOK'
    BY TypedIsTypeOK, PTL
  <1>2. FramesOK(stack') /\ AddingOK'
    BY DEF FramesOK, AddingOK
  <1> QED
    BY <1>1, <1>2 DEF MInv

(* One step each.                                                          *)
LEMMA StartKeeps ==
    ASSUME MInv, stack = <<>>, NEW w \in Workflows, NEW prefix \in Seq({"d", "f"}),
           start_compile(w, <<>>, prefix, {}),
           UNCHANGED <<on_failure, script, nodes, failure_node, inputs, _unbound_inputs,
                       raised, raises>>
    PROVE  MInv'
  <1> DEFINE f == NewFrame("workflow", w, prefix)
             g == [f EXCEPT !.bindings = {}]
  <1>1. Typed /\ Len(heap) \in Nat
    BY TypedIsTypeOK, TypedIsTypeOK DEF MInv, Typed, HeapTyped
  <1>2. StackTyped(<<>>, Len(heap)) /\ {} \in SUBSET (1 .. Len(heap))
    BY DEF StackTyped
  <1>3. Typed'
    BY <1>1, <1>2, StartCompileTyped
  <1>4. FrameTyped(f, Len(heap)) /\ f.kind = "workflow" /\ f.of = w
    BY <1>1, NewFrameTyped DEF Owners, NewFrame
  <1>5. g.kind = "workflow" /\ g.of = w
    BY <1>1, <1>2, <1>4, FrameUpdates DEF Same
  <1>6. stack' = Append(<<>>, g) /\ heap' = heap
    BY DEF start_compile
  <1> HIDE DEF f, g
  <1>7. Len(stack') = 1 /\ stack'[1] = g
    BY <1>6
  <1>8. w # Imperative
    BY <1>1, ImperativeFacts
  <1>9. FramesOK(stack')
    BY <1>5, <1>7, <1>8 DEF FramesOK, Stands, AddKinds
  <1>10. Extends(heap, heap')
    BY <1>1, <1>6 DEF Extends
  <1> QED
    BY <1>3, <1>5, <1>7, <1>8, <1>9, <1>10, AddingKept

LEMMA CallKeeps ==
    ASSUME MInv, stack # <<>>, NEW e, NEW f, FrameTyped(f, Len(heap)), Same(Top, f),
           f.bindings = Top.bindings, NEW b \in SUBSET (1 .. Len(heap)), call(e, f, b),
           Top.of = Imperative => f.called /\ b \subseteq Range(f.nodes),
           UNCHANGED <<on_failure, script, nodes, failure_node, inputs, _unbound_inputs,
                       raised, raises>>
    PROVE  MInv'
  <1>1. Typed
    BY TypedIsTypeOK DEF MInv
  <1>2. Typed'
    BY <1>1, CallTyped
  <1>3. /\ Len(stack) \in Nat /\ Len(stack) \in 1 .. Len(stack) /\ Len(heap) \in Nat
        /\ f.prefix \in Seq({"d", "f"})
    BY <1>1, TopFacts DEF FrameTyped, Frame
  <1> DEFINE m == Len(stack)
  <1>4. Top = stack[m] /\ Below = SubSeq(stack, 1, m - 1)
    BY DEF Top, Below
  <1>5. ASSUME NEW w \in Workflows, start_compile(w, Append(Below, f), f.prefix, b)
        PROVE  MInv'
    <2> DEFINE h0 == NewFrame("workflow", w, f.prefix)
               h == [h0 EXCEPT !.bindings = b]
    <2>1. FrameTyped(h0, Len(heap)) /\ h0.kind = "workflow" /\ h0.of = w
      BY <1>3, NewFrameTyped DEF Owners, NewFrame
    <2>2. h.kind = "workflow" /\ h.of = w /\ h.bindings = b
      BY <1>3, <2>1, FrameUpdates DEF Same
    <2>3. heap' = heap /\ stack' = Append(Append(Below, f), h)
      BY <1>5 DEF start_compile
    <2> HIDE DEF h, h0
    <2>4. Pushed(m, f, h)
      BY <1>4, <2>3 DEF Pushed
    <2>5. w # Imperative /\ h.kind \notin AddKinds
      BY <1>1, <2>2, ImperativeFacts DEF AddKinds
    <2> HIDE DEF m
    <2>6. m \in 1 .. Len(stack)
      BY <1>3 DEF m
    <2> QED
      BY <1>2, <1>4, <2>2, <2>3, <2>4, <2>5, <2>6, PushKeeps
  <1>6. CASE create_and_link_node(Below, f, b) /\ UNCHANGED compiled
    <2>1. NodeMade(m, f, b, {})
      BY <1>4, <1>6 DEF NodeMade, create_and_link_node
    <2>2. m \in 1 .. Len(stack) /\ {} \in SUBSET (1 .. Len(heap))
      BY <1>3
    <2> HIDE DEF m
    <2> QED
      BY <1>2, <1>4, <2>1, <2>2, NodeMadeKeeps
  <1> QED
    BY <1>5, <1>6 DEF call

LEMMA LowerOfLower ==
    ASSUME NEW S, NEW st \in Seq(S), NEW m \in 0 .. Len(st), NEW k \in 0 .. m
    PROVE  SubSeq(SubSeq(st, 1, m), 1, k) = SubSeq(st, 1, k)
  <1> DEFINE l == SubSeq(st, 1, m)
  <1>1. /\ l \in Seq(S) /\ Len(l) = m /\ \A j \in 1 .. m : l[j] = st[j]
    BY Rebuilt
  <1>2. k \in 0 .. Len(l) /\ k \in 0 .. Len(st) /\ k \in Nat /\ m \in Nat
    BY <1>1
  <1> HIDE DEF l
  <1>3. /\ SubSeq(l, 1, k) \in Seq(S) /\ Len(SubSeq(l, 1, k)) = k
        /\ \A j \in 1 .. k : SubSeq(l, 1, k)[j] = l[j]
    BY <1>1, <1>2, Rebuilt
  <1>4. /\ SubSeq(st, 1, k) \in Seq(S) /\ Len(SubSeq(st, 1, k)) = k
        /\ \A j \in 1 .. k : SubSeq(st, 1, k)[j] = st[j]
    BY <1>2, Rebuilt
  <1>5. \A j \in 1 .. k : SubSeq(l, 1, k)[j] = SubSeq(st, 1, k)[j]
    BY <1>1, <1>2, <1>3, <1>4
  <1>6. SubSeq(l, 1, k) = SubSeq(st, 1, k)
    BY <1>3, <1>4, <1>5, SeqEqual
  <1> QED
    BY <1>6 DEF l

(* The frame at m is done: the node of the call that needed it is made.    *)
LEMMA FinishIsNodeMade ==
    ASSUME Typed, NEW m \in 1 .. Len(stack), NEW w, Finish(w, stack[m], SubSeq(stack, 1, m - 1))
    PROVE  /\ Len(stack) \in Nat /\ m \in Nat
           /\ nodes' = [nodes EXCEPT ![w] = stack[m].nodes]
           /\ m = 1 => stack' = <<>> /\ heap' = heap
           /\ m > 1 => m - 1 \in 1 .. Len(stack)
                       /\ NodeMade(m - 1, stack[m - 1], stack[m].bindings, {})
  <1> DEFINE fs == SubSeq(stack, 1, m - 1)
             k == m - 1
  <1>1. stack \in Seq(Frame) /\ Len(stack) \in Nat /\ m \in Nat /\ k \in 0 .. Len(stack)
    BY DEF Typed, StackTyped
  <1>2. fs = SubSeq(stack, 1, k)
    OBVIOUS
  <1>3. fs \in Seq(Frame) /\ Len(fs) = k /\ \A j \in 1 .. k : fs[j] = stack[j]
    <2> HIDE DEF k, fs
    <2> QED
      BY <1>1, <1>2, Rebuilt
  <1>4. nodes' = [nodes EXCEPT ![w] = stack[m].nodes]
    BY DEF Finish
  <1>5. ASSUME m = 1 PROVE stack' = <<>> /\ heap' = heap
    <2>1. fs = <<>>
      BY <1>3, <1>5
    <2> QED
      BY <2>1 DEF Finish
  <1>6. ASSUME m > 1
        PROVE  m - 1 \in 1 .. Len(stack)
               /\ NodeMade(m - 1, stack[m - 1], stack[m].bindings, {})
    <2>1. k \in 1 .. Len(stack) /\ k - 1 \in 0 .. k /\ fs # <<>>
      BY <1>1, <1>3, <1>6
    <2>2. /\ heap' = Append(heap, Node(fs[Len(fs)], stack[m].bindings, {}))
          /\ stack' = Append(SubSeq(fs, 1, Len(fs) - 1), add_node(fs[Len(fs)]))
      BY <2>1 DEF Finish, create_and_link_node
    <2>3. fs[Len(fs)] = stack[k]
      BY <1>3, <2>1
    <2>4. SubSeq(fs, 1, k - 1) = SubSeq(stack, 1, k - 1)
      <3> DEFINE l == k - 1
      <3>1. l \in 0 .. k
        BY <2>1
      <3> HIDE DEF l, k, fs
      <3>2. SubSeq(fs, 1, l) = SubSeq(stack, 1, l)
        BY <1>1, <1>2, <3>1, LowerOfLower
      <3> QED
        BY <3>2 DEF l
    <2> HIDE DEF fs
    <2>5. NodeMade(k, stack[k], stack[m].bindings, {})
      BY <1>3, <2>2, <2>3, <2>4 DEF NodeMade
    <2> QED
      BY <2>1, <2>5
  <1> QED
    BY <1>1, <1>4, <1>5, <1>6

LEMMA FinishKeeps ==
    ASSUME MInv, NEW m \in 1 .. Len(stack), NEW w \in Workflows, stack[m].kind = "workflow",
           Finish(w, stack[m], SubSeq(stack, 1, m - 1)),
           NEW t \in SUBSET (1 .. Len(heap)), failure_node' = [failure_node EXCEPT ![w] = t],
           UNCHANGED <<on_failure, script, compiled, inputs, _unbound_inputs, raised, raises>>
    PROVE  MInv'
  <1>1. Typed
    BY TypedIsTypeOK DEF MInv
  <1>2. w \in Owners /\ w # Imperative /\ Imperative \in Owners
    BY <1>1, ImperativeFacts DEF Owners
  <1>3. Typed'
    BY <1>1, <1>2, FinishTyped
  <1>4. /\ Len(stack) \in Nat /\ m \in Nat
        /\ nodes' = [nodes EXCEPT ![w] = stack[m].nodes]
        /\ m = 1 => stack' = <<>> /\ heap' = heap
        /\ m > 1 => m - 1 \in 1 .. Len(stack)
                    /\ NodeMade(m - 1, stack[m - 1], stack[m].bindings, {})
    BY <1>1, FinishIsNodeMade
  <1>5. /\ nodes'[Imperative] = nodes[Imperative]
        /\ failure_node'[Imperative] = failure_node[Imperative]
    BY <1>1, <1>2, <1>4 DEF Typed, GraphsTyped
  <1>6. CASE m = 1
    <2>1. Ordered(nodes'[Imperative], heap', failure_node'[Imperative])
      BY <1>4, <1>5, <1>6 DEF MInv
    <2> QED
      BY <1>3, <1>4, <1>6, <2>1, EmptyKeeps
  <1>7. CASE m > 1
    <2> DEFINE k == m - 1
               g == stack[k]
               b == stack[m].bindings
    <2>1. k \in 1 .. Len(stack) /\ NodeMade(k, g, b, {}) /\ k \in Nat /\ k + 1 = m
      BY <1>4, <1>7
    <2>2. /\ FrameTyped(g, Len(heap)) /\ b \in SUBSET (1 .. Len(heap))
          /\ {} \in SUBSET (1 .. Len(heap))
      BY <1>1, <1>4, <2>1 DEF Typed, StackTyped, FrameTyped
    <2>3. ASSUME k = 1, stack[1].of = Imperative PROVE g.called /\ b \subseteq Range(g.nodes)
      <3>1. m = 2 /\ Len(stack) > 1 /\ stack # <<>>
        BY <1>4, <2>1, <2>3
      <3>2. /\ g = stack[1] /\ b = stack[2].bindings /\ stack[1] \in Frame
        BY <1>1, <2>1, <2>3, <3>1 DEF Typed, StackTyped, FrameTyped
      <3>3. stack[1].called \in BOOLEAN
        BY <3>2 DEF Frame
      <3> QED
        BY <2>3, <3>1, <3>2, <3>3 DEF MInv, AddingOK
    <2>4. Same(stack[k], g) /\ g.bindings = stack[k].bindings
      BY DEF Same
    <2> HIDE DEF k, g, b
    <2> QED
      BY <1>3, <1>5, <2>1, <2>2, <2>3, <2>4, NodeMadeKeeps
  <1> QED
    BY <1>4, <1>6, <1>7

LEMMA UnwindKeeps ==
    ASSUME MInv, stack # <<>>, Unwind, UNCHANGED <<on_failure, script, inputs, _unbound_inputs>>
    PROVE  MInv'
  <1>1. Typed
    BY TypedIsTypeOK DEF MInv
  <1>2. /\ Len(stack) \in Nat /\ Len(stack) >= 1 /\ Len(heap) \in Nat
        /\ \A i \in 1 .. Len(stack) : FrameTyped(stack[i], Len(heap)) /\ stack[i].of \in Owners
        /\ stack \in Seq(Frame)
    BY <1>1, TopFacts DEF Typed, StackTyped, FrameTyped, Frame
  <1>3. /\ stack' = <<>> /\ heap' = heap /\ compiled' = compiled
        /\ raised' = raised \cup {stack[i].of : i \in DOMAIN stack}
        /\ raises < MaxRaises /\ raises' = raises + 1
        /\ nodes' = IF stack[1].of = Imperative
                    THEN [nodes EXCEPT ![Imperative] = stack[1].nodes] ELSE nodes
        /\ failure_node' = IF AtTop("failure") /\ Top.called
                           THEN [failure_node EXCEPT ![Top.of] = Range(Top.nodes)]
                           ELSE failure_node
    BY DEF Unwind
  <1>4. AtTop("failure") => Top.of # Imperative /\ Top.of \in Owners
    BY <1>2 DEF MInv, FramesOK, Stands, AtTop, Top, AddKinds
  <1>5. /\ Imperative \in Owners /\ nodes \in [Owners -> Seq(Nat)]
        /\ failure_node \in [Owners -> SUBSET Nat]
    BY <1>1, ImperativeFacts DEF Typed, GraphsTyped
  <1>6. failure_node'[Imperative] = failure_node[Imperative]
    BY <1>3, <1>4, <1>5
  <1>7. nodes'[Imperative] = IF stack[1].of = Imperative THEN stack[1].nodes ELSE nodes[Imperative]
    BY <1>3, <1>5
  <1>8. Ordered(nodes'[Imperative], heap', failure_node'[Imperative])
    BY <1>3, <1>6, <1>7 DEF MInv, AddingOK
  <1>9. GraphsTyped(nodes', failure_node, Len(heap))
    <2>1. CASE stack[1].of = Imperative
      <3>1. stack[1].nodes \in Seq(Nat) /\ Range(stack[1].nodes) \subseteq 1 .. Len(heap)
        BY <1>1, <1>2, ImperativeFacts
      <3>2. failure_node[Imperative] \in SUBSET (1 .. Len(heap))
            /\ failure_node = [failure_node EXCEPT ![Imperative] = failure_node[Imperative]]
        BY <1>1, <1>5, ImperativeFacts
      <3>3. nodes' = [nodes EXCEPT ![Imperative] = stack[1].nodes]
        BY <1>3, <2>1
      <3> DEFINE t == failure_node[Imperative]
                 ns == stack[1].nodes
      <3>4. /\ t \in SUBSET (1 .. Len(heap)) /\ failure_node = [failure_node EXCEPT ![Imperative] = t]
            /\ ns \in Seq(Nat) /\ Range(ns) \subseteq 1 .. Len(heap)
            /\ nodes' = [nodes EXCEPT ![Imperative] = ns]
        BY <3>1, <3>2, <3>3
      <3>5. GraphsTyped(nodes, failure_node, Len(heap))
        BY <1>1 DEF Typed
      <3> HIDE DEF t, ns
      <3>6. GraphsTyped([nodes EXCEPT ![Imperative] = ns], [failure_node EXCEPT ![Imperative] = t],
                        Len(heap))
        BY <1>2, <1>5, <3>4, <3>5, GraphsTypedExcept
      <3> QED
        BY <3>4, <3>6
    <2>2. CASE stack[1].of # Imperative
      BY <1>1, <1>3, <2>2 DEF Typed
    <2> QED
      BY <2>1, <2>2
  <1>10. GraphsTyped(nodes', failure_node', Len(heap))
    <2>1. CASE AtTop("failure") /\ Top.called
      <3> DEFINE w == Top.of
                 t == Range(Top.nodes)
                 nd == nodes'
      <3>1. w \in Owners /\ t \in SUBSET (1 .. Len(heap))
        BY <1>1, <1>4, <2>1, TopFacts DEF FrameTyped
      <3>2. nd \in [Owners -> Seq(Nat)] /\ GraphsTyped(nd, failure_node, Len(heap))
        BY <1>9 DEF GraphsTyped
      <3>3. nd[w] \in Seq(Nat) /\ Range(nd[w]) \subseteq 1 .. Len(heap)
        BY <3>1, <3>2 DEF GraphsTyped
      <3>4. nd = [nd EXCEPT ![w] = nd[w]] /\ failure_node' = [failure_node EXCEPT ![w] = t]
        BY <1>3, <2>1, <3>2
      <3> HIDE DEF w, t, nd
      <3>5. GraphsTyped([nd EXCEPT ![w] = nd[w]], [failure_node EXCEPT ![w] = t], Len(heap))
        BY <1>2, <3>1, <3>2, <3>3, GraphsTypedExcept
      <3>6. GraphsTyped(nd, failure_node', Len(heap))
        BY <3>4, <3>5
      <3> QED
        BY <3>6 DEF nd
    <2>2. CASE ~ (AtTop("failure") /\ Top.called)
      BY <1>3, <1>9, <2>2
    <2> QED
      BY <2>1, <2>2
  <1>11. RestTyped'
    <2>1. raised' \subseteq Owners
      BY <1>1, <1>2, <1>3 DEF Typed, RestTyped
    <2>2. raises' \in 0 .. MaxRaises
      BY <1>1, <1>3, CompilationAssumption DEF Typed, RestTyped
    <2> QED
      BY <1>1, <1>3, <2>1, <2>2 DEF Typed, RestTyped
  <1>12. StackTyped(stack', Len(heap))
    BY <1>3 DEF StackTyped
  <1>13. Typed'
    BY <1>1, <1>3, <1>10, <1>11, <1>12 DEF Typed
  <1> QED
    BY <1>3, <1>8, <1>13, EmptyKeeps

(* What is at hand where code of the user runs: the frame is not one that  *)
(* adds to the imperative workflow.                                        *)
LEMMA InBodyFacts ==
    ASSUME MInv, InBody
    PROVE  /\ Typed /\ stack # <<>> /\ Len(stack) \in 1 .. Len(stack) /\ Len(heap) \in Nat
           /\ Top = stack[Len(stack)] /\ FrameTyped(Top, Len(heap)) /\ Top \in Frame
           /\ Top.kind \in {"workflow", "section"} /\ Top.of \in Workflows /\ Top.of # Imperative
           /\ Visible(Len(stack)) \subseteq 1 .. Len(heap)
  <1>1. Typed /\ stack # <<>> /\ Top.kind \in {"workflow", "section"}
    BY TypedIsTypeOK DEF MInv, InBody, AtTop
  <1>2. /\ Len(stack) \in 1 .. Len(stack) /\ Top = stack[Len(stack)] /\ FrameTyped(Top, Len(heap))
        /\ Len(heap) \in Nat /\ Len(stack) \in 0 .. Len(stack)
    BY <1>1, TopFacts DEF Top
  <1>3. Top \in Frame /\ Top.of \in Owners
    BY <1>2 DEF FrameTyped, Frame
  <1>4. Top.of # Imperative
    BY <1>1, <1>2 DEF MInv, FramesOK, Stands, AddKinds
  <1>5. Visible(Len(stack)) \subseteq 1 .. Len(heap)
    BY <1>1, <1>2, VisibleTyped
  <1> QED
    BY <1>1, <1>2, <1>3, <1>4, <1>5 DEF Owners

LEMMA CompileStep ==
    ASSUME MInv, NEW w \in Workflows, compile(w) \/ compile_into_workflow(w)
    PROVE  MInv'
  <1>1. <<>> \in Seq({"d", "f"}) /\ <<"d">> \in Seq({"d", "f"})
    OBVIOUS
  <1>2. CASE compile(w)
    BY <1>1, <1>2, StartKeeps DEF compile
  <1>3. CASE compile_into_workflow(w)
    BY <1>1, <1>3, StartKeeps DEF compile_into_workflow
  <1> QED
    BY <1>2, <1>3

LEMMA CallEntityStep ==
    ASSUME MInv, NEW e, CallEntity(e)
    PROVE  MInv'
  <1>1. InBody /\ call(e, Top, Visible(Len(stack)))
    BY DEF CallEntity
  <1> DEFINE f == Top
             b == Visible(Len(stack))
  <1>2. /\ stack # <<>> /\ FrameTyped(f, Len(heap)) /\ Top.of # Imperative
        /\ b \in SUBSET (1 .. Len(heap)) /\ call(e, f, b) /\ Same(Top, f) /\ f.bindings = Top.bindings
    BY <1>1, InBodyFacts DEF Same
  <1> HIDE DEF f, b
  <1> QED
    BY <1>2, CallKeeps DEF CallEntity

LEMMA CallHandlerStep ==
    ASSUME MInv, CallHandler
    PROVE  MInv'
  <1> DEFINE f == [Top EXCEPT !.called = TRUE]
             b == {}
             e == on_failure[Top.of]
  <1>1. Typed /\ stack # <<>> /\ Top.kind = "failure" /\ call(e, f, b)
    BY TypedIsTypeOK DEF MInv, CallHandler, AtTop
  <1>2. FrameTyped(Top, Len(heap)) /\ Len(heap) \in Nat /\ Len(stack) \in 1 .. Len(stack)
    BY <1>1, TopFacts
  <1>3. FrameTyped(f, Len(heap)) /\ Same(Top, f) /\ f.bindings = Top.bindings
    BY <1>2, FrameUpdates
  <1>4. Top.of # Imperative
    BY <1>1, <1>2 DEF MInv, FramesOK, Stands, AddKinds, Top
  <1>5. b \in SUBSET (1 .. Len(heap))
    OBVIOUS
  <1> HIDE DEF f, b, e
  <1> QED
    BY <1>1, <1>3, <1>4, <1>5, CallKeeps DEF CallHandler

LEMMA CreateNodeStep ==
    ASSUME MInv, NEW e, CreateNode(e)
    PROVE  MInv'
  <1> DEFINE f == [Top EXCEPT !.called = TRUE]
             b == Top.bindings
  <1>1. Typed /\ stack # <<>> /\ Top.kind \in AddKinds /\ ~ Top.called /\ call(e, f, b)
    BY TypedIsTypeOK DEF MInv, CreateNode, AtTop, AddKinds
  <1>2. FrameTyped(Top, Len(heap)) /\ Len(heap) \in Nat /\ Len(stack) \in 1 .. Len(stack)
    BY <1>1, TopFacts
  <1>3. FrameTyped(f, Len(heap)) /\ Same(Top, f) /\ f.bindings = Top.bindings /\ f.called
    BY <1>2, FrameUpdates
  <1>4. Len(stack) = 1 /\ Top = stack[1] /\ stack[1].of = Imperative
    BY <1>1, <1>2 DEF MInv, FramesOK, Stands, Top
  <1>5. b \subseteq Range(f.nodes)
    BY <1>1, <1>3, <1>4 DEF MInv, AddingOK, Same
  <1>6. b \in SUBSET (1 .. Len(heap))
    BY <1>2 DEF FrameTyped
  <1> HIDE DEF f, b
  <1> QED
    BY <1>1, <1>3, <1>5, <1>6, CallKeeps DEF CreateNode

LEMMA ReturnFunctionStep ==
    ASSUME MInv, ReturnFunction
    PROVE  MInv'
  <1>1. Typed
    BY TypedIsTypeOK DEF MInv
  <1>2. PICK i \in DOMAIN stack :
            /\ ReturnsFrom(i)
            /\ IF on_failure[stack[i].of] = None
               THEN Finish(stack[i].of, stack[i], SubSeq(stack, 1, i - 1))
               ELSE /\ stack' = SubSeq(stack, 1, i - 1)
                               \o <<[stack[i] EXCEPT !.stage = "outputs"],
                                    NewFrame("failure", stack[i].of,
                                             failure_prefix(stack[i].prefix))>>
                    /\ UNCHANGED <<heap, nodes>>
    BY DEF ReturnFunction
  <1>3. UNCHANGED <<on_failure, script, compiled, failure_node, inputs, _unbound_inputs, raised, raises>>
    BY DEF ReturnFunction
  <1>4. /\ i \in 1 .. Len(stack) /\ stack \in Seq(Frame) /\ Len(heap) \in Nat
        /\ StackTyped(stack, Len(heap)) /\ FrameTyped(stack[i], Len(heap)) /\ stack[i] \in Frame
    BY <1>1 DEF Typed, StackTyped, FrameTyped, HeapTyped
  <1>5. stack[i].kind = "workflow" /\ stack[i].of \in Workflows /\ stack[i].of # Imperative
    BY <1>2, <1>4 DEF ReturnsFrom, MInv, FramesOK, Stands, AddKinds, Frame, Owners
  <1>6. CASE on_failure[stack[i].of] = None
    <2> DEFINE w == stack[i].of
               t == failure_node[w]
    <2>1. t \in SUBSET (1 .. Len(heap)) /\ failure_node' = [failure_node EXCEPT ![w] = t]
      BY <1>1, <1>3, <1>5 DEF Typed, GraphsTyped, Owners
    <2>2. w \in Workflows /\ Finish(w, stack[i], SubSeq(stack, 1, i - 1))
      BY <1>2, <1>5, <1>6
    <2> HIDE DEF w, t
    <2> QED
      BY <1>3, <1>4, <1>5, <2>1, <2>2, FinishKeeps
  <1>7. CASE on_failure[stack[i].of] # None
    <2> DEFINE g == [stack[i] EXCEPT !.stage = "outputs"]
               p == failure_prefix(stack[i].prefix)
               h == NewFrame("failure", stack[i].of, p)
               fs == SubSeq(stack, 1, i - 1)
    <2>1. FrameTyped(g, Len(heap)) /\ Same(stack[i], g) /\ g.bindings = stack[i].bindings
      BY <1>4, FrameUpdates
    <2>2. p \in Seq({"d", "f"}) /\ stack[i].of \in Owners
      BY <1>4 DEF Frame, failure_prefix
    <2>3. h.kind = "failure" /\ h.of = stack[i].of /\ FrameTyped(h, Len(heap))
      <3>1. h.kind = "failure" /\ h.of = stack[i].of
        BY DEF NewFrame
      <3> HIDE DEF p
      <3> QED
        BY <1>4, <2>2, <3>1, NewFrameTyped
    <2>4. stack' = fs \o <<g, h>>
      BY <1>2, <1>7
    <2>5. fs \in Seq(Frame) /\ g \in Frame /\ h \in Frame
      <3>1. i - 1 \in 0 .. Len(stack)
        BY <1>4
      <3> HIDE DEF g, h
      <3> QED
        BY <1>4, <2>1, <2>3, <3>1, Rebuilt DEF FrameTyped
    <2> HIDE DEF g, h, p, fs
    <2>6. fs \o <<g, h>> = Append(Append(fs, g), h)
      BY <2>5
    <2>7. Pushed(i, g, h) /\ heap' = heap /\ nodes' = nodes
      BY <1>2, <1>7, <2>4, <2>6 DEF Pushed, fs
    <2>8. Typed'
      BY <1>1, <1>3, <1>4, <2>1, <2>3, <2>7, PushFacts DEF Typed, RestTyped
    <2>9. h.kind \notin AddKinds /\ h.of # Imperative /\ g.kind = "workflow" /\ h.of = g.of
          /\ h.kind # "section"
      BY <1>5, <2>1, <2>3 DEF AddKinds, Same
    <2>10. ~ (i = 1 /\ stack[1].of = Imperative)
      BY <1>5
    <2> QED
      BY <1>3, <1>4, <2>1, <2>7, <2>8, <2>9, <2>10, PushKeeps
  <1> QED
    BY <1>6, <1>7

LEMMA CompileEndsStep ==
    ASSUME MInv, CompileEnds
    PROVE  MInv'
  <1>1. Typed /\ stack # <<>> /\ Top.kind = "failure"
    BY TypedIsTypeOK DEF MInv, CompileEnds, AtTop
  <1>2. /\ Len(stack) \in 1 .. Len(stack) /\ Top = stack[Len(stack)] /\ FrameTyped(Top, Len(heap))
        /\ stack \in Seq(Frame)
    BY <1>1, TopFacts DEF Top
  <1> DEFINE m == Len(stack) - 1
             w == stack[m].of
             t == Range(Top.nodes)
  <1>3. m \in 1 .. Len(stack) /\ stack[m].kind = "workflow" /\ Len(stack) - 2 = m - 1
    BY <1>1, <1>2 DEF MInv, FramesOK, Stands
  <1>4. w \in Workflows /\ Top.of = w
    <2>1. Top.of = w /\ stack[m].of # Imperative
      BY <1>1, <1>2, <1>3 DEF MInv, FramesOK, Stands, AddKinds
    <2>2. stack[m] \in Frame
      BY <1>2, <1>3
    <2> QED
      BY <2>1, <2>2 DEF Frame, Owners
  <1>5. t \in SUBSET (1 .. Len(heap))
    BY <1>2 DEF FrameTyped
  <1>6. /\ Finish(w, stack[m], SubSeq(stack, 1, m - 1))
        /\ failure_node' = [failure_node EXCEPT ![Top.of] = t]
    BY <1>3 DEF CompileEnds
  <1> HIDE DEF m, w, t
  <1> QED
    BY <1>3, <1>4, <1>5, <1>6, FinishKeeps DEF CompileEnds

LEMMA RaiseStep ==
    ASSUME MInv, Raise
    PROVE  MInv'
  BY UnwindKeeps DEF Raise

LEMMA ConditionalStep ==
    ASSUME MInv, Conditional
    PROVE  MInv'
  <1>1. /\ Typed /\ Len(stack) \in 1 .. Len(stack) /\ Len(heap) \in Nat /\ stack # <<>>
        /\ Top = stack[Len(stack)] /\ FrameTyped(Top, Len(heap)) /\ Top \in Frame
        /\ Top.kind \in {"workflow", "section"} /\ Top.of \in Workflows /\ Top.of # Imperative
    BY InBodyFacts DEF Conditional
  <1> DEFINE m == Len(stack)
             h == NewFrame("section", Top.of, Top.prefix)
  <1>2. FrameTyped(h, Len(heap)) /\ h.kind = "section" /\ h.of = Top.of
    <2>1. Top.of \in Owners /\ Top.prefix \in Seq({"d", "f"})
      BY <1>1 DEF Frame
    <2>2. h.kind = "section" /\ h.of = Top.of
      BY DEF NewFrame
    <2> QED
      BY <1>1, <2>1, <2>2, NewFrameTyped
  <1>3. stack = Append(Below, Top)
    <2>1. /\ Len(Append(Below, Top)) = m /\ Append(Below, Top)[m] = Top
          /\ \A j \in 1 .. m - 1 : Append(Below, Top)[j] = stack[j]
          /\ Append(Below, Top) \in Seq(Frame) /\ stack \in Seq(Frame)
      BY <1>1, TopFacts, Replaced DEF Below
    <2>2. \A j \in 1 .. m : Append(Below, Top)[j] = stack[j]
      BY <1>1, <2>1
    <2> QED
      BY <2>1, <2>2, SeqEqual
  <1> HIDE DEF h
  <1>4. Pushed(m, Top, h)
    <2>1. stack' = Append(stack, h)
      BY DEF Conditional, h
    <2>2. Append(stack, h) = Append(Append(Below, Top), h)
      BY <1>3
    <2> QED
      BY <2>1, <2>2 DEF Pushed, Below
  <1>5. m \in 1 .. Len(stack) /\ Same(stack[m], Top) /\ Top.bindings = stack[m].bindings
        /\ h.kind \notin AddKinds /\ h.kind # "failure"
    BY <1>1, <1>2 DEF Same, AddKinds
  <1> DEFINE g == Top
  <1>6. FrameTyped(g, Len(heap)) /\ Pushed(m, g, h) /\ Same(stack[m], g) /\ g.bindings = stack[m].bindings
        /\ g.kind \in {"workflow", "section"} /\ h.of # Imperative
        /\ ~ (m = 1 /\ stack[1].of = Imperative)
    BY <1>1, <1>2, <1>4, <1>5
  <1> HIDE DEF g, m
  <1>7. Typed'
    <2>1. StackTyped(stack', Len(heap))
      BY <1>1, <1>2, <1>5, <1>6, PushFacts
    <2> QED
      BY <1>1, <2>1 DEF Typed, RestTyped, Conditional
  <1> QED
    BY <1>2, <1>5, <1>6, <1>7, PushKeeps DEF Conditional

(* The frames of a section and of what is around it.                       *)
LEMMA SectionFacts ==
    ASSUME MInv, AtTop("section")
    PROVE  /\ Typed /\ stack # <<>> /\ Len(stack) \in Nat /\ Len(stack) > 1 /\ Len(heap) \in Nat
           /\ Top = stack[Len(stack)] /\ FrameTyped(Top, Len(heap)) /\ Top \in Frame
           /\ Top.kind = "section" /\ Top.of # Imperative
           /\ stack[Len(stack) - 1].kind \in {"workflow", "section"}
           /\ FrameTyped(stack[Len(stack) - 1], Len(heap))
           /\ stack[Len(stack) - 1].of # Imperative
           /\ Visible(Len(Below)) \subseteq 1 .. Len(heap)
  <1>1. Typed /\ stack # <<>> /\ Top.kind = "section" /\ FramesOK(stack)
    BY TypedIsTypeOK DEF MInv, AtTop
  <1>2. /\ Len(stack) \in Nat /\ Len(stack) >= 1 /\ Len(heap) \in Nat
        /\ Top = stack[Len(stack)] /\ FrameTyped(Top, Len(heap)) /\ Top \in Frame
        /\ Len(Below) = Len(stack) - 1
    BY <1>1, TopFacts DEF Top, FrameTyped
  <1> DEFINE n == Len(stack)
  <1>3. n > 1 /\ stack[n - 1].kind \in {"workflow", "section"} /\ Top.of # Imperative
    BY <1>1, <1>2 DEF FramesOK, Stands, AddKinds
  <1>4. n - 1 \in 1 .. n
    BY <1>2, <1>3
  <1>5. FrameTyped(stack[n - 1], Len(heap)) /\ stack[n - 1].of # Imperative
    BY <1>1, <1>3, <1>4 DEF FramesOK, Stands, AddKinds, Typed, StackTyped
  <1>6. Visible(Len(Below)) \subseteq 1 .. Len(heap)
    BY <1>1, <1>2, <1>4, VisibleTyped
  <1> QED
    BY <1>1, <1>2, <1>3, <1>5, <1>6

LEMMA StartBranchStep ==
    ASSUME MInv, NEW l, start_branch(l)
    PROVE  MInv'
  <1> DEFINE c == IF l THEN Top.conditions ELSE Top.conditions \cup Visible(Len(Below))
             k == IF l THEN "last" ELSE "open"
  <1>1. /\ stack # <<>> /\ Len(heap) \in Nat /\ FrameTyped(Top, Len(heap)) /\ Top \in Frame
        /\ Top.of # Imperative /\ c \subseteq 1 .. Len(heap) /\ k \in {"last", "open"}
    BY SectionFacts DEF start_branch, FrameTyped
  <1>2. c \in SUBSET Nat /\ Len(Top.nodes) \in Nat
    BY <1>1 DEF Frame
  <1>3. stack' = Append(Below, [Top EXCEPT !.conditions = c, !.case = k, !.mark = Len(Top.nodes)])
    BY DEF start_branch
  <1> HIDE DEF c, k
  <1>4. ASSUME NEW g, g = [Top EXCEPT !.conditions = c, !.case = k, !.mark = Len(Top.nodes)]
        PROVE  FrameTyped(g, Len(heap)) /\ g.kind = Top.kind /\ g.of = Top.of
               /\ g.bindings = Top.bindings
    <2>1. /\ g \in Frame /\ g.kind = Top.kind /\ g.of = Top.of /\ g.bindings = Top.bindings
          /\ g.nodes = Top.nodes /\ g.conditions = c /\ g.cases = Top.cases
      BY <1>1, <1>2, <1>4 DEF Frame
    <2> QED
      BY <1>1, <2>1 DEF FrameTyped
  <1> DEFINE g == [Top EXCEPT !.conditions = c, !.case = k, !.mark = Len(Top.nodes)]
  <1>5. FrameTyped(g, Len(heap)) /\ g.kind = Top.kind /\ g.of = Top.of
        /\ g.bindings = Top.bindings
    BY <1>4
  <1>6. stack' = Append(Below, g)
    BY <1>3
  <1> HIDE DEF g
  <1> QED
    BY <1>1, <1>5, <1>6, TopKeeps DEF start_branch

LEMMA EndBranchKeeps ==
    ASSUME MInv, AtTop("section"), NEW output \in SUBSET (1 .. Len(heap)), end_branch(output),
           UNCHANGED <<on_failure, script, inputs, _unbound_inputs>>
    PROVE  MInv'
  <1> DEFINE cs == Append(Top.cases, output)
             n == Len(stack)
             outer == stack[n - 1]
  <1>1. /\ Typed /\ stack # <<>> /\ n \in Nat /\ n > 1 /\ Len(heap) \in Nat
        /\ FrameTyped(Top, Len(heap)) /\ Top \in Frame /\ Top.of # Imperative
        /\ FrameTyped(outer, Len(heap)) /\ outer.of # Imperative
    BY SectionFacts
  <1>2. /\ cs \in Seq(SUBSET Nat) /\ Range(cs) = Range(Top.cases) \cup {output}
    <2>1. Top.cases \in Seq(SUBSET Nat) /\ output \in SUBSET Nat
      BY <1>1 DEF Frame
    <2> QED
      BY <2>1, RangeOfAppend
  <1>3. \A x \in Range(cs) : x \subseteq 1 .. Len(heap)
    BY <1>1, <1>2 DEF FrameTyped
  <1>4. CASE Top.case # "last"
    <2>1. /\ stack' = Append(Below, [Top EXCEPT !.cases = cs, !.case = "none"])
          /\ UNCHANGED <<heap, compiled, nodes, failure_node, raised, raises>>
      BY <1>4 DEF end_branch
    <2> HIDE DEF cs
    <2>2. ASSUME NEW g, g = [Top EXCEPT !.cases = cs, !.case = "none"]
          PROVE  FrameTyped(g, Len(heap)) /\ g.kind = Top.kind /\ g.of = Top.of
                 /\ g.bindings = Top.bindings
      <3>1. /\ g \in Frame /\ g.kind = Top.kind /\ g.of = Top.of /\ g.bindings = Top.bindings
            /\ g.nodes = Top.nodes /\ g.conditions = Top.conditions /\ g.cases = cs
        BY <1>1, <1>2, <2>2 DEF Frame
      <3> QED
        BY <1>1, <1>3, <3>1 DEF FrameTyped
    <2> DEFINE g == [Top EXCEPT !.cases = cs, !.case = "none"]
    <2>3. FrameTyped(g, Len(heap)) /\ g.kind = Top.kind /\ g.of = Top.of
          /\ g.bindings = Top.bindings /\ stack' = Append(Below, g)
      BY <2>1, <2>2
    <2> HIDE DEF g
    <2> QED
      BY <1>1, <2>1, <2>3, TopKeeps
  <1>5. CASE Top.case = "last" /\ to_ifelse_block(cs)
    <2> DEFINE b == Top.conditions
               t == then_nodes(cs)
               m == n - 1
    <2>1. /\ heap' = Append(heap, Node(outer, b, t))
          /\ stack' = Append(SubSeq(stack, 1, n - 2), add_node(outer))
          /\ UNCHANGED <<compiled, nodes, failure_node, raised, raises>>
      BY <1>5 DEF end_branch
    <2>2. m \in 1 .. Len(stack) /\ m - 1 = n - 2
      BY <1>1
    <2>3. NodeMade(m, outer, b, t)
      BY <2>1, <2>2 DEF NodeMade
    <2>4. b \in SUBSET (1 .. Len(heap)) /\ t \in SUBSET (1 .. Len(heap))
      <3> HIDE DEF cs
      <3> QED
        BY <1>1, <1>3 DEF FrameTyped, then_nodes
    <2>5. Same(stack[m], outer) /\ outer.bindings = stack[m].bindings /\ FrameTyped(outer, Len(heap))
          /\ ~ (m = 1 /\ stack[1].of = Imperative)
      BY <1>1 DEF Same
    <2> HIDE DEF b, t, m, outer, cs, n
    <2>6. Typed'
      <3>1. /\ StackTyped(stack', Len(heap')) /\ HeapTyped(heap')
            /\ GraphsTyped(nodes, failure_node, Len(heap'))
        BY <1>1, <2>2, <2>3, <2>4, <2>5, Linked
      <3> QED
        BY <1>1, <2>1, <3>1 DEF Typed, RestTyped
    <2> QED
      BY <2>1, <2>2, <2>3, <2>4, <2>5, <2>6, NodeMadeKeeps
  <1>6. CASE Top.case = "last" /\ ~ to_ifelse_block(cs)
    <2>1. Unwind
      BY <1>6 DEF end_branch
    <2> QED
      BY <1>1, <2>1, UnwindKeeps
  <1> QED
    BY <1>4, <1>5, <1>6

LEMMA BranchSteps ==
    ASSUME MInv, Then \/ Fail
    PROVE  MInv'
  <1>1. CASE Then
    <2> DEFINE o == {Top.nodes[Len(Top.nodes)]}
    <2>1. /\ AtTop("section") /\ Len(Top.nodes) > Top.mark /\ end_branch(o)
          /\ UNCHANGED <<on_failure, script, inputs, _unbound_inputs>>
      BY <1>1 DEF Then
    <2>2. FrameTyped(Top, Len(heap)) /\ Top.nodes \in Seq(Nat) /\ Top.mark \in Nat
      BY <2>1, SectionFacts DEF Frame
    <2>3. Len(Top.nodes) \in DOMAIN Top.nodes
      BY <2>1, <2>2
    <2>4. o \in SUBSET (1 .. Len(heap))
      BY <2>2, <2>3 DEF FrameTyped, Range
    <2> HIDE DEF o
    <2> QED
      BY <2>1, <2>4, EndBranchKeeps
  <1>2. CASE Fail
    <2>1. {} \in SUBSET (1 .. Len(heap))
      OBVIOUS
    <2> QED
      BY <1>2, <2>1, EndBranchKeeps DEF Fail
  <1> QED
    BY <1>1, <1>2

LEMMA AddWorkflowInputStep ==
    ASSUME MInv, NEW i \in Inputs, add_workflow_input(i)
    PROVE  MInv'
  <1>1. Typed /\ stack = <<>>
    BY TypedIsTypeOK DEF MInv, add_workflow_input
  <1>2. Typed'
    BY <1>1 DEF Typed, RestTyped, add_workflow_input
  <1> QED
    BY <1>1, <1>2, EmptyKeeps DEF MInv, add_workflow_input

LEMMA EnterImperativeStep ==
    ASSUME MInv, NEW kind \in AddKinds, NEW ins \in SUBSET inputs,
           NEW b \in SUBSET Range(nodes[Imperative]), EnterImperative(kind, ins, b)
    PROVE  MInv'
  <1>1. Typed /\ Ordered(nodes[Imperative], heap, failure_node[Imperative])
    BY TypedIsTypeOK DEF MInv
  <1>2. /\ Imperative \in Owners /\ nodes[Imperative] \in Seq(Nat) /\ Len(heap) \in Nat
        /\ Range(nodes[Imperative]) \subseteq 1 .. Len(heap) /\ ins \in SUBSET Inputs
        /\ b \subseteq 1 .. Len(heap)
    BY <1>1, ImperativeFacts DEF Typed, RestTyped
  <1> DEFINE f == NewFrame(kind, Imperative, <<>>)
  <1>3. FrameTyped(f, Len(heap)) /\ f.kind = kind /\ f.of = Imperative /\ f.prefix = <<>> /\ ~ f.called
    <2>1. f.kind = kind /\ f.of = Imperative /\ f.prefix = <<>> /\ ~ f.called
      BY DEF NewFrame
    <2>2. <<>> \in Seq({"d", "f"})
      OBVIOUS
    <2> QED
      BY <1>2, <2>1, <2>2, NewFrameTyped DEF AddKinds
  <1>4. stack' = <<[f EXCEPT !.nodes = nodes[Imperative], !.inputs = ins, !.bindings = b]>>
    BY DEF EnterImperative
  <1> HIDE DEF f
  <1>5. ASSUME NEW g, g = [f EXCEPT !.nodes = nodes[Imperative], !.inputs = ins, !.bindings = b]
        PROVE  FrameTyped(g, Len(heap)) /\ g.kind = kind /\ g.of = Imperative /\ g.prefix = <<>>
               /\ ~ g.called /\ g.nodes = nodes[Imperative] /\ g.bindings = b
    <2>1. f \in Frame /\ b \in SUBSET Nat
      BY <1>2, <1>3 DEF FrameTyped
    <2>2. /\ g \in Frame /\ g.kind = f.kind /\ g.of = f.of /\ g.prefix = f.prefix
          /\ g.called = f.called /\ g.nodes = nodes[Imperative] /\ g.bindings = b
          /\ g.conditions = f.conditions /\ g.cases = f.cases
      BY <1>2, <1>5, <2>1 DEF Frame
    <2> QED
      BY <1>2, <1>3, <2>2 DEF FrameTyped
  <1> DEFINE g == [f EXCEPT !.nodes = nodes[Imperative], !.inputs = ins, !.bindings = b]
  <1>6. /\ FrameTyped(g, Len(heap)) /\ g.kind = kind /\ g.of = Imperative /\ g.prefix = <<>>
        /\ ~ g.called /\ g.nodes = nodes[Imperative] /\ g.bindings = b /\ stack' = <<g>>
    BY <1>4, <1>5
  <1> HIDE DEF g
  <1>7. Len(stack') = 1 /\ stack'[1] = g /\ stack' \in Seq(Frame)
    BY <1>6 DEF FrameTyped
  <1>8. UNCHANGED <<on_failure, script, heap, compiled, nodes, failure_node, inputs,
                    _unbound_inputs, raised, raises>>
    BY DEF EnterImperative
  <1>9. Typed'
    BY <1>1, <1>6, <1>7, <1>8 DEF Typed, StackTyped, RestTyped
  <1>10. FramesOK(stack')
    BY <1>6, <1>7 DEF FramesOK, Stands, AddKinds
  <1>11. AddingOK'
    BY <1>1, <1>6, <1>7, <1>8 DEF AddingOK
  <1>12. TypeOK'
    BY <1>9, TypedIsTypeOK, PTL
  <1> QED
    BY <1>1, <1>8, <1>10, <1>11, <1>12 DEF MInv

(* The only frame, that of a call which adds to the imperative workflow.   *)
LEMMA AddingFacts ==
    ASSUME MInv, AtTop("add_entity") \/ AtTop("add_on_failure")
    PROVE  /\ Typed /\ stack # <<>> /\ Len(stack) = 1 /\ Top = stack[1] /\ stack[1].of = Imperative
           /\ Len(heap) \in Nat /\ Imperative \in Owners
           /\ FrameTyped(Top, Len(heap)) /\ Top.nodes \in Seq(Nat)
           /\ Range(Top.nodes) \subseteq 1 .. Len(heap) /\ Top.prefix = <<>>
           /\ Ordered(Top.nodes, heap, failure_node[Imperative])
           /\ ~ Top.called => Top.bindings \subseteq Range(Top.nodes)
           /\ Top.called => Len(Top.nodes) >= 1
           /\ nodes \in [Owners -> Seq(Nat)] /\ failure_node \in [Owners -> SUBSET Nat]
           /\ GraphsTyped(nodes, failure_node, Len(heap))
  <1>1. Typed /\ stack # <<>> /\ Top.kind \in AddKinds /\ FramesOK(stack)
    BY TypedIsTypeOK DEF MInv, AtTop, AddKinds
  <1>2. /\ Len(stack) \in 1 .. Len(stack) /\ FrameTyped(Top, Len(heap)) /\ Len(heap) \in Nat
        /\ Top = stack[Len(stack)]
    BY <1>1, TopFacts DEF Top
  <1>3. Len(stack) = 1 /\ stack[1].of = Imperative /\ Top = stack[1]
    BY <1>1, <1>2 DEF FramesOK, Stands
  <1>4. Top.nodes \in Seq(Nat) /\ Range(Top.nodes) \subseteq 1 .. Len(heap)
    BY <1>2 DEF FrameTyped, Frame
  <1>5. /\ Ordered(Top.nodes, heap, failure_node[Imperative]) /\ Top.prefix = <<>>
        /\ ~ Top.called => Top.bindings \subseteq Range(Top.nodes)
        /\ Top.called => Len(Top.nodes) >= 1
    BY <1>1, <1>3 DEF MInv, AddingOK
  <1>6. /\ Imperative \in Owners
        /\ nodes \in [Owners -> Seq(Nat)] /\ failure_node \in [Owners -> SUBSET Nat]
        /\ GraphsTyped(nodes, failure_node, Len(heap))
    BY <1>1, ImperativeFacts DEF Typed, GraphsTyped
  <1> QED
    BY <1>1, <1>2, <1>3, <1>4, <1>5, <1>6

(* The imperative workflow is given the nodes ns.                          *)
LEMMA ImperativeNodesTyped ==
    ASSUME NEW n \in Nat, NEW nd, NEW fn, GraphsTyped(nd, fn, n), Imperative \in Owners,
           NEW ns \in Seq(Nat), Range(ns) \subseteq 1 .. n
    PROVE  /\ GraphsTyped([nd EXCEPT ![Imperative] = ns], fn, n)
           /\ [nd EXCEPT ![Imperative] = ns][Imperative] = ns
  <1> DEFINE t == fn[Imperative]
  <1>1. t \in SUBSET (1 .. n) /\ fn = [fn EXCEPT ![Imperative] = t]
    BY DEF GraphsTyped
  <1>2. [nd EXCEPT ![Imperative] = ns][Imperative] = ns
    BY DEF GraphsTyped
  <1> HIDE DEF t
  <1>3. GraphsTyped([nd EXCEPT ![Imperative] = ns], [fn EXCEPT ![Imperative] = t], n)
    BY <1>1, GraphsTypedExcept
  <1> QED
    BY <1>1, <1>2, <1>3

LEMMA CreateNodeFailsStep ==
    ASSUME MInv, NEW w, CreateNodeFails(w)
    PROVE  MInv'
  <1> DEFINE f == Top
             b == Top.bindings
             r == Append(f.nodes, Len(heap) + 1)
  <1>1. /\ Typed /\ stack # <<>> /\ Len(stack) = 1 /\ f = stack[1] /\ f.of = Imperative
        /\ Len(heap) \in Nat /\ Imperative \in Owners
        /\ FrameTyped(f, Len(heap)) /\ f.nodes \in Seq(Nat)
        /\ Range(f.nodes) \subseteq 1 .. Len(heap) /\ f.prefix = <<>>
        /\ Ordered(f.nodes, heap, failure_node[Imperative])
        /\ b \subseteq Range(f.nodes)
        /\ nodes \in [Owners -> Seq(Nat)] /\ GraphsTyped(nodes, failure_node, Len(heap))
    BY AddingFacts DEF CreateNodeFails
  <1>2. /\ heap' = Append(heap, Node(f, b, {})) /\ nodes' = [nodes EXCEPT ![Imperative] = add_node(f).nodes]
        /\ stack' = <<>> /\ raised' = raised \cup {Imperative} /\ raises' = raises + 1
        /\ raises < MaxRaises
        /\ UNCHANGED <<on_failure, script, compiled, failure_node, inputs, _unbound_inputs>>
    BY DEF CreateNodeFails
  <1>3. b \in SUBSET (1 .. Len(heap)) /\ {} \in SUBSET (1 .. Len(heap)) /\ HeapTyped(heap)
    BY <1>1 DEF Typed
  <1>4. add_node(f).nodes = r
    BY <1>1, AddNodeTyped
  <1> HIDE DEF f, b
  <1>5. Node(f, b, {}) \in NodeRecord
    BY <1>1, <1>3, NodeTyped
  <1>6. /\ Node(f, b, {}).bindings = b /\ Node(f, b, {}).then_nodes = {}
        /\ Node(f, b, {}).of = Imperative
        /\ Node(f, b, {}).id = [prefix |-> <<>>, number |-> Len(f.nodes)]
    BY <1>1 DEF Node, node_id
  <1>7. /\ HeapTyped(heap') /\ Len(heap') = Len(heap) + 1
        /\ heap'[Len(heap) + 1] = Node(f, b, {})
        /\ \A n \in 1 .. Len(heap) : heap'[n] = heap[n]
    BY <1>2, <1>3, <1>5, <1>6, HeapTypedAppend
  <1>8. Extends(heap, heap')
    BY <1>1, <1>7 DEF Extends
  <1>9. failure_node[Imperative] \subseteq 1 .. Len(heap)
    BY <1>1, ImperativeFacts
  <1>10. Ordered(r, heap', failure_node[Imperative])
    BY <1>1, <1>6, <1>7, <1>8, <1>9, OrderedLink
  <1>11. r \in Seq(Nat) /\ Range(r) \subseteq 1 .. Len(heap')
    BY <1>1, <1>7, RangeOfAppend
  <1> HIDE DEF r
  <1>12. GraphsTyped(nodes, failure_node, Len(heap')) /\ Len(heap') \in Nat
    BY <1>1, <1>7, GraphsTypedGrows
  <1>13. GraphsTyped(nodes', failure_node, Len(heap')) /\ nodes'[Imperative] = r
    BY <1>1, <1>2, <1>4, <1>11, <1>12, ImperativeNodesTyped
  <1>14. StackTyped(stack', Len(heap'))
    BY <1>2 DEF StackTyped
  <1>15. RestTyped'
    <2>1. raises' \in 0 .. MaxRaises /\ raised' \subseteq Owners
      BY <1>1, <1>2, CompilationAssumption DEF Typed, RestTyped
    <2> QED
      BY <1>1, <1>2, <2>1 DEF Typed, RestTyped
  <1>16. Typed'
    BY <1>2, <1>7, <1>13, <1>14, <1>15 DEF Typed
  <1>17. Ordered(nodes'[Imperative], heap', failure_node'[Imperative])
    BY <1>2, <1>10, <1>13
  <1> QED
    BY <1>2, <1>16, <1>17, EmptyKeeps

LEMMA AddEntityReturnsStep ==
    ASSUME MInv, AddEntityReturns
    PROVE  MInv'
  <1> DEFINE ns == Top.nodes
  <1>1. /\ Typed /\ Len(heap) \in Nat /\ Imperative \in Owners
        /\ ns \in Seq(Nat) /\ Range(ns) \subseteq 1 .. Len(heap)
        /\ Ordered(ns, heap, failure_node[Imperative])
        /\ GraphsTyped(nodes, failure_node, Len(heap))
    BY AddingFacts DEF AddEntityReturns
  <1>2. /\ nodes' = [nodes EXCEPT ![Imperative] = ns] /\ stack' = <<>>
        /\ _unbound_inputs' = _unbound_inputs \ Top.inputs
        /\ UNCHANGED <<on_failure, script, heap, compiled, failure_node, inputs, raised, raises>>
    BY DEF AddEntityReturns
  <1> HIDE DEF ns
  <1>3. GraphsTyped(nodes', failure_node, Len(heap)) /\ nodes'[Imperative] = ns
    BY <1>1, <1>2, ImperativeNodesTyped
  <1>4. StackTyped(stack', Len(heap))
    BY <1>2 DEF StackTyped
  <1>5. Typed'
    BY <1>1, <1>2, <1>3, <1>4 DEF Typed, RestTyped
  <1>6. Ordered(nodes'[Imperative], heap', failure_node'[Imperative])
    BY <1>1, <1>2, <1>3
  <1> QED
    BY <1>2, <1>5, <1>6, EmptyKeeps

LEMMA AddOnFailureReturnsStep ==
    ASSUME MInv, AddOnFailureReturns
    PROVE  MInv'
  <1> DEFINE ns == Top.nodes
             l == Len(ns)
             n == ns[l]
             kept == SubSeq(ns, 1, l - 1)
  <1>1. /\ Typed /\ Len(heap) \in Nat /\ Imperative \in Owners
        /\ ns \in Seq(Nat) /\ Range(ns) \subseteq 1 .. Len(heap) /\ l >= 1
        /\ Ordered(ns, heap, failure_node[Imperative])
        /\ GraphsTyped(nodes, failure_node, Len(heap)) /\ HeapTyped(heap)
    BY AddingFacts DEF AddOnFailureReturns, Typed
  <1>2. /\ failure_node' = [failure_node EXCEPT ![Imperative] = {n}]
        /\ heap' = [heap EXCEPT ![n].id = DEFAULT_FAILURE_NODE_ID]
        /\ nodes' = [nodes EXCEPT ![Imperative] = kept] /\ stack' = <<>>
        /\ UNCHANGED <<on_failure, script, compiled, inputs, _unbound_inputs, raised, raises>>
    BY DEF AddOnFailureReturns, without_failure_node
  <1>3. l \in 1 .. l /\ l - 1 \in 0 .. l /\ \A k \in 1 .. l : ns[k] \in 1 .. Len(heap)
    BY <1>1 DEF Range
  <1>4. kept \in Seq(Nat) /\ Len(kept) = l - 1 /\ \A k \in 1 .. l - 1 : kept[k] = ns[k]
    <2> DEFINE m == l - 1
    <2>1. m \in 0 .. Len(ns)
      BY <1>3
    <2> HIDE DEF ns, m
    <2>2. LET k == SubSeq(ns, 1, m)
          IN  k \in Seq(Nat) /\ Len(k) = m /\ \A j \in 1 .. m : k[j] = ns[j]
      BY <1>1, <2>1, Rebuilt
    <2> QED
      BY <2>2 DEF m
  <1> HIDE DEF kept, ns
  <1>5. Range(kept) \subseteq 1 .. Len(heap) /\ {n} \in SUBSET (1 .. Len(heap)) /\ n \in 1 .. Len(heap)
    <2>1. \A k \in 1 .. l - 1 : k \in 1 .. l
      BY <1>3
    <2>2. DOMAIN kept = 1 .. l - 1
      BY <1>4
    <2> QED
      BY <1>3, <1>4, <2>1, <2>2 DEF Range
  <1>6. \A k \in 1 .. l - 1 : k \in 1 .. l /\ ns[k] # n
    <2> SUFFICES ASSUME NEW k \in 1 .. l - 1 PROVE k \in 1 .. l /\ ns[k] # n
      OBVIOUS
    <2>1. k \in 1 .. l /\ k # l /\ k \in Nat /\ l \in Nat
      BY <1>3
    <2>2. /\ heap[ns[k]].id = [prefix |-> <<>>, number |-> k - 1]
          /\ heap[ns[l]].id = [prefix |-> <<>>, number |-> l - 1]
      BY <1>1, <1>3, <2>1 DEF Ordered
    <2>3. heap[ns[k]].id.number = k - 1 /\ heap[ns[l]].id.number = l - 1
      BY <2>2
    <2>4. ns[k] # ns[l]
      BY <2>1, <2>3
    <2> QED
      BY <2>1, <2>4
  <1> DEFINE rec == [heap[n] EXCEPT !.id = DEFAULT_FAILURE_NODE_ID]
  <1>7. /\ Len(heap') = Len(heap) /\ heap' \in Seq(NodeRecord)
        /\ \A x \in 1 .. Len(heap) : x # n => heap'[x] = heap[x]
        /\ heap'[n] = rec
        /\ rec.bindings = heap[n].bindings /\ rec.then_nodes = heap[n].then_nodes
    <2>1. heap' = [heap EXCEPT ![n] = rec] /\ heap \in Seq(NodeRecord)
      BY <1>1, <1>2 DEF HeapTyped
    <2>2. n \in 1 .. Len(heap) /\ Len(heap) \in Nat /\ heap[n] \in NodeRecord
      BY <1>1, <1>5, <2>1
    <2>3. DEFAULT_FAILURE_NODE_ID \in [prefix : Seq({"d", "e", "f"}), number : Nat]
      BY DEF DEFAULT_FAILURE_NODE_ID
    <2>4. ASSUME NEW x, x = [heap[n] EXCEPT !.id = DEFAULT_FAILURE_NODE_ID]
          PROVE  x \in NodeRecord /\ x.bindings = heap[n].bindings /\ x.then_nodes = heap[n].then_nodes
      BY <2>2, <2>3, <2>4 DEF NodeRecord
    <2>5. rec \in NodeRecord /\ rec.bindings = heap[n].bindings /\ rec.then_nodes = heap[n].then_nodes
      BY <2>4
    <2> HIDE DEF rec, n
    <2>6. /\ Len(heap') = Len(heap) /\ \A x \in 1 .. Len(heap) : x # n => heap'[x] = heap[x]
          /\ heap'[n] = rec
      BY <2>1, <2>2
    <2>7. heap' \in Seq(NodeRecord)
      BY <2>1, <2>2, <2>5, ExceptSeq
    <2> QED
      BY <2>5, <2>6, <2>7
  <1> HIDE DEF rec
  <1>8. HeapTyped(heap')
    <2>1. \A x \in 1 .. Len(heap) :
              heap'[x].bindings = heap[x].bindings /\ heap'[x].then_nodes = heap[x].then_nodes
      BY <1>7
    <2> QED
      BY <1>1, <1>7, <2>1 DEF HeapTyped
  <1>9. Ordered(kept, heap', {n})
    <2> SUFFICES ASSUME NEW k \in 1 .. l - 1
                 PROVE  /\ heap'[kept[k]].id = [prefix |-> <<>>, number |-> k - 1]
                        /\ heap'[kept[k]].of = Imperative
                        /\ kept[k] \notin {n}
                        /\ \A m \in heap'[kept[k]].bindings : \E j \in 1 .. k - 1 : kept[j] = m
      BY <1>4 DEF Ordered
    <2>1. k \in 1 .. l /\ kept[k] = ns[k] /\ ns[k] # n /\ heap'[ns[k]] = heap[ns[k]]
      BY <1>3, <1>4, <1>6, <1>7
    <2>2. /\ heap[ns[k]].id = [prefix |-> <<>>, number |-> k - 1]
          /\ heap[ns[k]].of = Imperative
          /\ \A m \in heap[ns[k]].bindings : \E j \in 1 .. k - 1 : ns[j] = m
      BY <1>1, <2>1 DEF Ordered
    <2>3. \A j \in 1 .. k - 1 : kept[j] = ns[j]
      BY <1>3, <1>4
    <2>4. \A m \in heap'[kept[k]].bindings : \E j \in 1 .. k - 1 : kept[j] = m
      BY <2>1, <2>2, <2>3
    <2> QED
      BY <2>1, <2>2, <2>4
  <1> DEFINE t == {n}
  <1>10. t \in SUBSET (1 .. Len(heap)) /\ failure_node' = [failure_node EXCEPT ![Imperative] = t]
    BY <1>2, <1>5
  <1> HIDE DEF n, l
  <1>11. /\ GraphsTyped(nodes', failure_node', Len(heap))
         /\ nodes'[Imperative] = kept /\ failure_node'[Imperative] = t
    <2> HIDE DEF t
    <2>1. GraphsTyped(nodes', failure_node', Len(heap))
      <3>1. GraphsTyped([nodes EXCEPT ![Imperative] = kept], [failure_node EXCEPT ![Imperative] = t],
                        Len(heap))
        <4>1. Range(kept) \subseteq 1 .. Len(heap) /\ t \in SUBSET (1 .. Len(heap))
          BY <1>5, <1>10
        <4> QED
          BY <1>1, <1>4, <4>1, GraphsTypedExcept
      <3> QED
        BY <1>2, <1>10, <3>1
    <2>2. nodes \in [Owners -> Seq(Nat)] /\ failure_node \in [Owners -> SUBSET Nat]
      BY <1>1 DEF GraphsTyped
    <2>3. nodes'[Imperative] = kept
      BY <1>1, <1>2, <2>2
    <2>4. failure_node'[Imperative] = t
      BY <1>1, <1>10, <2>2
    <2> QED
      BY <2>1, <2>3, <2>4
  <1>12. StackTyped(stack', Len(heap'))
    BY <1>2 DEF StackTyped
  <1>13. Typed'
    BY <1>1, <1>2, <1>7, <1>8, <1>11, <1>12 DEF Typed, RestTyped
  <1>14. Ordered(nodes'[Imperative], heap', failure_node'[Imperative])
    BY <1>9, <1>11
  <1> QED
    BY <1>2, <1>13, <1>14, EmptyKeeps

-----------------------------------------------------------------------------

LEMMA InitialMInv == Init => MInv
  <1> SUFFICES ASSUME Init PROVE MInv
    OBVIOUS
  <1>1. /\ stack = <<>> /\ heap = <<>> /\ Imperative \in Owners
        /\ nodes = [w \in Owners |-> <<>>] /\ failure_node = [w \in Owners |-> {}]
    BY DEF Init, Owners
  <1>2. Len(<<>>) = 0 /\ Range(<<>>) = {}
    BY DEF Range
  <1>3. StackTyped(stack, Len(heap)) /\ HeapTyped(heap)
    BY <1>1, <1>2 DEF StackTyped, HeapTyped
  <1>4. GraphsTyped(nodes, failure_node, Len(heap))
    BY <1>1, <1>2 DEF GraphsTyped
  <1>5. RestTyped
    BY CompilationAssumption DEF RestTyped, Init
  <1>6. TypeOK
    BY <1>3, <1>4, <1>5, TypedIsTypeOK DEF Typed
  <1>7. FramesOK(stack) /\ AddingOK
    BY <1>1 DEF FramesOK, AddingOK
  <1>8. Ordered(nodes[Imperative], heap, failure_node[Imperative])
    BY <1>1 DEF Ordered
  <1> QED
    BY <1>6, <1>7, <1>8 DEF MInv

LEMMA StepKeepsMInv == MInv /\ [Next]_vars => MInv'
  <1> SUFFICES ASSUME MInv, [Next]_vars PROVE MInv'
    OBVIOUS
  <1>1. ASSUME NEW w \in Workflows, compile(w) \/ compile_into_workflow(w) PROVE MInv'
    BY <1>1, CompileStep
  <1>2. ASSUME NEW w \in Workflows, CreateNodeFails(w) PROVE MInv'
    BY <1>2, CreateNodeFailsStep
  <1>3. ASSUME NEW e \in Entities, CallEntity(e) PROVE MInv'
    BY <1>3, CallEntityStep
  <1>4. ASSUME NEW e \in Entities, CreateNode(e) PROVE MInv'
    BY <1>4, CreateNodeStep
  <1>5. CASE ReturnFunction
    BY <1>5, ReturnFunctionStep
  <1>6. CASE CallHandler
    BY <1>6, CallHandlerStep
  <1>7. CASE CompileEnds
    BY <1>7, CompileEndsStep
  <1>8. CASE Raise
    BY <1>8, RaiseStep
  <1>9. CASE Conditional
    BY <1>9, ConditionalStep
  <1>10. ASSUME NEW l \in BOOLEAN, start_branch(l) PROVE MInv'
    BY <1>10, StartBranchStep
  <1>11. CASE Then \/ Fail
    BY <1>11, BranchSteps
  <1>12. ASSUME NEW i \in Inputs, add_workflow_input(i) PROVE MInv'
    BY <1>12, AddWorkflowInputStep
  <1>13. CASE add_entity
    <2>1. PICK ins \in SUBSET inputs :
              EnterImperative("add_entity", ins, Range(nodes[Imperative]))
      BY <1>13 DEF add_entity
    <2>2. "add_entity" \in AddKinds
      BY DEF AddKinds
    <2> QED
      BY <2>1, <2>2, EnterImperativeStep
  <1>14. CASE add_on_failure_handler
    <2>1. "add_on_failure" \in AddKinds
      BY DEF AddKinds
    <2> QED
      BY <1>14, <2>1, EnterImperativeStep DEF add_on_failure_handler
  <1>15. CASE AddEntityReturns
    BY <1>15, AddEntityReturnsStep
  <1>16. CASE AddOnFailureReturns
    BY <1>16, AddOnFailureReturnsStep
  <1>17. CASE UNCHANGED vars
    BY <1>17 DEF vars, MInv, TypeOK, AddingOK, Nodes
  <1> QED
    BY <1>1, <1>2, <1>3, <1>4, <1>5, <1>6, <1>7, <1>8, <1>9, <1>10, <1>11, <1>12, <1>13,
       <1>14, <1>15, <1>16, <1>17 DEF Next

LEMMA AlwaysMInv == Spec => []MInv
  BY InitialMInv, StepKeepsMInv, PTL DEF Spec

(* Whatever refers to a node, in a frame, in the graph of a workflow or in *)
(* a node, refers to one that was made, also after exceptions.             *)
THEOREM TypeCorrect == Spec => []TypeOK
  <1>1. MInv => TypeOK
    BY DEF MInv
  <1> QED
    BY <1>1, AlwaysMInv, PTL

LEMMA OrderIsSafe == MInv => ImperativeInOrder
  <1> SUFFICES ASSUME MInv PROVE ImperativeInOrder
    OBVIOUS
  <1> DEFINE ns == nodes[Imperative]
  <1>1. Typed /\ Ordered(ns, heap, failure_node[Imperative])
    BY TypedIsTypeOK DEF MInv
  <1>2. ns \in Seq(Nat) /\ Len(ns) \in Nat /\ DOMAIN ns = 1 .. Len(ns)
    BY <1>1, ImperativeFacts
  <1> HIDE DEF ns
  <1>3. ASSUME NEW k \in DOMAIN ns, NEW j \in DOMAIN ns, j # k
        PROVE  heap[ns[j]].id # heap[ns[k]].id
    <2>1. /\ heap[ns[k]].id = [prefix |-> <<>>, number |-> k - 1]
          /\ heap[ns[j]].id = [prefix |-> <<>>, number |-> j - 1]
      BY <1>1, <1>2 DEF Ordered
    <2>2. heap[ns[k]].id.number = k - 1 /\ heap[ns[j]].id.number = j - 1
      BY <2>1
    <2>3. k - 1 # j - 1
      BY <1>2, <1>3
    <2> QED
      BY <2>2, <2>3
  <1>4. \A k \in DOMAIN ns :
            /\ ns[k] \notin failure_node[Imperative]
            /\ \A m \in heap[ns[k]].bindings : \E j \in 1 .. k - 1 : ns[j] = m
    BY <1>1, <1>2 DEF Ordered
  <1> QED
    BY <1>3, <1>4 DEF ImperativeInOrder, ns

(* The nodes of an imperative workflow are in an order in which every node *)
(* takes outputs of earlier ones only, have ids of their own and are not   *)
(* its failure node, whichever calls that added to it raised.              *)
THEOREM ImperativeStaysInOrder == Spec => []ImperativeInOrder
  BY AlwaysMInv, OrderIsSafe, PTL

-----------------------------------------------------------------------------
(* The graphs of function workflows.                                       *)

(* The types of what Core is about.                                        *)
Fits(st, hp, nd, fn) ==
    /\ StackTyped(st, Len(hp)) /\ HeapTyped(hp) /\ GraphsTyped(nd, fn, Len(hp))
    /\ FramesOK(st)

LEMMA InRange ==
    ASSUME NEW s \in Seq(Nat)
    PROVE  /\ Len(s) \in Nat /\ \A n : n \in Range(s) <=> \E k \in 1 .. Len(s) : s[k] = n
           /\ \A k \in 1 .. Len(s) : s[k] \in Range(s)
  <1>1. Len(s) \in Nat /\ DOMAIN s = 1 .. Len(s)
    OBVIOUS
  <1> QED
    BY <1>1 DEF Range

LEMMA FitsFacts ==
    ASSUME NEW st, NEW hp, NEW nd, NEW fn, Fits(st, hp, nd, fn)
    PROVE  /\ Len(st) \in Nat /\ Len(hp) \in Nat /\ Imperative \notin Workflows
           /\ \A i \in 1 .. Len(st) :
                  /\ st[i] \in Frame /\ st[i].nodes \in Seq(Nat) /\ Len(st[i].nodes) \in Nat
                  /\ st[i].of \in Owners
                  /\ Range(st[i].nodes) \subseteq 1 .. Len(hp)
                  /\ \A k \in 1 .. Len(st[i].nodes) :
                         st[i].nodes[k] \in 1 .. Len(hp) /\ st[i].nodes[k] \in Range(st[i].nodes)
           /\ \A n \in 1 .. Len(hp) : hp[n].then_nodes \subseteq 1 .. Len(hp)
                                      /\ hp[n].bindings \subseteq 1 .. Len(hp)
           /\ \A w \in Owners : nd[w] \in Seq(Nat) /\ Range(nd[w]) \subseteq 1 .. Len(hp)
                                /\ fn[w] \subseteq 1 .. Len(hp)
  <1>1. Len(st) \in Nat /\ Len(hp) \in Nat /\ Imperative \notin Workflows
    BY CompilationAssumption DEF Fits, StackTyped, HeapTyped
  <1>2. ASSUME NEW i \in 1 .. Len(st)
        PROVE  /\ st[i] \in Frame /\ st[i].nodes \in Seq(Nat) /\ Len(st[i].nodes) \in Nat
               /\ st[i].of \in Owners
               /\ Range(st[i].nodes) \subseteq 1 .. Len(hp)
               /\ \A k \in 1 .. Len(st[i].nodes) :
                      st[i].nodes[k] \in 1 .. Len(hp) /\ st[i].nodes[k] \in Range(st[i].nodes)
    <2>1. /\ st[i] \in Frame /\ st[i].nodes \in Seq(Nat) /\ st[i].of \in Owners
          /\ Range(st[i].nodes) \subseteq 1 .. Len(hp)
      BY DEF Fits, StackTyped, FrameTyped, Frame
    <2> QED
      BY <2>1, InRange
  <1>3. \A n \in 1 .. Len(hp) : hp[n].then_nodes \subseteq 1 .. Len(hp)
                                /\ hp[n].bindings \subseteq 1 .. Len(hp)
    BY DEF Fits, HeapTyped
  <1>4. \A w \in Owners : nd[w] \in Seq(Nat) /\ Range(nd[w]) \subseteq 1 .. Len(hp)
                          /\ fn[w] \subseteq 1 .. Len(hp)
    BY DEF Fits, GraphsTyped
  <1> QED
    BY <1>1, <1>2, <1>3, <1>4

(* The frame belongs to a body that is on the stack.                       *)
LEMMA BodyOfFrame ==
    ASSUME NEW st, Len(st) \in Nat, FramesOK(st), Stacked(st),
           NEW i \in 1 .. Len(st), st[i].of # Imperative, st[i] \in Frame
    PROVE  \E b \in 1 .. i : st[b].kind = "workflow" /\ st[b].of = st[i].of
  <1>1. st[i].kind \in {"workflow", "failure", "section"}
    BY DEF FramesOK, Stands, AddKinds, Frame
  <1>2. CASE st[i].kind = "workflow"
    BY <1>2
  <1>3. CASE st[i].kind = "failure"
    <2>1. i > 1 /\ st[i - 1].kind = "workflow" /\ st[i].of = st[i - 1].of
      BY <1>3 DEF FramesOK, Stands
    <2>2. i - 1 \in 1 .. i
      BY <2>1
    <2> QED
      BY <2>1, <2>2
  <1>4. CASE st[i].kind = "section"
    <2>1. PICK b \in 1 .. i - 1 : InBodyAt(st, i, b)
      BY <1>4 DEF Stacked
    <2>2. i \in b + 1 .. i /\ b \in 1 .. i
      BY <2>1
    <2> QED
      BY <2>1, <2>2 DEF InBodyAt
  <1> QED
    BY <1>1, <1>2, <1>3, <1>4

(* The lowest m frames, in another form.                                   *)
LEMMA StackedLower ==
    ASSUME NEW st, NEW st2, Len(st) \in Nat, NEW m \in 0 .. Len(st), Len(st2) = m, Stacked(st),
           FramesOK(st),
           \A i \in 1 .. m : /\ st2[i].kind = st[i].kind /\ st2[i].of = st[i].of
                             /\ st2[i].prefix = st[i].prefix /\ SectionOK(st2[i]),
           \A i \in 1 .. m : i < m => Waits(st2[i])
    PROVE  Stacked(st2)
  <1> SUFFICES ASSUME NEW i \in 1 .. m
               PROVE  /\ st2[i].kind = "failure" => st2[i].prefix = Append(st2[i - 1].prefix, "f")
                      /\ st2[i].kind = "section" => \E b \in 1 .. i - 1 : InBodyAt(st2, i, b)
                      /\ SectionOK(st2[i])
                      /\ i < m => Waits(st2[i])
                      /\ \A j \in 1 .. m :
                             st2[i].kind = "workflow" /\ st2[j].kind = "workflow"
                                 /\ st2[i].of = st2[j].of => i = j
    BY DEF Stacked
  <1>1. i \in 1 .. Len(st) /\ \A j \in 1 .. m : j \in 1 .. Len(st)
    OBVIOUS
  <1>2. st2[i].kind = "failure" => st2[i].prefix = Append(st2[i - 1].prefix, "f")
    <2> SUFFICES ASSUME st2[i].kind = "failure"
                 PROVE  st2[i].prefix = Append(st2[i - 1].prefix, "f")
      OBVIOUS
    <2>1. i > 1 /\ st[i].prefix = Append(st[i - 1].prefix, "f")
      BY <1>1 DEF FramesOK, Stands, Stacked
    <2>2. i - 1 \in 1 .. m
      BY <2>1
    <2> QED
      BY <2>1, <2>2
  <1>3. st2[i].kind = "section" => \E b \in 1 .. i - 1 : InBodyAt(st2, i, b)
    <2> SUFFICES ASSUME st2[i].kind = "section"
                 PROVE  \E b \in 1 .. i - 1 : InBodyAt(st2, i, b)
      OBVIOUS
    <2>1. PICK b \in 1 .. i - 1 : InBodyAt(st, i, b)
      BY <1>1 DEF Stacked
    <2>2. b \in 1 .. m /\ \A k \in b + 1 .. i : k \in 1 .. m
      BY <2>1
    <2>3. InBodyAt(st2, i, b)
      BY <2>1, <2>2 DEF InBodyAt
    <2> QED
      BY <2>3
  <1>4. \A j \in 1 .. m : st2[i].kind = "workflow" /\ st2[j].kind = "workflow"
                              /\ st2[i].of = st2[j].of => i = j
    BY <1>1 DEF Stacked
  <1> QED
    BY <1>2, <1>3, <1>4

LEMMA BodyGrows ==
    ASSUME NEW st, NEW st2, NEW nd, NEW w,
           \A i \in 1 .. Len(st) : st[i].kind = "workflow" /\ st[i].of = w =>
               /\ i \in 1 .. Len(st2) /\ st2[i].kind = "workflow" /\ st2[i].of = w
               /\ Range(st[i].nodes) \subseteq Range(st2[i].nodes)
    PROVE  BodyNodes(st, nd, w) \subseteq BodyNodes(st2, nd, w)
  BY DEF BodyNodes

(* The frame on top in another form, with the same nodes.                  *)
LEMMA CoreRetop ==
    ASSUME NEW st, NEW hp, NEW nd, NEW fn, NEW cp, NEW rs, NEW st2, Fits(st, hp, nd, fn),
           Core(st, hp, nd, fn, cp, rs), NEW n \in 1 .. Len(st), Len(st) = n, Len(st2) = n,
           \A j \in 1 .. n - 1 : st2[j] = st[j],
           Same(st[n], st2[n]), st2[n].bindings = st[n].bindings, SectionOK(st2[n]),
           st2[n].kind = "section" => st2[n].conditions \subseteq BodyNodes(st, nd, st[n].of)
    PROVE  /\ Core(st2, hp, nd, fn, cp, rs)
           /\ \A w : BodyNodes(st, nd, w) \subseteq BodyNodes(st2, nd, w)
  <1>1. n \in Nat /\ Len(st) \in Nat
    BY FitsFacts
  <1>2. \A i \in 1 .. n : /\ st2[i].kind = st[i].kind /\ st2[i].of = st[i].of
                          /\ st2[i].prefix = st[i].prefix /\ st2[i].nodes = st[i].nodes
                          /\ st2[i].bindings = st[i].bindings
    BY <1>1 DEF Same
  <1>3. \A i \in 1 .. n : i < n => st2[i] = st[i]
    BY <1>1
  <1>4. /\ Stacked(st) /\ GraphLater(st, hp, nd, fn, cp, rs) /\ FrameNodes(st, hp)
        /\ BranchNodes(st, hp, nd, fn) /\ Graphs(hp, nd, fn)
        /\ Located(st, hp, nd, fn, rs) /\ Bound(st, hp, nd, rs)
    BY DEF Core
  <1>5. Stacked(st2)
    <2>1. \A i \in 1 .. n : SectionOK(st2[i])
      <3> TAKE i \in 1 .. n
      <3>1. CASE i = n
        BY <3>1
      <3>2. CASE i # n
        BY <1>1, <1>3, <1>4, <3>2 DEF Stacked
      <3> QED
        BY <3>1, <3>2
    <2>2. \A i \in 1 .. n : i < n => Waits(st2[i])
      BY <1>1, <1>3, <1>4 DEF Stacked
    <2>3. FramesOK(st) /\ n \in 0 .. Len(st)
      BY <1>1 DEF Fits
    <2> QED
      BY <1>1, <1>2, <1>4, <2>1, <2>2, <2>3, StackedLower
  <1>6. ASSUME NEW w PROVE BodyNodes(st, nd, w) \subseteq BodyNodes(st2, nd, w)
    BY <1>2, BodyGrows
  <1>7. GraphLater(st2, hp, nd, fn, cp, rs)
    BY <1>2, <1>4 DEF GraphLater
  <1>8. FrameNodes(st2, hp)
    <2> SUFFICES ASSUME NEW i \in 1 .. n, NEW k \in 1 .. Len(st2[i].nodes)
                 PROVE  /\ hp[st2[i].nodes[k]].of = st2[i].of
                        /\ hp[st2[i].nodes[k]].id = [prefix |-> st2[i].prefix, number |-> k - 1]
                        /\ \A j \in 1 .. n : \A l \in 1 .. Len(st2[j].nodes) :
                               st2[i].nodes[k] = st2[j].nodes[l] => i = j
      BY DEF FrameNodes
    <2>1. /\ st2[i].nodes = st[i].nodes /\ st2[i].of = st[i].of /\ st2[i].prefix = st[i].prefix
          /\ k \in 1 .. Len(st[i].nodes)
      BY <1>2
    <2>2. FrameNodes(st, hp)
      BY <1>4
    <2>3. /\ hp[st[i].nodes[k]].of = st[i].of
          /\ hp[st[i].nodes[k]].id = [prefix |-> st[i].prefix, number |-> k - 1]
          /\ \A j \in 1 .. n : \A l \in 1 .. Len(st[j].nodes) :
                 st[i].nodes[k] = st[j].nodes[l] => i = j
      BY <2>1, <2>2 DEF FrameNodes
    <2>4. \A j \in 1 .. n : st2[j].nodes = st[j].nodes
      BY <1>2
    <2> QED
      BY <2>1, <2>3, <2>4
  <1>9. BranchNodes(st2, hp, nd, fn)
    BY <1>2, <1>4 DEF BranchNodes
  <1>10. Located(st2, hp, nd, fn, rs)
    BY <1>2, <1>4 DEF Located
  <1>11. Bound(st2, hp, nd, rs)
    <2>1. ASSUME NEW x \in 1 .. Len(hp), hp[x].of \in Workflows \ rs
          PROVE  hp[x].bindings \subseteq BodyNodes(st2, nd, hp[x].of)
      BY <1>4, <1>6, <2>1 DEF Bound
    <2>2. ASSUME NEW i \in 2 .. n, st2[i].kind = "workflow", st2[i - 1].of \in Workflows
          PROVE  st2[i].bindings \subseteq BodyNodes(st2, nd, st2[i - 1].of)
      <3>1. i \in 1 .. n /\ i - 1 \in 1 .. n
        BY <1>1
      <3>2. st[i].kind = "workflow" /\ st[i - 1].of \in Workflows /\ st2[i - 1].of = st[i - 1].of
            /\ st2[i].bindings = st[i].bindings
        BY <1>2, <2>2, <3>1
      <3>3. st[i].bindings \subseteq BodyNodes(st, nd, st[i - 1].of)
        BY <1>4, <3>2 DEF Bound
      <3> QED
        BY <1>6, <3>2, <3>3
    <2>3. ASSUME NEW i \in 1 .. n, st2[i].kind = "section"
          PROVE  st2[i].conditions \subseteq BodyNodes(st2, nd, st2[i].of)
      <3>1. st2[i].conditions \subseteq BodyNodes(st, nd, st[i].of)
        <4>1. CASE i = n
          BY <2>3, <4>1
        <4>2. CASE i # n
          BY <1>1, <1>3, <1>4, <2>3, <4>2 DEF Bound
        <4> QED
          BY <4>1, <4>2
      <3> QED
        BY <1>2, <1>6, <3>1
    <2> QED
      BY <2>1, <2>2, <2>3 DEF Bound
  <1> QED
    BY <1>4, <1>5, <1>6, <1>7, <1>8, <1>9, <1>10, <1>11 DEF Core

(* A frame h without nodes is pushed on those of st.                       *)
LEMMA CorePush ==
    ASSUME NEW st, NEW hp, NEW nd, NEW fn, NEW cp, NEW rs, NEW st2, NEW cp2, NEW h, NEW n \in Nat,
           Fits(st, hp, nd, fn), Core(st, hp, nd, fn, cp, rs), Len(st) = n, Len(st2) = n + 1,
           \A j \in 1 .. n : st2[j] = st[j], st2[n + 1] = h,
           h.nodes = <<>>, SectionOK(h), n > 0 => Waits(st[n]),
           \/ /\ h.kind = "workflow" /\ h.of \in Workflows \ cp /\ cp2 = cp \cup {h.of}
              /\ n > 0 /\ st[n].of \in Workflows =>
                     h.bindings \subseteq BodyNodes(st, nd, st[n].of)
           \/ /\ h.kind = "section" /\ n > 0 /\ h.of = st[n].of /\ cp2 = cp
              /\ st[n].kind \in {"workflow", "section"} /\ h.conditions = {}
           \/ /\ h.kind = "failure" /\ n > 0 /\ h.of = st[n].of /\ cp2 = cp
              /\ h.prefix = Append(st[n].prefix, "f")
    PROVE  Core(st2, hp, nd, fn, cp2, rs)
  <1>1. /\ Stacked(st) /\ GraphLater(st, hp, nd, fn, cp, rs) /\ FrameNodes(st, hp)
        /\ BranchNodes(st, hp, nd, fn) /\ Graphs(hp, nd, fn)
        /\ Located(st, hp, nd, fn, rs) /\ Bound(st, hp, nd, rs) /\ FramesOK(st)
    BY DEF Core, Fits
  <1>2. Len(<<>>) = 0 /\ Range(<<>>) = {}
    BY DEF Range
  <1>3. ASSUME NEW w PROVE BodyNodes(st, nd, w) \subseteq BodyNodes(st2, nd, w)
    BY BodyGrows
  <1>4. \A i \in 1 .. n + 1 : i \in 1 .. n \/ i = n + 1
    OBVIOUS
  <1>5. Stacked(st2)
    <2>1. ASSUME NEW i \in 1 .. n
          PROVE  /\ st2[i].kind = "failure" => st2[i].prefix = Append(st2[i - 1].prefix, "f")
                 /\ st2[i].kind = "section" => \E b \in 1 .. i - 1 : InBodyAt(st2, i, b)
                 /\ SectionOK(st2[i]) /\ Waits(st2[i])
      <3>1. st2[i].kind = "failure" => st2[i].prefix = Append(st2[i - 1].prefix, "f")
        <4> SUFFICES ASSUME st2[i].kind = "failure"
                     PROVE  st2[i].prefix = Append(st2[i - 1].prefix, "f")
          OBVIOUS
        <4>1. i > 1 /\ st[i].prefix = Append(st[i - 1].prefix, "f")
          BY <1>1 DEF FramesOK, Stands, Stacked
        <4> QED
          BY <4>1
      <3>2. st2[i].kind = "section" => \E b \in 1 .. i - 1 : InBodyAt(st2, i, b)
        <4> SUFFICES ASSUME st2[i].kind = "section"
                     PROVE  \E b \in 1 .. i - 1 : InBodyAt(st2, i, b)
          OBVIOUS
        <4>1. PICK b \in 1 .. i - 1 : InBodyAt(st, i, b)
          BY <1>1 DEF Stacked
        <4>2. InBodyAt(st2, i, b)
          BY <4>1 DEF InBodyAt
        <4> QED
          BY <4>2
      <3>3. SectionOK(st2[i])
        BY <1>1 DEF Stacked
      <3>4. Waits(st2[i])
        <4>1. CASE i = n
          BY <4>1
        <4>2. CASE i < n
          BY <1>1, <4>2 DEF Stacked
        <4> QED
          BY <4>1, <4>2
      <3> QED
        BY <3>1, <3>2, <3>3, <3>4
    <2>2. h.kind = "failure" => h.prefix = Append(st2[(n + 1) - 1].prefix, "f")
      OBVIOUS
    <2>3. h.kind = "section" => \E b \in 1 .. (n + 1) - 1 : InBodyAt(st2, n + 1, b)
      <3> SUFFICES ASSUME h.kind = "section" PROVE \E b \in 1 .. n : InBodyAt(st2, n + 1, b)
        OBVIOUS
      <3>1. n > 0 /\ h.of = st[n].of /\ st[n].kind \in {"workflow", "section"} /\ n \in 1 .. n
        OBVIOUS
      <3>2. CASE st[n].kind = "workflow"
        <4>1. \A k \in n + 1 .. n + 1 : k = n + 1
          OBVIOUS
        <4>2. InBodyAt(st2, n + 1, n)
          BY <3>1, <3>2, <4>1 DEF InBodyAt
        <4> QED
          BY <3>1, <4>2
      <3>3. CASE st[n].kind = "section"
        <4>1. PICK b \in 1 .. n - 1 : InBodyAt(st, n, b)
          BY <1>1, <3>1, <3>3 DEF Stacked
        <4>2. \A k \in b + 1 .. n + 1 : k \in b + 1 .. n \/ k = n + 1
          BY <4>1
        <4>3. n \in b + 1 .. n /\ b \in 1 .. n
          BY <4>1
        <4>4. st[n].of = st[b].of
          BY <4>1, <4>3 DEF InBodyAt
        <4>5. InBodyAt(st2, n + 1, b)
          BY <3>1, <4>1, <4>2, <4>3, <4>4 DEF InBodyAt
        <4> QED
          BY <4>3, <4>5
      <3> QED
        BY <3>1, <3>2, <3>3
    <2>4. \A i \in 1 .. n : st[i].kind = "workflow" /\ h.kind = "workflow" => st[i].of # h.of
      BY <1>1 DEF GraphLater
    <2>5. \A i \in 1 .. n + 1 : \A j \in 1 .. n + 1 :
              st2[i].kind = "workflow" /\ st2[j].kind = "workflow" /\ st2[i].of = st2[j].of => i = j
      BY <1>1, <1>4, <2>4 DEF Stacked
    <2>6. \A i \in 1 .. n + 1 : i < n + 1 => i \in 1 .. n
      OBVIOUS
    <2> QED
      BY <1>4, <2>1, <2>2, <2>3, <2>5, <2>6 DEF Stacked
  <1>6. GraphLater(st2, hp, nd, fn, cp2, rs)
    <2>1. cp \subseteq cp2
      OBVIOUS
    <2>2. ASSUME NEW i \in 1 .. n + 1, st2[i].of \in Workflows
          PROVE  st2[i].of \in cp2 \ rs /\ nd[st2[i].of] = <<>> /\ fn[st2[i].of] = {}
      <3>1. CASE i \in 1 .. n
        BY <1>1, <2>1, <2>2, <3>1 DEF GraphLater
      <3>2. CASE i = n + 1
        <4>1. CASE h.kind = "workflow"
          BY <1>1, <3>2, <4>1 DEF GraphLater
        <4>2. CASE h.kind # "workflow"
          <5>1. n \in 1 .. n /\ h.of = st[n].of /\ st2[i].of = h.of
            BY <3>2, <4>2
          <5> QED
            BY <1>1, <2>1, <2>2, <5>1 DEF GraphLater
        <4> QED
          BY <4>1, <4>2
      <3> QED
        BY <1>4, <3>1, <3>2
    <2> QED
      BY <1>1, <2>1, <2>2 DEF GraphLater
  <1>7. FrameNodes(st2, hp)
    <2>1. \A i \in 1 .. n + 1 : \A k \in 1 .. Len(st2[i].nodes) : i \in 1 .. n /\ st2[i] = st[i]
      BY <1>2, <1>4
    <2> SUFFICES ASSUME NEW i \in 1 .. n + 1, NEW k \in 1 .. Len(st2[i].nodes)
                 PROVE  /\ hp[st2[i].nodes[k]].of = st2[i].of
                        /\ hp[st2[i].nodes[k]].id = [prefix |-> st2[i].prefix, number |-> k - 1]
                        /\ \A j \in 1 .. n + 1 : \A l \in 1 .. Len(st2[j].nodes) :
                               st2[i].nodes[k] = st2[j].nodes[l] => i = j
      BY DEF FrameNodes
    <2>2. i \in 1 .. n /\ st2[i] = st[i]
      BY <2>1
    <2> QED
      BY <1>1, <2>1, <2>2 DEF FrameNodes
  <1>8. BranchNodes(st2, hp, nd, fn)
    BY <1>1, <1>2, <1>4 DEF BranchNodes
  <1>9. Located(st2, hp, nd, fn, rs)
    <2>1. \A i \in 1 .. n : i \in 1 .. n + 1
      OBVIOUS
    <2> QED
      BY <1>1, <2>1 DEF Located
  <1>10. Bound(st2, hp, nd, rs)
    <2>1. ASSUME NEW x \in 1 .. Len(hp), hp[x].of \in Workflows \ rs
          PROVE  hp[x].bindings \subseteq BodyNodes(st2, nd, hp[x].of)
      BY <1>1, <1>3, <2>1 DEF Bound
    <2>2. ASSUME NEW i \in 2 .. n + 1, st2[i].kind = "workflow", st2[i - 1].of \in Workflows
          PROVE  st2[i].bindings \subseteq BodyNodes(st2, nd, st2[i - 1].of)
      <3>1. i - 1 \in 1 .. n /\ st2[i - 1] = st[i - 1]
        OBVIOUS
      <3>2. st2[i].bindings \subseteq BodyNodes(st, nd, st[i - 1].of)
        <4>1. CASE i \in 2 .. n
          <5>1. st2[i] = st[i]
            BY <4>1
          <5> QED
            BY <1>1, <2>2, <3>1, <4>1, <5>1 DEF Bound
        <4>2. CASE i = n + 1
          <5>1. i - 1 = n /\ n > 0 /\ st2[i] = h
            BY <4>2
          <5> QED
            BY <2>2, <3>1, <5>1
        <4> QED
          BY <4>1, <4>2
      <3> QED
        BY <1>3, <3>1, <3>2
    <2>3. ASSUME NEW i \in 1 .. n + 1, st2[i].kind = "section"
          PROVE  st2[i].conditions \subseteq BodyNodes(st2, nd, st2[i].of)
      <3>1. CASE i \in 1 .. n
        BY <1>1, <1>3, <2>3, <3>1 DEF Bound
      <3>2. CASE i = n + 1
        BY <2>3, <3>2
      <3> QED
        BY <1>4, <3>1, <3>2
    <2> QED
      BY <2>1, <2>2, <2>3 DEF Bound
  <1> QED
    BY <1>1, <1>5, <1>6, <1>7, <1>8, <1>9, <1>10 DEF Core

(* The frame at m gets the next node, which takes outputs b and has the    *)
(* nodes t of the frames above in its cases; those frames are gone.        *)
LinksNode(st, hp, st2, hp2, m, b, t) ==
    /\ Len(st2) = m /\ \A j \in 1 .. m - 1 : st2[j] = st[j]
    /\ st2[m].kind = st[m].kind /\ st2[m].of = st[m].of /\ st2[m].prefix = st[m].prefix
    /\ st2[m].nodes = Append(st[m].nodes, Len(hp) + 1)
    /\ st2[m].bindings = st[m].bindings
    /\ st2[m].conditions = st[m].conditions /\ st2[m].cases = st[m].cases
    /\ st2[m].case = st[m].case /\ st2[m].mark = st[m].mark
    /\ Len(hp2) = Len(hp) + 1 /\ \A n \in 1 .. Len(hp) : hp2[n] = hp[n]
    /\ hp2[Len(hp) + 1] =
           [id |-> [prefix |-> st[m].prefix, number |-> Len(st[m].nodes)], of |-> st[m].of,
            bindings |-> b, then_nodes |-> t]

LEMMA CoreLink ==
    ASSUME NEW st, NEW hp, NEW nd, NEW fn, NEW cp, NEW rs, NEW st2, NEW hp2,
           Fits(st, hp, nd, fn), Core(st, hp, nd, fn, cp, rs), NEW m \in 1 .. Len(st),
           NEW b, NEW t, LinksNode(st, hp, st2, hp2, m, b, t),
           t = UNION {Range(st[i].nodes) : i \in m + 1 .. Len(st)},
           \A i \in m + 1 .. Len(st) : st[i].kind = "section" /\ st[i].of = st[m].of,
           st[m].of \in Workflows => b \subseteq BodyNodes(st, nd, st[m].of),
           st[m].kind = "section" => st[m].case # "none" /\ Len(st[m].nodes) = st[m].mark
    PROVE  Core(st2, hp2, nd, fn, cp, rs)
  <1> DEFINE N == Len(hp) + 1
             L == Len(st[m].nodes)
  <1>1. /\ Stacked(st) /\ GraphLater(st, hp, nd, fn, cp, rs) /\ FrameNodes(st, hp)
        /\ BranchNodes(st, hp, nd, fn) /\ Graphs(hp, nd, fn)
        /\ Located(st, hp, nd, fn, rs) /\ Bound(st, hp, nd, rs) /\ FramesOK(st)
    BY DEF Core, Fits
  <1>2. /\ Len(st) \in Nat /\ Len(hp) \in Nat /\ Imperative \notin Workflows
        /\ \A i \in 1 .. Len(st) :
               /\ st[i] \in Frame /\ st[i].nodes \in Seq(Nat) /\ Len(st[i].nodes) \in Nat
               /\ st[i].of \in Owners
               /\ Range(st[i].nodes) \subseteq 1 .. Len(hp)
               /\ \A k \in 1 .. Len(st[i].nodes) :
                      st[i].nodes[k] \in 1 .. Len(hp) /\ st[i].nodes[k] \in Range(st[i].nodes)
        /\ \A n \in 1 .. Len(hp) : hp[n].then_nodes \subseteq 1 .. Len(hp)
                                   /\ hp[n].bindings \subseteq 1 .. Len(hp)
        /\ \A w \in Owners : nd[w] \in Seq(Nat) /\ Range(nd[w]) \subseteq 1 .. Len(hp)
                             /\ fn[w] \subseteq 1 .. Len(hp)
    BY FitsFacts
  <1>3. /\ m \in Nat /\ m >= 1 /\ m <= Len(st) /\ Len(st2) = m
        /\ \A j \in 1 .. m - 1 : st2[j] = st[j]
        /\ st2[m].kind = st[m].kind /\ st2[m].of = st[m].of /\ st2[m].prefix = st[m].prefix
        /\ st2[m].nodes = Append(st[m].nodes, N)
        /\ st2[m].bindings = st[m].bindings
        /\ st2[m].conditions = st[m].conditions /\ st2[m].cases = st[m].cases
        /\ st2[m].case = st[m].case /\ st2[m].mark = st[m].mark
    BY <1>2 DEF LinksNode
  <1>4. /\ Len(hp2) = N /\ (\A n \in 1 .. Len(hp) : hp2[n] = hp[n])
        /\ hp2[N].id = [prefix |-> st[m].prefix, number |-> L] /\ hp2[N].of = st[m].of
        /\ hp2[N].bindings = b /\ hp2[N].then_nodes = t
    BY DEF LinksNode
  <1>5. /\ \A i \in 1 .. m : i \in 1 .. Len(st) /\ (i # m => i \in 1 .. m - 1)
        /\ \A n \in 1 .. N : n \in 1 .. Len(hp) \/ n = N
        /\ N \notin 1 .. Len(hp) /\ N \in 1 .. N /\ 1 .. Len(hp) \subseteq 1 .. N
        /\ m \in 1 .. m
    BY <1>2, <1>3
  <1>6. /\ L \in Nat /\ Len(st2[m].nodes) = L + 1 /\ st2[m].nodes[L + 1] = N
        /\ \A k \in 1 .. L : st2[m].nodes[k] = st[m].nodes[k]
        /\ Range(st2[m].nodes) = Range(st[m].nodes) \cup {N}
    <2>1. st[m].nodes \in Seq(Nat)
      BY <1>2
    <2> QED
      BY <1>3, <2>1, RangeOfAppend
  <1>7. \A i \in 1 .. m :
            /\ st2[i].kind = st[i].kind /\ st2[i].of = st[i].of /\ st2[i].prefix = st[i].prefix
            /\ st2[i].bindings = st[i].bindings /\ st2[i].conditions = st[i].conditions
            /\ Range(st[i].nodes) \subseteq Range(st2[i].nodes)
            /\ Range(st2[i].nodes) \subseteq Range(st[i].nodes) \cup {N}
    BY <1>3, <1>5, <1>6, ZenonT(40)
  <1> HIDE DEF N, L
  <1>8. \A i \in 1 .. m : \A k \in 1 .. Len(st2[i].nodes) :
            \/ k \in 1 .. Len(st[i].nodes) /\ st2[i].nodes[k] = st[i].nodes[k]
               /\ st2[i].nodes[k] \in 1 .. Len(hp)
            \/ i = m /\ k = L + 1 /\ st2[i].nodes[k] = N
    <2> SUFFICES ASSUME NEW i \in 1 .. m, NEW k \in 1 .. Len(st2[i].nodes)
                 PROVE  \/ k \in 1 .. Len(st[i].nodes) /\ st2[i].nodes[k] = st[i].nodes[k]
                           /\ st2[i].nodes[k] \in 1 .. Len(hp)
                        \/ i = m /\ k = L + 1 /\ st2[i].nodes[k] = N
      OBVIOUS
    <2>1. CASE i # m
      <3>1. st2[i] = st[i] /\ i \in 1 .. Len(st)
        BY <1>3, <1>5, <2>1
      <3> QED
        BY <1>2, <3>1
    <2>2. CASE i = m
      <3>1. k \in 1 .. L \/ k = L + 1
        BY <1>6, <2>2
      <3>2. CASE k \in 1 .. L
        <4>1. st2[i].nodes[k] = st[i].nodes[k] /\ k \in 1 .. Len(st[i].nodes)
          BY <1>6, <2>2, <3>2 DEF L
        <4> QED
          BY <1>2, <1>5, <4>1
      <3> QED
        BY <1>6, <2>2, <3>1, <3>2
    <2> QED
      BY <2>1, <2>2
  <1>9. Stacked(st2)
    <2>1. \A i \in 1 .. m : SectionOK(st2[i])
      <3> TAKE i \in 1 .. m
      <3>1. CASE i # m
        BY <1>1, <1>3, <1>5, <3>1 DEF Stacked
      <3>2. CASE i = m /\ st[m].kind # "section"
        <4>1. st2[i].kind # "section"
          BY <1>7, <3>2
        <4> QED
          BY <4>1 DEF SectionOK
      <3>3. CASE i = m /\ st[m].kind = "section"
        <4>1. st[m].case # "none" /\ L = st[m].mark
          BY <3>3 DEF L
        <4>2. SectionOK(st[m])
          BY <1>1, <1>5 DEF Stacked
        <4>3. UNION Range(st[m].cases) = {st[m].nodes[k] : k \in 1 .. L}
          BY <3>3, <4>1, <4>2 DEF SectionOK
        <4>4. {st[m].nodes[k] : k \in 1 .. L} = {st2[m].nodes[k] : k \in 1 .. L}
          BY <1>6
        <4>5. /\ st2[m].mark = L /\ st2[m].case # "none" /\ Len(st2[m].nodes) = L + 1
              /\ UNION Range(st2[m].cases) = {st2[m].nodes[k] : k \in 1 .. L}
          BY <1>3, <1>6, <4>1, <4>3, <4>4
        <4>6. L <= L + 1 /\ L + 1 <= L + 1
          BY <1>6
        <4>7. SectionOK(st2[m])
          BY <4>5, <4>6 DEF SectionOK
        <4> QED
          BY <3>3, <4>7
      <3> QED
        BY <3>1, <3>2, <3>3
    <2>2. \A i \in 1 .. m : i < m => Waits(st2[i])
      <3> SUFFICES ASSUME NEW i \in 1 .. m, i < m PROVE Waits(st2[i])
        OBVIOUS
      <3>1. i \in 1 .. Len(st) /\ i < Len(st) /\ st2[i] = st[i]
        BY <1>2, <1>3, <1>5
      <3> QED
        BY <1>1, <3>1 DEF Stacked
    <2>3. m \in 0 .. Len(st)
      BY <1>2, <1>3
    <2> QED
      BY <1>1, <1>2, <1>3, <1>7, <2>1, <2>2, <2>3, StackedLower
  <1>10. GraphLater(st2, hp2, nd, fn, cp, rs)
    <2>1. \A i \in 1 .. m : st2[i].of \in Workflows =>
              st2[i].of \in cp \ rs /\ nd[st2[i].of] = <<>> /\ fn[st2[i].of] = {}
      BY <1>1, <1>5, <1>7 DEF GraphLater
    <2>2. ASSUME NEW w \in Workflows \ cp, NEW n \in 1 .. N
          PROVE  hp2[n].of # w
      <3>1. CASE n = N
        BY <1>4, <1>5, <1>7, <2>1, <2>2, <3>1
      <3>2. CASE n \in 1 .. Len(hp)
        BY <1>1, <1>4, <2>2, <3>2 DEF GraphLater
      <3> QED
        BY <1>5, <3>1, <3>2
    <2> QED
      BY <1>1, <1>3, <1>4, <2>1, <2>2 DEF GraphLater
  <1>11. FrameNodes(st2, hp2)
    <2> SUFFICES ASSUME NEW i \in 1 .. m, NEW k \in 1 .. Len(st2[i].nodes)
                 PROVE  /\ hp2[st2[i].nodes[k]].of = st2[i].of
                        /\ hp2[st2[i].nodes[k]].id = [prefix |-> st2[i].prefix, number |-> k - 1]
                        /\ \A j \in 1 .. m : \A l \in 1 .. Len(st2[j].nodes) :
                               st2[i].nodes[k] = st2[j].nodes[l] => i = j
      <3>1. Len(st2) = m
        BY <1>3
      <3> QED
        BY <3>1 DEF FrameNodes
    <2>1. CASE k \in 1 .. Len(st[i].nodes) /\ st2[i].nodes[k] = st[i].nodes[k]
               /\ st2[i].nodes[k] \in 1 .. Len(hp)
      <3> DEFINE x == st[i].nodes[k]
      <3>1. /\ i \in 1 .. Len(st) /\ hp[x].of = st[i].of
            /\ hp[x].id = [prefix |-> st[i].prefix, number |-> k - 1]
        BY <1>1, <1>5, <2>1 DEF FrameNodes
      <3>2. hp2[x] = hp[x]
        BY <1>4, <2>1
      <3>3. ASSUME NEW j \in 1 .. m, NEW l \in 1 .. Len(st2[j].nodes), st2[j].nodes[l] = x
            PROVE  i = j
        <4>1. l \in 1 .. Len(st[j].nodes) /\ st[j].nodes[l] = x /\ j \in 1 .. Len(st)
          BY <1>5, <1>8, <2>1, <3>3
        <4> QED
          BY <1>1, <2>1, <3>1, <4>1 DEF FrameNodes
      <3> QED
        BY <1>7, <2>1, <3>1, <3>2, <3>3
    <2>2. CASE i = m /\ k = L + 1 /\ st2[i].nodes[k] = N
      <3>1. k - 1 = L
        BY <1>6, <2>2
      <3>2. ASSUME NEW j \in 1 .. m, NEW l \in 1 .. Len(st2[j].nodes), st2[j].nodes[l] = N
            PROVE  j = m
        BY <1>5, <1>8, <3>2
      <3> QED
        BY <1>4, <1>7, <2>2, <3>1, <3>2
    <2> QED
      BY <1>8, <2>1, <2>2
  <1>12. \A n \in t : /\ n \in 1 .. Len(hp) /\ hp[n].of = st[m].of /\ st[m].of \in Workflows
                      /\ \E i \in m + 1 .. Len(st) : n \in Range(st[i].nodes)
    <2> SUFFICES ASSUME NEW i \in m + 1 .. Len(st), NEW n \in Range(st[i].nodes)
                 PROVE  n \in 1 .. Len(hp) /\ hp[n].of = st[m].of /\ st[m].of \in Workflows
      OBVIOUS
    <2>1. i \in 1 .. Len(st) /\ st[i].kind = "section" /\ st[i].of = st[m].of /\ st[i].of \in Owners
      BY <1>2, <1>3
    <2>2. st[i].of # Imperative
      BY <1>1, <2>1 DEF FramesOK, Stands, AddKinds
    <2>3. PICK k \in 1 .. Len(st[i].nodes) : st[i].nodes[k] = n
      BY <1>2, <2>1, InRange, ZenonT(40)
    <2> QED
      BY <1>1, <1>2, <2>1, <2>2, <2>3, ZenonT(40) DEF FrameNodes, Owners
  <1>13. BranchNodes(st2, hp2, nd, fn)
    <2>1. ASSUME NEW x \in 1 .. Len(hp), NEW n \in hp[x].then_nodes
          PROVE  /\ hp2[n].of \in Workflows
                 /\ n \notin Range(nd[hp2[n].of]) /\ n \notin fn[hp2[n].of]
                 /\ \A i \in 1 .. m : n \notin Range(st2[i].nodes)
                 /\ \A k \in 1 .. N : n \in hp2[k].then_nodes => k = x
      <3>1. n \in 1 .. Len(hp) /\ hp2[n] = hp[n] /\ n # N
        BY <1>2, <1>4, <1>5
      <3>2. /\ hp[n].of \in Workflows
            /\ n \notin Range(nd[hp[n].of]) /\ n \notin fn[hp[n].of]
            /\ \A i \in 1 .. Len(st) : n \notin Range(st[i].nodes)
            /\ \A k \in 1 .. Len(hp) : n \in hp[k].then_nodes => k = x
        BY <1>1, <2>1 DEF BranchNodes
      <3>3. \A i \in 1 .. m : n \notin Range(st2[i].nodes)
        BY <1>5, <1>7, <3>1, <3>2
      <3>4. n \notin t
        <4>1. \A i \in m + 1 .. Len(st) : i \in 1 .. Len(st)
          BY <1>2, <1>3
        <4> QED
          BY <1>12, <3>2, <4>1
      <3>5. \A k \in 1 .. N : n \in hp2[k].then_nodes => k = x
        BY <1>4, <1>5, <3>2, <3>4
      <3> QED
        BY <3>1, <3>2, <3>3, <3>5
    <2>2. ASSUME NEW n \in t
          PROVE  /\ hp2[n].of \in Workflows
                 /\ n \notin Range(nd[hp2[n].of]) /\ n \notin fn[hp2[n].of]
                 /\ \A i \in 1 .. m : n \notin Range(st2[i].nodes)
                 /\ \A k \in 1 .. N : n \in hp2[k].then_nodes => k = N
      <3>1. /\ n \in 1 .. Len(hp) /\ hp2[n] = hp[n] /\ n # N
            /\ hp[n].of = st[m].of /\ st[m].of \in Workflows
        BY <1>4, <1>5, <1>12
      <3>2. PICK i \in m + 1 .. Len(st) : n \in Range(st[i].nodes)
        BY <1>12
      <3>3. i \in 1 .. Len(st) /\ i > m
        BY <1>2, <1>3
      <3>4. nd[st[m].of] = <<>> /\ fn[st[m].of] = {}
        BY <1>1, <3>1 DEF GraphLater
      <3>5. Range(<<>>) = {}
        BY DEF Range
      <3>6. ASSUME NEW j \in 1 .. m PROVE n \notin Range(st2[j].nodes)
        <4> SUFFICES ASSUME n \in Range(st2[j].nodes) PROVE FALSE
          OBVIOUS
        <4>1. n \in Range(st[j].nodes) /\ j \in 1 .. Len(st)
          BY <1>5, <1>7, <3>1
        <4>2. PICK k \in 1 .. Len(st[i].nodes) : st[i].nodes[k] = n
          BY <1>2, <3>2, <3>3, InRange
        <4>3. PICK l \in 1 .. Len(st[j].nodes) : st[j].nodes[l] = n
          BY <1>2, <4>1, InRange
        <4>4. i \in 1 .. Len(st) /\ j \in 1 .. Len(st) /\ st[i].nodes[k] = st[j].nodes[l]
          BY <3>3, <4>1, <4>2, <4>3
        <4>5. i = j
          BY <1>1, <4>4, ZenonT(40) DEF FrameNodes
        <4> QED
          BY <1>3, <3>3, <4>5
      <3>7. ASSUME NEW k \in 1 .. Len(hp) PROVE n \notin hp[k].then_nodes
        BY <1>1, <3>2, <3>3, <3>7 DEF BranchNodes
      <3>8. \A k \in 1 .. N : n \in hp2[k].then_nodes => k = N
        BY <1>4, <1>5, <3>7
      <3> QED
        BY <3>1, <3>4, <3>5, <3>6, <3>8
    <2>3. \A x \in 1 .. N : \A n \in hp2[x].then_nodes :
              (x = N /\ n \in t) \/ (x \in 1 .. Len(hp) /\ n \in hp[x].then_nodes)
      <3>1. hp2[N].then_nodes = t /\ \A x \in 1 .. Len(hp) : hp2[x] = hp[x]
        BY <1>4
      <3> TAKE x \in 1 .. N
      <3> TAKE n \in hp2[x].then_nodes
      <3>2. CASE x = N
        <4>1. n \in hp2[N].then_nodes
          BY <3>2
        <4>2. n \in t
          BY <3>1, <4>1, Zenon
        <4> QED
          BY <3>2, <4>2, Zenon
      <3>3. CASE x \in 1 .. Len(hp)
        <4>1. hp2[x] = hp[x]
          BY <3>1, <3>3
        <4> QED
          BY <3>3, <4>1
      <3> QED
        BY <1>5, <3>2, <3>3
    <2>4. Len(st2) = m /\ Len(hp2) = N
      BY <1>3, <1>4
    <2>5. ASSUME NEW x \in 1 .. N, NEW n \in hp2[x].then_nodes
          PROVE  /\ hp2[n].of \in Workflows
                 /\ n \notin Range(nd[hp2[n].of]) /\ n \notin fn[hp2[n].of]
                 /\ \A i \in 1 .. m : n \notin Range(st2[i].nodes)
                 /\ \A k \in 1 .. N : n \in hp2[k].then_nodes => k = x
      BY <2>1, <2>2, <2>3, <2>5
    <2> QED
      BY <2>4, <2>5 DEF BranchNodes
  <1>14. Graphs(hp2, nd, fn)
    <2> SUFFICES ASSUME NEW w \in Workflows
                 PROVE  \E p \in Seq({"d", "f"}) : GraphIds(hp2, nd[w], fn[w], w, p)
      BY DEF Graphs
    <2>1. PICK p \in Seq({"d", "f"}) : GraphIds(hp, nd[w], fn[w], w, p)
      BY <1>1 DEF Graphs
    <2>2. nd[w] \in Seq(Nat) /\ Range(nd[w]) \subseteq 1 .. Len(hp) /\ fn[w] \subseteq 1 .. Len(hp)
      BY <1>2 DEF Owners
    <2>3. \A k \in 1 .. Len(nd[w]) : nd[w][k] \in 1 .. Len(hp)
      BY <2>2, InRange
    <2>4. GraphIds(hp2, nd[w], fn[w], w, p)
      BY <1>4, <2>1, <2>2, <2>3 DEF GraphIds
    <2> QED
      BY <2>4
  <1>15. Located(st2, hp2, nd, fn, rs)
    <2> SUFFICES ASSUME NEW n \in 1 .. N, hp2[n].of \in Workflows \ rs
                 PROVE  \/ \E i \in 1 .. m : n \in Range(st2[i].nodes)
                        \/ \E x \in 1 .. N : n \in hp2[x].then_nodes
                        \/ n \in Range(nd[hp2[n].of])
                        \/ n \in fn[hp2[n].of]
      BY <1>3, <1>4 DEF Located
    <2>1. CASE n = N
      BY <1>5, <1>6, <2>1
    <2>2. CASE n \in 1 .. Len(hp)
      <3>1. hp2[n] = hp[n]
        BY <1>4, <2>2
      <3>2. \/ \E i \in 1 .. Len(st) : n \in Range(st[i].nodes)
            \/ \E x \in 1 .. Len(hp) : n \in hp[x].then_nodes
            \/ n \in Range(nd[hp[n].of])
            \/ n \in fn[hp[n].of]
        BY <1>1, <2>2, <3>1 DEF Located
      <3>3. ASSUME NEW i \in 1 .. Len(st), n \in Range(st[i].nodes)
            PROVE  \/ \E j \in 1 .. m : n \in Range(st2[j].nodes)
                   \/ \E x \in 1 .. N : n \in hp2[x].then_nodes
        <4>1. i \in 1 .. m \/ i \in m + 1 .. Len(st)
          BY <1>2, <1>3
        <4>2. CASE i \in 1 .. m
          BY <1>7, <3>3, <4>2
        <4>3. CASE i \in m + 1 .. Len(st)
          BY <1>4, <1>5, <3>3, <4>3
        <4> QED
          BY <4>1, <4>2, <4>3
      <3>4. ASSUME NEW x \in 1 .. Len(hp), n \in hp[x].then_nodes
            PROVE  \E y \in 1 .. N : n \in hp2[y].then_nodes
        BY <1>4, <1>5, <3>4
      <3> QED
        BY <3>1, <3>2, <3>3, <3>4
    <2> QED
      BY <1>5, <2>1, <2>2
  <1>16. ASSUME NEW w PROVE BodyNodes(st, nd, w) \subseteq BodyNodes(st2, nd, w)
    <2>1. ASSUME NEW i \in 1 .. Len(st), st[i].kind = "workflow", st[i].of = w
          PROVE  /\ i \in 1 .. Len(st2) /\ st2[i].kind = "workflow" /\ st2[i].of = w
                 /\ Range(st[i].nodes) \subseteq Range(st2[i].nodes)
      <3>1. m \in Nat /\ m <= Len(st) /\ Len(st) \in Nat
        BY <1>2, <1>3
      <3>2. i \in 1 .. m \/ i \in m + 1 .. Len(st)
        BY <3>1
      <3>3. st[i].kind # "section"
        BY <2>1
      <3>4. i \in 1 .. m
        BY <3>2, <3>3
      <3> QED
        BY <1>3, <1>7, <2>1, <3>4
    <2> QED
      BY <2>1, BodyGrows
  <1>17. Bound(st2, hp2, nd, rs)
    <2>1. ASSUME NEW n \in 1 .. N, hp2[n].of \in Workflows \ rs
          PROVE  hp2[n].bindings \subseteq BodyNodes(st2, nd, hp2[n].of)
      <3>1. CASE n = N
        BY <1>4, <1>16, <2>1, <3>1
      <3>2. CASE n \in 1 .. Len(hp)
        BY <1>1, <1>4, <1>16, <2>1, <3>2 DEF Bound
      <3> QED
        BY <1>5, <3>1, <3>2
    <2>2. ASSUME NEW i \in 2 .. m, st2[i].kind = "workflow", st2[i - 1].of \in Workflows
          PROVE  st2[i].bindings \subseteq BodyNodes(st2, nd, st2[i - 1].of)
      <3>1. i \in 2 .. Len(st) /\ i \in 1 .. m /\ i - 1 \in 1 .. m
        BY <1>2, <1>3
      <3>2. st[i].bindings \subseteq BodyNodes(st, nd, st[i - 1].of)
        BY <1>1, <1>7, <2>2, <3>1 DEF Bound
      <3> QED
        BY <1>7, <1>16, <3>1, <3>2
    <2>3. ASSUME NEW i \in 1 .. m, st2[i].kind = "section"
          PROVE  st2[i].conditions \subseteq BodyNodes(st2, nd, st2[i].of)
      BY <1>1, <1>5, <1>7, <1>16, <2>3 DEF Bound
    <2> QED
      BY <1>3, <1>4, <2>1, <2>2, <2>3 DEF Bound
  <1> QED
    BY <1>9, <1>10, <1>11, <1>13, <1>14, <1>15, <1>17 DEF Core

(* The frame at k, that of the workflow w, is done, and so is a failure    *)
(* frame above it: their nodes become the graph of the workflow.           *)
Pops(st, nd, fn, st2, nd2, fn2, k, w) ==
    /\ st[k].kind = "workflow" /\ st[k].of = w
    /\ Len(st2) = k - 1 /\ \A j \in 1 .. k - 1 : st2[j] = st[j]
    /\ nd2[w] = st[k].nodes
    /\ \A v \in Owners : v # w => nd2[v] = nd[v] /\ fn2[v] = fn[v]
    /\ \A n : n \in fn2[w] <=> \E i \in k + 1 .. Len(st) : n \in Range(st[i].nodes)
    /\ \A i \in k + 1 .. Len(st) :
           i = k + 1 /\ st[i].kind = "failure" /\ Len(st[i].nodes) <= 1

LEMMA CorePop ==
    ASSUME NEW st, NEW hp, NEW nd, NEW fn, NEW cp, NEW rs, NEW st2, NEW nd2, NEW fn2,
           Fits(st, hp, nd, fn), Core(st, hp, nd, fn, cp, rs), NEW k \in 1 .. Len(st),
           NEW w, Pops(st, nd, fn, st2, nd2, fn2, k, w)
    PROVE  /\ Core(st2, hp, nd2, fn2, cp, rs)
           /\ \A v \in Workflows : BodyNodes(st, nd, v) \subseteq BodyNodes(st2, nd2, v)
  <1>a. /\ st[k].kind = "workflow" /\ st[k].of = w
        /\ Len(st2) = k - 1 /\ \A j \in 1 .. k - 1 : st2[j] = st[j]
    BY DEF Pops
  <1>b. /\ nd2[w] = st[k].nodes
        /\ \A v \in Owners : v # w => nd2[v] = nd[v] /\ fn2[v] = fn[v]
    BY DEF Pops
  <1>c. \A n : n \in fn2[w] <=> \E i \in k + 1 .. Len(st) : n \in Range(st[i].nodes)
    BY DEF Pops
  <1>d. \A i \in k + 1 .. Len(st) :
            i = k + 1 /\ st[i].kind = "failure" /\ Len(st[i].nodes) <= 1
    BY DEF Pops
  <1>1. /\ Stacked(st) /\ GraphLater(st, hp, nd, fn, cp, rs) /\ FrameNodes(st, hp)
        /\ BranchNodes(st, hp, nd, fn) /\ Graphs(hp, nd, fn)
        /\ Located(st, hp, nd, fn, rs) /\ Bound(st, hp, nd, rs) /\ FramesOK(st)
    BY DEF Core, Fits
  <1>2. /\ Len(st) \in Nat /\ Len(hp) \in Nat /\ Imperative \notin Workflows
        /\ \A i \in 1 .. Len(st) :
               /\ st[i] \in Frame /\ st[i].nodes \in Seq(Nat) /\ Len(st[i].nodes) \in Nat
               /\ st[i].of \in Owners
               /\ Range(st[i].nodes) \subseteq 1 .. Len(hp)
        /\ \A n \in 1 .. Len(hp) : hp[n].then_nodes \subseteq 1 .. Len(hp)
    BY FitsFacts
  <1>3. /\ k \in Nat /\ k >= 1 /\ k <= Len(st) /\ k - 1 \in 0 .. Len(st)
        /\ \A i \in 1 .. k - 1 : i \in 1 .. Len(st) /\ i < k
        /\ \A i \in 1 .. Len(st) : i \in 1 .. k - 1 \/ i = k \/ i \in k + 1 .. Len(st)
        /\ \A i \in k + 1 .. Len(st) : i \in 1 .. Len(st) /\ i > k /\ i - 1 = k
    BY <1>2, <1>d
  <1>4. w \in Workflows /\ w # Imperative /\ w \in Owners
    BY <1>1, <1>2, <1>3, <1>a DEF FramesOK, Stands, AddKinds, Owners
  <1>5. w \in cp \ rs /\ nd[w] = <<>> /\ fn[w] = {} /\ Range(<<>>) = {}
    <2>1. Range(<<>>) = {}
      BY DEF Range
    <2>2. w \in cp \ rs /\ nd[w] = <<>> /\ fn[w] = {}
      BY <1>1, <1>4, <1>a DEF GraphLater
    <2> QED
      BY <2>1, <2>2
  <1>6. \A i \in 1 .. Len(st) : \A n : n \in Range(st[i].nodes) =>
            \E l \in 1 .. Len(st[i].nodes) :
                /\ st[i].nodes[l] = n /\ hp[n].of = st[i].of
                /\ hp[n].id = [prefix |-> st[i].prefix, number |-> l - 1]
    <2> SUFFICES ASSUME NEW i \in 1 .. Len(st), NEW n, n \in Range(st[i].nodes)
                 PROVE  \E l \in 1 .. Len(st[i].nodes) :
                            /\ st[i].nodes[l] = n /\ hp[n].of = st[i].of
                            /\ hp[n].id = [prefix |-> st[i].prefix, number |-> l - 1]
      OBVIOUS
    <2>2. st[i].nodes \in Seq(Nat)
      BY <1>2
    <2>1. PICK l \in 1 .. Len(st[i].nodes) : st[i].nodes[l] = n
      BY <2>2, InRange
    <2> QED
      BY <1>1, <2>1 DEF FrameNodes
  <1>7. \A i \in k + 1 .. Len(st) : st[i].of = w /\ st[i].prefix = Append(st[k].prefix, "f")
    <2> SUFFICES ASSUME NEW i \in k + 1 .. Len(st)
                 PROVE  st[i].of = w /\ st[i].prefix = Append(st[k].prefix, "f")
      OBVIOUS
    <2>1. i \in 1 .. Len(st) /\ i - 1 = k /\ st[i].kind = "failure"
      BY <1>3, <1>d
    <2>2. st[i].of = st[i - 1].of /\ st[i].prefix = Append(st[i - 1].prefix, "f")
      BY <1>1, <2>1 DEF FramesOK, Stands, Stacked
    <2> QED
      BY <1>a, <2>1, <2>2
  <1>8. \A i \in 1 .. k - 1 : st[i].of # w
    <2> SUFFICES ASSUME NEW i \in 1 .. k - 1, st[i].of = w PROVE FALSE
      OBVIOUS
    <2>1. i \in 1 .. Len(st) /\ st[i] \in Frame /\ st[i].of # Imperative
      BY <1>2, <1>3, <1>4
    <2>2. PICK b \in 1 .. i : st[b].kind = "workflow" /\ st[b].of = w
      BY <1>1, <1>2, <2>1, BodyOfFrame
    <2>3. b \in 1 .. Len(st) /\ b < k /\ b # k
      BY <1>3, <2>1, <2>2
    <2> QED
      BY <1>1, <1>a, <2>2, <2>3 DEF Stacked
  <1>9. \A n : n \in fn2[w] => hp[n].of = w
                /\ hp[n].id = [prefix |-> Append(st[k].prefix, "f"), number |-> 0]
    <2> SUFFICES ASSUME NEW n, n \in fn2[w]
                 PROVE  hp[n].of = w
                        /\ hp[n].id = [prefix |-> Append(st[k].prefix, "f"), number |-> 0]
      OBVIOUS
    <2>1. PICK i \in k + 1 .. Len(st) : n \in Range(st[i].nodes)
      BY <1>c
    <2>2. PICK l \in 1 .. Len(st[i].nodes) :
              /\ st[i].nodes[l] = n /\ hp[n].of = st[i].of
              /\ hp[n].id = [prefix |-> st[i].prefix, number |-> l - 1]
      <3>1. i \in 1 .. Len(st)
        BY <1>3
      <3> QED
        BY <1>6, <2>1, <3>1, ZenonT(40)
    <2>3. Len(st[i].nodes) <= 1 /\ Len(st[i].nodes) \in Nat
      BY <1>2, <1>3, <1>d
    <2>4. l - 1 = 0
      BY <2>2, <2>3
    <2> QED
      BY <1>7, <2>2, <2>4
  <1>10. Stacked(st2)
    <2>1. \A i \in 1 .. k - 1 : st2[i] = st[i] /\ SectionOK(st[i]) /\ Waits(st[i])
      BY <1>1, <1>3, <1>a DEF Stacked
    <2> DEFINE m == k - 1
    <2>2. /\ Len(st2) = m /\ m \in 0 .. Len(st)
          /\ \A i \in 1 .. m : /\ st2[i].kind = st[i].kind /\ st2[i].of = st[i].of
                               /\ st2[i].prefix = st[i].prefix /\ SectionOK(st2[i])
          /\ \A i \in 1 .. m : i < m => Waits(st2[i])
      BY <1>3, <1>a, <2>1
    <2> HIDE DEF m
    <2> QED
      BY <1>1, <1>2, <2>2, StackedLower
  <1>11. GraphLater(st2, hp, nd2, fn2, cp, rs)
    <2>1. ASSUME NEW i \in 1 .. k - 1, st2[i].of \in Workflows
          PROVE  st2[i].of \in cp \ rs /\ nd2[st2[i].of] = <<>> /\ fn2[st2[i].of] = {}
      <3>1. st2[i] = st[i] /\ i \in 1 .. Len(st) /\ st[i].of # w /\ st[i].of \in Owners
        BY <1>2, <1>3, <1>8, <1>a
      <3> QED
        BY <1>1, <1>b, <2>1, <3>1 DEF GraphLater
    <2>2. ASSUME NEW v \in Workflows \ cp
          PROVE  /\ v \notin rs /\ nd2[v] = <<>> /\ fn2[v] = {}
                 /\ \A n \in 1 .. Len(hp) : hp[n].of # v
      <3>1. v # w /\ v \in Owners
        BY <1>5, <2>2 DEF Owners
      <3> QED
        BY <1>1, <1>b, <2>2, <3>1 DEF GraphLater
    <2> QED
      BY <1>a, <2>1, <2>2 DEF GraphLater
  <1>12. FrameNodes(st2, hp)
    <2>1. \A i \in 1 .. k - 1 : i \in 1 .. Len(st) /\ st2[i] = st[i]
      BY <1>3, <1>a
    <2> SUFFICES ASSUME NEW i \in 1 .. k - 1, NEW l \in 1 .. Len(st2[i].nodes)
                 PROVE  /\ hp[st2[i].nodes[l]].of = st2[i].of
                        /\ hp[st2[i].nodes[l]].id = [prefix |-> st2[i].prefix, number |-> l - 1]
                        /\ \A j \in 1 .. k - 1 : \A x \in 1 .. Len(st2[j].nodes) :
                               st2[i].nodes[l] = st2[j].nodes[x] => i = j
      BY <1>a DEF FrameNodes
    <2>2. st2[i] = st[i] /\ i \in 1 .. Len(st)
      BY <2>1
    <2>3. /\ hp[st[i].nodes[l]].of = st[i].of
          /\ hp[st[i].nodes[l]].id = [prefix |-> st[i].prefix, number |-> l - 1]
          /\ \A j \in 1 .. Len(st) : \A x \in 1 .. Len(st[j].nodes) :
                 st[i].nodes[l] = st[j].nodes[x] => i = j
      BY <1>1, <2>2 DEF FrameNodes
    <2>4. \A j \in 1 .. k - 1 : \A x \in 1 .. Len(st2[j].nodes) :
              st2[i].nodes[l] = st2[j].nodes[x] => i = j
      BY <2>1, <2>2, <2>3
    <2> QED
      BY <2>2, <2>3, <2>4
  <1>13. BranchNodes(st2, hp, nd2, fn2)
    <2> SUFFICES ASSUME NEW m \in 1 .. Len(hp), NEW n \in hp[m].then_nodes
                 PROVE  /\ hp[n].of \in Workflows
                        /\ n \notin Range(nd2[hp[n].of]) /\ n \notin fn2[hp[n].of]
                        /\ \A i \in 1 .. k - 1 : n \notin Range(st2[i].nodes)
                        /\ \A x \in 1 .. Len(hp) : n \in hp[x].then_nodes => x = m
      BY <1>a DEF BranchNodes
    <2>1. /\ hp[n].of \in Workflows
          /\ n \notin Range(nd[hp[n].of]) /\ n \notin fn[hp[n].of]
          /\ \A i \in 1 .. Len(st) : n \notin Range(st[i].nodes)
          /\ \A x \in 1 .. Len(hp) : n \in hp[x].then_nodes => x = m
      BY <1>1 DEF BranchNodes
    <2>2. n \notin Range(nd2[hp[n].of]) /\ n \notin fn2[hp[n].of]
      <3>1. CASE hp[n].of = w
        BY <1>3, <1>b, <1>c, <2>1, <3>1
      <3>2. CASE hp[n].of # w
        BY <1>b, <2>1, <3>2 DEF Owners
      <3> QED
        BY <3>1, <3>2
    <2>3. \A i \in 1 .. k - 1 : n \notin Range(st2[i].nodes)
      BY <1>3, <1>a, <2>1
    <2> QED
      BY <2>1, <2>2, <2>3
  <1>14. Graphs(hp, nd2, fn2)
    <2> SUFFICES ASSUME NEW v \in Workflows
                 PROVE  \E p \in Seq({"d", "f"}) : GraphIds(hp, nd2[v], fn2[v], v, p)
      BY DEF Graphs
    <2>1. CASE v = w
      <3> DEFINE p == st[k].prefix
      <3>1. p \in Seq({"d", "f"})
        BY <1>2, <1>3 DEF Frame
      <3>2. \A l \in 1 .. Len(st[k].nodes) :
                /\ hp[st[k].nodes[l]].of = w
                /\ hp[st[k].nodes[l]].id = [prefix |-> p, number |-> l - 1]
        BY <1>1, <1>a DEF FrameNodes
      <3>3. GraphIds(hp, nd2[w], fn2[w], w, p)
        BY <1>9, <1>b, <3>2 DEF GraphIds
      <3> QED
        BY <2>1, <3>1, <3>3
    <2>2. CASE v # w
      <3>1. nd2[v] = nd[v] /\ fn2[v] = fn[v]
        BY <1>b, <2>2 DEF Owners
      <3> QED
        BY <1>1, <3>1 DEF Graphs
    <2> QED
      BY <2>1, <2>2
  <1>15. Located(st2, hp, nd2, fn2, rs)
    <2> SUFFICES ASSUME NEW n \in 1 .. Len(hp), hp[n].of \in Workflows \ rs
                 PROVE  \/ \E i \in 1 .. k - 1 : n \in Range(st2[i].nodes)
                        \/ \E m \in 1 .. Len(hp) : n \in hp[m].then_nodes
                        \/ n \in Range(nd2[hp[n].of])
                        \/ n \in fn2[hp[n].of]
      BY <1>a DEF Located
    <2>1. \/ \E i \in 1 .. Len(st) : n \in Range(st[i].nodes)
          \/ \E m \in 1 .. Len(hp) : n \in hp[m].then_nodes
          \/ n \in Range(nd[hp[n].of])
          \/ n \in fn[hp[n].of]
      BY <1>1 DEF Located
    <2>2. ASSUME NEW i \in 1 .. Len(st), n \in Range(st[i].nodes)
          PROVE  \/ \E j \in 1 .. k - 1 : n \in Range(st2[j].nodes)
                 \/ n \in Range(nd2[hp[n].of])
                 \/ n \in fn2[hp[n].of]
      <3>1. hp[n].of = st[i].of
        BY <1>6, <2>2
      <3>2. CASE i \in 1 .. k - 1
        BY <1>a, <2>2, <3>2
      <3>3. CASE i = k
        BY <1>a, <1>b, <2>2, <3>1, <3>3
      <3>4. CASE i \in k + 1 .. Len(st)
        BY <1>7, <1>c, <2>2, <3>1, <3>4
      <3> QED
        BY <1>3, <3>2, <3>3, <3>4
    <2>3. ASSUME n \in Range(nd[hp[n].of]) \/ n \in fn[hp[n].of]
          PROVE  n \in Range(nd2[hp[n].of]) \/ n \in fn2[hp[n].of]
      <3>1. hp[n].of # w
        BY <1>5, <2>3
      <3> QED
        BY <1>b, <2>3, <3>1 DEF Owners
    <2> QED
      BY <2>1, <2>2, <2>3
  <1>16. ASSUME NEW v \in Workflows
         PROVE  BodyNodes(st, nd, v) \subseteq BodyNodes(st2, nd2, v)
    <2> SUFFICES ASSUME NEW n \in BodyNodes(st, nd, v) PROVE n \in BodyNodes(st2, nd2, v)
      OBVIOUS
    <2>1. CASE n \in Range(nd[v])
      <3>1. v # w
        BY <1>5, <2>1
      <3>2. nd2[v] = nd[v]
        BY <1>b, <3>1 DEF Owners
      <3> QED
        BY <2>1, <3>2 DEF BodyNodes
    <2>2. ASSUME NEW i \in 1 .. Len(st), st[i].kind = "workflow", st[i].of = v,
                 n \in Range(st[i].nodes)
          PROVE  n \in BodyNodes(st2, nd2, v)
      <3>1. CASE i \in 1 .. k - 1
        BY <1>a, <2>2, <3>1 DEF BodyNodes
      <3>2. CASE i = k
        BY <1>a, <1>b, <2>2, <3>2 DEF BodyNodes
      <3>3. CASE i \in k + 1 .. Len(st)
        BY <1>d, <2>2, <3>3
      <3> QED
        BY <1>3, <3>1, <3>2, <3>3
    <2> QED
      BY <2>1, <2>2 DEF BodyNodes
  <1>17. Bound(st2, hp, nd2, rs)
    <2>1. ASSUME NEW n \in 1 .. Len(hp), hp[n].of \in Workflows \ rs
          PROVE  hp[n].bindings \subseteq BodyNodes(st2, nd2, hp[n].of)
      BY <1>1, <1>16, <2>1 DEF Bound
    <2>2. ASSUME NEW i \in 2 .. k - 1, st2[i].kind = "workflow", st2[i - 1].of \in Workflows
          PROVE  st2[i].bindings \subseteq BodyNodes(st2, nd2, st2[i - 1].of)
      <3>1. i \in 2 .. Len(st) /\ i \in 1 .. k - 1 /\ i - 1 \in 1 .. k - 1
        BY <1>2, <1>3
      <3>2. st2[i] = st[i] /\ st2[i - 1] = st[i - 1]
        BY <1>a, <3>1
      <3>3. st[i].bindings \subseteq BodyNodes(st, nd, st[i - 1].of)
        BY <1>1, <2>2, <3>1, <3>2 DEF Bound
      <3> QED
        BY <1>16, <2>2, <3>2, <3>3
    <2>3. ASSUME NEW i \in 1 .. k - 1, st2[i].kind = "section"
          PROVE  st2[i].conditions \subseteq BodyNodes(st2, nd2, st2[i].of)
      <3>1. st2[i] = st[i] /\ i \in 1 .. Len(st) /\ st[i].of \in Workflows
        <4>1. st2[i] = st[i] /\ i \in 1 .. Len(st) /\ st[i].of \in Owners
          BY <1>2, <1>3, <1>a
        <4> QED
          BY <1>1, <2>3, <4>1 DEF FramesOK, Stands, AddKinds, Owners
      <3>2. st[i].conditions \subseteq BodyNodes(st, nd, st[i].of)
        BY <1>1, <2>3, <3>1 DEF Bound
      <3> QED
        BY <1>16, <3>1, <3>2
    <2> QED
      BY <1>a, <2>1, <2>2, <2>3 DEF Bound
  <1> QED
    BY <1>10, <1>11, <1>12, <1>13, <1>14, <1>15, <1>16, <1>17 DEF Core

(* All frames are gone, and the workflows of those count as raised.  The   *)
(* node of a failure frame on top is the failure node by then.             *)
Unwinds(st, nd, fn, rs, nd2, fn2, rs2) ==
    /\ rs2 = rs \cup {st[i].of : i \in 1 .. Len(st)}
    /\ \A v \in Workflows : nd2[v] = nd[v]
    /\ \A v \in Workflows :
           \/ fn2[v] = fn[v]
           \/ \E i \in 1 .. Len(st) :
                  /\ st[i].kind = "failure" /\ st[i].of = v
                  /\ fn2[v] = Range(st[i].nodes) /\ Len(st[i].nodes) <= 1

LEMMA CoreUnwind ==
    ASSUME NEW st, NEW hp, NEW nd, NEW fn, NEW cp, NEW rs, NEW nd2, NEW fn2, NEW rs2,
           Fits(st, hp, nd, fn), Core(st, hp, nd, fn, cp, rs),
           Unwinds(st, nd, fn, rs, nd2, fn2, rs2)
    PROVE  Core(<<>>, hp, nd2, fn2, cp, rs2)
  <1>1. /\ Stacked(st) /\ GraphLater(st, hp, nd, fn, cp, rs) /\ FrameNodes(st, hp)
        /\ BranchNodes(st, hp, nd, fn) /\ Graphs(hp, nd, fn)
        /\ Located(st, hp, nd, fn, rs) /\ Bound(st, hp, nd, rs) /\ FramesOK(st)
    BY DEF Core, Fits
  <1>2. /\ Len(st) \in Nat /\ Len(hp) \in Nat /\ Imperative \notin Workflows
        /\ \A i \in 1 .. Len(st) :
               /\ st[i] \in Frame /\ st[i].nodes \in Seq(Nat) /\ Len(st[i].nodes) \in Nat
    BY FitsFacts
  <1>a. /\ \A i \in 1 .. Len(st) : st[i].of \in rs2
        /\ rs \subseteq rs2
        /\ \A v \in rs2 : v \in rs \/ \E i \in 1 .. Len(st) : v = st[i].of
    BY DEF Unwinds
  <1>b. \A v \in Workflows : nd2[v] = nd[v]
    BY DEF Unwinds
  <1>c. \A v \in Workflows :
            \/ fn2[v] = fn[v]
            \/ \E i \in 1 .. Len(st) :
                   /\ st[i].kind = "failure" /\ st[i].of = v
                   /\ fn2[v] = Range(st[i].nodes) /\ Len(st[i].nodes) <= 1
    BY DEF Unwinds
  <1>d. Len(<<>>) = 0 /\ 1 .. 0 = {} /\ Range(<<>>) = {}
    BY DEF Range
  <1>3. \A v \in Workflows : v \notin rs2 => fn2[v] = fn[v]
    BY <1>a, <1>c
  <1>4. Stacked(<<>>) /\ FrameNodes(<<>>, hp)
    BY <1>d DEF Stacked, FrameNodes
  <1>5. GraphLater(<<>>, hp, nd2, fn2, cp, rs2)
    <2>1. ASSUME NEW v \in Workflows \ cp
          PROVE  /\ v \notin rs2 /\ nd2[v] = <<>> /\ fn2[v] = {}
                 /\ \A n \in 1 .. Len(hp) : hp[n].of # v
      <3>1. \A i \in 1 .. Len(st) : st[i].of # v
        BY <1>1, <2>1 DEF GraphLater
      <3>2. v \notin rs /\ nd[v] = <<>> /\ fn[v] = {} /\ \A n \in 1 .. Len(hp) : hp[n].of # v
        BY <1>1, <2>1 DEF GraphLater
      <3>3. v \notin rs2
        BY <1>a, <3>1, <3>2
      <3> QED
        BY <1>3, <1>b, <3>2, <3>3
    <2> QED
      BY <1>d, <2>1 DEF GraphLater
  <1>6. BranchNodes(<<>>, hp, nd2, fn2)
    <2> SUFFICES ASSUME NEW m \in 1 .. Len(hp), NEW n \in hp[m].then_nodes
                 PROVE  /\ hp[n].of \in Workflows
                        /\ n \notin Range(nd2[hp[n].of]) /\ n \notin fn2[hp[n].of]
                        /\ \A x \in 1 .. Len(hp) : n \in hp[x].then_nodes => x = m
      BY <1>d DEF BranchNodes
    <2>1. /\ hp[n].of \in Workflows
          /\ n \notin Range(nd[hp[n].of]) /\ n \notin fn[hp[n].of]
          /\ \A i \in 1 .. Len(st) : n \notin Range(st[i].nodes)
          /\ \A x \in 1 .. Len(hp) : n \in hp[x].then_nodes => x = m
      BY <1>1 DEF BranchNodes
    <2>2. n \notin fn2[hp[n].of]
      BY <1>c, <2>1
    <2> QED
      BY <1>b, <2>1, <2>2
  <1>7. Graphs(hp, nd2, fn2)
    <2> SUFFICES ASSUME NEW v \in Workflows
                 PROVE  \E p \in Seq({"d", "f"}) : GraphIds(hp, nd2[v], fn2[v], v, p)
      BY DEF Graphs
    <2>1. CASE fn2[v] = fn[v]
      <3>1. PICK p \in Seq({"d", "f"}) : GraphIds(hp, nd[v], fn[v], v, p)
        BY <1>1 DEF Graphs
      <3> QED
        BY <1>b, <2>1, <3>1
    <2>2. ASSUME NEW i \in 1 .. Len(st), st[i].kind = "failure", st[i].of = v,
                 fn2[v] = Range(st[i].nodes), Len(st[i].nodes) <= 1
          PROVE  \E p \in Seq({"d", "f"}) : GraphIds(hp, nd2[v], fn2[v], v, p)
      <3> DEFINE p == st[i - 1].prefix
      <3>1. i - 1 \in 1 .. Len(st)
        BY <1>1, <1>2, <2>2 DEF FramesOK, Stands
      <3>2. p \in Seq({"d", "f"}) /\ st[i].prefix = Append(p, "f")
        BY <1>1, <1>2, <2>2, <3>1 DEF Frame, Stacked
      <3>3. ASSUME NEW n \in fn2[v]
            PROVE  hp[n].of = v /\ hp[n].id = [prefix |-> Append(p, "f"), number |-> 0]
        <4>0. st[i].nodes \in Seq(Nat) /\ Len(st[i].nodes) \in Nat
          BY <1>2, <2>2
        <4>1. PICK l \in 1 .. Len(st[i].nodes) : st[i].nodes[l] = n
          BY <2>2, <3>3, <4>0, InRange
        <4>2. l - 1 = 0
          BY <2>2, <4>0, <4>1
        <4>3. hp[n].of = st[i].of /\ hp[n].id = [prefix |-> st[i].prefix, number |-> l - 1]
          BY <1>1, <2>2, <4>1 DEF FrameNodes
        <4> QED
          BY <2>2, <3>2, <4>2, <4>3
      <3>4. nd2[v] = <<>>
        BY <1>1, <1>b, <2>2 DEF GraphLater
      <3>5. GraphIds(hp, nd2[v], fn2[v], v, p)
        BY <1>d, <3>3, <3>4 DEF GraphIds
      <3> QED
        BY <3>2, <3>5
    <2> QED
      BY <1>c, <2>1, <2>2
  <1>8. Located(<<>>, hp, nd2, fn2, rs2)
    <2> SUFFICES ASSUME NEW n \in 1 .. Len(hp), hp[n].of \in Workflows \ rs2
                 PROVE  \/ \E m \in 1 .. Len(hp) : n \in hp[m].then_nodes
                        \/ n \in Range(nd2[hp[n].of])
                        \/ n \in fn2[hp[n].of]
      BY DEF Located
    <2>1. \/ \E i \in 1 .. Len(st) : n \in Range(st[i].nodes)
          \/ \E m \in 1 .. Len(hp) : n \in hp[m].then_nodes
          \/ n \in Range(nd[hp[n].of])
          \/ n \in fn[hp[n].of]
      BY <1>1, <1>a DEF Located
    <2>2. ASSUME NEW i \in 1 .. Len(st), n \in Range(st[i].nodes) PROVE FALSE
      <3>1. st[i].nodes \in Seq(Nat)
        BY <1>2
      <3>2. PICK l \in 1 .. Len(st[i].nodes) : st[i].nodes[l] = n
        BY <2>2, <3>1, InRange
      <3>3. hp[n].of = st[i].of
        BY <1>1, <3>2 DEF FrameNodes
      <3> QED
        BY <1>a, <3>3
    <2> QED
      BY <1>3, <1>b, <2>1, <2>2
  <1>9. Bound(<<>>, hp, nd2, rs2)
    <2>1. ASSUME NEW n \in 1 .. Len(hp), hp[n].of \in Workflows \ rs2
          PROVE  hp[n].bindings \subseteq BodyNodes(<<>>, nd2, hp[n].of)
      <3>1. hp[n].bindings \subseteq BodyNodes(st, nd, hp[n].of)
        BY <1>1, <1>a, <2>1 DEF Bound
      <3>2. BodyNodes(st, nd, hp[n].of) \subseteq Range(nd[hp[n].of])
        BY <1>a, <2>1 DEF BodyNodes
      <3>3. Range(nd[hp[n].of]) \subseteq BodyNodes(<<>>, nd2, hp[n].of)
        BY <1>b, <2>1 DEF BodyNodes
      <3> QED
        BY <3>1, <3>2, <3>3
    <2>2. 2 .. 0 = {}
      OBVIOUS
    <2> QED
      BY <1>d, <2>1, <2>2 DEF Bound
  <1> QED
    BY <1>4, <1>5, <1>6, <1>7, <1>8, <1>9 DEF Core

(* Only the imperative workflow and its nodes change.                      *)
ImperativeOnly(st, hp, nd, fn, rs, st2, hp2, nd2, fn2, rs2) ==
    /\ \A i \in 1 .. Len(st) : st[i].of = Imperative
    /\ Len(st2) \in {0, 1}
    /\ \A i \in 1 .. Len(st2) :
           st2[i].of = Imperative /\ st2[i].kind \notin {"workflow", "failure", "section"}
    /\ Len(hp) <= Len(hp2)
    /\ \A n \in 1 .. Len(hp) :
           /\ hp2[n].of = hp[n].of /\ hp2[n].then_nodes = hp[n].then_nodes
           /\ hp[n].of \in Workflows => hp2[n] = hp[n]
    /\ \A n \in Len(hp) + 1 .. Len(hp2) : hp2[n].of = Imperative /\ hp2[n].then_nodes = {}
    /\ \A v \in Workflows : nd2[v] = nd[v] /\ fn2[v] = fn[v]
    /\ rs \subseteq rs2 /\ rs2 \subseteq rs \cup {Imperative}

LEMMA CoreImperative ==
    ASSUME NEW st, NEW hp, NEW nd, NEW fn, NEW cp, NEW rs, NEW st2, NEW hp2, NEW nd2, NEW fn2,
           NEW rs2, Fits(st, hp, nd, fn), Core(st, hp, nd, fn, cp, rs), Len(hp2) \in Nat,
           ImperativeOnly(st, hp, nd, fn, rs, st2, hp2, nd2, fn2, rs2), FrameNodes(st2, hp2),
           \A i \in 1 .. Len(st2) : st2[i].nodes \in Seq(Nat)
    PROVE  Core(st2, hp2, nd2, fn2, cp, rs2)
  <1>1. /\ Stacked(st) /\ GraphLater(st, hp, nd, fn, cp, rs) /\ FrameNodes(st, hp)
        /\ BranchNodes(st, hp, nd, fn) /\ Graphs(hp, nd, fn)
        /\ Located(st, hp, nd, fn, rs) /\ Bound(st, hp, nd, rs)
    BY DEF Core
  <1>2. /\ Len(st) \in Nat /\ Len(hp) \in Nat /\ Imperative \notin Workflows
        /\ \A i \in 1 .. Len(st) : st[i].nodes \in Seq(Nat)
        /\ \A n \in 1 .. Len(hp) : hp[n].then_nodes \subseteq 1 .. Len(hp)
        /\ \A w \in Owners : nd[w] \in Seq(Nat) /\ Range(nd[w]) \subseteq 1 .. Len(hp)
                             /\ fn[w] \subseteq 1 .. Len(hp)
    BY FitsFacts
  <1>a. /\ \A i \in 1 .. Len(st) : st[i].of = Imperative
        /\ Len(st2) \in {0, 1}
        /\ \A i \in 1 .. Len(st2) :
               st2[i].of = Imperative /\ st2[i].kind \notin {"workflow", "failure", "section"}
    BY DEF ImperativeOnly
  <1>b. /\ \A n \in 1 .. Len(hp) :
               /\ n \in 1 .. Len(hp2)
               /\ hp2[n].of = hp[n].of /\ hp2[n].then_nodes = hp[n].then_nodes
               /\ hp[n].of \in Workflows => hp2[n] = hp[n]
        /\ \A n \in 1 .. Len(hp2) :
               \/ n \in 1 .. Len(hp)
               \/ hp2[n].of = Imperative /\ hp2[n].then_nodes = {}
    <2>1. \A n \in 1 .. Len(hp2) : n \in 1 .. Len(hp) \/ n \in Len(hp) + 1 .. Len(hp2)
      BY <1>2
    <2>2. Len(hp) <= Len(hp2)
      BY DEF ImperativeOnly
    <2>3. \A n \in 1 .. Len(hp) : n \in 1 .. Len(hp2)
      BY <1>2, <2>2
    <2> QED
      BY <2>1, <2>3 DEF ImperativeOnly
  <1>c. \A v \in Workflows : nd2[v] = nd[v] /\ fn2[v] = fn[v] /\ (v \in rs <=> v \in rs2)
    BY <1>2 DEF ImperativeOnly
  <1>d. \A n \in 1 .. Len(hp2) : hp2[n].of \in Workflows =>
            n \in 1 .. Len(hp) /\ hp2[n] = hp[n]
    BY <1>2, <1>b
  <1>3. Stacked(st2)
    <2>1. \A i \in 1 .. Len(st2) : i = 1 /\ ~ (i < Len(st2)) /\ \A j \in 1 .. Len(st2) : j = i
      BY <1>a
    <2>2. \A i \in 1 .. Len(st2) : SectionOK(st2[i])
      BY <1>a DEF SectionOK
    <2>3. \A i \in 1 .. Len(st2) : st2[i].kind # "failure" /\ st2[i].kind # "section"
      BY <1>a
    <2> QED
      BY <2>1, <2>2, <2>3 DEF Stacked
  <1>4. GraphLater(st2, hp2, nd2, fn2, cp, rs2)
    <2>1. ASSUME NEW v \in Workflows \ cp
          PROVE  /\ v \notin rs2 /\ nd2[v] = <<>> /\ fn2[v] = {}
                 /\ \A n \in 1 .. Len(hp2) : hp2[n].of # v
      <3>1. v \notin rs /\ nd[v] = <<>> /\ fn[v] = {} /\ \A n \in 1 .. Len(hp) : hp[n].of # v
        BY <1>1, <2>1 DEF GraphLater
      <3>2. \A n \in 1 .. Len(hp2) : hp2[n].of # v
        BY <1>d, <2>1, <3>1
      <3> QED
        BY <1>c, <2>1, <3>1, <3>2
    <2>2. \A i \in 1 .. Len(st2) : st2[i].of \notin Workflows
      BY <1>2, <1>a
    <2> QED
      BY <2>1, <2>2 DEF GraphLater
  <1>5. BranchNodes(st2, hp2, nd2, fn2)
    <2> SUFFICES ASSUME NEW m \in 1 .. Len(hp2), NEW n \in hp2[m].then_nodes
                 PROVE  /\ hp2[n].of \in Workflows
                        /\ n \notin Range(nd2[hp2[n].of]) /\ n \notin fn2[hp2[n].of]
                        /\ \A i \in 1 .. Len(st2) : n \notin Range(st2[i].nodes)
                        /\ \A x \in 1 .. Len(hp2) : n \in hp2[x].then_nodes => x = m
      BY DEF BranchNodes
    <2>1. m \in 1 .. Len(hp) /\ n \in hp[m].then_nodes
      BY <1>b
    <2>2. /\ hp[n].of \in Workflows
          /\ n \notin Range(nd[hp[n].of]) /\ n \notin fn[hp[n].of]
          /\ \A x \in 1 .. Len(hp) : n \in hp[x].then_nodes => x = m
      BY <1>1, <2>1 DEF BranchNodes
    <2>3. n \in 1 .. Len(hp) /\ hp2[n] = hp[n]
      BY <1>2, <1>b, <2>1, <2>2
    <2>4. \A i \in 1 .. Len(st2) : n \notin Range(st2[i].nodes)
      <3> SUFFICES ASSUME NEW i \in 1 .. Len(st2), n \in Range(st2[i].nodes) PROVE FALSE
        OBVIOUS
      <3>1. hp2[n].of = Imperative
        <4>1. PICK l \in DOMAIN st2[i].nodes : st2[i].nodes[l] = n
          BY DEF Range
        <4>2. l \in 1 .. Len(st2[i].nodes)
          <5>1. st2[i].nodes \in Seq(Nat)
            OBVIOUS
          <5> QED
            BY <4>1, <5>1
        <4>3. hp2[st2[i].nodes[l]].of = st2[i].of
          BY <4>2 DEF FrameNodes
        <4>4. st2[i].of = Imperative
          BY <1>a
        <4> QED
          BY <4>1, <4>3, <4>4
      <3> QED
        BY <1>2, <2>2, <2>3, <3>1
    <2>5. \A x \in 1 .. Len(hp2) : n \in hp2[x].then_nodes => x = m
      BY <1>b, <2>2
    <2> QED
      BY <1>c, <2>2, <2>3, <2>4, <2>5
  <1>6. Graphs(hp2, nd2, fn2)
    <2> SUFFICES ASSUME NEW w \in Workflows
                 PROVE  \E p \in Seq({"d", "f"}) : GraphIds(hp2, nd2[w], fn2[w], w, p)
      BY DEF Graphs
    <2>1. PICK p \in Seq({"d", "f"}) : GraphIds(hp, nd[w], fn[w], w, p)
      BY <1>1 DEF Graphs
    <2>2. nd[w] \in Seq(Nat) /\ Range(nd[w]) \subseteq 1 .. Len(hp) /\ fn[w] \subseteq 1 .. Len(hp)
      BY <1>2 DEF Owners
    <2>3. \A k \in 1 .. Len(nd[w]) : nd[w][k] \in 1 .. Len(hp)
      BY <2>2, InRange
    <2>4. GraphIds(hp2, nd[w], fn[w], w, p)
      BY <1>b, <2>1, <2>2, <2>3 DEF GraphIds
    <2> QED
      BY <1>c, <2>4
  <1>7. Located(st2, hp2, nd2, fn2, rs2)
    <2> SUFFICES ASSUME NEW n \in 1 .. Len(hp2), hp2[n].of \in Workflows \ rs2
                 PROVE  \/ \E m \in 1 .. Len(hp2) : n \in hp2[m].then_nodes
                        \/ n \in Range(nd2[hp2[n].of])
                        \/ n \in fn2[hp2[n].of]
      BY DEF Located
    <2>1. n \in 1 .. Len(hp) /\ hp2[n] = hp[n] /\ hp[n].of \in Workflows \ rs
      BY <1>c, <1>d
    <2>2. \/ \E i \in 1 .. Len(st) : n \in Range(st[i].nodes)
          \/ \E m \in 1 .. Len(hp) : n \in hp[m].then_nodes
          \/ n \in Range(nd[hp[n].of])
          \/ n \in fn[hp[n].of]
      BY <1>1, <2>1 DEF Located
    <2>3. ASSUME NEW i \in 1 .. Len(st), n \in Range(st[i].nodes) PROVE FALSE
      <3>1. st[i].nodes \in Seq(Nat)
        BY <1>2
      <3>2. PICK l \in 1 .. Len(st[i].nodes) : st[i].nodes[l] = n
        BY <2>3, <3>1, InRange
      <3>3. hp[n].of = st[i].of
        BY <1>1, <3>2 DEF FrameNodes
      <3> QED
        BY <1>2, <1>a, <2>1, <3>3
    <2> QED
      BY <1>b, <1>c, <2>1, <2>2, <2>3
  <1>8. Bound(st2, hp2, nd2, rs2)
    <2>1. ASSUME NEW n \in 1 .. Len(hp2), hp2[n].of \in Workflows \ rs2
          PROVE  hp2[n].bindings \subseteq BodyNodes(st2, nd2, hp2[n].of)
      <3>1. n \in 1 .. Len(hp) /\ hp2[n] = hp[n] /\ hp[n].of \in Workflows \ rs
        BY <1>c, <1>d, <2>1
      <3>2. hp[n].bindings \subseteq BodyNodes(st, nd, hp[n].of)
        BY <1>1, <3>1 DEF Bound
      <3>3. BodyNodes(st, nd, hp[n].of) \subseteq Range(nd[hp[n].of])
        BY <1>2, <1>a, <3>1 DEF BodyNodes
      <3>4. Range(nd[hp[n].of]) \subseteq BodyNodes(st2, nd2, hp[n].of)
        BY <1>c, <3>1 DEF BodyNodes
      <3> QED
        BY <3>1, <3>2, <3>3, <3>4
    <2>2. 2 .. Len(st2) = {}
      BY <1>a
    <2> QED
      BY <1>a, <2>1, <2>2 DEF Bound
  <1> QED
    BY <1>3, <1>4, <1>5, <1>6, <1>7, <1>8 DEF Core

(* What CInv says, by name.                                                *)
LEMMA CFacts ==
    ASSUME CInv
    PROVE  /\ MInv /\ Typed /\ Fits(stack, heap, nodes, failure_node)
           /\ Core(stack, heap, nodes, failure_node, compiled, raised)
           /\ Len(stack) \in Nat /\ Len(heap) \in Nat /\ FramesOK(stack) /\ Stacked(stack)
           /\ stack # <<>> =>
                  /\ Len(stack) \in 1 .. Len(stack) /\ Top = stack[Len(stack)]
                  /\ FrameTyped(Top, Len(heap)) /\ Top \in Frame /\ SectionOK(Top) /\ Runs(Top)
           /\ Top.kind = "section" /\ stack # <<>> =>
                  Top.conditions \subseteq BodyNodes(stack, nodes, Top.of)
  <1>1. MInv /\ Core(stack, heap, nodes, failure_node, compiled, raised)
        /\ (stack # <<>> => Runs(Top))
    BY DEF CInv
  <1>2. Typed /\ FramesOK(stack) /\ Fits(stack, heap, nodes, failure_node)
    BY <1>1, TypedIsTypeOK DEF MInv, Fits, Typed
  <1>3. Len(stack) \in Nat /\ Len(heap) \in Nat
    BY <1>2, FitsFacts
  <1>4. Stacked(stack) /\ Bound(stack, heap, nodes, raised)
    BY <1>1 DEF Core
  <1>5. ASSUME stack # <<>>
        PROVE  /\ Len(stack) \in 1 .. Len(stack) /\ Top = stack[Len(stack)]
               /\ FrameTyped(Top, Len(heap)) /\ Top \in Frame /\ SectionOK(Top)
               /\ Top.kind = "section" => Top.conditions \subseteq BodyNodes(stack, nodes, Top.of)
    <2>1. Len(stack) \in 1 .. Len(stack) /\ Top = stack[Len(stack)] /\ FrameTyped(Top, Len(heap))
      BY <1>2, <1>5, TopFacts DEF Top
    <2>2. Top \in Frame
      BY <2>1 DEF FrameTyped
    <2>3. SectionOK(Top)
      BY <1>4, <2>1 DEF Stacked
    <2>4. Top.kind = "section" => Top.conditions \subseteq BodyNodes(stack, nodes, Top.of)
      BY <1>4, <2>1 DEF Bound
    <2> QED
      BY <2>1, <2>2, <2>3, <2>4
  <1> QED
    BY <1>1, <1>2, <1>3, <1>4, <1>5

(* What the code of a body may use are the nodes of that body: a section   *)
(* that waits, or whose case begins, has no outputs to offer.              *)
LEMMA VisibleInBody ==
    ASSUME CInv, NEW d \in 1 .. Len(stack), stack[d].kind \in {"workflow", "section"},
           stack[d].kind = "section" => Len(stack[d].nodes) = stack[d].mark
    PROVE  Visible(d) \subseteq BodyNodes(stack, nodes, stack[d].of)
  <1>1. Len(stack) \in Nat /\ Stacked(stack)
    BY CFacts
  <1>2. \E b \in 1 .. d : InBodyAt(stack, d, b)
    <2>1. CASE stack[d].kind = "workflow"
      <3>1. d + 1 .. d = {} /\ d \in 1 .. d
        BY <1>1
      <3> QED
        BY <2>1, <3>1 DEF InBodyAt
    <2>2. CASE stack[d].kind = "section"
      <3>1. PICK b \in 1 .. d - 1 : InBodyAt(stack, d, b)
        BY <1>1, <2>2 DEF Stacked
      <3>2. b \in 1 .. d
        BY <1>1, <3>1
      <3> QED
        BY <3>1, <3>2
    <2> QED
      BY <2>1, <2>2
  <1>3. PICK b \in 1 .. d : InBodyAt(stack, d, b)
    BY <1>2
  <1>4. /\ stack[b].kind = "workflow" /\ b \in 1 .. Len(stack) /\ b \in Nat /\ d \in Nat
        /\ stack[d].of = stack[b].of
    <2>1. b = d \/ d \in b + 1 .. d
      BY <1>1
    <2> QED
      BY <1>1, <1>3, <2>1 DEF InBodyAt
  <1>5. ASSUME NEW i \in 1 .. d, \A k \in i + 1 .. d : ~ IsBody(k)
        PROVE  Scope(i) \subseteq Range(stack[b].nodes)
    <2>1. i \in b .. d
      <3>1. CASE i < b
        <4>1. b \in i + 1 .. d
          BY <1>4, <3>1
        <4> QED
          BY <1>4, <1>5, <4>1 DEF IsBody
      <3> QED
        BY <1>4, <3>1
    <2>2. stack[i].nodes \in Seq(Nat) /\ stack[i].mark \in Nat /\ i \in 1 .. Len(stack)
      <3>1. i \in 1 .. Len(stack)
        BY <1>4
      <3>2. stack[i] \in Frame
        BY <3>1, CFacts, FitsFacts
      <3> QED
        BY <3>1, <3>2 DEF Frame
    <2>3. CASE i = b
      <3>1. \A k \in stack[b].mark + 1 .. Len(stack[b].nodes) : k \in 1 .. Len(stack[b].nodes)
        BY <2>2, <2>3
      <3>2. \A k \in 1 .. Len(stack[b].nodes) : stack[b].nodes[k] \in Range(stack[b].nodes)
        BY <2>2, <2>3, InRange
      <3> QED
        BY <2>3, <3>1, <3>2 DEF Scope
    <2>4. CASE i # b
      <3>1. i \in b + 1 .. d
        BY <1>4, <2>1, <2>4
      <3>2. stack[i].kind = "section"
        BY <1>3, <3>1 DEF InBodyAt
      <3>3. Len(stack[i].nodes) = stack[i].mark
        <4>1. CASE i = d
          BY <3>2, <4>1
        <4>2. CASE i # d
          <5>1. i < Len(stack)
            BY <1>1, <1>4, <4>2
          <5>2. Waits(stack[i])
            BY <1>1, <2>2, <5>1 DEF Stacked
          <5> QED
            BY <3>2, <5>2 DEF Waits
        <4> QED
          BY <4>1, <4>2
      <3>4. stack[i].mark + 1 .. Len(stack[i].nodes) = {}
        BY <2>2, <3>3
      <3> QED
        BY <3>4 DEF Scope
    <2> QED
      BY <2>3, <2>4
  <1>6. Visible(d) \subseteq Range(stack[b].nodes)
    BY <1>5 DEF Visible
  <1>7. Range(stack[b].nodes) \subseteq BodyNodes(stack, nodes, stack[d].of)
    BY <1>4 DEF BodyNodes
  <1> QED
    BY <1>6, <1>7

(* The frame on top takes the form g.                                      *)
Retopped(st, hp, nd, st2, n, g) ==
    /\ Len(st) = n /\ st2 = Append(SubSeq(st, 1, n - 1), g) /\ FrameTyped(g, Len(hp))
    /\ Same(st[n], g) /\ g.bindings = st[n].bindings /\ SectionOK(g)
    /\ g.kind = "section" => g.conditions \subseteq BodyNodes(st, nd, st[n].of)

LEMMA Retop ==
    ASSUME NEW st, NEW hp, NEW nd, NEW fn, NEW cp, NEW rs, NEW st2, NEW g, NEW n \in 1 .. Len(st),
           Fits(st, hp, nd, fn), Core(st, hp, nd, fn, cp, rs), Retopped(st, hp, nd, st2, n, g)
    PROVE  /\ Fits(st2, hp, nd, fn) /\ Core(st2, hp, nd, fn, cp, rs)
           /\ Len(st2) = n /\ st2[n] = g /\ \A j \in 1 .. n - 1 : st2[j] = st[j]
           /\ \A w : BodyNodes(st, nd, w) \subseteq BodyNodes(st2, nd, w)
  <1>a. /\ Len(st) = n /\ st2 = Append(SubSeq(st, 1, n - 1), g) /\ FrameTyped(g, Len(hp))
        /\ Same(st[n], g) /\ g.bindings = st[n].bindings /\ SectionOK(g)
        /\ g.kind = "section" => g.conditions \subseteq BodyNodes(st, nd, st[n].of)
    BY DEF Retopped
  <1>1. Len(st) \in Nat /\ Len(hp) \in Nat /\ st \in Seq(Frame) /\ StackTyped(st, Len(hp))
    BY FitsFacts DEF Fits, StackTyped
  <1>2. Len(st2) = n /\ st2[n] = g /\ \A j \in 1 .. n - 1 : st2[j] = st[j]
    BY <1>a, <1>1, Replaced
  <1>3. StackTyped(st2, Len(hp))
    <2>1. n - 1 \in 0 .. Len(st)
      BY <1>1, <1>a
    <2> DEFINE k == n - 1
    <2>2. k \in 0 .. Len(st) /\ st2 = Append(SubSeq(st, 1, k), g)
      BY <1>a, <2>1
    <2> HIDE DEF k
    <2> QED
      BY <1>1, <1>a, <2>2, StackTypedRebuilt
  <1>4. FramesOK(st2)
    <2>1. st2[n].kind = st[n].kind /\ st2[n].of = st[n].of /\ FramesOK(st)
      BY <1>a, <1>2 DEF Same, Fits
    <2>2. \A i \in 1 .. n : Stands(st2, i)
      BY <1>1, <1>2, <2>1, StillStands
    <2> QED
      BY <1>2, <2>2 DEF FramesOK
  <1>5. Fits(st2, hp, nd, fn)
    BY <1>3, <1>4 DEF Fits
  <1>6. /\ Len(st) = n /\ Same(st[n], st2[n]) /\ st2[n].bindings = st[n].bindings /\ SectionOK(st2[n])
        /\ st2[n].kind = "section" => st2[n].conditions \subseteq BodyNodes(st, nd, st[n].of)
    BY <1>a, <1>2
  <1>7. /\ Core(st2, hp, nd, fn, cp, rs)
        /\ \A w : BodyNodes(st, nd, w) \subseteq BodyNodes(st2, nd, w)
    BY <1>2, <1>6, CoreRetop
  <1> QED
    BY <1>2, <1>5, <1>7

(* The frame h, which has no nodes yet, is pushed.                         *)
Pushes(st, nd, cp, st2, cp2, n, h) ==
    /\ Len(st) = n /\ Len(st2) = n + 1 /\ \A j \in 1 .. n : st2[j] = st[j]
    /\ st2[n + 1] = h /\ h.nodes = <<>> /\ SectionOK(h) /\ (n > 0 => Waits(st[n]))
    /\ \/ /\ h.kind = "workflow" /\ h.of \in Workflows \ cp /\ cp2 = cp \cup {h.of}
          /\ n > 0 /\ st[n].of \in Workflows =>
                 h.bindings \subseteq BodyNodes(st, nd, st[n].of)
       \/ /\ h.kind = "section" /\ n > 0 /\ h.of = st[n].of /\ cp2 = cp
          /\ st[n].kind \in {"workflow", "section"} /\ h.conditions = {}
       \/ /\ h.kind = "failure" /\ n > 0 /\ h.of = st[n].of /\ cp2 = cp
          /\ h.prefix = Append(st[n].prefix, "f")

LEMMA Push ==
    ASSUME NEW st, NEW hp, NEW nd, NEW fn, NEW cp, NEW rs, NEW st2, NEW cp2, NEW n \in Nat, NEW h,
           Fits(st, hp, nd, fn), Core(st, hp, nd, fn, cp, rs), Pushes(st, nd, cp, st2, cp2, n, h)
    PROVE  Core(st2, hp, nd, fn, cp2, rs)
  <1>1. /\ Len(st) = n /\ Len(st2) = n + 1 /\ \A j \in 1 .. n : st2[j] = st[j]
        /\ st2[n + 1] = h /\ h.nodes = <<>> /\ SectionOK(h) /\ (n > 0 => Waits(st[n]))
    BY DEF Pushes
  <1>2. \/ /\ h.kind = "workflow" /\ h.of \in Workflows \ cp /\ cp2 = cp \cup {h.of}
           /\ n > 0 /\ st[n].of \in Workflows =>
                  h.bindings \subseteq BodyNodes(st, nd, st[n].of)
        \/ /\ h.kind = "section" /\ n > 0 /\ h.of = st[n].of /\ cp2 = cp
           /\ st[n].kind \in {"workflow", "section"} /\ h.conditions = {}
        \/ /\ h.kind = "failure" /\ n > 0 /\ h.of = st[n].of /\ cp2 = cp
           /\ h.prefix = Append(st[n].prefix, "f")
    BY DEF Pushes
  <1> QED
    BY <1>1, <1>2, CorePush, SMTT(20)

(* The frames st are those of the stack up to m, the last in the form g.   *)
LEMMA LinkMade ==
    ASSUME Typed, NEW m \in 1 .. Len(stack), NEW g, FrameTyped(g, Len(heap)),
           NEW b \in SUBSET (1 .. Len(heap)), NEW t \in SUBSET (1 .. Len(heap)),
           NodeMade(m, g, b, t), NEW st, st[m] = g, \A j \in 1 .. m - 1 : st[j] = stack[j]
    PROVE  LinksNode(st, heap, stack', heap', m, b, t)
  <1>1. /\ Len(stack') = m
        /\ stack'[m] = add_node(g) /\ \A j \in 1 .. m - 1 : stack'[j] = stack[j]
        /\ stack'[m].nodes = Append(g.nodes, Len(heap) + 1)
        /\ \A x \in {"kind", "of", "prefix", "stage", "called", "bindings", "inputs",
                      "conditions", "cases", "case", "mark"} : stack'[m][x] = g[x]
        /\ Len(heap') = Len(heap) + 1 /\ heap'[Len(heap) + 1] = Node(g, b, t)
        /\ \A n \in 1 .. Len(heap) : heap'[n] = heap[n]
    BY Linked, ZenonT(40)
  <1>2. heap'[Len(heap) + 1] =
            [id |-> [prefix |-> g.prefix, number |-> Len(g.nodes)], of |-> g.of,
             bindings |-> b, then_nodes |-> t]
    BY <1>1 DEF Node, node_id
  <1> QED
    BY <1>1, <1>2 DEF LinksNode

LEMMA LinkRuns ==
    ASSUME Typed, NEW m \in 1 .. Len(stack), NEW g, FrameTyped(g, Len(heap)),
           NEW b \in SUBSET (1 .. Len(heap)), NEW t \in SUBSET (1 .. Len(heap)),
           NodeMade(m, g, b, t), Waits(g)
    PROVE  Runs(stack'[Len(stack')])
  <1>1. /\ Len(stack') = m /\ stack'[m].kind = g.kind /\ stack'[m].called = g.called
        /\ stack'[m].nodes = Append(g.nodes, Len(heap) + 1)
    BY Linked, ZenonT(40)
  <1>2. ASSUME g.kind = "failure" PROVE g.called /\ Len(Append(g.nodes, Len(heap) + 1)) = 1
    BY <1>2 DEF Waits
  <1> QED
    BY <1>1, <1>2 DEF Runs

(* A call: the called workflow is compiled first, or the node is made.     *)
LEMMA CallCore ==
    ASSUME CInv, stack # <<>>, NEW e, NEW f, FrameTyped(f, Len(heap)), Same(Top, f),
           f.bindings = Top.bindings, SectionOK(f), Waits(f),
           f.kind = "section" => f.conditions \subseteq BodyNodes(stack, nodes, Top.of),
           NEW b \in SUBSET (1 .. Len(heap)),
           Top.of \in Workflows => b \subseteq BodyNodes(stack, nodes, Top.of),
           call(e, f, b), UNCHANGED <<nodes, failure_node, raised>>
    PROVE  /\ Core(stack', heap', nodes', failure_node', compiled', raised')
           /\ stack' # <<>> => Runs(stack'[Len(stack')])
  <1>1. /\ MInv /\ Typed /\ Fits(stack, heap, nodes, failure_node)
        /\ Core(stack, heap, nodes, failure_node, compiled, raised)
        /\ Len(stack) \in Nat /\ Len(heap) \in Nat
        /\ Len(stack) \in 1 .. Len(stack) /\ Top = stack[Len(stack)]
    BY CFacts
  <1> DEFINE n == Len(stack)
             st == Append(Below, f)
  <1>3. n \in 1 .. Len(stack) /\ n \in Nat /\ Len(stack) = n /\ Top = stack[n] /\ n > 0
    BY <1>1
  <1>2. Retopped(stack, heap, nodes, st, n, f)
    BY <1>1 DEF Retopped, Below
  <1>4. \/ /\ e \in Workflows \ compiled /\ start_compile(e, st, f.prefix, b)
        \/ create_and_link_node(Below, f, b) /\ UNCHANGED compiled
    BY DEF call
  <1> HIDE DEF n, st
  <1>7. /\ Fits(st, heap, nodes, failure_node)
        /\ Core(st, heap, nodes, failure_node, compiled, raised)
        /\ Len(st) = n /\ st[n] = f /\ \A j \in 1 .. n - 1 : st[j] = stack[j]
        /\ \A w : BodyNodes(stack, nodes, w) \subseteq BodyNodes(st, nodes, w)
    BY <1>1, <1>2, <1>3, Retop
  <1>8. f.of \in Workflows => b \subseteq BodyNodes(st, nodes, f.of)
    BY <1>3, <1>7 DEF Same
  <1>9. ASSUME NEW w \in Workflows \ compiled, start_compile(w, st, f.prefix, b)
        PROVE  /\ Core(stack', heap', nodes', failure_node', compiled', raised')
               /\ stack' # <<>> => Runs(stack'[Len(stack')])
    <2> DEFINE h0 == NewFrame("workflow", w, f.prefix)
               h == [h0 EXCEPT !.bindings = b]
    <2>1. FrameTyped(h0, Len(heap)) /\ h0.kind = "workflow" /\ h0.of = w /\ h0.nodes = <<>>
      <3>1. f.prefix \in Seq({"d", "f"})
        BY DEF FrameTyped, Frame
      <3> QED
        BY <1>1, <3>1, NewFrameTyped DEF Owners, NewFrame
    <2>2. h.kind = "workflow" /\ h.of = w /\ h.bindings = b /\ h.nodes = <<>>
      BY <1>1, <2>1, FrameUpdates DEF Same
    <2>3. heap' = heap /\ stack' = Append(st, h) /\ compiled' = compiled \cup {w}
      BY <1>9 DEF start_compile
    <2> HIDE DEF h, h0
    <2>4. /\ Len(stack') = n + 1 /\ stack'[n + 1] = h
          /\ \A j \in 1 .. n : stack'[j] = st[j]
      <3>1. st \in Seq(Frame)
        BY <1>7 DEF Fits, StackTyped
      <3> QED
        BY <1>3, <1>7, <2>3, <3>1
    <2>5. SectionOK(h) /\ Waits(st[n])
      BY <1>7, <2>2 DEF SectionOK
    <2>6. Pushes(st, nodes, compiled, stack', compiled', n, h)
      BY <1>7, <1>8, <2>2, <2>3, <2>4, <2>5 DEF Pushes
    <2>7. Core(stack', heap, nodes, failure_node, compiled', raised)
      BY <1>3, <1>7, <2>6, Push
    <2>8. Runs(stack'[Len(stack')])
      BY <2>2, <2>4 DEF Runs
    <2> QED
      BY <2>3, <2>7, <2>8
  <1>10. CASE create_and_link_node(Below, f, b) /\ UNCHANGED compiled
    <2> DEFINE t == {}
    <2>1. NodeMade(n, f, b, t)
      BY <1>10 DEF NodeMade, create_and_link_node, Below, n
    <2>2. t \in SUBSET (1 .. Len(heap)) /\ t = UNION {Range(st[i].nodes) : i \in n + 1 .. Len(st)}
      <3>1. n + 1 .. Len(st) = {}
        BY <1>3, <1>7
      <3> QED
        BY <3>1
    <2>3. \A i \in n + 1 .. Len(st) : st[i].kind = "section" /\ st[i].of = st[n].of
      BY <1>3, <1>7
    <2> HIDE DEF t
    <2>4. LinksNode(st, heap, stack', heap', n, b, t)
      BY <1>1, <1>3, <1>7, <2>1, <2>2, LinkMade
    <2>5. st[n].kind = "section" => st[n].case # "none" /\ Len(st[n].nodes) = st[n].mark
      BY <1>7 DEF Waits
    <2>6. n \in 1 .. Len(st) /\ (st[n].of \in Workflows => b \subseteq BodyNodes(st, nodes, st[n].of))
      BY <1>3, <1>7, <1>8
    <2>7. Core(stack', heap', nodes, failure_node, compiled, raised)
      BY <1>7, <2>2, <2>3, <2>4, <2>5, <2>6, CoreLink, ZenonT(40)
    <2>8. Runs(stack'[Len(stack')])
      BY <1>1, <1>3, <2>1, <2>2, LinkRuns
    <2> QED
      BY <1>10, <2>7, <2>8
  <1> QED
    BY <1>4, <1>9, <1>10

(* One step each.                                                          *)
CoreKept ==
    /\ Core(stack', heap', nodes', failure_node', compiled', raised')
    /\ stack' # <<>> => Runs(stack'[Len(stack')])

LEMMA CompileCore ==
    ASSUME CInv, NEW w \in Workflows, compile(w) \/ compile_into_workflow(w)
    PROVE  CoreKept
  <1>1. /\ stack = <<>> /\ w \notin compiled /\ UNCHANGED <<nodes, failure_node, raised>>
        /\ \E p \in Seq({"d", "f"}) : start_compile(w, <<>>, p, {})
    <2>1. <<>> \in Seq({"d", "f"}) /\ <<"d">> \in Seq({"d", "f"})
      OBVIOUS
    <2> QED
      BY <2>1 DEF compile, compile_into_workflow
  <1>2. PICK p \in Seq({"d", "f"}) : start_compile(w, <<>>, p, {})
    BY <1>1
  <1>3. /\ Fits(stack, heap, nodes, failure_node) /\ Len(heap) \in Nat
        /\ Core(stack, heap, nodes, failure_node, compiled, raised)
    BY CFacts
  <1> DEFINE h0 == NewFrame("workflow", w, p)
             h == [h0 EXCEPT !.bindings = {}]
             n == 0
  <1>4. FrameTyped(h0, Len(heap)) /\ h0.kind = "workflow" /\ h0.of = w /\ h0.nodes = <<>>
    BY <1>3, NewFrameTyped DEF Owners, NewFrame
  <1>5. h.kind = "workflow" /\ h.of = w /\ h.nodes = <<>>
    BY <1>3, <1>4, FrameUpdates DEF Same
  <1>6. heap' = heap /\ stack' = Append(<<>>, h) /\ compiled' = compiled \cup {w}
    BY <1>2 DEF start_compile
  <1> HIDE DEF h, h0
  <1>7. Len(stack') = 1 /\ stack'[1] = h /\ SectionOK(h)
    BY <1>5, <1>6 DEF SectionOK
  <1>8. Pushes(stack, nodes, compiled, stack', compiled', n, h) /\ n \in Nat
    BY <1>1, <1>5, <1>6, <1>7 DEF Pushes
  <1> HIDE DEF n
  <1>9. Core(stack', heap, nodes, failure_node, compiled', raised)
    BY <1>3, <1>8, Push
  <1>10. Runs(stack'[Len(stack')])
    BY <1>5, <1>7 DEF Runs
  <1> QED
    BY <1>1, <1>6, <1>9, <1>10 DEF CoreKept

(* The code of a body runs: nothing but its frame is in the way.           *)
LEMMA InBodyWaits ==
    ASSUME CInv, ~ Careless, InBody
    PROVE  /\ Waits(Top) /\ stack # <<>> /\ Top.of \in Workflows
           /\ Top.kind \in {"workflow", "section"}
           /\ Visible(Len(stack)) \subseteq BodyNodes(stack, nodes, Top.of)
           /\ Visible(Len(stack)) \in SUBSET (1 .. Len(heap))
  <1>1. MInv /\ Len(stack) \in Nat
    BY CFacts
  <1>2. /\ stack # <<>> /\ Len(stack) \in 1 .. Len(stack) /\ Top = stack[Len(stack)]
        /\ Top.kind \in {"workflow", "section"} /\ Top.of \in Workflows
        /\ Visible(Len(stack)) \subseteq 1 .. Len(heap)
    BY <1>1, InBodyFacts
  <1>3. Top.kind = "section" => Top.case # "none" /\ Len(Top.nodes) = Top.mark
    BY DEF InBody, AtTop
  <1>4. Waits(Top)
    BY <1>2, <1>3 DEF Waits
  <1>5. Visible(Len(stack)) \subseteq BodyNodes(stack, nodes, Top.of)
    BY <1>2, <1>3, VisibleInBody
  <1> QED
    BY <1>2, <1>4, <1>5

LEMMA CallEntityCore ==
    ASSUME CInv, ~ Careless, NEW e, CallEntity(e)
    PROVE  CoreKept
  <1>1. InBody /\ call(e, Top, Visible(Len(stack))) /\ UNCHANGED <<nodes, failure_node, raised>>
    BY DEF CallEntity
  <1> DEFINE b == Visible(Len(stack))
             f == Top
  <1>2. /\ Waits(f) /\ stack # <<>> /\ call(e, f, b) /\ b \in SUBSET (1 .. Len(heap))
        /\ b \subseteq BodyNodes(stack, nodes, Top.of)
    BY <1>1, InBodyWaits
  <1>3. /\ FrameTyped(f, Len(heap)) /\ Same(Top, f) /\ f.bindings = Top.bindings /\ SectionOK(f)
        /\ f.kind = "section" => f.conditions \subseteq BodyNodes(stack, nodes, Top.of)
    BY <1>2, CFacts DEF Same
  <1> HIDE DEF b, f
  <1> QED
    BY <1>1, <1>2, <1>3, CallCore DEF CoreKept

LEMMA CallHandlerCore ==
    ASSUME CInv, CallHandler
    PROVE  CoreKept
  <1> DEFINE f == [Top EXCEPT !.called = TRUE]
             b == {}
             e == on_failure[Top.of]
  <1>1. /\ stack # <<>> /\ Top.kind = "failure" /\ ~ Top.called /\ call(e, f, b)
        /\ UNCHANGED <<nodes, failure_node, raised>>
    BY DEF CallHandler, AtTop
  <1>2. FrameTyped(Top, Len(heap)) /\ Top \in Frame /\ Len(heap) \in Nat /\ Runs(Top)
    BY <1>1, CFacts
  <1>3. FrameTyped(f, Len(heap)) /\ Same(Top, f) /\ f.bindings = Top.bindings /\ f.called
    BY <1>2, FrameUpdates
  <1>4. f.kind = "failure" /\ f.nodes = <<>>
    <2>1. Top.nodes \in Seq(Nat) /\ Len(Top.nodes) = 0
      BY <1>1, <1>2 DEF Runs, Frame
    <2> QED
      BY <1>1, <1>3, <2>1 DEF Same
  <1> HIDE DEF f
  <1>5. SectionOK(f) /\ Waits(f)
    BY <1>3, <1>4 DEF SectionOK, Waits
  <1>6. b \in SUBSET (1 .. Len(heap)) /\ b \subseteq BodyNodes(stack, nodes, Top.of)
    OBVIOUS
  <1> HIDE DEF b, e
  <1> QED
    BY <1>1, <1>3, <1>4, <1>5, <1>6, CallCore DEF CoreKept

LEMMA CreateNodeCore ==
    ASSUME CInv, NEW e, CreateNode(e)
    PROVE  CoreKept
  <1> DEFINE f == [Top EXCEPT !.called = TRUE]
             b == Top.bindings
  <1>1. /\ stack # <<>> /\ Top.kind \in AddKinds /\ call(e, f, b)
        /\ UNCHANGED <<nodes, failure_node, raised>>
    BY DEF CreateNode, AtTop, AddKinds
  <1>2. /\ FrameTyped(Top, Len(heap)) /\ Len(heap) \in Nat /\ FramesOK(stack) /\ Typed
        /\ Len(stack) \in 1 .. Len(stack) /\ Top = stack[Len(stack)]
    BY <1>1, CFacts
  <1>3. FrameTyped(f, Len(heap)) /\ Same(Top, f) /\ f.bindings = Top.bindings
    BY <1>2, FrameUpdates
  <1>4. Top.of \notin Workflows
    BY <1>1, <1>2, ImperativeFacts DEF FramesOK, Stands
  <1>5. f.kind \in AddKinds
    BY <1>1, <1>3 DEF Same
  <1> HIDE DEF f
  <1>6. SectionOK(f) /\ Waits(f) /\ f.kind # "section"
    BY <1>5 DEF SectionOK, Waits, AddKinds
  <1>7. b \in SUBSET (1 .. Len(heap))
    BY <1>2 DEF FrameTyped
  <1> HIDE DEF b
  <1> QED
    BY <1>1, <1>3, <1>4, <1>6, <1>7, CallCore DEF CoreKept

LEMMA ConditionalCore ==
    ASSUME CInv, ~ Careless, Conditional
    PROVE  CoreKept
  <1> DEFINE h == NewFrame("section", Top.of, Top.prefix)
             n == Len(stack)
  <1>1. /\ InBody /\ stack' = Append(stack, h)
        /\ UNCHANGED <<heap, compiled, nodes, failure_node, raised>>
    BY DEF Conditional
  <1>2. /\ stack # <<>> /\ Waits(Top) /\ Top.kind \in {"workflow", "section"}
    BY <1>1, InBodyWaits
  <1>3. /\ Fits(stack, heap, nodes, failure_node) /\ n \in Nat /\ n \in 1 .. n /\ Top = stack[n]
        /\ Core(stack, heap, nodes, failure_node, compiled, raised) /\ stack \in Seq(Frame)
    BY <1>2, CFacts DEF Fits, StackTyped
  <1>4. /\ h.kind = "section" /\ h.of = Top.of /\ h.nodes = <<>> /\ h.conditions = {}
        /\ h.case = "none" /\ h.cases = <<>>
    BY DEF NewFrame
  <1> HIDE DEF h
  <1>5. SectionOK(h)
    <2>1. Range(<<>>) = {}
      BY DEF Range
    <2> QED
      BY <1>4, <2>1 DEF SectionOK
  <1>6. /\ Len(stack') = n + 1 /\ stack'[n + 1] = h /\ \A j \in 1 .. n : stack'[j] = stack[j]
    BY <1>1, <1>3
  <1>7. Pushes(stack, nodes, compiled, stack', compiled', n, h)
    BY <1>1, <1>2, <1>3, <1>4, <1>5, <1>6 DEF Pushes
  <1> HIDE DEF n
  <1>8. Core(stack', heap, nodes, failure_node, compiled', raised)
    BY <1>3, <1>7, Push
  <1>9. Runs(stack'[Len(stack')])
    BY <1>4, <1>6 DEF Runs, n
  <1> QED
    BY <1>1, <1>8, <1>9 DEF CoreKept

LEMMA UnwindCore ==
    ASSUME CInv, stack # <<>>, Unwind
    PROVE  CoreKept
  <1>1. /\ Fits(stack, heap, nodes, failure_node) /\ Typed /\ FramesOK(stack)
        /\ Core(stack, heap, nodes, failure_node, compiled, raised)
        /\ Len(stack) \in Nat /\ Len(stack) \in 1 .. Len(stack) /\ Top = stack[Len(stack)]
        /\ Top \in Frame /\ Runs(Top)
    BY CFacts
  <1>2. /\ stack' = <<>> /\ heap' = heap /\ compiled' = compiled
        /\ raised' = raised \cup {stack[i].of : i \in DOMAIN stack}
    BY DEF Unwind
  <1>3. Imperative \notin Workflows /\ DOMAIN stack = 1 .. Len(stack)
    BY <1>1, FitsFacts DEF Fits, StackTyped
  <1>4. nodes \in [Owners -> Seq(Nat)] /\ failure_node \in [Owners -> SUBSET Nat]
    BY <1>1 DEF Typed, GraphsTyped
  <1>5. \A v \in Workflows : nodes'[v] = nodes[v]
    <2>1. nodes' = [nodes EXCEPT ![Imperative] = stack[1].nodes] \/ nodes' = nodes
      BY DEF Unwind
    <2> QED
      BY <1>3, <1>4, <2>1 DEF Owners
  <1>6. ASSUME NEW v \in Workflows
        PROVE  \/ failure_node'[v] = failure_node[v]
               \/ \E i \in 1 .. Len(stack) :
                      /\ stack[i].kind = "failure" /\ stack[i].of = v
                      /\ failure_node'[v] = Range(stack[i].nodes) /\ Len(stack[i].nodes) <= 1
    <2>1. CASE AtTop("failure") /\ Top.called /\ Top.of = v
      <3>1. failure_node' = [failure_node EXCEPT ![Top.of] = Range(Top.nodes)]
        BY <2>1 DEF Unwind
      <3>2. failure_node'[v] = Range(Top.nodes)
        BY <1>4, <2>1, <3>1 DEF Owners
      <3>5. Len(Top.nodes) = 1 /\ Top.kind = "failure"
        BY <1>1, <2>1 DEF Runs, AtTop
      <3>3. Len(Top.nodes) <= 1 /\ Top.kind = "failure"
        BY <3>5
      <3>4. PICK i \in 1 .. Len(stack) : Top = stack[i]
        BY <1>1
      <3> QED
        BY <2>1, <3>2, <3>3, <3>4
    <2>2. CASE ~ (AtTop("failure") /\ Top.called /\ Top.of = v)
      <3>1. \/ failure_node' = failure_node
            \/ Top.of # v /\ failure_node' = [failure_node EXCEPT ![Top.of] = Range(Top.nodes)]
        BY <2>2 DEF Unwind
      <3> QED
        BY <1>4, <3>1 DEF Owners
    <2> QED
      BY <2>1, <2>2
  <1>7. Unwinds(stack, nodes, failure_node, raised, nodes', failure_node', raised')
    BY <1>2, <1>3, <1>5, <1>6 DEF Unwinds
  <1>8. Core(<<>>, heap, nodes', failure_node', compiled, raised')
    BY <1>1, <1>7, CoreUnwind
  <1> QED
    BY <1>2, <1>8 DEF CoreKept

(* What is around the section on top.                                      *)
LEMMA OuterFacts ==
    ASSUME CInv, AtTop("section")
    PROVE  /\ stack # <<>> /\ Len(stack) - 1 \in 1 .. Len(stack)
           /\ (Len(stack) - 1) + 1 = Len(stack) /\ Len(Below) = Len(stack) - 1
           /\ stack[Len(stack) - 1].kind \in {"workflow", "section"}
           /\ stack[Len(stack) - 1].of = Top.of
           /\ stack[Len(stack) - 1].kind = "section" =>
                  /\ stack[Len(stack) - 1].case # "none"
                  /\ Len(stack[Len(stack) - 1].nodes) = stack[Len(stack) - 1].mark
           /\ Visible(Len(Below)) \subseteq BodyNodes(stack, nodes, Top.of)
  <1> DEFINE n == Len(stack)
             d == n - 1
  <1>1. MInv /\ Stacked(stack) /\ n \in Nat /\ stack # <<>>
    BY CFacts DEF AtTop
  <1>2. /\ n > 1 /\ Top = stack[n] /\ Top.kind = "section"
        /\ stack[d].kind \in {"workflow", "section"}
    BY <1>1, SectionFacts
  <1>3. d \in 1 .. Len(stack) /\ d + 1 = n /\ d < Len(stack) /\ n \in 1 .. Len(stack) /\ d \in Nat
    BY <1>1, <1>2
  <1>4. Len(Below) = d
    BY <1>1, TopFacts, CFacts
  <1>5. stack[d].kind = "section" => stack[d].case # "none" /\ Len(stack[d].nodes) = stack[d].mark
    BY <1>1, <1>3 DEF Stacked, Waits
  <1>6. stack[d].of = Top.of
    <2>1. PICK b \in 1 .. n - 1 : InBodyAt(stack, n, b)
      BY <1>1, <1>2, <1>3 DEF Stacked
    <2>2. n \in b + 1 .. n /\ (d = b \/ d \in b + 1 .. n)
      BY <1>1, <1>2, <2>1
    <2>3. stack[n].of = stack[b].of /\ stack[d].of = stack[b].of
      BY <2>1, <2>2 DEF InBodyAt
    <2> QED
      BY <1>2, <2>3
  <1> HIDE DEF d
  <1>7. Visible(d) \subseteq BodyNodes(stack, nodes, stack[d].of)
    BY <1>2, <1>3, <1>5, VisibleInBody
  <1>8. Visible(Len(Below)) \subseteq BodyNodes(stack, nodes, Top.of)
    BY <1>4, <1>6, <1>7
  <1> QED
    BY <1>1, <1>2, <1>3, <1>4, <1>5, <1>6, <1>8 DEF d

(* The section on top in the form g, one case further.                     *)
LEMMA SectionCore ==
    ASSUME CInv, AtTop("section"), NEW g, FrameTyped(g, Len(heap)), Same(Top, g),
           g.bindings = Top.bindings, SectionOK(g),
           g.conditions \subseteq BodyNodes(stack, nodes, Top.of),
           stack' = Append(Below, g), UNCHANGED <<heap, compiled, nodes, failure_node, raised>>
    PROVE  CoreKept
  <1> DEFINE n == Len(stack)
             st == Append(Below, g)
  <1>1. /\ Fits(stack, heap, nodes, failure_node) /\ stack # <<>> /\ Top.kind = "section"
        /\ Core(stack, heap, nodes, failure_node, compiled, raised)
        /\ n \in Nat /\ n \in 1 .. Len(stack) /\ Top = stack[n]
    BY CFacts DEF AtTop
  <1>2. Retopped(stack, heap, nodes, st, n, g)
    BY <1>1 DEF Retopped, Below
  <1> HIDE DEF n, st
  <1>3. /\ Fits(st, heap, nodes, failure_node)
        /\ Core(st, heap, nodes, failure_node, compiled, raised)
        /\ Len(st) = n /\ st[n] = g
    BY <1>1, <1>2, Retop, SMTT(20)
  <1>4. stack' = st
    BY DEF st
  <1>5. Runs(st[Len(st)])
    BY <1>1, <1>3 DEF Runs, Same
  <1> QED
    BY <1>3, <1>4, <1>5 DEF CoreKept

LEMMA StartBranchCore ==
    ASSUME CInv, NEW l, start_branch(l)
    PROVE  CoreKept
  <1> DEFINE c == IF l THEN Top.conditions ELSE Top.conditions \cup Visible(Len(Below))
             k == IF l THEN "last" ELSE "open"
  <1>1. /\ AtTop("section") /\ Top.case = "none" /\ Top.kind = "section"
        /\ UNCHANGED <<heap, compiled, nodes, failure_node, raised>>
        /\ stack' = Append(Below, [Top EXCEPT !.conditions = c, !.case = k,
                                              !.mark = Len(Top.nodes)])
    BY DEF start_branch, AtTop
  <1>2. /\ stack # <<>> /\ Len(heap) \in Nat /\ FrameTyped(Top, Len(heap)) /\ Top \in Frame
        /\ c \subseteq 1 .. Len(heap) /\ k \in {"last", "open"} /\ SectionOK(Top)
    BY <1>1, SectionFacts, CFacts DEF FrameTyped
  <1>3. c \subseteq BodyNodes(stack, nodes, Top.of)
    BY <1>1, <1>2, OuterFacts, CFacts
  <1>4. c \in SUBSET Nat /\ Len(Top.nodes) \in Nat /\ Top.nodes \in Seq(Nat)
    BY <1>2 DEF Frame
  <1> HIDE DEF c, k
  <1>5. ASSUME NEW g, g = [Top EXCEPT !.conditions = c, !.case = k, !.mark = Len(Top.nodes)]
        PROVE  /\ g \in Frame /\ Same(Top, g) /\ g.bindings = Top.bindings /\ g.conditions = c
               /\ g.cases = Top.cases /\ g.case = k /\ g.mark = Len(Top.nodes)
    BY <1>2, <1>4, <1>5 DEF Frame, Same
  <1> DEFINE g == [Top EXCEPT !.conditions = c, !.case = k, !.mark = Len(Top.nodes)]
  <1>6. /\ g \in Frame /\ Same(Top, g) /\ g.bindings = Top.bindings /\ g.conditions = c
        /\ g.cases = Top.cases /\ g.case = k /\ g.mark = Len(Top.nodes)
        /\ stack' = Append(Below, g)
    BY <1>1, <1>5
  <1> HIDE DEF g
  <1>7. FrameTyped(g, Len(heap))
    BY <1>2, <1>6 DEF FrameTyped, Same
  <1>8. SectionOK(g)
    <2>1. UNION Range(g.cases) = Range(g.nodes) /\ g.nodes = Top.nodes
      BY <1>1, <1>2, <1>6 DEF SectionOK, Same
    <2>2. \A n : n \in Range(Top.nodes) <=> \E j \in 1 .. Len(Top.nodes) : Top.nodes[j] = n
      BY <1>4, InRange
    <2>3. Range(Top.nodes) = {Top.nodes[j] : j \in 1 .. Len(Top.nodes)}
      BY <2>2
    <2>4. Range(g.nodes) = {g.nodes[j] : j \in 1 .. g.mark}
      BY <1>6, <2>1, <2>3
    <2> QED
      BY <1>2, <1>4, <1>6, <2>1, <2>4 DEF SectionOK
  <1> QED
    BY <1>1, <1>3, <1>6, <1>7, <1>8, SectionCore

LEMMA SplitRange ==
    ASSUME NEW s \in Seq(Nat), NEW m \in Nat, m <= Len(s)
    PROVE  Range(s) = {s[j] : j \in 1 .. m} \cup {s[j] : j \in m + 1 .. Len(s)}
  <1>1. Len(s) \in Nat /\ DOMAIN s = 1 .. Len(s)
    OBVIOUS
  <1>2. ASSUME NEW j \in 1 .. Len(s) PROVE j \in 1 .. m \/ j \in m + 1 .. Len(s)
    BY <1>1
  <1>3. /\ \A j \in 1 .. m : j \in 1 .. Len(s)
        /\ \A j \in m + 1 .. Len(s) : j \in 1 .. Len(s)
    BY <1>1
  <1> QED
    BY <1>1, <1>2, <1>3 DEF Range

(* The nodes of the open case of the section on top.                       *)
OpenCase == {Top.nodes[j] : j \in Top.mark + 1 .. Len(Top.nodes)}

LEMMA EndBranchCore ==
    ASSUME CInv, AtTop("section"), Top.case # "none", NEW output \in SUBSET (1 .. Len(heap)),
           output = OpenCase, end_branch(output)
    PROVE  CoreKept
  <1> DEFINE cs == Append(Top.cases, output)
             n == Len(stack)
             outer == stack[n - 1]
  <1>1. /\ MInv /\ Typed /\ Fits(stack, heap, nodes, failure_node) /\ stack # <<>>
        /\ Core(stack, heap, nodes, failure_node, compiled, raised)
        /\ n \in Nat /\ n \in 1 .. n /\ Len(heap) \in Nat /\ Top = stack[n]
        /\ FrameTyped(Top, Len(heap)) /\ Top \in Frame /\ SectionOK(Top) /\ Top.kind = "section"
        /\ Top.conditions \subseteq BodyNodes(stack, nodes, Top.of)
    BY CFacts DEF AtTop
  <1>2. /\ cs \in Seq(SUBSET Nat) /\ Range(cs) = Range(Top.cases) \cup {output}
    <2>1. Top.cases \in Seq(SUBSET Nat) /\ output \in SUBSET Nat
      BY <1>1 DEF Frame
    <2> QED
      BY <2>1, RangeOfAppend
  <1>3. UNION Range(cs) = Range(Top.nodes)
    <2>1. /\ Top.nodes \in Seq(Nat) /\ Top.mark \in Nat /\ Len(Top.nodes) \in Nat
          /\ Top.mark <= Len(Top.nodes)
          /\ UNION Range(Top.cases) = {Top.nodes[j] : j \in 1 .. Top.mark}
      BY <1>1 DEF Frame, SectionOK
    <2>2. Range(Top.nodes) = {Top.nodes[j] : j \in 1 .. Top.mark} \cup OpenCase
      BY <2>1, SplitRange DEF OpenCase
    <2>4. UNION Range(cs) = (UNION Range(Top.cases)) \cup output
      BY <1>2
    <2>5. UNION Range(Top.cases) = {Top.nodes[j] : j \in 1 .. Top.mark}
      BY <2>1
    <2> HIDE DEF cs
    <2> QED
      BY <2>2, <2>4, <2>5
  <1>4. \A x \in Range(cs) : x \subseteq 1 .. Len(heap)
    BY <1>1, <1>2 DEF FrameTyped
  <1>5. CASE Top.case # "last"
    <2>1. /\ stack' = Append(Below, [Top EXCEPT !.cases = cs, !.case = "none"])
          /\ UNCHANGED <<heap, compiled, nodes, failure_node, raised>>
      BY <1>5 DEF end_branch
    <2> HIDE DEF cs
    <2>2. ASSUME NEW g, g = [Top EXCEPT !.cases = cs, !.case = "none"]
          PROVE  /\ g \in Frame /\ Same(Top, g) /\ g.bindings = Top.bindings
                 /\ g.conditions = Top.conditions /\ g.cases = cs /\ g.case = "none"
      BY <1>1, <1>2, <2>2 DEF Frame, Same
    <2> DEFINE g == [Top EXCEPT !.cases = cs, !.case = "none"]
    <2>3. /\ g \in Frame /\ Same(Top, g) /\ g.bindings = Top.bindings
          /\ g.conditions = Top.conditions /\ g.cases = cs /\ g.case = "none"
          /\ stack' = Append(Below, g)
      BY <2>1, <2>2
    <2> HIDE DEF g
    <2>4. FrameTyped(g, Len(heap))
      BY <1>1, <1>4, <2>3 DEF FrameTyped, Same
    <2>5. SectionOK(g)
      BY <1>3, <2>3 DEF SectionOK, Same
    <2> QED
      BY <1>1, <2>1, <2>3, <2>4, <2>5, SectionCore
  <1>6. CASE Top.case = "last" /\ to_ifelse_block(cs)
    <2> DEFINE b == Top.conditions
               t == then_nodes(cs)
               m == n - 1
    <2>1. /\ heap' = Append(heap, Node(outer, b, t))
          /\ stack' = Append(SubSeq(stack, 1, n - 2), add_node(outer))
          /\ UNCHANGED <<compiled, nodes, failure_node, raised>>
      BY <1>6 DEF end_branch
    <2>2. /\ m \in 1 .. Len(stack) /\ m + 1 = n /\ outer.kind \in {"workflow", "section"}
          /\ outer.of = Top.of
          /\ outer.kind = "section" => outer.case # "none" /\ Len(outer.nodes) = outer.mark
      BY OuterFacts
    <2>3. NodeMade(m, outer, b, t)
      <3>1. m - 1 = n - 2
        BY <1>1
      <3> QED
        BY <2>1, <3>1 DEF NodeMade
    <2>4. b \in SUBSET (1 .. Len(heap)) /\ t \in SUBSET (1 .. Len(heap)) /\ t = Range(Top.nodes)
      <3> HIDE DEF cs
      <3> QED
        BY <1>1, <1>3, <1>4 DEF FrameTyped, then_nodes
    <2>5. FrameTyped(outer, Len(heap)) /\ stack[m] = outer
      BY <1>1, <2>2 DEF Typed, StackTyped
    <2>6. /\ t = UNION {Range(stack[i].nodes) : i \in m + 1 .. Len(stack)}
          /\ \A i \in m + 1 .. Len(stack) : stack[i].kind = "section" /\ stack[i].of = stack[m].of
      <3>1. m + 1 .. Len(stack) = {n}
        BY <1>1, <2>2
      <3> HIDE DEF m, t
      <3> QED
        BY <1>1, <2>2, <2>4, <2>5, <3>1
    <2> HIDE DEF b, t, m, outer, cs, n
    <2>7. LinksNode(stack, heap, stack', heap', m, b, t)
      BY <1>1, <2>2, <2>3, <2>4, <2>5, LinkMade
    <2>8. /\ stack[m].of \in Workflows => b \subseteq BodyNodes(stack, nodes, stack[m].of)
          /\ stack[m].kind = "section" =>
                 stack[m].case # "none" /\ Len(stack[m].nodes) = stack[m].mark
      BY <1>1, <2>2, <2>5 DEF b
    <2>9. Core(stack', heap', nodes, failure_node, compiled, raised)
      BY <1>1, <2>2, <2>6, <2>7, <2>8, CoreLink
    <2>10. Runs(stack'[Len(stack')])
      BY <2>2, <2>5, <2>7 DEF Runs, LinksNode
    <2> QED
      BY <2>1, <2>9, <2>10 DEF CoreKept
  <1>7. CASE Top.case = "last" /\ ~ to_ifelse_block(cs)
    <2>1. Unwind
      BY <1>7 DEF end_branch
    <2> QED
      BY <1>1, <2>1, UnwindCore
  <1> QED
    BY <1>5, <1>6, <1>7

LEMMA BranchCore ==
    ASSUME CInv, Then \/ Fail
    PROVE  CoreKept
  <1> DEFINE o == {Top.nodes[j] : j \in Top.mark + 1 .. Len(Top.nodes)}
  <1>1. AtTop("section") /\ Top.case # "none"
    BY DEF Then, Fail
  <1>2. /\ FrameTyped(Top, Len(heap)) /\ Top.nodes \in Seq(Nat) /\ Top.mark \in Nat
        /\ Len(Top.nodes) \in Nat /\ Len(Top.nodes) <= Top.mark + 1
        /\ \A j \in 1 .. Len(Top.nodes) : Top.nodes[j] \in 1 .. Len(heap)
    <2>1. FrameTyped(Top, Len(heap)) /\ Top \in Frame /\ SectionOK(Top) /\ Top.kind = "section"
      BY <1>1, CFacts DEF AtTop
    <2>2. Top.nodes \in Seq(Nat) /\ Top.mark \in Nat
      BY <2>1 DEF Frame
    <2>3. Len(Top.nodes) <= Top.mark + 1
      BY <1>1, <2>1 DEF SectionOK
    <2>4. Range(Top.nodes) \subseteq 1 .. Len(heap)
      BY <2>1 DEF FrameTyped
    <2> QED
      BY <2>1, <2>2, <2>3, <2>4, InRange
  <1>3. o \in SUBSET (1 .. Len(heap))
    BY <1>2
  <1>4. end_branch(o)
    <2>1. CASE Then
      <3>1. Len(Top.nodes) > Top.mark /\ end_branch({Top.nodes[Len(Top.nodes)]})
        BY <2>1 DEF Then
      <3>2. Top.mark + 1 .. Len(Top.nodes) = {Len(Top.nodes)}
        BY <1>2, <3>1
      <3>3. o = {Top.nodes[Len(Top.nodes)]}
        BY <3>2
      <3> QED
        BY <3>1, <3>3
    <2>2. CASE Fail
      <3>1. Len(Top.nodes) = Top.mark /\ end_branch({})
        BY <2>2 DEF Fail
      <3>2. Top.mark + 1 .. Len(Top.nodes) = {}
        BY <1>2, <3>1
      <3>3. o = {}
        BY <3>2
      <3> QED
        BY <3>1, <3>3
    <2> QED
      BY <2>1, <2>2
  <1>5. o = OpenCase
    BY DEF OpenCase
  <1> HIDE DEF o
  <1> QED
    BY <1>1, <1>3, <1>4, <1>5, EndBranchCore

LEMMA RaiseCore ==
    ASSUME CInv, Raise
    PROVE  CoreKept
  BY UnwindCore DEF Raise

(* The compilation of w, whose frame is at k, is over.                     *)
LEMMA FinishCore ==
    ASSUME CInv, NEW k \in 1 .. Len(stack), NEW w \in Workflows,
           stack[k].kind = "workflow", stack[k].of = w,
           Finish(w, stack[k], SubSeq(stack, 1, k - 1)),
           NEW t \in SUBSET (1 .. Len(heap)), failure_node' = [failure_node EXCEPT ![w] = t],
           \A n : n \in t <=> \E i \in k + 1 .. Len(stack) : n \in Range(stack[i].nodes),
           \A i \in k + 1 .. Len(stack) :
               i = k + 1 /\ stack[i].kind = "failure" /\ Len(stack[i].nodes) <= 1,
           UNCHANGED <<compiled, raised>>
    PROVE  CoreKept
  <1>1. /\ Typed /\ Fits(stack, heap, nodes, failure_node) /\ FramesOK(stack)
        /\ Core(stack, heap, nodes, failure_node, compiled, raised)
        /\ Stacked(stack) /\ Bound(stack, heap, nodes, raised)
        /\ Len(stack) \in Nat /\ Len(heap) \in Nat /\ stack \in Seq(Frame)
    BY CFacts DEF Core, Fits, StackTyped
  <1>2. /\ nodes \in [Owners -> Seq(Nat)] /\ failure_node \in [Owners -> SUBSET Nat]
        /\ w \in Owners /\ StackTyped(stack, Len(heap)) /\ HeapTyped(heap)
        /\ GraphsTyped(nodes, failure_node, Len(heap))
    BY <1>1 DEF Typed, GraphsTyped, Owners
  <1>3. stack[k].nodes \in Seq(Nat) /\ Range(stack[k].nodes) \subseteq 1 .. Len(heap)
        /\ stack[k].bindings \subseteq 1 .. Len(heap) /\ FrameTyped(stack[k], Len(heap))
    <2>1. FrameTyped(stack[k], Len(heap))
      BY <1>2 DEF StackTyped
    <2> QED
      BY <2>1 DEF FrameTyped, Frame
  <1>4. /\ nodes' = [nodes EXCEPT ![w] = stack[k].nodes]
        /\ k = 1 => stack' = <<>> /\ heap' = heap
        /\ k > 1 => k - 1 \in 1 .. Len(stack)
                    /\ NodeMade(k - 1, stack[k - 1], stack[k].bindings, {})
    BY <1>1, FinishIsNodeMade
  <1>5. /\ nodes'[w] = stack[k].nodes /\ failure_node'[w] = t
        /\ \A v \in Owners : v # w => nodes'[v] = nodes[v] /\ failure_node'[v] = failure_node[v]
    BY <1>2, <1>4
  <1>6. GraphsTyped(nodes', failure_node', Len(heap))
    BY <1>1, <1>2, <1>3, <1>4, GraphsTypedExcept
  <1> DEFINE st == SubSeq(stack, 1, k - 1)
             m == k - 1
  <1>7. m \in 0 .. Len(stack) /\ m \in Nat /\ m + 1 = k /\ k - 1 = m
    BY <1>1
  <1>8. /\ Len(st) = m /\ StackTyped(st, Len(heap)) /\ \A j \in 1 .. m : st[j] = stack[j]
    <2>1. st = SubSeq(stack, 1, m)
      OBVIOUS
    <2> HIDE DEF st, m
    <2>2. Len(st) = m /\ \A j \in 1 .. m : st[j] = stack[j]
      BY <1>1, <1>7, <2>1, Rebuilt
    <2>3. StackTyped(st, Len(heap))
      BY <1>1, <1>2, <1>3, <1>7, <2>1, StackTypedRebuilt
    <2> QED
      BY <2>2, <2>3
  <1> HIDE DEF st, m
  <1>9. Pops(stack, nodes, failure_node, st, nodes', failure_node', k, w)
    BY <1>5, <1>7, <1>8 DEF Pops
  <1>10. /\ Core(st, heap, nodes', failure_node', compiled, raised)
         /\ \A v \in Workflows : BodyNodes(stack, nodes, v) \subseteq BodyNodes(st, nodes', v)
    BY <1>1, <1>9, CorePop
  <1>11. CASE k = 1
    <2>1. st = <<>>
      BY <1>7, <1>8, <1>11 DEF StackTyped
    <2> QED
      BY <1>4, <1>10, <1>11, <2>1 DEF CoreKept
  <1>12. CASE k > 1
    <2> DEFINE g == stack[m]
               b == stack[k].bindings
               z == {}
    <2>1. /\ m \in 1 .. Len(stack) /\ m \in 1 .. Len(st) /\ m < Len(stack) /\ m \in 1 .. m
      BY <1>1, <1>7, <1>8, <1>12
    <2>2. NodeMade(m, g, b, z)
      BY <1>4, <1>7, <1>12
    <2>3. /\ FrameTyped(g, Len(heap)) /\ b \in SUBSET (1 .. Len(heap))
          /\ z \in SUBSET (1 .. Len(heap)) /\ st[m] = g /\ stack[m] = g
          /\ \A j \in 1 .. m - 1 : st[j] = stack[j]
      BY <1>2, <1>3, <1>7, <1>8, <2>1 DEF StackTyped
    <2>4. Waits(g)
      BY <1>1, <2>1 DEF Stacked
    <2>5. st[m].of \in Workflows => b \subseteq BodyNodes(st, nodes', st[m].of)
      <3> SUFFICES ASSUME g.of \in Workflows PROVE b \subseteq BodyNodes(st, nodes', g.of)
        BY <2>3
      <3>1. k \in 2 .. Len(stack) /\ stack[k - 1] = g
        BY <1>1, <1>7, <1>12
      <3>2. b \subseteq BodyNodes(stack, nodes, g.of)
        BY <1>1, <3>1 DEF Bound
      <3> QED
        BY <1>10, <3>2
    <2>6. Fits(st, heap, nodes', failure_node')
      <3>1. \A i \in 1 .. m : Stands(st, i)
        <4>1. st[m].kind = stack[m].kind /\ st[m].of = stack[m].of
          BY <2>3
        <4> QED
          BY <1>1, <2>1, <2>3, <4>1, StillStands
      <3> QED
        BY <1>2, <1>6, <1>8, <3>1 DEF Fits, FramesOK
    <2>7. /\ z = UNION {Range(st[i].nodes) : i \in m + 1 .. Len(st)}
          /\ \A i \in m + 1 .. Len(st) : st[i].kind = "section" /\ st[i].of = st[m].of
      <3>1. m + 1 .. Len(st) = {}
        BY <1>7, <1>8
      <3> QED
        BY <3>1
    <2> HIDE DEF g, b, z
    <2>8. LinksNode(st, heap, stack', heap', m, b, z)
      BY <1>1, <2>1, <2>2, <2>3, LinkMade
    <2>9. st[m].kind = "section" => st[m].case # "none" /\ Len(st[m].nodes) = st[m].mark
      BY <2>3, <2>4 DEF Waits
    <2>10. Core(stack', heap', nodes', failure_node', compiled, raised)
      BY <1>10, <2>1, <2>5, <2>6, <2>7, <2>8, <2>9, CoreLink
    <2>11. Runs(stack'[Len(stack')])
      BY <1>1, <2>1, <2>2, <2>3, <2>4, LinkRuns
    <2> QED
      BY <2>10, <2>11 DEF CoreKept
  <1> QED
    BY <1>1, <1>11, <1>12

LEMMA ReturnFunctionCore ==
    ASSUME CInv, ~ Careless, ReturnFunction
    PROVE  CoreKept
  <1>1. /\ Typed /\ Fits(stack, heap, nodes, failure_node) /\ FramesOK(stack)
        /\ Core(stack, heap, nodes, failure_node, compiled, raised)
        /\ GraphLater(stack, heap, nodes, failure_node, compiled, raised)
        /\ Len(stack) \in Nat /\ Len(heap) \in Nat /\ stack \in Seq(Frame)
        /\ DOMAIN stack = 1 .. Len(stack)
    BY CFacts DEF Core, Fits, StackTyped
  <1>2. PICK i \in DOMAIN stack :
            /\ ReturnsFrom(i)
            /\ IF on_failure[stack[i].of] = None
               THEN Finish(stack[i].of, stack[i], SubSeq(stack, 1, i - 1))
               ELSE /\ stack' = SubSeq(stack, 1, i - 1)
                               \o <<[stack[i] EXCEPT !.stage = "outputs"],
                                    NewFrame("failure", stack[i].of,
                                             failure_prefix(stack[i].prefix))>>
                    /\ UNCHANGED <<heap, nodes>>
    BY DEF ReturnFunction
  <1>3. UNCHANGED <<compiled, failure_node, raised>>
    BY DEF ReturnFunction
  <1>4. i = Len(stack) /\ i \in 1 .. Len(stack) /\ i + 1 .. Len(stack) = {}
    <2>1. \A k \in i + 1 .. Len(stack) : FALSE
      BY <1>2 DEF ReturnsFrom
    <2> QED
      BY <1>1, <1>2, <2>1
  <1>5. /\ stack[i].kind = "workflow" /\ stack[i].of \in Workflows /\ stack[i].of # Imperative
        /\ FrameTyped(stack[i], Len(heap)) /\ stack[i] \in Frame
    <2>1. FrameTyped(stack[i], Len(heap)) /\ stack[i] \in Frame
      BY <1>1, <1>4 DEF Fits, StackTyped, FrameTyped
    <2>2. stack[i].kind = "workflow"
      BY <1>2 DEF ReturnsFrom
    <2>3. stack[i].of # Imperative
      BY <1>1, <1>4, <2>2 DEF FramesOK, Stands, AddKinds
    <2> QED
      BY <2>1, <2>2, <2>3 DEF Frame, Owners
  <1>6. CASE on_failure[stack[i].of] = None
    <2> DEFINE w == stack[i].of
               t == failure_node[w]
    <2>1. t = {}
      BY <1>1, <1>4, <1>5 DEF GraphLater
    <2>2. t \in SUBSET (1 .. Len(heap)) /\ failure_node' = [failure_node EXCEPT ![w] = t]
      BY <1>1, <1>3, <1>5 DEF Typed, GraphsTyped, Owners
    <2>3. w \in Workflows /\ Finish(w, stack[i], SubSeq(stack, 1, i - 1)) /\ stack[i].of = w
      BY <1>2, <1>5, <1>6
    <2>4. /\ \A n : n \in t <=> \E j \in i + 1 .. Len(stack) : n \in Range(stack[j].nodes)
          /\ \A j \in i + 1 .. Len(stack) :
                 j = i + 1 /\ stack[j].kind = "failure" /\ Len(stack[j].nodes) <= 1
      BY <1>4, <2>1
    <2> HIDE DEF w, t
    <2> QED
      BY <1>3, <1>4, <1>5, <2>2, <2>3, <2>4, FinishCore
  <1>7. CASE on_failure[stack[i].of] # None
    <2> DEFINE g == [stack[i] EXCEPT !.stage = "outputs"]
               p == failure_prefix(stack[i].prefix)
               h == NewFrame("failure", stack[i].of, p)
               fs == SubSeq(stack, 1, i - 1)
               st == Append(fs, g)
    <2>1. FrameTyped(g, Len(heap)) /\ Same(stack[i], g) /\ g.bindings = stack[i].bindings
      BY <1>1, <1>5, FrameUpdates
    <2>2. h.kind = "failure" /\ h.of = stack[i].of /\ h.prefix = Append(stack[i].prefix, "f")
          /\ h.nodes = <<>> /\ ~ h.called
      BY DEF NewFrame, failure_prefix
    <2>3. stack' = fs \o <<g, h>>
      BY <1>2, <1>7
    <2>4. fs \in Seq(Frame) /\ g \in Frame
      <3>1. i - 1 \in 0 .. Len(stack)
        BY <1>1, <1>4
      <3> HIDE DEF g, h
      <3> QED
        BY <1>1, <2>1, <3>1, Rebuilt DEF FrameTyped
    <2>5. Retopped(stack, heap, nodes, st, i, g)
      <3> HIDE DEF g
      <3>1. SectionOK(g) /\ g.kind # "section"
        BY <1>5, <2>1 DEF SectionOK, Same
      <3> QED
        BY <1>4, <2>1, <3>1 DEF Retopped
    <2> HIDE DEF g, h, p, fs
    <2>6. fs \o <<g, h>> = Append(Append(fs, g), h)
      <3>1. h \in Frame
        <4>1. p \in Seq({"d", "f"}) /\ stack[i].of \in Owners
          BY <1>5 DEF Frame, failure_prefix, p
        <4> QED
          BY <1>1, <4>1, NewFrameTyped DEF h, FrameTyped
      <3> QED
        BY <2>4, <3>1
    <2>7. stack' = Append(st, h)
      BY <2>3, <2>6
    <2> HIDE DEF st
    <2>a. /\ Fits(stack, heap, nodes, failure_node) /\ i \in 1 .. Len(stack)
           /\ Core(stack, heap, nodes, failure_node, compiled, raised)
      BY <1>1, <1>4
    <2>8. /\ Fits(st, heap, nodes, failure_node)
          /\ Core(st, heap, nodes, failure_node, compiled, raised)
          /\ Len(st) = i /\ st[i] = g
      BY <2>5, <2>a, Retop
    <2>9. i \in Nat /\ i > 0 /\ Len(stack') = i + 1 /\ stack'[i + 1] = h
          /\ \A j \in 1 .. i : stack'[j] = st[j]
      <3>1. st \in Seq(Frame)
        BY <2>8 DEF Fits, StackTyped
      <3> QED
        BY <1>1, <1>4, <2>7, <2>8, <3>1
    <2>10. SectionOK(h) /\ Waits(st[i])
      BY <1>5, <2>1, <2>2, <2>8 DEF SectionOK, Waits, Same
    <2>11. h.of = st[i].of /\ h.prefix = Append(st[i].prefix, "f")
      BY <2>1, <2>2, <2>8 DEF Same
    <2>12. Pushes(st, nodes, compiled, stack', compiled', i, h)
      BY <1>3, <2>2, <2>8, <2>9, <2>10, <2>11 DEF Pushes
    <2>13. Core(stack', heap, nodes, failure_node, compiled', raised)
      BY <2>8, <2>9, <2>12, Push
    <2>14. Runs(stack'[Len(stack')])
      BY <2>2, <2>9 DEF Runs
    <2> QED
      BY <1>2, <1>3, <1>7, <2>13, <2>14 DEF CoreKept
  <1> QED
    BY <1>6, <1>7

LEMMA CompileEndsCore ==
    ASSUME CInv, CompileEnds
    PROVE  CoreKept
  <1> DEFINE k == Len(stack) - 1
             w == stack[k].of
             t == Range(Top.nodes)
  <1>1. /\ Typed /\ FramesOK(stack) /\ stack # <<>> /\ Top.kind = "failure" /\ Top.called
        /\ Len(stack) \in Nat /\ Len(stack) \in 1 .. Len(stack) /\ Top = stack[Len(stack)]
        /\ FrameTyped(Top, Len(heap)) /\ Runs(Top) /\ stack \in Seq(Frame)
    BY CFacts DEF CompileEnds, AtTop, Typed, StackTyped
  <1>2. k \in 1 .. Len(stack) /\ stack[k].kind = "workflow" /\ Len(stack) - 2 = k - 1
        /\ k + 1 = Len(stack) /\ Top.of = w /\ k + 1 .. Len(stack) = {Len(stack)}
    BY <1>1 DEF FramesOK, Stands
  <1>3. w \in Workflows
    <2>1. stack[k].of # Imperative /\ stack[k] \in Frame
      BY <1>1, <1>2 DEF FramesOK, Stands, AddKinds
    <2> QED
      BY <2>1 DEF Frame, Owners
  <1>4. t \in SUBSET (1 .. Len(heap))
    BY <1>1 DEF FrameTyped
  <1>5. /\ Finish(w, stack[k], SubSeq(stack, 1, k - 1))
        /\ failure_node' = [failure_node EXCEPT ![w] = t] /\ UNCHANGED <<compiled, raised>>
    BY <1>2 DEF CompileEnds
  <1>6. Len(Top.nodes) <= 1
    <2>1. Len(Top.nodes) = 1
      BY <1>1 DEF Runs
    <2> QED
      BY <2>1
  <1>7. /\ \A n : n \in t <=> \E j \in k + 1 .. Len(stack) : n \in Range(stack[j].nodes)
        /\ \A j \in k + 1 .. Len(stack) :
               j = k + 1 /\ stack[j].kind = "failure" /\ Len(stack[j].nodes) <= 1
    <2> HIDE DEF k
    <2> QED
      BY <1>1, <1>2, <1>6
  <1>8. stack[k].of = w
    OBVIOUS
  <1> HIDE DEF k, w, t
  <1> QED
    BY <1>2, <1>3, <1>4, <1>5, <1>7, <1>8, FinishCore

(* A call that adds to the imperative workflow is over, or has raised.     *)
LEMMA ImperativeEnds ==
    ASSUME CInv, AtTop("add_entity") \/ AtTop("add_on_failure"),
           stack' = <<>>, Len(heap') \in Nat, Len(heap) <= Len(heap'),
           \A n \in 1 .. Len(heap) :
               /\ heap'[n].of = heap[n].of /\ heap'[n].then_nodes = heap[n].then_nodes
               /\ heap[n].of \in Workflows => heap'[n] = heap[n],
           \A n \in Len(heap) + 1 .. Len(heap') :
               heap'[n].of = Imperative /\ heap'[n].then_nodes = {},
           NEW r, nodes' = [nodes EXCEPT ![Imperative] = r],
           NEW t, failure_node' = [failure_node EXCEPT ![Imperative] = t],
           raised \subseteq raised', raised' \subseteq raised \cup {Imperative},
           UNCHANGED compiled
    PROVE  CoreKept
  <1>1. /\ MInv /\ Typed /\ Fits(stack, heap, nodes, failure_node)
        /\ Core(stack, heap, nodes, failure_node, compiled, raised)
    BY CFacts
  <1>2. /\ Len(stack) = 1 /\ stack[1].of = Imperative /\ Imperative \notin Workflows
        /\ nodes \in [Owners -> Seq(Nat)] /\ failure_node \in [Owners -> SUBSET Nat]
    BY <1>1, AddingFacts, ImperativeFacts
  <1>3. \A v \in Workflows : nodes'[v] = nodes[v] /\ failure_node'[v] = failure_node[v]
    BY <1>2 DEF Owners
  <1>4. \A i \in 1 .. Len(stack) : stack[i].of = Imperative
    BY <1>2
  <1>5. Len(<<>>) = 0
    OBVIOUS
  <1>6. ImperativeOnly(stack, heap, nodes, failure_node, raised,
                       <<>>, heap', nodes', failure_node', raised')
    BY <1>3, <1>4, <1>5 DEF ImperativeOnly
  <1>7. FrameNodes(<<>>, heap') /\ \A i \in 1 .. Len(<<>>) : <<>>[i].nodes \in Seq(Nat)
    BY <1>5 DEF FrameNodes
  <1>8. Core(<<>>, heap', nodes', failure_node', compiled, raised')
    BY <1>1, <1>6, <1>7, CoreImperative
  <1> QED
    BY <1>8 DEF CoreKept

LEMMA CreateNodeFailsCore ==
    ASSUME CInv, NEW w, CreateNodeFails(w)
    PROVE  CoreKept
  <1> DEFINE f == Top
             b == Top.bindings
             r == add_node(f).nodes
             t == failure_node[Imperative]
  <1>1. AtTop("add_entity") \/ AtTop("add_on_failure")
    BY DEF CreateNodeFails
  <1>2. /\ f.of = Imperative /\ Len(heap) \in Nat /\ heap \in Seq(NodeRecord)
        /\ failure_node \in [Owners -> SUBSET Nat] /\ Imperative \in Owners
    BY <1>1, CFacts, AddingFacts DEF Typed, HeapTyped
  <1>3. /\ heap' = Append(heap, Node(f, b, {})) /\ nodes' = [nodes EXCEPT ![Imperative] = r]
        /\ stack' = <<>> /\ raised' = raised \cup {Imperative}
        /\ UNCHANGED <<compiled, failure_node>>
    BY DEF CreateNodeFails
  <1>4. failure_node' = [failure_node EXCEPT ![Imperative] = t]
    BY <1>2, <1>3
  <1> HIDE DEF f, b, r, t
  <1>5. Node(f, b, {}).of = Imperative /\ Node(f, b, {}).then_nodes = {}
    BY <1>2 DEF Node
  <1>6. /\ Len(heap') = Len(heap) + 1 /\ heap'[Len(heap) + 1] = Node(f, b, {})
        /\ \A n \in 1 .. Len(heap) : heap'[n] = heap[n]
    BY <1>2, <1>3
  <1>7. /\ Len(heap') \in Nat /\ Len(heap) <= Len(heap')
        /\ \A n \in Len(heap) + 1 .. Len(heap') : n = Len(heap) + 1
    BY <1>2, <1>6
  <1>8. /\ \A n \in 1 .. Len(heap) :
               /\ heap'[n].of = heap[n].of /\ heap'[n].then_nodes = heap[n].then_nodes
               /\ heap[n].of \in Workflows => heap'[n] = heap[n]
        /\ \A n \in Len(heap) + 1 .. Len(heap') :
               heap'[n].of = Imperative /\ heap'[n].then_nodes = {}
    BY <1>5, <1>6, <1>7
  <1>9. raised \subseteq raised' /\ raised' \subseteq raised \cup {Imperative} /\ UNCHANGED compiled
    BY <1>3
  <1> QED
    BY <1>1, <1>3, <1>4, <1>7, <1>8, <1>9, ImperativeEnds

LEMMA AddEntityReturnsCore ==
    ASSUME CInv, AddEntityReturns
    PROVE  CoreKept
  <1> DEFINE r == Top.nodes
             t == failure_node[Imperative]
  <1>1. AtTop("add_entity") \/ AtTop("add_on_failure")
    BY DEF AddEntityReturns
  <1>2. /\ Len(heap) \in Nat
        /\ failure_node \in [Owners -> SUBSET Nat] /\ Imperative \in Owners
    BY <1>1, CFacts, AddingFacts
  <1>3. /\ nodes' = [nodes EXCEPT ![Imperative] = r] /\ stack' = <<>>
        /\ heap' = heap /\ raised' = raised /\ UNCHANGED <<compiled, failure_node>>
    BY DEF AddEntityReturns
  <1>4. failure_node' = [failure_node EXCEPT ![Imperative] = t]
    BY <1>2, <1>3
  <1> HIDE DEF r, t
  <1>5. /\ Len(heap') \in Nat /\ Len(heap) <= Len(heap') /\ Len(heap) + 1 .. Len(heap') = {}
    BY <1>2, <1>3
  <1>6. /\ \A n \in 1 .. Len(heap) :
               /\ heap'[n].of = heap[n].of /\ heap'[n].then_nodes = heap[n].then_nodes
               /\ heap[n].of \in Workflows => heap'[n] = heap[n]
        /\ \A n \in Len(heap) + 1 .. Len(heap') :
               heap'[n].of = Imperative /\ heap'[n].then_nodes = {}
    BY <1>3, <1>5
  <1>7. raised \subseteq raised' /\ raised' \subseteq raised \cup {Imperative} /\ UNCHANGED compiled
    BY <1>3
  <1> QED
    BY <1>1, <1>3, <1>4, <1>5, <1>6, <1>7, ImperativeEnds

LEMMA AddOnFailureReturnsCore ==
    ASSUME CInv, AddOnFailureReturns
    PROVE  CoreKept
  <1> DEFINE ns == Top.nodes
             x == ns[Len(ns)]
             r == without_failure_node(ns)
             t == {x}
             rec == [heap[x] EXCEPT !.id = DEFAULT_FAILURE_NODE_ID]
  <1>1. AtTop("add_entity") \/ AtTop("add_on_failure")
    BY DEF AddOnFailureReturns
  <1>2. /\ Len(heap) \in Nat /\ heap \in Seq(NodeRecord) /\ Imperative \notin Workflows
        /\ ns \in Seq(Nat) /\ Range(ns) \subseteq 1 .. Len(heap) /\ Len(ns) >= 1
        /\ Ordered(ns, heap, failure_node[Imperative])
    BY <1>1, CFacts, AddingFacts, ImperativeFacts DEF Typed, HeapTyped, AddOnFailureReturns
  <1>3. /\ nodes' = [nodes EXCEPT ![Imperative] = r] /\ stack' = <<>>
        /\ failure_node' = [failure_node EXCEPT ![Imperative] = t]
        /\ heap' = [heap EXCEPT ![x] = rec] /\ raised' = raised /\ UNCHANGED compiled
    BY DEF AddOnFailureReturns
  <1>4. Len(ns) \in 1 .. Len(ns) /\ x \in 1 .. Len(heap)
    <2>1. Len(ns) \in 1 .. Len(ns)
      BY <1>2
    <2> HIDE DEF ns
    <2> QED
      BY <1>2, <2>1, InRange
  <1>5. heap[x].of = Imperative
    BY <1>2, <1>4 DEF Ordered
  <1>6. rec.of = heap[x].of /\ rec.then_nodes = heap[x].then_nodes
    <2>1. heap[x] \in NodeRecord
      BY <1>2, <1>4
    <2>2. ASSUME NEW q, q \in NodeRecord, NEW q2, q2 = [q EXCEPT !.id = DEFAULT_FAILURE_NODE_ID]
          PROVE  q2.of = q.of /\ q2.then_nodes = q.then_nodes
      BY <2>2 DEF NodeRecord
    <2> QED
      BY <2>1, <2>2
  <1> HIDE DEF rec, x, r, t, ns
  <1>7. /\ Len(heap') = Len(heap) /\ heap'[x] = rec
        /\ \A n \in 1 .. Len(heap) : n # x => heap'[n] = heap[n]
    BY <1>2, <1>3, <1>4
  <1>8. /\ Len(heap') \in Nat /\ Len(heap) <= Len(heap') /\ Len(heap) + 1 .. Len(heap') = {}
    BY <1>2, <1>7
  <1>9. /\ \A n \in 1 .. Len(heap) :
               /\ heap'[n].of = heap[n].of /\ heap'[n].then_nodes = heap[n].then_nodes
               /\ heap[n].of \in Workflows => heap'[n] = heap[n]
        /\ \A n \in Len(heap) + 1 .. Len(heap') :
               heap'[n].of = Imperative /\ heap'[n].then_nodes = {}
    BY <1>2, <1>5, <1>6, <1>7, <1>8
  <1>10. raised \subseteq raised' /\ raised' \subseteq raised \cup {Imperative} /\ UNCHANGED compiled
    BY <1>3
  <1> QED
    BY <1>1, <1>3, <1>8, <1>9, <1>10, ImperativeEnds

LEMMA EnterImperativeCore ==
    ASSUME CInv, NEW kind \in AddKinds, NEW ins, NEW b, EnterImperative(kind, ins, b)
    PROVE  CoreKept
  <1>1. /\ Typed /\ Fits(stack, heap, nodes, failure_node)
        /\ Core(stack, heap, nodes, failure_node, compiled, raised)
        /\ Ordered(nodes[Imperative], heap, failure_node[Imperative])
        /\ Len(heap) \in Nat
    BY CFacts DEF MInv
  <1>2. nodes[Imperative] \in Seq(Nat) /\ Range(nodes[Imperative]) \subseteq 1 .. Len(heap)
    BY <1>1, ImperativeFacts
  <1> DEFINE f == NewFrame(kind, Imperative, <<>>)
  <1>3. /\ f \in Frame /\ f.kind = kind /\ f.of = Imperative /\ f.prefix = <<>>
    <2>1. f.kind = kind /\ f.of = Imperative /\ f.prefix = <<>>
      BY DEF NewFrame
    <2>2. <<>> \in Seq({"d", "f"}) /\ Imperative \in Owners
      BY <1>1, ImperativeFacts
    <2> QED
      BY <1>1, <2>1, <2>2, NewFrameTyped DEF AddKinds, FrameTyped
  <1>4. /\ stack' = <<[f EXCEPT !.nodes = nodes[Imperative], !.inputs = ins, !.bindings = b]>>
        /\ stack = <<>> /\ UNCHANGED <<heap, compiled, nodes, failure_node, raised>>
    BY DEF EnterImperative
  <1> HIDE DEF f
  <1>5. ASSUME NEW g, g = [f EXCEPT !.nodes = nodes[Imperative], !.inputs = ins, !.bindings = b]
        PROVE  g.kind = kind /\ g.of = Imperative /\ g.prefix = <<>> /\ g.nodes = nodes[Imperative]
    BY <1>3, <1>5 DEF Frame
  <1> DEFINE g == [f EXCEPT !.nodes = nodes[Imperative], !.inputs = ins, !.bindings = b]
             st == <<g>>
             ns == nodes[Imperative]
  <1>6. /\ g.kind = kind /\ g.of = Imperative /\ g.prefix = <<>> /\ g.nodes = ns
        /\ stack' = st
    BY <1>4, <1>5
  <1>7. Len(st) = 1 /\ st[1] = g /\ Len(st) \in {0, 1}
    OBVIOUS
  <1> HIDE DEF g, st, ns
  <1>8. FrameNodes(st, heap)
    <2> SUFFICES ASSUME NEW k \in 1 .. Len(ns)
                 PROVE  /\ heap[ns[k]].of = Imperative
                        /\ heap[ns[k]].id = [prefix |-> <<>>, number |-> k - 1]
      <3>1. \A i \in 1 .. 1 : i = 1
        OBVIOUS
      <3> QED
        BY <1>6, <1>7, <3>1 DEF FrameNodes
    <2> QED
      BY <1>1 DEF Ordered, ns
  <1>9. ImperativeOnly(stack, heap, nodes, failure_node, raised,
                       st, heap, nodes, failure_node, raised)
    <2>1. /\ \A i \in 1 .. Len(stack) : stack[i].of = Imperative
          /\ \A n \in Len(heap) + 1 .. Len(heap) : FALSE
      BY <1>1, <1>4
    <2>2. \A i \in 1 .. Len(st) :
              st[i].of = Imperative /\ st[i].kind \notin {"workflow", "failure", "section"}
      BY <1>6, <1>7 DEF AddKinds
    <2> QED
      BY <1>1, <1>7, <2>1, <2>2 DEF ImperativeOnly
  <1>10. \A i \in 1 .. Len(st) : st[i].nodes \in Seq(Nat)
    BY <1>2, <1>6, <1>7 DEF ns
  <1>11. Core(st, heap, nodes, failure_node, compiled, raised)
    BY <1>1, <1>8, <1>9, <1>10, CoreImperative
  <1>12. Runs(st[Len(st)])
    BY <1>6, <1>7 DEF Runs, AddKinds
  <1> QED
    BY <1>4, <1>6, <1>11, <1>12 DEF CoreKept

-----------------------------------------------------------------------------
(* The invariant of the programs that make one call in each case.          *)

LEMMA InitialCInv == Init => CInv
  <1> SUFFICES ASSUME Init PROVE CInv
    OBVIOUS
  <1>1. MInv
    BY InitialMInv
  <1>2. stack = <<>> /\ heap = <<>> /\ compiled = {} /\ raised = {} /\ Len(<<>>) = 0
    BY DEF Init
  <1>3. \A w \in Owners : nodes[w] = <<>> /\ failure_node[w] = {}
    BY DEF Init
  <1>4. 1 .. Len(stack) = {} /\ 1 .. Len(heap) = {} /\ 2 .. Len(stack) = {} /\ 1 .. Len(<<>>) = {}
    BY <1>2
  <1>5. Stacked(stack) /\ FrameNodes(stack, heap)
    BY <1>4 DEF Stacked, FrameNodes
  <1>6. GraphLater(stack, heap, nodes, failure_node, compiled, raised)
    BY <1>2, <1>3, <1>4 DEF GraphLater, Owners
  <1>7. /\ BranchNodes(stack, heap, nodes, failure_node)
        /\ Located(stack, heap, nodes, failure_node, raised)
        /\ Bound(stack, heap, nodes, raised)
    BY <1>4 DEF BranchNodes, Located, Bound
  <1>8. Graphs(heap, nodes, failure_node)
    <2> SUFFICES ASSUME NEW w \in Workflows
                 PROVE  \E p \in Seq({"d", "f"}) :
                            GraphIds(heap, nodes[w], failure_node[w], w, p)
      BY DEF Graphs
    <2>1. <<>> \in Seq({"d", "f"})
      OBVIOUS
    <2>2. nodes[w] = <<>> /\ failure_node[w] = {}
      BY <1>3 DEF Owners
    <2>3. GraphIds(heap, nodes[w], failure_node[w], w, <<>>)
      BY <1>4, <2>2 DEF GraphIds
    <2> QED
      BY <2>1, <2>3
  <1> QED
    BY <1>1, <1>2, <1>5, <1>6, <1>7, <1>8 DEF CInv, Core

LEMMA StepKeepsCInv ==
    ASSUME ~ Careless
    PROVE  CInv /\ [Next]_vars => CInv'
  <1> SUFFICES ASSUME CInv, [Next]_vars PROVE CInv'
    OBVIOUS
  <1>1. MInv'
    BY StepKeepsMInv DEF CInv
  <1>2. CoreKept
    <2>1. ASSUME NEW w \in Workflows, compile(w) \/ compile_into_workflow(w) PROVE CoreKept
      BY <2>1, CompileCore
    <2>2. ASSUME NEW w \in Workflows, CreateNodeFails(w) PROVE CoreKept
      BY <2>2, CreateNodeFailsCore
    <2>3. ASSUME NEW e \in Entities, CallEntity(e) PROVE CoreKept
      BY <2>3, CallEntityCore
    <2>4. ASSUME NEW e \in Entities, CreateNode(e) PROVE CoreKept
      BY <2>4, CreateNodeCore
    <2>5. CASE ReturnFunction
      BY <2>5, ReturnFunctionCore
    <2>6. CASE CallHandler
      BY <2>6, CallHandlerCore
    <2>7. CASE CompileEnds
      BY <2>7, CompileEndsCore
    <2>8. CASE Raise
      BY <2>8, RaiseCore
    <2>9. CASE Conditional
      BY <2>9, ConditionalCore
    <2>10. ASSUME NEW l \in BOOLEAN, start_branch(l) PROVE CoreKept
      BY <2>10, StartBranchCore
    <2>11. CASE Then \/ Fail
      BY <2>11, BranchCore
    <2>12. CASE (\E i \in Inputs : add_workflow_input(i)) \/ UNCHANGED vars
      <3>1. UNCHANGED <<stack, heap, nodes, failure_node, compiled, raised>>
        BY <2>12 DEF add_workflow_input, vars
      <3>2. Core(stack, heap, nodes, failure_node, compiled, raised)
        BY DEF CInv
      <3>3. stack # <<>> => Runs(stack[Len(stack)])
        BY DEF CInv, Top
      <3> QED
        BY <3>1, <3>2, <3>3 DEF CoreKept
    <2>13. CASE add_entity
      <3>1. PICK ins \in SUBSET inputs :
                EnterImperative("add_entity", ins, Range(nodes[Imperative]))
        BY <2>13 DEF add_entity
      <3>2. "add_entity" \in AddKinds
        BY DEF AddKinds
      <3> QED
        BY <3>1, <3>2, EnterImperativeCore
    <2>14. CASE add_on_failure_handler
      <3>1. "add_on_failure" \in AddKinds
        BY DEF AddKinds
      <3> QED
        BY <2>14, <3>1, EnterImperativeCore DEF add_on_failure_handler
    <2>15. CASE AddEntityReturns
      BY <2>15, AddEntityReturnsCore
    <2>16. CASE AddOnFailureReturns
      BY <2>16, AddOnFailureReturnsCore
    <2> QED
      BY <2>1, <2>2, <2>3, <2>4, <2>5, <2>6, <2>7, <2>8, <2>9, <2>10, <2>11, <2>12, <2>13,
         <2>14, <2>15, <2>16 DEF Next
  <1> QED
    BY <1>1, <1>2 DEF CInv, CoreKept, Top

LEMMA AlwaysCInv ==
    ASSUME ~ Careless
    PROVE  Spec => []CInv
  <1>1. Init => CInv
    BY InitialCInv
  <1>2. CInv /\ [Next]_vars => CInv'
    BY StepKeepsCInv
  <1> QED
    BY <1>1, <1>2, PTL DEF Spec

(* The graph of a compiled workflow: its nodes are numbered, and its       *)
(* failure node has another prefix.                                        *)
LEMMA CompiledFacts ==
    ASSUME CInv, NEW w \in Compiled
    PROVE  /\ w \in Workflows \ raised /\ nodes[w] \in Seq(Nat) /\ Len(nodes[w]) \in Nat
           /\ DOMAIN nodes[w] = 1 .. Len(nodes[w])
           /\ \A i \in 1 .. Len(stack) : stack[i].of # w
           /\ BodyNodes(stack, nodes, w) = Range(nodes[w])
           /\ \A j, k \in 1 .. Len(nodes[w]) :
                  heap[nodes[w][j]].id = heap[nodes[w][k]].id => j = k
           /\ \A k \in 1 .. Len(nodes[w]) : \A n \in failure_node[w] :
                  heap[nodes[w][k]].id # heap[n].id
  <1>1. /\ Typed /\ Graphs(heap, nodes, failure_node) /\ Len(stack) \in Nat
        /\ Fits(stack, heap, nodes, failure_node)
    BY CFacts DEF Core
  <1>2. w \in Workflows \ raised
    BY <1>1 DEF Compiled, Typed, RestTyped
  <1>3. nodes[w] \in Seq(Nat)
    BY <1>1, <1>2, FitsFacts DEF Owners
  <1>4. Len(nodes[w]) \in Nat /\ DOMAIN nodes[w] = 1 .. Len(nodes[w])
    BY <1>3
  <1>5. \A i \in 1 .. Len(stack) : stack[i].of # w
    <2>1. DOMAIN stack = 1 .. Len(stack)
      BY <1>1 DEF Typed, StackTyped
    <2> QED
      BY <2>1 DEF Compiled
  <1>6. BodyNodes(stack, nodes, w) = Range(nodes[w])
    BY <1>5 DEF BodyNodes
  <1>7. PICK p \in Seq({"d", "f"}) : GraphIds(heap, nodes[w], failure_node[w], w, p)
    BY <1>1, <1>2 DEF Graphs
  <1>8. \A k \in 1 .. Len(nodes[w]) : heap[nodes[w][k]].id = [prefix |-> p, number |-> k - 1]
    BY <1>7 DEF GraphIds
  <1>9. \A n \in failure_node[w] : heap[n].id = [prefix |-> Append(p, "f"), number |-> 0]
    BY <1>7 DEF GraphIds
  <1>10. p # Append(p, "f")
    <2>1. Len(Append(p, "f")) = Len(p) + 1
      BY <1>7
    <2>2. Len(p) \in Nat
      BY <1>7
    <2>3. Len(p) # Len(Append(p, "f"))
      BY <2>1, <2>2
    <2> QED
      BY <2>3
  <1>11. ASSUME NEW j \in 1 .. Len(nodes[w]), NEW k \in 1 .. Len(nodes[w]),
                heap[nodes[w][j]].id = heap[nodes[w][k]].id
         PROVE  j = k
    <2>1. heap[nodes[w][j]].id = [prefix |-> p, number |-> j - 1]
      BY <1>8
    <2>2. heap[nodes[w][k]].id = [prefix |-> p, number |-> k - 1]
      BY <1>8
    <2>3. [prefix |-> p, number |-> j - 1] = [prefix |-> p, number |-> k - 1]
      BY <1>11, <2>1, <2>2
    <2>4. j - 1 = k - 1
      BY <2>3
    <2> QED
      BY <2>4
  <1>12. ASSUME NEW k \in 1 .. Len(nodes[w]), NEW n \in failure_node[w]
         PROVE  heap[nodes[w][k]].id # heap[n].id
    <2>1. heap[nodes[w][k]].id = [prefix |-> p, number |-> k - 1]
      BY <1>8
    <2>2. heap[n].id = [prefix |-> Append(p, "f"), number |-> 0]
      BY <1>9
    <2>3. [prefix |-> p, number |-> k - 1] # [prefix |-> Append(p, "f"), number |-> 0]
      BY <1>10
    <2> QED
      BY <2>1, <2>2, <2>3
  <1> QED
    BY <1>2, <1>3, <1>4, <1>5, <1>6, <1>11, <1>12

LEMMA GraphWhole == CInv => GraphIsWhole
  <1> SUFFICES ASSUME CInv, NEW w \in Compiled, NEW n \in Nodes, heap[n].of = w
      PROVE  LET branches == {m \in Nodes : n \in heap[m].then_nodes}
                 flat == {k \in DOMAIN nodes[w] : nodes[w][k] = n}
             IN  \/ n \in failure_node[w] /\ branches = {} /\ flat = {}
                 \/ \E k \in Nodes : branches = {k} /\ flat = {}
                 \/ \E k \in DOMAIN nodes[w] : branches = {} /\ flat = {k}
    BY DEF GraphIsWhole
  <1> DEFINE branches == {m \in Nodes : n \in heap[m].then_nodes}
             flat == {k \in DOMAIN nodes[w] : nodes[w][k] = n}
  <1>1. /\ w \in Workflows \ raised /\ nodes[w] \in Seq(Nat)
        /\ DOMAIN nodes[w] = 1 .. Len(nodes[w])
        /\ \A i \in 1 .. Len(stack) : stack[i].of # w
    BY CompiledFacts
  <1>2. /\ FrameNodes(stack, heap) /\ BranchNodes(stack, heap, nodes, failure_node)
        /\ Located(stack, heap, nodes, failure_node, raised)
        /\ Fits(stack, heap, nodes, failure_node)
    BY CFacts DEF Core
  <1>3. n \in 1 .. Len(heap) /\ Nodes = 1 .. Len(heap)
    BY DEF Nodes
  <1>4. \A i \in 1 .. Len(stack) : n \notin Range(stack[i].nodes)
    <2> SUFFICES ASSUME NEW i \in 1 .. Len(stack), n \in Range(stack[i].nodes) PROVE FALSE
      OBVIOUS
    <2>1. PICK k \in 1 .. Len(stack[i].nodes) : stack[i].nodes[k] = n
      BY <1>2, FitsFacts, InRange
    <2>2. stack[i].of = w
      BY <1>2, <2>1 DEF FrameNodes
    <2> QED
      BY <1>1, <2>2
  <1>5. \/ \E m \in Nodes : n \in heap[m].then_nodes
        \/ n \in Range(nodes[w])
        \/ n \in failure_node[w]
    BY <1>1, <1>2, <1>3, <1>4 DEF Located
  <1>6. ASSUME NEW m \in Nodes, n \in heap[m].then_nodes
        PROVE  /\ n \notin Range(nodes[w]) /\ n \notin failure_node[w]
               /\ \A k \in Nodes : n \in heap[k].then_nodes => k = m
    BY <1>2, <1>3, <1>6 DEF BranchNodes
  <1>7. n \in Range(nodes[w]) <=> \E k \in DOMAIN nodes[w] : nodes[w][k] = n
    BY <1>1, InRange
  <1>8. CASE \E m \in Nodes : n \in heap[m].then_nodes
    <2>1. PICK m \in Nodes : n \in heap[m].then_nodes
      BY <1>8
    <2>2. branches = {m} /\ flat = {}
      BY <1>6, <1>7, <2>1
    <2> QED
      BY <2>2
  <1>9. CASE branches = {} /\ n \in Range(nodes[w])
    <2>1. PICK k \in DOMAIN nodes[w] : nodes[w][k] = n
      BY <1>7, <1>9
    <2>2. \A i, j \in 1 .. Len(nodes[w]) :
              heap[nodes[w][i]].id = heap[nodes[w][j]].id => i = j
      BY CompiledFacts
    <2>4. \A j \in DOMAIN nodes[w] : nodes[w][j] = n => j = k
      BY <1>1, <2>1, <2>2
    <2>3. flat = {k}
      BY <2>1, <2>4
    <2> QED
      BY <1>9, <2>3
  <1>10. CASE branches = {} /\ n \in failure_node[w]
    <2>1. \A k \in DOMAIN nodes[w] : nodes[w][k] # n
      BY <1>1, <1>10, CompiledFacts
    <2>2. flat = {}
      BY <2>1
    <2> QED
      BY <1>10, <2>2
  <1> QED
    BY <1>5, <1>8, <1>9, <1>10

LEMMA BindingsFound == CInv => BindingsResolve
  <1> SUFFICES ASSUME CInv, NEW w \in Compiled, NEW n \in Nodes, heap[n].of = w,
                      NEW m \in heap[n].bindings
      PROVE  {k \in Range(nodes[w]) \cup failure_node[w] : heap[k].id = heap[m].id} = {m}
    BY DEF BindingsResolve
  <1>1. /\ w \in Workflows \ raised /\ nodes[w] \in Seq(Nat)
        /\ BodyNodes(stack, nodes, w) = Range(nodes[w])
    BY CompiledFacts
  <1>2. m \in Range(nodes[w])
    <2>1. Bound(stack, heap, nodes, raised)
      BY CFacts DEF Core
    <2>2. n \in 1 .. Len(heap)
      BY DEF Nodes
    <2>3. heap[n].bindings \subseteq BodyNodes(stack, nodes, w)
      BY <1>1, <2>1, <2>2 DEF Bound
    <2> QED
      BY <1>1, <2>3
  <1>3. PICK j \in 1 .. Len(nodes[w]) : nodes[w][j] = m
    BY <1>1, <1>2, InRange
  <1>4. ASSUME NEW k \in Range(nodes[w]), heap[k].id = heap[m].id
        PROVE  k = m
    <2>1. PICK i \in 1 .. Len(nodes[w]) : nodes[w][i] = k
      BY <1>1, InRange
    <2>2. i = j
      BY <1>3, <1>4, <2>1, CompiledFacts
    <2> QED
      BY <1>3, <2>1, <2>2
  <1>5. ASSUME NEW k \in failure_node[w]
        PROVE  heap[k].id # heap[m].id
    BY <1>3, CompiledFacts
  <1> QED
    BY <1>2, <1>4, <1>5

(* For every set of workflows and handlers, however calls, sections and    *)
(* exceptions follow one another: every node that the function of a        *)
(* compiled workflow made is in its graph, in one place, if no compile of  *)
(* it raised.  Sections end with else and a case makes one call: what      *)
(* PythonFunctionWorkflow.compile and ConditionalSection then make of the  *)
(* nodes that both keep loses none.  Without it the property is false.     *)
THEOREM GraphsAreWhole ==
    ASSUME ~ Careless
    PROVE  Spec => []GraphIsWhole
  <1>1. Spec => []CInv
    BY AlwaysCInv
  <1> QED
    BY <1>1, GraphWhole, PTL

(* Under the same hypothesis, the id of a node that a binding names is     *)
(* that of one node of the workflow, the one meant: create_and_link_node   *)
(* numbers the nodes of a CompilationState in order, no output of a node   *)
(* in a case is used outside of it, and the failure node has a prefix of   *)
(* its own.                                                                *)
THEOREM BindingsAreResolved ==
    ASSUME ~ Careless
    PROVE  Spec => []BindingsResolve
  <1>1. Spec => []CInv
    BY AlwaysCInv
  <1> QED
    BY <1>1, BindingsFound, PTL

=============================================================================
