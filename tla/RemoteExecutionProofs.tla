----------------------- MODULE RemoteExecutionProofs -----------------------
(***************************************************************************)
(* Proofs about RemoteExecution, for every tree of executions and nodes    *)
(* and every number of retries, methods called and reads that fail.        *)
(*                                                                         *)
(* What a sync returns is put together from many reads between which the   *)
(* backend moves on.  The proof rests on three things: a phase that was    *)
(* read as terminal is still the phase; the stack of calls is a path down  *)
(* the tree, so that what a call writes belongs to no call below it; and   *)
(* an object that was listed is complete, or still on a list, or on the    *)
(* stack.  When the first call assigns what was found, nothing is left     *)
(* that is on a list or on the stack.                                      *)
(***************************************************************************)
EXTENDS RemoteExecution, SequenceTheorems, TLAPS

-----------------------------------------------------------------------------
(* The inductive invariant *)

Steps == {"closure", "data", "list", "each", "assign", "fetch", "sync", "take"}
Entry == [obj : Objects, steps : Seq(Steps)]
Frame == [obj : Objects, steps : Seq(Steps), at : Nat, data : {"empty", "full"},
          todo : SUBSET Entry]

At(f, s) == f.at <= Len(f.steps) /\ f.steps[f.at] = s
Past(f, s) == \E k \in 1 .. Len(f.steps) : k < f.at /\ f.steps[k] = s

(* The steps that are taken for an object of its kind. *)
Fits(o, steps) ==
    \/ Kind(o) = "execution" /\ steps \in {sync_execution(TRUE), sync_execution(FALSE)}
    \/ Kind(o) = "task_execution" /\ steps = sync_task_execution
    \/ Kind(o) \in NodeKinds /\ steps \in {sync_node_execution(o, TRUE),
                                           sync_node_execution(o, FALSE)}

Typed ==
    /\ IsTree(Objects, tree.kind, tree.children)
    /\ naming \in {"name", "prefix", "none"}
    /\ TypeOK
    /\ ids \subseteq [naming : {naming}, call : Nat, attempt : Nat]
    /\ stack \in Seq(Frame)
    /\ fresh \in [DOMAIN fresh -> Held] /\ nodes \in [DOMAIN nodes -> Held]

(* A call with a name asks for one execution, with a prefix for one in each call. *)
NamedOnce ==
    \A i \in ids : /\ naming # "none" => i.attempt = 0
                   /\ naming = "name" => i.call = 0

(* The backend ends an object after those below it. *)
BackendOK ==
    /\ ids # {} => phase[Root] # "absent"
    /\ \A p \in Objects : \A x \in Children(p) :
           /\ phase[x] = "running" => phase[p] = "running"
           /\ phase[x] # "absent" => phase[p] # "absent"
           /\ Kind(p) = "launch_plan_node" /\ phase[p] = "succeeded" => phase[x] = "succeeded"

(* The client holds an execution that was created, and a terminal phase of
   it is the phase it has. *)
ClientOK ==
    /\ status \in {"create", "get_execution"} => op = "execute" /\ root.phase = "absent"
    /\ status \in {"sync", "sleep"} => op \in {"wait", "sync"} /\ root.phase # "absent"
    /\ status = "sleep" => op = "wait"
    /\ status = "get_execution" => ids # {}
    /\ root.phase # "absent" => ids # {}
    /\ root.phase \in Terminal => phase[Root] = root.phase
    /\ stack = <<>> => DOMAIN fresh = {}

(* The calls under way lead down the tree from the execution. *)
Path ==
    /\ stack # <<>> => /\ stack[1].obj = Root
                       /\ stack[1].steps = sync_execution(op = "wait")
    /\ \A k \in 1 .. Len(stack) - 1 : stack[k + 1].obj \in Children(stack[k].obj)

OutputsRead(o, x) == is_successful(x) /\ HasOutputs(o) => x.outputs = "full"

FrameOK(f) ==
    /\ f.obj = Root \/ f.obj \in DOMAIN fresh
    /\ f.at >= 1
    /\ Fits(f.obj, f.steps)
    /\ \A t \in f.todo : /\ t.obj \in Children(f.obj) \cap DOMAIN fresh
                         /\ Fits(t.obj, t.steps)
    /\ f.todo # {} => At(f, "each")
    /\ Past(f, "data") /\ Reading(f.obj).phase = "succeeded" => f.data = "full"
    /\ Past(f, "assign") \/ Past(f, "take") => OutputsRead(f.obj, Reading(f.obj))
    /\ Past(f, "fetch") =>
           /\ Launched(f.obj) \in DOMAIN fresh
           /\ Reading(f.obj).phase = "succeeded" => fresh[Launched(f.obj)].phase = "succeeded"

FramesOK == \A k \in 1 .. Len(stack) : FrameOK(stack[k])

OnStack(o) == \E k \in 1 .. Len(stack) : stack[k].obj = o
OnList(o) == \E k \in 1 .. Len(stack) : \E t \in stack[k].todo : t.obj = o

FreshOK ==
    \A o \in DOMAIN fresh :
        /\ o # Root
        /\ fresh[o].phase \in Terminal => phase[o] = fresh[o].phase
        /\ OnStack(o) \/ OnList(o) \/ OutputsRead(o, fresh[o])

NodesOK == \A o \in DOMAIN nodes : OutputsRead(o, nodes[o])
RootOK == Synced => OutputsRead(Root, root)

SInv ==
    /\ Typed /\ NamedOnce /\ BackendOK /\ ClientOK /\ Path /\ FramesOK /\ FreshOK
    /\ NodesOK /\ RootOK

(* When the execution has been read as done, nothing below it moves any
   more: what is listed is what there is.  A launched execution is listed
   before its nodes are. *)
ChildrenFound(o) == \A x \in Children(o) : phase[x] # "absent" => x \in DOMAIN fresh

AboutToSync(o) ==
    \E k \in 1 .. Len(stack) : At(stack[k], "sync") /\ Launched(stack[k].obj) = o

StepsAsListed(o, steps) ==
    Kind(o) = "launch_plan_node" => steps = sync_node_execution(o, phase[Launched(o)] # "absent")

FrameWhole(f) ==
    /\ Past(f, "list") => ChildrenFound(f.obj)
    /\ StepsAsListed(f.obj, f.steps)
    /\ \A t \in f.todo : StepsAsListed(t.obj, t.steps)

AllBelow(read) ==
    \A o \in Objects \ {Root} : phase[o] # "absent" =>
        o \in DOMAIN read /\ read[o].phase = phase[o]

(* Nothing is listed before the execution itself has been read. *)
StartsEmpty ==
    stack # <<>> /\ ~ Past(stack[1], "list") => DOMAIN fresh = {} /\ Len(stack) = 1

FetchedFirst ==
    \A k \in 2 .. Len(stack) :
        Kind(stack[k].obj) = "execution" /\ stack[k].steps = sync_execution(FALSE)
            => At(stack[k - 1], "sync")

ListedKinds ==
    \A k \in 1 .. Len(stack) : \A t \in stack[k].todo : Kind(t.obj) # "execution"

WholeSoFar ==
    is_done(root) =>
        /\ \A o \in DOMAIN fresh :
               /\ fresh[o].phase = phase[o]
               /\ OnStack(o) \/ OnList(o) \/ AboutToSync(o) \/ ChildrenFound(o)
        /\ \A k \in 1 .. Len(stack) : FrameWhole(stack[k])

WholeAtEnd ==
    op = "wait" /\ is_done(root)
      /\ (status = "returned" \/ (stack # <<>> /\ Past(stack[1], "assign"))) => AllBelow(nodes)

WInv == SInv /\ StartsEmpty /\ FetchedFirst /\ ListedKinds /\ WholeSoFar /\ WholeAtEnd

-----------------------------------------------------------------------------
(* The steps of a sync *)

(* Which steps are taken for which kind of object. *)
LEMMA Shapes ==
  ASSUME NEW o, NEW s, Fits(o, s)
  PROVE  \/ Kind(o) = "execution" /\ s = <<"closure", "data", "list", "each", "assign">>
         \/ Kind(o) \in {"execution", "task_execution"} /\ s = <<"closure", "data", "assign">>
         \/ Kind(o) = "launch_plan_node" /\ s = <<"data", "fetch", "sync", "take">>
         \/ /\ Kind(o) \in {"task_node", "parent_node", "launch_plan_node"}
            /\ s = <<"data", "list", "each", "assign">>
         \/ Kind(o) = "array_of_launch_plans" /\ s = <<"data", "list", "each">>
         \/ Kind(o) = "gate_node" /\ s = <<"data">>
         \/ Kind(o) = "end_node" /\ s = <<>>
  <1>1. CASE Kind(o) = "execution"
    BY <1>1 DEF Fits, sync_execution, NodeKinds
  <1>2. CASE Kind(o) = "task_execution"
    BY <1>2 DEF Fits, sync_task_execution, NodeKinds
  <1>3. CASE Kind(o) \in NodeKinds
    <2>1. s \in {sync_node_execution(o, TRUE), sync_node_execution(o, FALSE)}
      BY <1>3 DEF Fits, NodeKinds
    <2> QED
      BY <1>3, <2>1 DEF sync_node_execution, NodeKinds
  <1> QED
    BY <1>1, <1>2, <1>3 DEF Fits

(* What has been done when a call is at one of its steps. *)
LEMMA AtFacts ==
  ASSUME NEW f, f.at \in Nat, f.at >= 1, Fits(f.obj, f.steps)
  PROVE  /\ At(f, "closure") => f.at = 1 /\ Kind(f.obj) \in {"execution", "task_execution"}
         /\ At(f, "closure") \/ At(f, "data") \/ At(f, "list") =>
                ~ Past(f, "data") \/ At(f, "list")
         /\ At(f, "closure") \/ At(f, "data") \/ At(f, "list") \/ At(f, "each") =>
                ~ Past(f, "assign") /\ ~ Past(f, "take") /\ ~ Past(f, "fetch")
         /\ At(f, "list") \/ At(f, "each") =>
                Kind(f.obj) \in {"execution", "task_node", "parent_node", "launch_plan_node",
                                 "array_of_launch_plans"}
         /\ At(f, "fetch") \/ At(f, "sync") \/ At(f, "take") =>
                /\ Kind(f.obj) = "launch_plan_node"
                /\ ~ Past(f, "assign") /\ ~ Past(f, "take")
         /\ At(f, "fetch") => ~ Past(f, "fetch")
         /\ At(f, "sync") \/ At(f, "take") => Past(f, "fetch")
         /\ At(f, "assign") =>
                Past(f, "data") /\ ~ Past(f, "assign") /\ ~ Past(f, "take") /\ ~ Past(f, "fetch")
         /\ f.at > Len(f.steps) /\ HasOutputs(f.obj) => Past(f, "assign") \/ Past(f, "take")
  <1>1. CASE f.steps = <<"closure", "data", "list", "each", "assign">> /\ Kind(f.obj) = "execution"
    BY <1>1 DEF At, Past, HasOutputs
  <1>2. CASE /\ f.steps = <<"closure", "data", "assign">>
             /\ Kind(f.obj) \in {"execution", "task_execution"}
    BY <1>2 DEF At, Past, HasOutputs
  <1>3. CASE f.steps = <<"data", "fetch", "sync", "take">> /\ Kind(f.obj) = "launch_plan_node"
    BY <1>3 DEF At, Past, HasOutputs
  <1>4. CASE /\ f.steps = <<"data", "list", "each", "assign">>
             /\ Kind(f.obj) \in {"task_node", "parent_node", "launch_plan_node"}
    BY <1>4 DEF At, Past, HasOutputs
  <1>5. CASE f.steps = <<"data", "list", "each">> /\ Kind(f.obj) = "array_of_launch_plans"
    BY <1>5 DEF At, Past, HasOutputs
  <1>6. CASE f.steps = <<"data">> /\ Kind(f.obj) = "gate_node"
    BY <1>6 DEF At, Past, HasOutputs
  <1>7. CASE f.steps = <<>> /\ Kind(f.obj) = "end_node"
    BY <1>7 DEF At, Past, HasOutputs
  <1> QED
    BY Shapes, <1>1, <1>2, <1>3, <1>4, <1>5, <1>6, <1>7

(* A step further. *)
LEMMA PastNext ==
  ASSUME NEW f, NEW g, f.at \in Nat, f.steps \in Seq(Steps), g.at = f.at + 1,
         g.steps = f.steps, NEW s
  PROVE  Past(g, s) <=> Past(f, s) \/ (f.at >= 1 /\ At(f, s))
  BY DEF Past, At

(* A call at a step is at no other. *)
LEMMA AtOne ==
  ASSUME NEW f, NEW s, NEW r, At(f, s), At(f, r) PROVE s = r
  BY DEF At

-----------------------------------------------------------------------------
(* The stack *)

(* Changing, adding to or removing the top. *)
LEMMA StackShapes ==
  ASSUME stack \in Seq(Frame), stack # <<>>
  PROVE  /\ Len(stack) \in Nat \ {0}
         /\ Top \in Frame
         /\ Below \in Seq(Frame)
         /\ Len(Below) = Len(stack) - 1
         /\ \A k \in 1 .. Len(stack) - 1 : Below[k] = stack[k]
         /\ \A g \in Frame :
               /\ Append(Below, g) \in Seq(Frame)
               /\ Len(Append(Below, g)) = Len(stack)
               /\ \A k \in 1 .. Len(stack) - 1 : Append(Below, g)[k] = stack[k]
               /\ Append(Below, g)[Len(stack)] = g
         /\ \A g, h \in Frame :
               /\ Append(Append(Below, g), h) \in Seq(Frame)
               /\ Len(Append(Append(Below, g), h)) = Len(stack) + 1
               /\ \A k \in 1 .. Len(stack) - 1 : Append(Append(Below, g), h)[k] = stack[k]
               /\ Append(Append(Below, g), h)[Len(stack)] = g
               /\ Append(Append(Below, g), h)[Len(stack) + 1] = h
  <1>1. Len(stack) \in Nat \ {0}
    OBVIOUS
  <1>2. Top \in Frame
    BY <1>1 DEF Top
  <1>3. /\ Below \in Seq(Frame)
        /\ Len(Below) = Len(stack) - 1
        /\ \A k \in 1 .. Len(stack) - 1 : Below[k] = stack[k]
    <2>1. \A i \in 1 .. Len(stack) - 1 : stack[i] \in Frame
      BY <1>1
    <2>2. 1 \in Int /\ Len(stack) - 1 \in Int
      BY <1>1
    <2>3. /\ SubSeq(stack, 1, Len(stack) - 1) \in Seq(Frame)
          /\ Len(SubSeq(stack, 1, Len(stack) - 1))
               = IF 1 <= Len(stack) - 1 THEN (Len(stack) - 1) - 1 + 1 ELSE 0
          /\ \A i \in 1 .. (Len(stack) - 1) - 1 + 1 :
                 SubSeq(stack, 1, Len(stack) - 1)[i] = stack[1 + i - 1]
      BY <2>1, <2>2, SubSeqProperties
    <2>4. Len(Below) = Len(stack) - 1
      <3>1. \A m \in Nat \ {0} : (IF 1 <= m - 1 THEN (m - 1) - 1 + 1 ELSE 0) = m - 1
        OBVIOUS
      <3> QED
        BY <1>1, <2>3, <3>1, Zenon DEF Below
    <2>5. ASSUME NEW k \in 1 .. Len(stack) - 1 PROVE Below[k] = stack[k]
      <3>1. k \in 1 .. (Len(stack) - 1) - 1 + 1 /\ 1 + k - 1 = k
        BY <1>1
      <3>2. Below[k] = stack[1 + k - 1]
        BY <2>3, <3>1 DEF Below
      <3> QED
        BY <3>1, <3>2
    <2> QED
      BY <2>3, <2>4, <2>5 DEF Below
  <1> DEFINE n == Len(stack)
             b == Below
  <1> HIDE DEF n, b, Frame
  <1>4. n \in Nat \ {0} /\ b \in Seq(Frame) /\ Len(b) = n - 1
    BY <1>1, <1>3 DEF n, b
  <1>5. ASSUME NEW g \in Frame
        PROVE  /\ Append(b, g) \in Seq(Frame)
               /\ Len(Append(b, g)) = n
               /\ \A k \in 1 .. n - 1 : Append(b, g)[k] = b[k]
               /\ Append(b, g)[n] = g
    BY <1>4
  <1>6. ASSUME NEW g \in Frame, NEW h \in Frame
        PROVE  /\ Append(Append(b, g), h) \in Seq(Frame)
               /\ Len(Append(Append(b, g), h)) = n + 1
               /\ \A k \in 1 .. n - 1 : Append(Append(b, g), h)[k] = b[k]
               /\ Append(Append(b, g), h)[n] = g
               /\ Append(Append(b, g), h)[n + 1] = h
    <2> DEFINE c == Append(b, g)
    <2>1. /\ c \in Seq(Frame) /\ Len(c) = n /\ c[n] = g
          /\ \A k \in 1 .. n - 1 : c[k] = b[k]
      BY <1>5
    <2> HIDE DEF c
    <2>2. /\ Append(c, h) \in Seq(Frame)
          /\ Len(Append(c, h)) = n + 1
          /\ \A k \in 1 .. n : Append(c, h)[k] = c[k]
          /\ Append(c, h)[n + 1] = h
      BY <1>4, <2>1
    <2> QED
      BY <1>4, <2>1, <2>2 DEF c
  <1> QED
    BY <1>1, <1>2, <1>3, <1>5, <1>6 DEF n, b

(* Nothing below a call on the stack is on the stack under it. *)
LEMMA NoCycle ==
  ASSUME Typed, Path, NEW j \in 1 .. Len(stack), NEW k \in 1 .. Len(stack), j <= k,
         NEW o \in Children(stack[k].obj)
  PROVE  stack[j].obj # o
  <1> SUFFICES ASSUME stack[j].obj = o PROVE FALSE
    OBVIOUS
  <1> DEFINE S == {stack[i].obj : i \in j .. k}
  <1>1. Len(stack) \in Nat /\ \A i \in 1 .. Len(stack) : stack[i] \in Frame
    BY DEF Typed
  <1>2. S \in SUBSET Objects /\ S # {}
    BY <1>1 DEF Frame
  <1>3. PICK x \in S : \A p \in S : x \notin Children(p)
    BY <1>2 DEF Typed, IsTree, Children
  <1>4. PICK i \in j .. k : x = stack[i].obj
    BY <1>3
  <1>5. CASE i = j
    <2>1. stack[k].obj \in S
      OBVIOUS
    <2> QED
      BY <1>3, <1>4, <1>5, <2>1
  <1>6. CASE i # j
    <2>1. i - 1 \in j .. k /\ i - 1 \in 1 .. Len(stack) - 1 /\ (i - 1) + 1 = i
      BY <1>1, <1>4, <1>6
    <2>2. stack[(i - 1) + 1].obj \in Children(stack[i - 1].obj)
      BY <2>1 DEF Path
    <2>3. stack[i - 1].obj \in S
      BY <2>1
    <2> QED
      BY <1>3, <1>4, <2>1, <2>2, <2>3
  <1> QED
    BY <1>5, <1>6

(* The objects on the stack are different. *)
LEMMA StackDistinct ==
  ASSUME Typed, Path, NEW j \in 1 .. Len(stack), NEW k \in 1 .. Len(stack), j < k
  PROVE  stack[j].obj # stack[k].obj
  <1>1. k - 1 \in 1 .. Len(stack) - 1 /\ k - 1 \in 1 .. Len(stack) /\ j <= k - 1
        /\ (k - 1) + 1 = k
    BY DEF Typed
  <1>2. stack[(k - 1) + 1].obj \in Children(stack[k - 1].obj)
    BY <1>1 DEF Path
  <1> QED
    BY <1>1, <1>2, NoCycle

(* The call of the execution itself is the first one only. *)
LEMMA RootIsFirst ==
  ASSUME Typed, Path, NEW k \in 1 .. Len(stack), stack[k].obj = Root
  PROVE  k = 1
  <1>1. stack # <<>> /\ 1 \in 1 .. Len(stack)
    BY DEF Typed
  <1> QED
    BY <1>1, StackDistinct DEF Path

-----------------------------------------------------------------------------
(* The backend *)

(* When the execution has ended, nothing below it runs. *)
LEMMA Frozen ==
  ASSUME Typed, BackendOK, phase[Root] \in Terminal
  PROVE  \A o \in Objects : phase[o] # "running"
  <1> DEFINE S == {o \in Objects : phase[o] = "running"}
  <1> SUFFICES ASSUME S # {} PROVE FALSE
    OBVIOUS
  <1>1. PICK o \in S : \A p \in S : o \notin Children(p)
    <2>1. S \in SUBSET Objects
      OBVIOUS
    <2> HIDE DEF S
    <2> QED
      BY <2>1 DEF Typed, IsTree, Children
  <1>2. o # Root
    BY DEF Terminal
  <1>3. PICK p \in Objects : o \in Children(p)
    BY <1>2 DEF Typed, IsTree, Children
  <1> QED
    BY <1>1, <1>3 DEF BackendOK

(* The one object that a node over a launch plan has below it. *)
LEMMA LaunchedIsChild ==
  ASSUME Typed, NEW o \in Objects, Kind(o) = "launch_plan_node"
  PROVE  /\ Launched(o) \in Children(o)
         /\ Children(o) = {Launched(o)}
         /\ Launched(o) \in Objects \ {Root}
         /\ Kind(Launched(o)) = "execution"
  <1>1. PICK x \in Objects : Children(o) = {x}
    BY DEF Typed, IsTree, Children, Kind
  <1>2. Launched(o) = x
    BY <1>1 DEF Launched
  <1>3. Children(o) \subseteq Objects \ {Root} /\ Kind(x) = "execution"
    BY <1>1 DEF Typed, IsTree, Children, Kind
  <1> QED
    BY <1>1, <1>2, <1>3

(* Steps of the backend end objects after those below them and revise no
   terminal phase. *)
LEMMA BackendForward ==
  ASSUME SInv, BackendStep
  PROVE  /\ phase' \in [Objects -> Phases]
         /\ \A o \in Objects : phase[o] # "absent" => phase'[o] # "absent"
         /\ \A o \in Objects : phase[o] \in Terminal => phase'[o] = phase[o]
         /\ BackendOK'
  <1>1. PICK o \in Objects : ends(o) \/ \E x \in Children(o) : appears(o, x)
    BY DEF BackendStep
  <1>2. UNCHANGED <<tree, ids>> /\ phase \in [Objects -> Phases]
    BY DEF BackendStep, SInv, Typed, TypeOK
  <1>3. Root \in Objects /\ \A p \in Objects : Children(p) \subseteq Objects
    BY DEF SInv, Typed, IsTree, Children
  <1>4. CASE ends(o)
    <2>1. PICK ph \in Terminal : /\ ph = "succeeded" => MaySucceed(o)
                                 /\ phase' = [phase EXCEPT ![o] = ph]
      BY <1>4 DEF ends
    <2>2. phase[o] = "running" /\ BelowEnded(o)
      BY <1>4 DEF ends
    <2>3. \A p \in Objects : phase'[p] = IF p = o THEN ph ELSE phase[p]
      BY <1>2, <2>1
    <2>4. /\ phase' \in [Objects -> Phases]
          /\ \A p \in Objects : phase[p] # "absent" => phase'[p] # "absent"
          /\ \A p \in Objects : phase[p] \in Terminal => phase'[p] = phase[p]
      BY <1>2, <2>1, <2>2, <2>3 DEF Phases, Terminal
    <2>5. ASSUME NEW p \in Objects, NEW x \in Children(p)
          PROVE  /\ phase'[x] = "running" => phase'[p] = "running"
                 /\ phase'[x] # "absent" => phase'[p] # "absent"
                 /\ Kind(p) = "launch_plan_node" /\ phase'[p] = "succeeded"
                        => phase'[x] = "succeeded"
      <3>1. x \in Objects
        BY <1>3
      <3>2. /\ phase[x] = "running" => phase[p] = "running"
            /\ phase[x] # "absent" => phase[p] # "absent"
            /\ Kind(p) = "launch_plan_node" /\ phase[p] = "succeeded"
                  => phase[x] = "succeeded"
        BY DEF SInv, BackendOK
      <3>3. Kind(p) = "launch_plan_node" => x = Launched(p)
        BY LaunchedIsChild DEF SInv
      <3>4. CASE p = o
        <4>1. phase[x] # "running" /\ x # o
          BY <2>2, <3>4 DEF BelowEnded
        <4> QED
          BY <2>1, <2>3, <3>1, <3>3, <3>4, <4>1 DEF Terminal, MaySucceed
      <3>5. CASE p # o
        BY <2>2, <2>3, <3>1, <3>2, <3>5 DEF Terminal
      <3> QED
        BY <3>4, <3>5
    <2>6. BackendOK'
      BY <1>2, <1>3, <2>4, <2>5 DEF SInv, BackendOK, Objects, Children, Kind
    <2> QED
      BY <2>4, <2>6
  <1>5. CASE \E x \in Children(o) : appears(o, x)
    <2>1. PICK y \in Children(o) : appears(o, y)
      BY <1>5
    <2>2. /\ phase[o] = "running" /\ phase[y] = "absent" /\ y \in Objects /\ y # o
          /\ phase' = [phase EXCEPT ![y] = "running"]
      BY <1>3, <2>1 DEF appears
    <2>3. \A p \in Objects : phase'[p] = IF p = y THEN "running" ELSE phase[p]
      BY <1>2, <2>2
    <2>4. /\ phase' \in [Objects -> Phases]
          /\ \A p \in Objects : phase[p] # "absent" => phase'[p] # "absent"
          /\ \A p \in Objects : phase[p] \in Terminal => phase'[p] = phase[p]
      BY <1>2, <2>2, <2>3 DEF Phases, Terminal
    <2>5. ASSUME NEW p \in Objects, NEW x \in Children(p)
          PROVE  /\ phase'[x] = "running" => phase'[p] = "running"
                 /\ phase'[x] # "absent" => phase'[p] # "absent"
                 /\ Kind(p) = "launch_plan_node" /\ phase'[p] = "succeeded"
                        => phase'[x] = "succeeded"
      <3>1. x \in Objects
        BY <1>3
      <3>2. /\ phase[x] = "running" => phase[p] = "running"
            /\ phase[x] # "absent" => phase[p] # "absent"
            /\ Kind(p) = "launch_plan_node" /\ phase[p] = "succeeded"
                  => phase[x] = "succeeded"
        BY DEF SInv, BackendOK
      <3>3. x = y => p = o
        BY DEF SInv, Typed, IsTree, Children
      <3> QED
        BY <2>2, <2>3, <3>1, <3>2, <3>3
    <2>6. BackendOK'
      BY <1>2, <1>3, <2>4, <2>5 DEF SInv, BackendOK, Objects, Children, Kind
    <2> QED
      BY <2>4, <2>6
  <1> QED
    BY <1>1, <1>4, <1>5

-----------------------------------------------------------------------------
(* The steps outside a sync *)

USE ScenariosAssumption, BoundsAssumption

(* No call is under way. *)
LEMMA Emptied ==
  ASSUME stack' = <<>>, DOMAIN fresh' = {} PROVE Path' /\ FramesOK' /\ FreshOK'
  BY DEF Path, FramesOK, FreshOK

(* The tree does not change, nor what fits its objects. *)
LEMMA TreeKept ==
  ASSUME tree' = tree
  PROVE  /\ \A o, s : Fits(o, s)' <=> Fits(o, s)
         /\ \A o : Kind(o)' = Kind(o) /\ Children(o)' = Children(o) /\ Launched(o)' = Launched(o)
         /\ \A o : HasOutputs(o)' <=> HasOutputs(o)
         /\ Objects' = Objects /\ Frame' = Frame /\ Entry' = Entry
  <1>1. \A o : Kind(o)' = Kind(o) /\ Children(o)' = Children(o) /\ Launched(o)' = Launched(o)
    BY DEF Kind, Children, Launched
  <1>2. \A o : HasOutputs(o)' <=> HasOutputs(o)
    BY <1>1 DEF HasOutputs
  <1>3. \A o, s : Fits(o, s)' <=> Fits(o, s)
    BY Zenon DEF Fits, Kind, sync_node_execution
  <1> QED
    BY <1>1, <1>2, <1>3 DEF Objects, Frame, Entry

(* A sync begins. *)
LEMMA Started ==
  ASSUME Typed, NEW w \in BOOLEAN, w = (op' = "wait"), tree' = tree,
         stack' = <<Call(Root, sync_execution(w))>>, DOMAIN fresh' = {}
  PROVE  Path' /\ FramesOK' /\ FreshOK' /\ stack' \in Seq(Frame) /\ stack' # <<>>
  <1> DEFINE f == Call(Root, sync_execution(w))
  <1>1. PICK g : g = f
    OBVIOUS
  <1>2. /\ g.obj = Root /\ g.steps = sync_execution(w) /\ g.at = 1 /\ g.todo = {}
        /\ g.data = "empty"
    BY <1>1 DEF Call
  <1>3. sync_execution(w) \in Seq(Steps)
    <2>1. /\ <<"closure", "data", "list", "each", "assign">> \in Seq(Steps)
          /\ <<"closure", "data", "assign">> \in Seq(Steps)
      BY DEF Steps
    <2> QED
      BY <2>1 DEF sync_execution
  <1>4. Root \in Objects /\ Kind(Root) = "execution"
    BY DEF Typed, IsTree, Kind
  <1>5. g \in Frame
    BY <1>1, <1>3, <1>4 DEF Call, Frame
  <1>6. Fits(Root, sync_execution(w))
    BY <1>4 DEF Fits
  <1>7. \A s : ~ Past(g, s)
    BY <1>2, <1>3 DEF Past
  <1>8. FrameOK(g)'
    BY <1>2, <1>6, <1>7, TreeKept DEF FrameOK, Past
  <1>9. Len(stack') = 1 /\ stack'[1] = g
    BY <1>1
  <1> HIDE DEF f
  <1>10. Path'
    BY <1>2, <1>9 DEF Path
  <1>11. FramesOK'
    BY <1>8, <1>9 DEF FramesOK
  <1>12. stack' = <<g>>
    BY <1>1 DEF f
  <1> QED
    BY <1>5, <1>10, <1>11, <1>12 DEF FreshOK

(* The calls under way, what they read and what was assigned stay. *)
LEMMA Unmoved ==
  ASSUME SInv, UNCHANGED <<tree, op, stack, root, nodes, fresh>>,
         \A o \in Objects : phase[o] \in Terminal => phase'[o] = phase[o]
  PROVE  Path' /\ FramesOK' /\ FreshOK' /\ NodesOK'
  <1>1. Path'
    BY DEF SInv, Path, Children
  <1>2. NodesOK'
    BY DEF SInv, NodesOK, OutputsRead, HasOutputs, Kind
  <1>3. FreshOK'
    BY DEF SInv, Typed, TypeOK, FreshOK, OnStack, OnList, OutputsRead, HasOutputs, Kind
  <1>4. \A f : FrameOK(f) => FrameOK(f)'
    <2>1. \A o, x : OutputsRead(o, x)' <=> OutputsRead(o, x)
      BY TreeKept DEF OutputsRead, is_successful
    <2>2. \A o : Reading(o)' = Reading(o)
      BY DEF Reading
    <2> QED
      BY TreeKept, <2>1, <2>2 DEF FrameOK, At, Past
  <1> QED
    BY <1>1, <1>2, <1>3, <1>4 DEF SInv, FramesOK

LEMMA InitSInv == Init => SInv
  <1> SUFFICES ASSUME Init PROVE SInv
    OBVIOUS
  <1>1. PICK s \in Scenarios : tree = s.tree /\ naming = s.naming
    BY DEF Init
  <1>2. IsTree(Objects, tree.kind, tree.children) /\ naming \in {"name", "prefix", "none"}
    BY <1>1 DEF Objects
  <1>3. Typed
    <2>1. nodes \in [DOMAIN nodes -> Held] /\ fresh \in [DOMAIN fresh -> Held]
          /\ DOMAIN nodes = {} /\ DOMAIN fresh = {}
      BY DEF Init
    <2>2. TypeOK
      <3>1. root \in Held
        BY DEF Init, Held, Phases
      <3>2. phase \in [Objects -> Phases]
        BY DEF Init, Phases
      <3>3. retries \in 0 .. MaxRetries /\ calls \in 0 .. MaxCalls /\ faults \in 0 .. MaxFaults
        BY DEF Init
      <3>4. /\ status = "idle" /\ op = "none" /\ stack = <<>> /\ aborting = FALSE
        BY DEF Init
      <3> QED
        BY <2>1, <3>1, <3>2, <3>3, <3>4 DEF TypeOK, Ended
    <2>3. stack \in Seq(Frame) /\ ids \subseteq [naming : {naming}, call : Nat, attempt : Nat]
      BY DEF Init
    <2> QED
      BY <1>2, <2>1, <2>2, <2>3 DEF Typed
  <1>4. BackendOK /\ NamedOnce
    <2>1. \A p \in Objects : Children(p) \subseteq Objects
      BY <1>2 DEF IsTree, Children
    <2> QED
      BY <2>1 DEF Init, BackendOK, NamedOnce
  <1>5. ClientOK /\ RootOK /\ NodesOK
    BY DEF Init, ClientOK, RootOK, Synced, NodesOK, Terminal
  <1>6. Path /\ FramesOK /\ FreshOK
    BY DEF Init, Path, FramesOK, FreshOK
  <1> QED
    BY <1>3, <1>4, <1>5, <1>6 DEF SInv

LEMMA CallExecuteSInv ==
  ASSUME SInv, CallExecute PROVE SInv'
  <1>1. stack = <<>> /\ DOMAIN fresh = {}
    BY DEF SInv, Typed, TypeOK, ClientOK, CallExecute, Ended
  <1>2. Typed'
    BY DEF SInv, Typed, TypeOK, CallExecute, Ended, Backend, Execution, Objects, Frame, Entry
  <1>3. NamedOnce' /\ BackendOK' /\ ClientOK' /\ RootOK'
    BY DEF SInv, NamedOnce, BackendOK, ClientOK, RootOK, Synced, CallExecute, Backend, Execution,
           Objects, Children, Kind, Terminal
  <1>4. Path' /\ FramesOK' /\ FreshOK'
    BY <1>1, Emptied DEF CallExecute
  <1>5. NodesOK'
    BY DEF SInv, NodesOK, OutputsRead, HasOutputs, Kind, CallExecute, Execution
  <1> QED
    BY <1>2, <1>3, <1>4, <1>5 DEF SInv

LEMMA CreateSInv ==
  ASSUME SInv, create_execution PROVE SInv'
  <1>1. /\ status = "create" /\ op = "execute" /\ root.phase = "absent"
        /\ stack = <<>> /\ DOMAIN fresh = {}
    BY DEF SInv, Typed, TypeOK, ClientOK, create_execution
  <1>2. UNCHANGED <<tree, naming, op, stack, root, nodes, fresh, calls, faults>>
    BY DEF create_execution, Execution
  <1>3. /\ status' \in {"create", "get_execution", "raised"}
        /\ retries' \in 0 .. MaxRetries
        /\ status' = "get_execution" => ids' # {}
        /\ Creates \/ UNCHANGED Backend
    BY <1>1 DEF create_execution, RetriesOr, Creates, SInv, Typed, TypeOK, Backend
  <1>4. \/ UNCHANGED Backend
        \/ /\ ids' = ids \cup {execution_name}
           /\ phase' = [o \in Objects |-> IF o = Root THEN "running" ELSE "absent"]
           /\ aborting' = FALSE
    BY <1>3 DEF Creates
  <1>5. /\ execution_name \in [naming : {naming}, call : Nat, attempt : Nat]
        /\ naming # "none" => execution_name.attempt = 0
        /\ naming = "name" => execution_name.call = 0
    BY DEF execution_name, SInv, Typed, TypeOK
  <1>6. Root \in Objects /\ \A p \in Objects : Children(p) \subseteq Objects \ {Root}
    BY DEF SInv, Typed, IsTree, Children
  <1> HIDE DEF execution_name
  <1>7. Typed'
    <2>1. phase' \in [Objects -> Phases] /\ aborting' \in BOOLEAN
          /\ ids' \subseteq [naming : {naming}, call : Nat, attempt : Nat]
      BY <1>4, <1>5 DEF SInv, Typed, TypeOK, Backend, Phases
    <2> QED
      BY <1>1, <1>2, <1>3, <2>1 DEF SInv, Typed, TypeOK, Objects, Frame, Entry, Ended
  <1>8. NamedOnce'
    BY <1>2, <1>4, <1>5 DEF SInv, NamedOnce, Backend
  <1>9. BackendOK'
    BY <1>2, <1>4, <1>6 DEF SInv, BackendOK, Backend, Objects, Children, Kind
  <1>10. ClientOK'
    BY <1>1, <1>2, <1>3 DEF SInv, ClientOK, Terminal
  <1>11. Path' /\ FramesOK' /\ FreshOK'
    BY <1>1, <1>2, Emptied
  <1>12. NodesOK' /\ RootOK'
    BY <1>1, <1>2 DEF SInv, NodesOK, OutputsRead, HasOutputs, Kind, RootOK, Synced
  <1> QED
    BY <1>7, <1>8, <1>9, <1>10, <1>11, <1>12 DEF SInv

LEMMA GetExecutionSInv ==
  ASSUME SInv, get_execution PROVE SInv'
  <1>1. /\ status = "get_execution" /\ op = "execute" /\ ids # {}
        /\ stack = <<>> /\ DOMAIN fresh = {} /\ phase[Root] # "absent"
    BY DEF SInv, Typed, TypeOK, ClientOK, BackendOK, get_execution
  <1>2. /\ UNCHANGED <<tree, naming, ids, phase, aborting, op, retries, stack, fresh, calls, faults>>
        /\ status' = "returned"
        /\ root' = [phase |-> phase[Root], outputs |-> "none"]
        /\ DOMAIN nodes' = {}
    BY DEF get_execution, Backend
  <1>3. root' \in Held /\ root'.phase = phase[Root]
    BY <1>2 DEF SInv, Typed, TypeOK, IsTree, Held
  <1>4. nodes' \in [DOMAIN nodes' -> Held]
    BY DEF get_execution
  <1>5. Typed'
    BY <1>1, <1>2, <1>3, <1>4 DEF SInv, Typed, TypeOK, Objects, Frame, Entry, Ended
  <1>6. NamedOnce' /\ BackendOK' /\ ClientOK'
    BY <1>1, <1>2, <1>3 DEF SInv, NamedOnce, BackendOK, ClientOK, Objects, Children, Kind
  <1>7. Path' /\ FramesOK' /\ FreshOK'
    BY <1>1, <1>2, Emptied
  <1>8. NodesOK' /\ RootOK'
    BY <1>1, <1>2 DEF NodesOK, RootOK, Synced
  <1> QED
    BY <1>5, <1>6, <1>7, <1>8 DEF SInv

(* wait or sync is called, or wait takes another look. *)
LEMMA StartSyncSInv ==
  ASSUME SInv, wait_wakes \/ \E o \in {"wait", "sync"} : CallMethod(o) PROVE SInv'
  <1>1. /\ stack = <<>> /\ DOMAIN fresh = {} /\ root.phase # "absent"
        /\ UNCHANGED <<tree, naming, ids, phase, aborting, retries, fresh, root, nodes, faults>>
        /\ op' \in {"wait", "sync"} /\ calls' \in 0 .. MaxCalls
        /\ \/ status' = "timed_out" /\ stack' = <<>>
           \/ status' = "sync" /\ stack' = <<Call(Root, sync_execution(op' = "wait"))>>
    <2>1. CASE wait_wakes
      <3>1. status = "sleep" /\ op \in {"wait", "sync"} /\ root.phase # "absent" /\ stack = <<>>
        BY <2>1 DEF wait_wakes, SInv, ClientOK, Typed, TypeOK, Ended
      <3>2. op = "wait"
        BY <3>1 DEF SInv, ClientOK
      <3> QED
        BY <2>1, <3>1, <3>2 DEF wait_wakes, StartSync, SInv, ClientOK, Typed, TypeOK, Quiet,
               Execution, Backend
    <2>2. ASSUME NEW o \in {"wait", "sync"}, CallMethod(o) PROVE <1>1!:
      BY <2>2 DEF CallMethod, StartSync, SInv, ClientOK, Typed, TypeOK, Execution, Backend, Ended
    <2> QED
      BY <2>1, <2>2
  <1>2. /\ stack' = <<>> => Path' /\ FramesOK' /\ FreshOK'
        /\ stack' # <<>> => Path' /\ FramesOK' /\ FreshOK'
        /\ stack' \in Seq(Frame)
        /\ status' = "sync" <=> stack' # <<>>
    <2>1. CASE status' = "timed_out" /\ stack' = <<>>
      BY <1>1, <2>1, Emptied
    <2>2. CASE status' = "sync" /\ stack' = <<Call(Root, sync_execution(op' = "wait"))>>
      <3>1. PICK w \in BOOLEAN : w = (op' = "wait")
        OBVIOUS
      <3> QED
        BY <1>1, <2>2, <3>1, Started DEF SInv
    <2> QED
      BY <1>1, <2>1, <2>2
  <1>3. Typed'
    BY <1>1, <1>2 DEF SInv, Typed, TypeOK, Objects, Frame, Entry, Ended
  <1>4. NamedOnce' /\ BackendOK' /\ ClientOK'
    BY <1>1 DEF SInv, NamedOnce, BackendOK, ClientOK, Objects, Children, Kind
  <1>5. NodesOK' /\ RootOK'
    BY <1>1 DEF SInv, NodesOK, OutputsRead, HasOutputs, Kind, RootOK, Synced
  <1> QED
    BY <1>2, <1>3, <1>4, <1>5 DEF SInv

(* The execution is terminated or goes on, or nothing happens. *)
LEMMA MovesOnSInv ==
  ASSUME SInv, terminate \/ BackendStep \/ UNCHANGED vars PROVE SInv'
  <1>1. /\ UNCHANGED <<tree, naming, ids, status, op, retries, stack, root, nodes, fresh, calls,
                       faults>>
        /\ aborting' \in BOOLEAN
    BY DEF terminate, BackendStep, vars, Execution, SInv, Typed, TypeOK
  <1>2. /\ phase' \in [Objects -> Phases]
        /\ \A o \in Objects : phase[o] \in Terminal => phase'[o] = phase[o]
        /\ BackendOK'
    <2>1. CASE BackendStep
      BY <2>1, BackendForward
    <2>2. CASE phase' = phase
      BY <1>1, <2>2 DEF SInv, Typed, TypeOK, BackendOK, Objects, Children, Kind
    <2> QED
      BY <2>1, <2>2 DEF terminate, vars
  <1>3. Typed'
    BY <1>1, <1>2 DEF SInv, Typed, TypeOK, Objects, Frame, Entry
  <1>4. NamedOnce' /\ ClientOK'
    BY <1>1, <1>2 DEF SInv, NamedOnce, ClientOK, Typed, IsTree
  <1>5. Path' /\ FramesOK' /\ FreshOK' /\ NodesOK'
    BY <1>1, <1>2, Unmoved
  <1>6. RootOK'
    BY <1>1 DEF SInv, RootOK, Synced, OutputsRead, HasOutputs, Kind
  <1> QED
    BY <1>2, <1>3, <1>4, <1>5, <1>6 DEF SInv

LEMMA ReadRaisesSInv ==
  ASSUME SInv, read_raises PROVE SInv'
  <1>1. /\ UNCHANGED <<tree, naming, ids, phase, aborting, op, retries, root, nodes, calls>>
        /\ stack' = <<>> /\ status' = "raised" /\ DOMAIN fresh' = {}
        /\ fresh' \in [DOMAIN fresh' -> Held]
        /\ faults' \in 0 .. MaxFaults
    BY DEF read_raises, Backend, Execution, SInv, Typed, TypeOK
  <1>2. Typed'
    BY <1>1 DEF SInv, Typed, TypeOK, Objects, Ended
  <1>3. NamedOnce' /\ BackendOK' /\ ClientOK' /\ NodesOK' /\ RootOK'
    BY <1>1 DEF SInv, NamedOnce, BackendOK, ClientOK, Objects, Children, Kind, NodesOK,
                OutputsRead, HasOutputs, RootOK, Synced
  <1>4. Path' /\ FramesOK' /\ FreshOK'
    BY <1>1, Emptied
  <1> QED
    BY <1>2, <1>3, <1>4 DEF SInv

-----------------------------------------------------------------------------
(* The steps of a sync *)

(* Objects are added to what a sync has read, and a success stays one. *)
FreshForward ==
    /\ DOMAIN fresh \subseteq DOMAIN fresh'
    /\ \A o \in DOMAIN fresh : fresh[o].phase = "succeeded" => fresh'[o].phase = "succeeded"

ReadAlike(o) == IF o = Root THEN root' = root ELSE fresh'[o] = fresh[o]

(* A call whose object was not written to. *)
LEMMA FrameKept ==
  ASSUME UNCHANGED tree, NEW f \in Frame, FrameOK(f), FreshForward, ReadAlike(f.obj)
  PROVE  FrameOK(f)'
  <1>1. \A o, x : OutputsRead(o, x)' <=> OutputsRead(o, x)
    BY TreeKept DEF OutputsRead, is_successful
  <1>2. Reading(f.obj)' = Reading(f.obj)
    BY DEF Reading, ReadAlike
  <1> QED
    BY TreeKept, <1>1, <1>2 DEF FrameOK, At, Past, FreshForward

(* A step changes the call at the top. *)
LEMMA InPlace ==
  ASSUME SInv, stack # <<>>, UNCHANGED <<tree, op>>, FreshForward,
         NEW g \in Frame, stack' = Append(Below, g), g.obj = Top.obj, g.steps = Top.steps,
         FrameOK(g)',
         \A o : OnStack(o) /\ o # Top.obj => ReadAlike(o)
  PROVE  /\ stack' \in Seq(Frame) /\ stack' # <<>>
         /\ Path' /\ FramesOK'
         /\ \A o : OnStack(o) => OnStack(o)'
         /\ \A o : OnList(o) => OnList(o)' \/ \E t \in Top.todo : t.obj = o
         /\ \A t \in g.todo : OnList(t.obj)'
  <1> DEFINE n == Len(stack)
  <1>1. /\ n \in Nat \ {0} /\ stack \in Seq(Frame) /\ Typed /\ Path /\ FramesOK
        /\ stack[n] = Top
    BY StackShapes DEF SInv, Typed, Top
  <1>2. /\ stack' \in Seq(Frame) /\ Len(stack') = n
        /\ \A k \in 1 .. n - 1 : stack'[k] = stack[k]
        /\ stack'[n] = g
    BY <1>1, StackShapes
  <1>3. stack' # <<>>
    BY <1>1, <1>2
  <1> HIDE DEF n
  <1>4. \A k \in 1 .. n : stack'[k].obj = stack[k].obj /\ stack'[k].steps = stack[k].steps
    BY <1>1, <1>2
  <1>5. Path'
    <2>1. ASSUME NEW k \in 1 .. n - 1 PROVE stack'[k + 1].obj \in Children(stack'[k].obj)
      <3>1. k \in 1 .. n /\ k + 1 \in 1 .. n
        BY <1>1
      <3>2. stack[k + 1].obj \in Children(stack[k].obj)
        BY <1>1 DEF Path, n
      <3> QED
        BY <1>4, <3>1, <3>2
    <2>2. stack'[1].obj = Root /\ stack'[1].steps = sync_execution(op' = "wait")
      BY <1>1, <1>4 DEF Path
    <2> QED
      BY <1>2, <2>1, <2>2 DEF Path, Children
  <1>6. FramesOK'
    <2> SUFFICES ASSUME NEW k \in 1 .. n PROVE FrameOK(stack[k])'
      BY <1>2 DEF FramesOK
    <2>1. CASE k = n
      BY <1>2, <2>1
    <2>2. CASE k # n
      <3>1. k \in 1 .. n - 1 /\ k < n /\ k \in 1 .. Len(stack) /\ n \in 1 .. Len(stack)
        BY <1>1, <2>2 DEF n
      <3>2. PICK f : f = stack[k]
        OBVIOUS
      <3>3. f \in Frame /\ FrameOK(f) /\ stack'[k] = f
        BY <1>1, <1>2, <3>1, <3>2 DEF FramesOK
      <3>4. OnStack(f.obj) /\ f.obj # Top.obj
        BY <1>1, <3>1, <3>2, StackDistinct DEF OnStack
      <3>5. FrameOK(f)'
        BY <3>3, <3>4, FrameKept
      <3> QED
        BY <3>3, <3>5
    <2> QED
      BY <2>1, <2>2
  <1>7. \A o : OnStack(o) => OnStack(o)'
    BY <1>2, <1>4 DEF OnStack, n
  <1>8. ASSUME NEW o, OnList(o) PROVE OnList(o)' \/ \E t \in Top.todo : t.obj = o
    <2>1. PICK k \in 1 .. n : \E t \in stack[k].todo : t.obj = o
      BY <1>8 DEF OnList, n
    <2>2. CASE k = n
      BY <1>1, <2>1, <2>2
    <2>3. CASE k # n
      <3>1. stack'[k] = stack[k]
        BY <1>1, <1>2, <2>1, <2>3
      <3> QED
        BY <1>2, <2>1, <3>1 DEF OnList
    <2> QED
      BY <2>2, <2>3
  <1>9. \A t \in g.todo : OnList(t.obj)'
    BY <1>1, <1>2 DEF OnList
  <1> QED
    BY <1>2, <1>3, <1>5, <1>6, <1>7, <1>8, <1>9

(* A step changes the call at the top and makes another one. *)
LEMMA Pushes ==
  ASSUME SInv, stack # <<>>, UNCHANGED <<tree, op>>, FreshForward,
         NEW g \in Frame, NEW h \in Frame, stack' = Append(Append(Below, g), h),
         g.obj = Top.obj, g.steps = Top.steps, h.obj \in Children(Top.obj),
         FrameOK(g)', FrameOK(h)',
         \A o : OnStack(o) /\ o # Top.obj => ReadAlike(o)
  PROVE  /\ stack' \in Seq(Frame) /\ stack' # <<>>
         /\ Path' /\ FramesOK'
         /\ \A o : OnStack(o) => OnStack(o)'
         /\ OnStack(h.obj)'
         /\ \A o : OnList(o) => OnList(o)' \/ \E t \in Top.todo : t.obj = o
         /\ \A t \in g.todo : OnList(t.obj)'
  <1> DEFINE n == Len(stack)
  <1>1. /\ n \in Nat \ {0} /\ stack \in Seq(Frame) /\ Typed /\ Path /\ FramesOK
        /\ stack[n] = Top
    BY StackShapes DEF SInv, Typed, Top
  <1>2. /\ stack' \in Seq(Frame) /\ Len(stack') = n + 1
        /\ \A k \in 1 .. n - 1 : stack'[k] = stack[k]
        /\ stack'[n] = g
        /\ stack'[n + 1] = h
    BY <1>1, StackShapes
  <1>3. stack' # <<>>
    BY <1>1, <1>2
  <1> HIDE DEF n
  <1>4. \A k \in 1 .. n : stack'[k].obj = stack[k].obj /\ stack'[k].steps = stack[k].steps
    BY <1>1, <1>2
  <1>5. Path'
    <2>1. ASSUME NEW k \in 1 .. n - 1 PROVE stack'[k + 1].obj \in Children(stack'[k].obj)
      <3>1. k \in 1 .. n /\ k + 1 \in 1 .. n
        BY <1>1
      <3>2. stack[k + 1].obj \in Children(stack[k].obj)
        BY <1>1 DEF Path, n
      <3> QED
        BY <1>4, <3>1, <3>2
    <2>2. stack'[n + 1].obj \in Children(stack'[n].obj)
      BY <1>2
    <2>3. \A k \in 1 .. n : k \in 1 .. n - 1 \/ k = n
      BY <1>1
    <2>4. \A k \in 1 .. (n + 1) - 1 : k \in 1 .. n
      BY <1>1
    <2>5. \A k \in 1 .. Len(stack') - 1 : stack'[k + 1].obj \in Children(stack'[k].obj)
      BY <1>2, <2>1, <2>2, <2>3, <2>4
    <2>6. stack'[1].obj = Root /\ stack'[1].steps = sync_execution(op' = "wait")
      BY <1>1, <1>4 DEF Path
    <2> QED
      BY <2>5, <2>6 DEF Path, Children
  <1>6. FramesOK'
    <2> SUFFICES ASSUME NEW k \in 1 .. n + 1 PROVE FrameOK(stack[k])'
      BY <1>2 DEF FramesOK
    <2>1. CASE k = n \/ k = n + 1
      BY <1>2, <2>1
    <2>2. CASE k # n /\ k # n + 1
      <3>1. k \in 1 .. n - 1 /\ k < n /\ k \in 1 .. Len(stack) /\ n \in 1 .. Len(stack)
        BY <1>1, <2>2 DEF n
      <3>2. PICK f : f = stack[k]
        OBVIOUS
      <3>3. f \in Frame /\ FrameOK(f) /\ stack'[k] = f
        BY <1>1, <1>2, <3>1, <3>2 DEF FramesOK
      <3>4. OnStack(f.obj) /\ f.obj # Top.obj
        BY <1>1, <3>1, <3>2, StackDistinct DEF OnStack
      <3>5. FrameOK(f)'
        BY <3>3, <3>4, FrameKept
      <3> QED
        BY <3>3, <3>5
    <2> QED
      BY <2>1, <2>2
  <1>7. \A o : OnStack(o) => OnStack(o)'
    BY <1>1, <1>2, <1>4 DEF OnStack, n
  <1>8. ASSUME NEW o, OnList(o) PROVE OnList(o)' \/ \E t \in Top.todo : t.obj = o
    <2>1. PICK k \in 1 .. n : \E t \in stack[k].todo : t.obj = o
      BY <1>8 DEF OnList, n
    <2>2. CASE k = n
      BY <1>1, <2>1, <2>2
    <2>3. CASE k # n
      <3>1. stack'[k] = stack[k] /\ k \in 1 .. n + 1
        BY <1>1, <1>2, <2>1, <2>3
      <3> QED
        BY <1>2, <2>1, <3>1 DEF OnList
    <2> QED
      BY <2>2, <2>3
  <1>9. \A t \in g.todo : OnList(t.obj)'
    <2>1. n \in 1 .. n + 1
      BY <1>1
    <2> QED
      BY <1>2, <2>1 DEF OnList
  <1>10. OnStack(h.obj)'
    BY <1>1, <1>2 DEF OnStack
  <1> QED
    BY <1>2, <1>3, <1>5, <1>6, <1>7, <1>8, <1>9, <1>10

(* What the steps of a sync have in common. *)
LEMMA SyncStep ==
  ASSUME SInv, stack # <<>>, UNCHANGED <<Quiet, status>>, stack' \in Seq(Frame), stack' # <<>>,
         root' \in Held, root'.phase # "absent",
         root'.phase \in Terminal => phase[Root] = root'.phase,
         fresh' \in [DOMAIN fresh' -> Held], DOMAIN fresh' \subseteq Objects,
         nodes' = nodes \/ nodes' = fresh'
  PROVE  Typed' /\ NamedOnce' /\ BackendOK' /\ ClientOK' /\ RootOK'
  <1>1. status = "sync" /\ op \in {"wait", "sync"}
    BY DEF SInv, Typed, TypeOK, ClientOK
  <1>2. /\ UNCHANGED <<tree, naming, ids, phase, aborting, op, retries, calls, faults, status>>
    BY DEF Quiet, Backend
  <1>3. nodes' \in [DOMAIN nodes' -> Held] /\ DOMAIN nodes' \subseteq Objects
    BY DEF SInv, Typed, TypeOK
  <1>4. Typed'
    <2>1. TypeOK'
      BY <1>1, <1>2, <1>3 DEF SInv, Typed, TypeOK, Objects
    <2> QED
      BY <1>2, <1>3, <2>1, TreeKept DEF SInv, Typed
  <1>5. NamedOnce' /\ BackendOK'
    BY <1>2, TreeKept DEF SInv, NamedOnce, BackendOK
  <1>6. ClientOK'
    BY <1>1, <1>2 DEF SInv, ClientOK
  <1>7. RootOK'
    BY <1>1, <1>2 DEF RootOK, Synced
  <1> QED
    BY <1>4, <1>5, <1>6, <1>7

(* The call at the top. *)
LEMMA TopFacts ==
  ASSUME SInv, stack # <<>>
  PROVE  /\ Top \in Frame /\ FrameOK(Top) /\ OnStack(Top.obj)
         /\ Top.obj \in Objects /\ Top.at \in Nat /\ Top.steps \in Seq(Steps)
         /\ Reading(Top.obj) \in Held
         /\ Reading(Top.obj).phase \in Terminal => phase[Top.obj] = Reading(Top.obj).phase
         /\ Advanced(Top) \in Frame
         /\ Advanced(Top).obj = Top.obj /\ Advanced(Top).steps = Top.steps
         /\ Advanced(Top).at = Top.at + 1
         /\ Advanced(Top).data = Top.data /\ Advanced(Top).todo = Top.todo
  <1>1. Len(stack) \in Nat \ {0} /\ Top \in Frame /\ stack[Len(stack)] = Top
    BY StackShapes DEF SInv, Typed, Top
  <1>2. FrameOK(Top) /\ OnStack(Top.obj)
    BY <1>1 DEF SInv, FramesOK, OnStack
  <1>3. Top.obj \in Objects /\ Top.at \in Nat /\ Top.steps \in Seq(Steps)
    BY <1>1 DEF Frame
  <1>4. Reading(Top.obj) \in Held
    BY <1>2 DEF FrameOK, Reading, SInv, Typed, TypeOK
  <1>5. Reading(Top.obj).phase \in Terminal => phase[Top.obj] = Reading(Top.obj).phase
    BY <1>2 DEF FrameOK, Reading, SInv, ClientOK, FreshOK
  <1>6. \A f \in Frame : /\ Advanced(f) \in Frame
                         /\ Advanced(f).obj = f.obj /\ Advanced(f).steps = f.steps
                         /\ Advanced(f).at = f.at + 1
                         /\ Advanced(f).data = f.data /\ Advanced(f).todo = f.todo
    BY DEF Advanced, Frame
  <1> QED
    BY <1>1, <1>2, <1>3, <1>4, <1>5, <1>6

(* What was read and is not written to stays complete, listed or under way. *)
LEMMA FreshKept ==
  ASSUME SInv, UNCHANGED <<tree, phase>>, NEW W,
         \A o \in DOMAIN fresh' \ W :
             /\ o \in DOMAIN fresh /\ fresh'[o] = fresh[o]
             /\ OnStack(o) => OnStack(o)'
             /\ OnList(o) => OnList(o)' \/ OnStack(o)',
         \A o \in DOMAIN fresh' \cap W :
             /\ o # Root
             /\ fresh'[o].phase \in Terminal => phase[o] = fresh'[o].phase
             /\ OnStack(o)' \/ OnList(o)'
  PROVE  FreshOK'
  <1> SUFFICES ASSUME NEW o \in DOMAIN fresh'
               PROVE  /\ o # Root
                      /\ fresh'[o].phase \in Terminal => phase'[o] = fresh'[o].phase
                      /\ OnStack(o)' \/ OnList(o)' \/ OutputsRead(o, fresh[o])'
    BY DEF FreshOK
  <1>1. CASE o \in W
    BY <1>1
  <1>2. CASE o \notin W
    <2>1. o \in DOMAIN fresh /\ fresh'[o] = fresh[o]
      BY <1>2
    <2>2. OutputsRead(o, fresh[o]) => OutputsRead(o, fresh[o])'
      BY <2>1, TreeKept DEF OutputsRead, is_successful
    <2> QED
      BY <1>2, <2>1, <2>2 DEF SInv, FreshOK
  <1> QED
    BY <1>1, <1>2

(* The object of the call at the top is written to. *)
LEMMA Written ==
  ASSUME SInv, stack # <<>>, NEW c, c = Top.obj, NEW x \in Held, SetReading(c, x),
         Reading(c).phase = "succeeded" => x.phase = "succeeded"
  PROVE  /\ FreshForward /\ DOMAIN fresh' = DOMAIN fresh
         /\ fresh' \in [DOMAIN fresh' -> Held] /\ DOMAIN fresh' \subseteq Objects
         /\ Reading(c)' = x
         /\ \A o : o # c => ReadAlike(o)
         /\ \A o \in DOMAIN fresh' : o # c => fresh'[o] = fresh[o]
         /\ c = Root => root' = x /\ fresh' = fresh
         /\ c # Root => root' = root /\ fresh'[c] = x /\ c \in DOMAIN fresh
  <1>1. c = Root \/ c \in DOMAIN fresh
    BY TopFacts DEF FrameOK
  <1>2. /\ fresh \in [DOMAIN fresh -> Held] /\ DOMAIN fresh \subseteq Objects
        /\ Root \notin DOMAIN fresh
    BY DEF SInv, Typed, TypeOK, FreshOK
  <1>3. CASE c = Root
    BY <1>2, <1>3 DEF SetReading, Reading, FreshForward, ReadAlike
  <1>4. CASE c # Root
    <2>1. fresh' = [fresh EXCEPT ![c] = x] /\ root' = root /\ c \in DOMAIN fresh
      BY <1>1, <1>4 DEF SetReading
    <2>2. \A o \in DOMAIN fresh : fresh'[o] = IF o = c THEN x ELSE fresh[o]
      BY <2>1
    <2>3. \A o : o # c => ReadAlike(o)
      BY <2>1 DEF ReadAlike
    <2> QED
      BY <1>2, <1>4, <2>1, <2>2, <2>3 DEF Reading, FreshForward
  <1> QED
    BY <1>3, <1>4

(* A step of the call at the top that adds to what it has done. *)
LEMMA StepDone ==
  ASSUME SInv, NEW s, AtStep(s)
  PROVE  /\ stack # <<>> /\ At(Top, s)
         /\ \A r : Past(Advanced(Top), r) <=> Past(Top, r) \/ At(Top, r)
         /\ \A r : At(Top, r) => r = s
         /\ s # "each" => Top.todo = {}
         /\ status = "sync"
         /\ Top.obj = Root => Len(stack) = 1
  <1>1. stack # <<>> /\ At(Top, s)
    BY DEF AtStep, At
  <1>2. \A r : Past(Advanced(Top), r) <=> Past(Top, r) \/ At(Top, r)
    BY <1>1, TopFacts, PastNext DEF FrameOK
  <1>3. \A r : At(Top, r) => r = s
    BY <1>1, AtOne
  <1>4. s # "each" => Top.todo = {}
    BY <1>1, <1>3, TopFacts DEF FrameOK
  <1>5. Top.obj = Root => Len(stack) = 1
    <2>1. Len(stack) \in 1 .. Len(stack) /\ stack[Len(stack)] = Top
      BY <1>1, StackShapes DEF SInv, Typed, Top
    <2> QED
      BY <2>1, RootIsFirst DEF SInv
  <1> QED
    BY <1>1, <1>2, <1>3, <1>4, <1>5 DEF SInv, Typed, TypeOK

LEMMA PastStep ==
  ASSUME SInv, NEW s, AtStep(s), NEW g, g.at = Top.at + 1, g.steps = Top.steps
  PROVE  /\ \A r : Past(g, r) <=> Past(Top, r) \/ r = s
         /\ \A r : Past(g, r)' <=> Past(Top, r) \/ r = s
  <1>1. /\ stack # <<>> /\ At(Top, s) /\ Top.at \in Nat /\ Top.at >= 1 /\ Top.steps \in Seq(Steps)
        /\ \A r : At(Top, r) => r = s
    BY StepDone, TopFacts DEF FrameOK
  <1>2. \A r : Past(g, r) <=> Past(Top, r) \/ r = s
    BY <1>1, PastNext
  <1>3. \A r : Past(g, r)' <=> Past(g, r)
    BY DEF Past
  <1> QED
    BY <1>2, <1>3

LEMMA ClosureSInv ==
  ASSUME SInv, closure PROVE SInv'
  <1>1. AtStep("closure") /\ stack # <<>> /\ Top \in Frame /\ FrameOK(Top)
    BY StepDone, TopFacts DEF closure
  <1>2. PICK c : c = Top.obj
    OBVIOUS
  <1>3. PICK x : x = [phase |-> phase[c], outputs |-> Reading(c).outputs]
    OBVIOUS
  <1>4. PICK g : g = Advanced(Top)
    OBVIOUS
  <1>5. /\ x \in Held /\ x.phase = phase[c]
        /\ Reading(c).phase = "succeeded" => x.phase = "succeeded"
    <2>1. c \in Objects /\ Reading(c) \in Held /\ phase \in [Objects -> Phases]
      BY <1>1, <1>2, TopFacts DEF SInv, Typed, TypeOK
    <2>2. x \in Held /\ x.phase = phase[c]
      BY <1>3, <2>1 DEF Held
    <2> QED
      BY <1>1, <1>2, <2>2, TopFacts DEF Terminal
  <1>6. /\ SetReading(c, x) /\ stack' = Append(Below, g)
        /\ UNCHANGED <<Quiet, status, nodes>>
    BY <1>2, <1>3, <1>4 DEF closure
  <1>7. /\ FreshForward /\ DOMAIN fresh' = DOMAIN fresh
        /\ fresh' \in [DOMAIN fresh' -> Held] /\ DOMAIN fresh' \subseteq Objects
        /\ \A o : o # c => ReadAlike(o)
        /\ \A o \in DOMAIN fresh' : o # c => fresh'[o] = fresh[o]
        /\ c = Root => root' = x /\ fresh' = fresh
        /\ c # Root => root' = root /\ fresh'[c] = x /\ c \in DOMAIN fresh
    BY <1>1, <1>2, <1>5, <1>6, Written
  <1>8. UNCHANGED <<tree, phase, op>>
    BY <1>6 DEF Quiet, Backend
  <1>9. /\ g \in Frame /\ g.obj = c /\ g.steps = Top.steps /\ g.at = Top.at + 1 /\ g.todo = {}
        /\ \A r : Past(g, r) => r = "closure"
    <2>1. ~ Past(Top, "closure") /\ Top.at = 1
      BY <1>1, StepDone, AtFacts, TopFacts DEF FrameOK, Past
    <2>2. \A r : ~ Past(Top, r)
      BY <2>1, TopFacts, <1>1 DEF Past
    <2> QED
      BY <1>1, <1>2, <1>4, <2>2, StepDone, TopFacts
  <1>10. FrameOK(g)'
    <2>1. g.obj = Root \/ g.obj \in DOMAIN fresh'
      BY <1>7, <1>9
    <2>2. Fits(g.obj, g.steps)' /\ g.at >= 1
      BY <1>1, <1>2, <1>8, <1>9, TreeKept, TopFacts DEF FrameOK
    <2>3. \A r : Past(g, r)' => r = "closure"
      BY <1>9 DEF Past
    <2> QED
      BY <1>9, <2>1, <2>2, <2>3 DEF FrameOK
  <1>11. /\ stack' \in Seq(Frame) /\ stack' # <<>>
         /\ Path' /\ FramesOK'
         /\ \A o : OnStack(o) => OnStack(o)'
         /\ \A o : OnList(o) => OnList(o)'
    <2>1. Top.todo = {}
      BY <1>1, StepDone
    <2>2. \A o : OnStack(o) /\ o # Top.obj => ReadAlike(o)
      BY <1>2, <1>7
    <2> QED
      BY <1>1, <1>2, <1>6, <1>7, <1>8, <1>9, <1>10, <2>1, <2>2, InPlace
  <1>12. FreshOK'
    <2>1. c \in DOMAIN fresh' =>
            /\ c # Root
            /\ fresh'[c].phase \in Terminal => phase[c] = fresh'[c].phase
            /\ OnStack(c)'
      BY <1>1, <1>2, <1>5, <1>7, <1>11, TopFacts DEF SInv, FreshOK
    <2>2. \A o \in DOMAIN fresh' \ {c} :
             /\ o \in DOMAIN fresh /\ fresh'[o] = fresh[o]
             /\ OnStack(o) => OnStack(o)'
             /\ OnList(o) => OnList(o)' \/ OnStack(o)'
      BY <1>7, <1>11
    <2>3. \A o \in DOMAIN fresh' \cap {c} :
             /\ o # Root
             /\ fresh'[o].phase \in Terminal => phase[o] = fresh'[o].phase
             /\ OnStack(o)' \/ OnList(o)'
      BY <2>1
    <2> QED
      BY <1>8, <2>2, <2>3, FreshKept
  <1>13. root' \in Held /\ root'.phase # "absent"
         /\ (root'.phase \in Terminal => phase[Root] = root'.phase)
    <2>1. root \in Held /\ root.phase # "absent" /\ phase[Root] # "absent"
          /\ (root.phase \in Terminal => phase[Root] = root.phase)
      BY <1>1, StepDone DEF SInv, Typed, TypeOK, ClientOK, BackendOK
    <2> QED
      BY <1>5, <1>7, <2>1
  <1>14. Typed' /\ NamedOnce' /\ BackendOK' /\ ClientOK' /\ RootOK'
    BY <1>1, <1>6, <1>7, <1>11, <1>13, SyncStep
  <1>15. NodesOK'
    BY <1>6, <1>8, TreeKept DEF SInv, NodesOK, OutputsRead, is_successful
  <1> QED
    BY <1>11, <1>12, <1>14, <1>15 DEF SInv

(* A step that reads nothing into an object. *)
LEMMA UnreadSInv ==
  ASSUME SInv, stack # <<>>, UNCHANGED <<Quiet, status, root, nodes, fresh>>,
         stack' \in Seq(Frame), stack' # <<>>, Path', FramesOK',
         \A o : OnStack(o) => OnStack(o)',
         \A o : OnList(o) => OnList(o)' \/ OnStack(o)'
  PROVE  SInv'
  <1>1. UNCHANGED <<tree, phase, op>> /\ status = "sync"
    BY DEF Quiet, Backend, SInv, Typed, TypeOK
  <1>2. FreshOK'
    <2>1. \A o \in DOMAIN fresh' \ {} :
             /\ o \in DOMAIN fresh /\ fresh'[o] = fresh[o]
             /\ OnStack(o) => OnStack(o)'
             /\ OnList(o) => OnList(o)' \/ OnStack(o)'
      OBVIOUS
    <2>2. \A o \in DOMAIN fresh' \cap {} :
             /\ o # Root
             /\ fresh'[o].phase \in Terminal => phase[o] = fresh'[o].phase
             /\ OnStack(o)' \/ OnList(o)'
      OBVIOUS
    <2> QED
      BY <1>1, <2>1, <2>2, FreshKept
  <1>3. Typed' /\ NamedOnce' /\ BackendOK' /\ ClientOK' /\ RootOK'
    <2>1. root \in Held /\ root.phase # "absent"
          /\ (root.phase \in Terminal => phase[Root] = root.phase)
          /\ fresh \in [DOMAIN fresh -> Held] /\ DOMAIN fresh \subseteq Objects
      BY <1>1 DEF SInv, Typed, TypeOK, ClientOK
    <2> QED
      BY <2>1, SyncStep
  <1>4. NodesOK'
    BY <1>1, TreeKept DEF SInv, NodesOK, OutputsRead, is_successful
  <1> QED
    BY <1>2, <1>3, <1>4 DEF SInv

LEMMA DataSInv ==
  ASSUME SInv, data PROVE SInv'
  <1>1. AtStep("data") /\ stack # <<>> /\ Top \in Frame /\ FrameOK(Top)
    BY StepDone, TopFacts DEF data
  <1>2. PICK d : d = Data(Top.obj)
    OBVIOUS
  <1>3. PICK g : g = [Advanced(Top) EXCEPT !.data = d]
    OBVIOUS
  <1>4. /\ stack' = Append(Below, g)
        /\ UNCHANGED <<Quiet, status, root, nodes, fresh>>
    BY <1>2, <1>3 DEF data, Execution
  <1>5. UNCHANGED <<tree, phase, op>>
    BY <1>4 DEF Quiet, Backend
  <1>6. d \in {"empty", "full"}
    BY <1>2 DEF Data
  <1>7. /\ g \in Frame /\ g.obj = Top.obj /\ g.steps = Top.steps /\ g.at = Top.at + 1
        /\ g.todo = {} /\ g.data = d
    <2>1. \A f \in Frame, b \in {"empty", "full"} :
            LET h == [f EXCEPT !.data = b]
            IN  /\ h \in Frame /\ h.obj = f.obj /\ h.steps = f.steps /\ h.at = f.at
                /\ h.todo = f.todo /\ h.data = b
      BY DEF Frame
    <2>2. Top.todo = {}
      BY <1>1, StepDone
    <2> QED
      BY <1>1, <1>3, <1>6, <2>1, <2>2, TopFacts
  <1>8. FreshForward /\ \A o : ReadAlike(o)
    BY <1>4 DEF FreshForward, ReadAlike
  <1>9. FrameOK(g)'
    <2>1. \A r : Past(g, r)' => Past(Top, r) \/ r = "data"
      BY <1>1, <1>7, PastStep
    <2>2. ~ Past(Top, "assign") /\ ~ Past(Top, "take") /\ ~ Past(Top, "fetch")
      BY <1>1, StepDone, AtFacts, TopFacts DEF FrameOK
    <2>3. Reading(g.obj)' = Reading(Top.obj)
      BY <1>4, <1>7 DEF Reading
    <2>4. Reading(Top.obj).phase = "succeeded" => d = "full"
      BY <1>1, <1>2, TopFacts DEF Data, Terminal
    <2>5. g.obj = Root \/ g.obj \in DOMAIN fresh'
      BY <1>1, <1>4, <1>7 DEF FrameOK
    <2>6. Fits(g.obj, g.steps)' /\ g.at >= 1
      BY <1>1, <1>5, <1>7, TreeKept, TopFacts DEF FrameOK
    <2> QED
      BY <1>7, <2>1, <2>2, <2>3, <2>4, <2>5, <2>6 DEF FrameOK
  <1>10. /\ stack' \in Seq(Frame) /\ stack' # <<>>
         /\ Path' /\ FramesOK'
         /\ \A o : OnStack(o) => OnStack(o)'
         /\ \A o : OnList(o) => OnList(o)'
    <2>1. Top.todo = {}
      BY <1>1, StepDone
    <2> QED
      BY <1>1, <1>4, <1>5, <1>7, <1>8, <1>9, <2>1, InPlace
  <1> QED
    BY <1>1, <1>4, <1>10, UnreadSInv

(* One of the listed objects, or the step after them. *)
LEMMA EachSInv ==
  ASSUME SInv, each PROVE SInv'
  <1>1. AtStep("each") /\ stack # <<>> /\ Top \in Frame /\ FrameOK(Top)
    BY StepDone, TopFacts DEF each
  <1>2. UNCHANGED <<Quiet, status, root, nodes, fresh>>
    BY DEF each, Execution
  <1>3. UNCHANGED <<tree, phase, op>>
    BY <1>2 DEF Quiet, Backend
  <1>4. FreshForward /\ \A o : ReadAlike(o)
    BY <1>2 DEF FreshForward, ReadAlike
  <1>5. CASE Top.todo = {} /\ stack' = Append(Below, Advanced(Top))
    <2>1. PICK g : g = Advanced(Top)
      OBVIOUS
    <2>2. /\ g \in Frame /\ g.obj = Top.obj /\ g.steps = Top.steps /\ g.at = Top.at + 1
          /\ g.todo = {} /\ g.data = Top.data
      BY <1>1, <1>5, <2>1, TopFacts
    <2>3. FrameOK(g)'
      <3>1. \A r : Past(g, r)' => Past(Top, r) \/ r = "each"
        BY <1>1, <2>2, PastStep
      <3>2. ~ Past(Top, "assign") /\ ~ Past(Top, "take") /\ ~ Past(Top, "fetch")
        BY <1>1, StepDone, AtFacts, TopFacts DEF FrameOK
      <3>3. Reading(g.obj)' = Reading(Top.obj)
        BY <1>2, <2>2 DEF Reading
      <3>4. g.obj = Root \/ g.obj \in DOMAIN fresh'
        BY <1>1, <1>2, <2>2 DEF FrameOK
      <3>5. Fits(g.obj, g.steps)' /\ g.at >= 1
        BY <1>1, <1>3, <2>2, TreeKept, TopFacts DEF FrameOK
      <3>6. Past(Top, "data") /\ Reading(Top.obj).phase = "succeeded" => Top.data = "full"
        BY <1>1 DEF FrameOK
      <3> QED
        BY <2>2, <3>1, <3>2, <3>3, <3>4, <3>5, <3>6 DEF FrameOK
    <2> QED
      BY <1>1, <1>2, <1>3, <1>4, <1>5, <2>1, <2>2, <2>3, InPlace, UnreadSInv
  <1>6. CASE \E t \in Top.todo :
               stack' = Append(Append(Below, [Top EXCEPT !.todo = @ \ {t}]), Call(t.obj, t.steps))
    <2>1. PICK t \in Top.todo :
               stack' = Append(Append(Below, [Top EXCEPT !.todo = @ \ {t}]), Call(t.obj, t.steps))
      BY <1>6
    <2>2. PICK td : td = Top.todo \ {t}
      OBVIOUS
    <2>3. PICK g : g = [Top EXCEPT !.todo = td]
      OBVIOUS
    <2>4. PICK h : h = Call(t.obj, t.steps)
      OBVIOUS
    <2>5. stack' = Append(Append(Below, g), h)
      BY <2>1, <2>2, <2>3, <2>4, Zenon
    <2>6. /\ t \in Entry /\ td \in SUBSET Entry
          /\ t.obj \in Children(Top.obj) /\ t.obj \in DOMAIN fresh /\ Fits(t.obj, t.steps)
      BY <1>1, <2>1, <2>2 DEF FrameOK, Frame
    <2>7. /\ g \in Frame /\ g.obj = Top.obj /\ g.steps = Top.steps /\ g.at = Top.at
          /\ g.todo = td /\ g.data = Top.data
      <3>1. \A f \in Frame, b \in SUBSET Entry :
              LET e == [f EXCEPT !.todo = b]
              IN  /\ e \in Frame /\ e.obj = f.obj /\ e.steps = f.steps /\ e.at = f.at
                  /\ e.todo = b /\ e.data = f.data
        BY DEF Frame
      <3> QED
        BY <1>1, <2>3, <2>6, <3>1
    <2>8. /\ h \in Frame /\ h.obj = t.obj /\ h.steps = t.steps /\ h.at = 1 /\ h.todo = {}
      BY <2>4, <2>6 DEF Call, Frame, Entry
    <2>9. FrameOK(g)'
      <3>1. \A r : (Past(g, r)' <=> Past(Top, r)) /\ (At(g, r)' <=> At(Top, r))
        BY <2>7 DEF Past, At
      <3>2. Reading(g.obj)' = Reading(Top.obj) /\ DOMAIN fresh' = DOMAIN fresh
        BY <1>2, <2>7 DEF Reading
      <3>3. At(Top, "each")
        BY <1>1, StepDone
      <3>4. ~ Past(Top, "assign") /\ ~ Past(Top, "take") /\ ~ Past(Top, "fetch")
        BY <1>1, <3>3, AtFacts, TopFacts DEF FrameOK
      <3>5. Fits(g.obj, g.steps)' /\ g.at >= 1
        BY <1>1, <1>3, <2>7, TreeKept DEF FrameOK
      <3>6. \A e \in g.todo : /\ e.obj \in Children(g.obj)' \cap DOMAIN fresh'
                              /\ Fits(e.obj, e.steps)'
        BY <1>1, <1>2, <1>3, <2>2, <2>7, TreeKept DEF FrameOK
      <3>7. Past(Top, "data") /\ Reading(Top.obj).phase = "succeeded" => Top.data = "full"
        BY <1>1 DEF FrameOK
      <3>8. g.obj = Root \/ g.obj \in DOMAIN fresh'
        BY <1>1, <2>7, <3>2 DEF FrameOK
      <3> QED
        BY <2>7, <3>1, <3>2, <3>3, <3>4, <3>5, <3>6, <3>7, <3>8 DEF FrameOK
    <2>10. FrameOK(h)'
      <3>1. \A r : ~ Past(h, r)'
        BY <2>6, <2>8 DEF Past, Entry
      <3>2. Fits(h.obj, h.steps)' /\ h.obj \in DOMAIN fresh'
        BY <1>2, <1>3, <2>6, <2>8, TreeKept
      <3> QED
        BY <2>8, <3>1, <3>2 DEF FrameOK
    <2>11. /\ stack' \in Seq(Frame) /\ stack' # <<>>
           /\ Path' /\ FramesOK'
           /\ \A o : OnStack(o) => OnStack(o)'
           /\ OnStack(h.obj)'
           /\ \A o : OnList(o) => OnList(o)' \/ \E e \in Top.todo : e.obj = o
           /\ \A e \in g.todo : OnList(e.obj)'
      BY <1>1, <1>3, <1>4, <2>5, <2>6, <2>7, <2>8, <2>9, <2>10, Pushes
    <2>12. \A o : OnList(o) => OnList(o)' \/ OnStack(o)'
      BY <2>2, <2>7, <2>8, <2>11
    <2> QED
      BY <1>1, <1>2, <2>11, <2>12, UnreadSInv
  <1> QED
    BY <1>5, <1>6 DEF each

(* The launched execution is synced, now with its nodes. *)
LEMMA SyncSInv ==
  ASSUME SInv, sync PROVE SInv'
  <1>1. AtStep("sync") /\ stack # <<>> /\ Top \in Frame /\ FrameOK(Top) /\ At(Top, "sync")
    BY StepDone, TopFacts DEF sync
  <1>2. UNCHANGED <<Quiet, status, root, nodes, fresh>>
    BY DEF sync, Execution
  <1>3. UNCHANGED <<tree, phase, op>>
    BY <1>2 DEF Quiet, Backend
  <1>4. FreshForward /\ \A o : ReadAlike(o)
    BY <1>2 DEF FreshForward, ReadAlike
  <1>5. PICK l : l = Launched(Top.obj)
    OBVIOUS
  <1>6. PICK g : g = Advanced(Top)
    OBVIOUS
  <1>7. PICK st : st = sync_execution(TRUE)
    OBVIOUS
  <1>h. PICK h : h = Call(l, st)
    OBVIOUS
  <1>8. stack' = Append(Append(Below, g), h)
    BY <1>5, <1>6, <1>7, <1>h DEF sync, Push
  <1>9. /\ Kind(Top.obj) = "launch_plan_node" /\ Past(Top, "fetch")
        /\ ~ Past(Top, "assign") /\ ~ Past(Top, "take") /\ Top.todo = {}
    BY <1>1, StepDone, AtFacts, TopFacts DEF FrameOK
  <1>10. l \in Children(Top.obj) /\ l \in Objects /\ Kind(l) = "execution"
    BY <1>1, <1>5, <1>9, LaunchedIsChild, TopFacts DEF SInv
  <1>11. /\ g \in Frame /\ g.obj = Top.obj /\ g.steps = Top.steps /\ g.at = Top.at + 1
         /\ g.todo = {} /\ g.data = Top.data
    BY <1>1, <1>6, <1>9, TopFacts
  <1>12. Fits(l, st) /\ st \in Seq(Steps)
    BY <1>7, <1>10 DEF Fits, sync_execution, Steps
  <1>13. /\ h \in Frame /\ h.obj = l /\ h.steps = st /\ h.at = 1 /\ h.todo = {}
    BY <1>h, <1>10, <1>12 DEF Call, Frame
  <1>14. l \in DOMAIN fresh /\ (Reading(Top.obj).phase = "succeeded" => fresh[l].phase = "succeeded")
    BY <1>1, <1>5, <1>9 DEF FrameOK
  <1>15. FrameOK(g)'
    <2>1. \A r : Past(g, r)' => Past(Top, r) \/ r = "sync"
      BY <1>1, <1>11, PastStep
    <2>2. Reading(g.obj)' = Reading(Top.obj) /\ fresh' = fresh
      BY <1>2, <1>11 DEF Reading
    <2>3. Fits(g.obj, g.steps)' /\ g.at >= 1
      BY <1>1, <1>3, <1>11, TreeKept, TopFacts DEF FrameOK
    <2>4. Past(Top, "data") /\ Reading(Top.obj).phase = "succeeded" => Top.data = "full"
      BY <1>1 DEF FrameOK
    <2>5. g.obj = Root \/ g.obj \in DOMAIN fresh'
      BY <1>1, <1>11, <2>2 DEF FrameOK
    <2>6. Launched(g.obj)' = l
      BY <1>3, <1>5, <1>11, TreeKept
    <2> QED
      BY <1>9, <1>11, <1>14, <2>1, <2>2, <2>3, <2>4, <2>5, <2>6 DEF FrameOK
  <1>16. FrameOK(h)'
    <2>1. \A r : ~ Past(h, r)'
      BY <1>12, <1>13 DEF Past
    <2>2. Fits(h.obj, h.steps)' /\ h.obj \in DOMAIN fresh'
      BY <1>2, <1>3, <1>12, <1>13, <1>14, TreeKept
    <2> QED
      BY <1>13, <2>1, <2>2 DEF FrameOK
  <1> QED
    BY <1>1, <1>2, <1>3, <1>4, <1>8, <1>9, <1>10, <1>11, <1>13, <1>15, <1>16, Pushes, UnreadSInv

(* New objects are made for some below the one at the top: none of them is
   on the stack. *)
LEMMA NewlyRead ==
  ASSUME SInv, stack # <<>>, NEW L \in SUBSET Children(Top.obj), fresh' = WithNew(L),
         UNCHANGED root
  PROVE  /\ FreshForward
         /\ fresh' \in [DOMAIN fresh' -> Held]
         /\ DOMAIN fresh' = DOMAIN fresh \cup L /\ DOMAIN fresh' \subseteq Objects
         /\ \A o : OnStack(o) => o \notin L /\ ReadAlike(o)
         /\ \A o \in L : o \in Objects \ {Root} /\ fresh'[o].phase = phase[o]
         /\ \A o \in DOMAIN fresh \ L : fresh'[o] = fresh[o]
  <1>1. /\ Len(stack) \in Nat \ {0} /\ stack[Len(stack)] = Top /\ Top.obj \in Objects
    BY StackShapes, TopFacts DEF SInv, Typed, Top
  <1>2. L \subseteq Objects \ {Root}
    BY <1>1 DEF SInv, Typed, IsTree, Children
  <1>3. fresh' = [o \in DOMAIN fresh \cup L |->
                     IF o \in L THEN [phase |-> phase[o], outputs |-> "none"] ELSE fresh[o]]
    BY DEF WithNew
  <1>4. DOMAIN fresh \subseteq Objects /\ phase \in [Objects -> Phases]
        /\ fresh \in [DOMAIN fresh -> Held]
    BY DEF SInv, Typed, TypeOK
  <1>5. \A o \in L : /\ [phase |-> phase[o], outputs |-> "none"] \in Held
                     /\ [phase |-> phase[o], outputs |-> "none"].phase = phase[o]
    BY <1>2, <1>4 DEF Held
  <1>6. /\ DOMAIN fresh' = DOMAIN fresh \cup L /\ DOMAIN fresh' \subseteq Objects
        /\ fresh' \in [DOMAIN fresh' -> Held]
        /\ \A o \in L : fresh'[o].phase = phase[o]
        /\ \A o \in DOMAIN fresh \ L : fresh'[o] = fresh[o]
    BY <1>2, <1>3, <1>4, <1>5
  <1>7. ASSUME NEW o, OnStack(o) PROVE o \notin L /\ ReadAlike(o)
    <2>1. PICK k \in 1 .. Len(stack) : stack[k].obj = o
      BY <1>7 DEF OnStack
    <2>2. o \notin L
      <3>1. Typed /\ Path /\ Len(stack) \in 1 .. Len(stack) /\ k <= Len(stack)
        BY <1>1 DEF SInv
      <3> QED
        BY <1>1, <2>1, <3>1, NoCycle
    <2>3. o = Root \/ o \in DOMAIN fresh
      BY <2>1 DEF SInv, FramesOK, FrameOK
    <2> QED
      BY <1>6, <2>2, <2>3 DEF ReadAlike
  <1>8. FreshForward
    <2>1. \A o \in DOMAIN fresh : fresh[o].phase = "succeeded" => phase[o] = "succeeded"
      BY DEF SInv, FreshOK, Terminal
    <2> QED
      BY <1>6, <2>1 DEF FreshForward
  <1> QED
    BY <1>2, <1>6, <1>7, <1>8

(* New objects are complete later: they are listed, or under way. *)
LEMMA NewlyReadSInv ==
  ASSUME SInv, stack # <<>>, NEW L \in SUBSET Children(Top.obj), fresh' = WithNew(L),
         UNCHANGED <<Quiet, status, root, nodes>>,
         stack' \in Seq(Frame), stack' # <<>>, Path', FramesOK',
         \A o : OnStack(o) => OnStack(o)',
         \A o : OnList(o) => OnList(o)' \/ OnStack(o)',
         \A o \in L : OnList(o)' \/ OnStack(o)'
  PROVE  SInv'
  <1>1. UNCHANGED <<tree, phase, op>> /\ status = "sync"
    BY DEF Quiet, Backend, SInv, Typed, TypeOK
  <1>2. /\ fresh' \in [DOMAIN fresh' -> Held]
        /\ DOMAIN fresh' = DOMAIN fresh \cup L /\ DOMAIN fresh' \subseteq Objects
        /\ \A o \in L : o \in Objects \ {Root} /\ fresh'[o].phase = phase[o]
        /\ \A o \in DOMAIN fresh \ L : fresh'[o] = fresh[o]
    BY NewlyRead
  <1>3. FreshOK'
    <2>1. \A o \in DOMAIN fresh' \ L :
             /\ o \in DOMAIN fresh /\ fresh'[o] = fresh[o]
             /\ OnStack(o) => OnStack(o)'
             /\ OnList(o) => OnList(o)' \/ OnStack(o)'
      BY <1>2
    <2>2. \A o \in DOMAIN fresh' \cap L :
             /\ o # Root
             /\ fresh'[o].phase \in Terminal => phase[o] = fresh'[o].phase
             /\ OnStack(o)' \/ OnList(o)'
      BY <1>2
    <2> QED
      BY <1>1, <2>1, <2>2, FreshKept
  <1>4. Typed' /\ NamedOnce' /\ BackendOK' /\ ClientOK' /\ RootOK'
    <2>1. root \in Held /\ root.phase # "absent"
          /\ (root.phase \in Terminal => phase[Root] = root.phase)
      BY <1>1 DEF SInv, Typed, TypeOK, ClientOK
    <2> QED
      BY <1>2, <2>1, SyncStep
  <1>5. NodesOK'
    BY <1>1, TreeKept DEF SInv, NodesOK, OutputsRead, is_successful
  <1> QED
    BY <1>3, <1>4, <1>5 DEF SInv

(* The steps listed with an object are those of its kind. *)
LEMMA StepsForFits ==
  ASSUME SInv, NEW o \in Objects, Kind(o) # "execution"
  PROVE  Fits(o, StepsFor(o)) /\ StepsFor(o) \in Seq(Steps)
  <1>1. Kind(o) \in Kinds
    BY DEF SInv, Typed, IsTree, Kind
  <1>2. PICK b \in BOOLEAN : b = (\E x \in Children(o) : phase[x] # "absent")
    OBVIOUS
  <1>3. StepsFor(o) = IF Kind(o) = "task_execution" THEN sync_task_execution
                      ELSE sync_node_execution(o, b)
    BY <1>2, Zenon DEF StepsFor
  <1>4. Fits(o, StepsFor(o))
    <2>1. CASE Kind(o) = "task_execution"
      BY <1>3, <2>1 DEF Fits
    <2>2. CASE Kind(o) # "task_execution"
      <3>1. Kind(o) \in NodeKinds
        BY <1>1, <2>2 DEF Kinds
      <3>2. b = TRUE \/ b = FALSE
        OBVIOUS
      <3>3. StepsFor(o) = sync_node_execution(o, b)
        BY <1>3, <2>2
      <3>4. StepsFor(o) \in {sync_node_execution(o, TRUE), sync_node_execution(o, FALSE)}
        BY <3>2, <3>3, Zenon
      <3> QED
        BY <3>1, <3>4, Zenon DEF Fits
    <2> QED
      BY <2>1, <2>2
  <1>5. PICK s : s = StepsFor(o)
    OBVIOUS
  <1>6. s \in Seq(Steps)
    <2>1. Fits(o, s)
      BY <1>4, <1>5
    <2>2. /\ <<"closure", "data", "list", "each", "assign">> \in Seq(Steps)
          /\ <<"closure", "data", "assign">> \in Seq(Steps)
          /\ <<"data", "fetch", "sync", "take">> \in Seq(Steps)
          /\ <<"data", "list", "each", "assign">> \in Seq(Steps)
          /\ <<"data", "list", "each">> \in Seq(Steps)
          /\ <<"data">> \in Seq(Steps)
          /\ <<>> \in Seq(Steps)
      BY DEF Steps
    <2>3. \/ s = <<"closure", "data", "list", "each", "assign">>
          \/ s = <<"closure", "data", "assign">>
          \/ s = <<"data", "fetch", "sync", "take">>
          \/ s = <<"data", "list", "each", "assign">>
          \/ s = <<"data", "list", "each">>
          \/ s = <<"data">>
          \/ s = <<>>
      BY <2>1, Shapes, Zenon
    <2> QED
      BY <2>2, <2>3, Zenon
  <1> QED
    BY <1>4, <1>5, <1>6

(* What is listed is taken one by one. *)
LEMMA EachAfterList ==
  ASSUME NEW f, NEW g, f.at \in Nat, f.at >= 1, Fits(f.obj, f.steps), At(f, "list"),
         g.at = f.at + 1, g.steps = f.steps
  PROVE  At(g, "each")
  <1>1. CASE f.steps = <<"closure", "data", "list", "each", "assign">>
    BY <1>1 DEF At
  <1>2. CASE f.steps = <<"closure", "data", "assign">>
    BY <1>2 DEF At
  <1>3. CASE f.steps = <<"data", "fetch", "sync", "take">>
    BY <1>3 DEF At
  <1>4. CASE f.steps = <<"data", "list", "each", "assign">>
    BY <1>4 DEF At
  <1>5. CASE f.steps = <<"data", "list", "each">>
    BY <1>5 DEF At
  <1>6. CASE f.steps = <<"data">> \/ f.steps = <<>>
    BY <1>6 DEF At
  <1> QED
    BY Shapes, <1>1, <1>2, <1>3, <1>4, <1>5, <1>6

LEMMA ListSInv ==
  ASSUME SInv, list PROVE SInv'
  <1>1. AtStep("list") /\ stack # <<>> /\ Top \in Frame /\ FrameOK(Top) /\ At(Top, "list")
    BY StepDone, TopFacts DEF list
  <1>2. PICK L : L = {o \in Children(Top.obj) : phase[o] # "absent" /\ Kind(o) # "execution"}
    OBVIOUS
  <1>3. PICK td : td = {[obj |-> o, steps |-> StepsFor(o)] : o \in L}
    OBVIOUS
  <1>4. PICK g : g = [Advanced(Top) EXCEPT !.todo = td]
    OBVIOUS
  <1>5. /\ stack' = Append(Below, g) /\ fresh' = WithNew(L)
        /\ UNCHANGED <<Quiet, status, root, nodes>>
    BY <1>2, <1>3, <1>4 DEF list, Execution
  <1>6. UNCHANGED <<tree, phase, op>>
    BY <1>5 DEF Quiet, Backend
  <1>7. L \in SUBSET Children(Top.obj)
    BY <1>2
  <1>8. /\ FreshForward
        /\ DOMAIN fresh' = DOMAIN fresh \cup L
        /\ \A o : OnStack(o) => o \notin L /\ ReadAlike(o)
        /\ \A o \in L : o \in Objects \ {Root}
    BY <1>1, <1>5, <1>7, NewlyRead
  <1>9. /\ td \in SUBSET Entry
        /\ \A t \in td : t.obj \in L /\ Fits(t.obj, t.steps)
        /\ \A o \in L : \E t \in td : t.obj = o
    <2>1. ASSUME NEW o \in L, NEW t, t = [obj |-> o, steps |-> StepsFor(o)]
          PROVE  t \in Entry /\ t.obj = o /\ Fits(t.obj, t.steps)
      <3>1. o \in Objects /\ Kind(o) # "execution"
        BY <1>2, <1>8
      <3>2. Fits(o, StepsFor(o)) /\ StepsFor(o) \in Seq(Steps)
        BY <3>1, StepsForFits
      <3>3. t.obj = o /\ t.steps = StepsFor(o)
        BY <2>1
      <3> QED
        BY <2>1, <3>1, <3>2, <3>3 DEF Entry
    <2> QED
      BY <1>3, <2>1
  <1>10. /\ g \in Frame /\ g.obj = Top.obj /\ g.steps = Top.steps /\ g.at = Top.at + 1
         /\ g.todo = td /\ g.data = Top.data
    <2>1. \A f \in Frame, b \in SUBSET Entry :
            LET e == [f EXCEPT !.todo = b]
            IN  /\ e \in Frame /\ e.obj = f.obj /\ e.steps = f.steps /\ e.at = f.at
                /\ e.todo = b /\ e.data = f.data
      BY DEF Frame
    <2> QED
      BY <1>1, <1>4, <1>9, <2>1, TopFacts
  <1>11. At(g, "each")
    <2>1. Fits(Top.obj, Top.steps) /\ Top.at \in Nat /\ Top.at >= 1
      BY <1>1, TopFacts DEF FrameOK
    <2> QED
      BY <1>1, <1>10, <2>1, EachAfterList
  <1>12. FrameOK(g)'
    <2>1. \A r : Past(g, r)' => Past(Top, r) \/ r = "list"
      BY <1>1, <1>10, PastStep
    <2>2. ~ Past(Top, "assign") /\ ~ Past(Top, "take") /\ ~ Past(Top, "fetch")
      BY <1>1, StepDone, AtFacts, TopFacts DEF FrameOK
    <2>3. Reading(g.obj)' = Reading(Top.obj)
      BY <1>1, <1>8, <1>10, TopFacts DEF Reading, ReadAlike
    <2>4. g.obj = Root \/ g.obj \in DOMAIN fresh'
      BY <1>1, <1>8, <1>10 DEF FrameOK
    <2>5. Fits(g.obj, g.steps)' /\ g.at >= 1
      BY <1>1, <1>6, <1>10, TreeKept, TopFacts DEF FrameOK
    <2>6. Past(Top, "data") /\ Reading(Top.obj).phase = "succeeded" => Top.data = "full"
      BY <1>1 DEF FrameOK
    <2>7. \A t \in g.todo : t.obj \in Children(g.obj)' \cap DOMAIN fresh' /\ Fits(t.obj, t.steps)'
      BY <1>6, <1>7, <1>8, <1>9, <1>10, TreeKept
    <2>8. At(g, "each")'
      BY <1>11 DEF At
    <2> QED
      BY <1>10, <2>1, <2>2, <2>3, <2>4, <2>5, <2>6, <2>7, <2>8 DEF FrameOK
  <1>13. /\ stack' \in Seq(Frame) /\ stack' # <<>>
         /\ Path' /\ FramesOK'
         /\ \A o : OnStack(o) => OnStack(o)'
         /\ \A o : OnList(o) => OnList(o)'
         /\ \A t \in g.todo : OnList(t.obj)'
    <2>1. Top.todo = {}
      BY <1>1, StepDone
    <2>2. \A o : OnStack(o) /\ o # Top.obj => ReadAlike(o)
      BY <1>8
    <2> QED
      BY <1>1, <1>5, <1>6, <1>8, <1>10, <1>12, <2>1, <2>2, InPlace
  <1>14. \A o \in L : OnList(o)' \/ OnStack(o)'
    BY <1>9, <1>10, <1>13
  <1> QED
    BY <1>1, <1>5, <1>7, <1>13, <1>14, NewlyReadSInv

LEMMA FetchSInv ==
  ASSUME SInv, fetch PROVE SInv'
  <1>1. AtStep("fetch") /\ stack # <<>> /\ Top \in Frame /\ FrameOK(Top) /\ At(Top, "fetch")
    BY StepDone, TopFacts DEF fetch
  <1>2. PICK l : l = Launched(Top.obj)
    OBVIOUS
  <1>3. PICK g : g = Advanced(Top)
    OBVIOUS
  <1>4. PICK st : st = sync_execution(FALSE)
    OBVIOUS
  <1>5. PICK h : h = Call(l, st)
    OBVIOUS
  <1>6. /\ stack' = Append(Append(Below, g), h) /\ fresh' = WithNew({l})
        /\ UNCHANGED <<Quiet, status, root, nodes>>
    BY <1>2, <1>3, <1>4, <1>5 DEF fetch, Push, Execution
  <1>7. UNCHANGED <<tree, phase, op>>
    BY <1>6 DEF Quiet, Backend
  <1>8. /\ Kind(Top.obj) = "launch_plan_node"
        /\ ~ Past(Top, "assign") /\ ~ Past(Top, "take") /\ Top.todo = {}
    BY <1>1, StepDone, AtFacts, TopFacts DEF FrameOK
  <1>9. l \in Children(Top.obj) /\ l \in Objects /\ Kind(l) = "execution"
    BY <1>1, <1>2, <1>8, LaunchedIsChild, TopFacts DEF SInv
  <1>10. {l} \in SUBSET Children(Top.obj)
    BY <1>9
  <1>11. /\ FreshForward
         /\ DOMAIN fresh' = DOMAIN fresh \cup {l}
         /\ \A o : OnStack(o) => o \notin {l} /\ ReadAlike(o)
         /\ fresh'[l].phase = phase[l]
    BY <1>1, <1>6, <1>10, NewlyRead
  <1>12. /\ g \in Frame /\ g.obj = Top.obj /\ g.steps = Top.steps /\ g.at = Top.at + 1
         /\ g.todo = {} /\ g.data = Top.data
    BY <1>1, <1>3, <1>8, TopFacts
  <1>13. Fits(l, st) /\ st \in Seq(Steps)
    BY <1>4, <1>9 DEF Fits, sync_execution, Steps
  <1>14. /\ h \in Frame /\ h.obj = l /\ h.steps = st /\ h.at = 1 /\ h.todo = {}
    BY <1>5, <1>9, <1>13 DEF Call, Frame
  <1>15. FrameOK(g)'
    <2>1. \A r : Past(g, r)' => Past(Top, r) \/ r = "fetch"
      BY <1>1, <1>12, PastStep
    <2>2. Reading(g.obj)' = Reading(Top.obj)
      BY <1>1, <1>11, <1>12, TopFacts DEF Reading, ReadAlike
    <2>3. Fits(g.obj, g.steps)' /\ g.at >= 1
      BY <1>1, <1>7, <1>12, TreeKept, TopFacts DEF FrameOK
    <2>4. Past(Top, "data") /\ Reading(Top.obj).phase = "succeeded" => Top.data = "full"
      BY <1>1 DEF FrameOK
    <2>5. g.obj = Root \/ g.obj \in DOMAIN fresh'
      BY <1>1, <1>11, <1>12 DEF FrameOK
    <2>6. Launched(g.obj)' = l
      BY <1>2, <1>7, <1>12, TreeKept
    <2>7. Reading(Top.obj).phase = "succeeded" => fresh'[l].phase = "succeeded"
      BY <1>1, <1>8, <1>9, <1>11, TopFacts DEF SInv, BackendOK, Terminal
    <2> QED
      BY <1>8, <1>11, <1>12, <2>1, <2>2, <2>3, <2>4, <2>5, <2>6, <2>7 DEF FrameOK
  <1>16. FrameOK(h)'
    <2>1. \A r : ~ Past(h, r)'
      BY <1>13, <1>14 DEF Past
    <2>2. Fits(h.obj, h.steps)' /\ h.obj \in DOMAIN fresh'
      BY <1>7, <1>11, <1>13, <1>14, TreeKept
    <2> QED
      BY <1>14, <2>1, <2>2 DEF FrameOK
  <1>17. /\ stack' \in Seq(Frame) /\ stack' # <<>>
         /\ Path' /\ FramesOK'
         /\ \A o : OnStack(o) => OnStack(o)'
         /\ OnStack(l)'
         /\ \A o : OnList(o) => OnList(o)'
    <2>1. \A o : OnStack(o) /\ o # Top.obj => ReadAlike(o)
      BY <1>11
    <2> QED
      BY <1>1, <1>6, <1>7, <1>8, <1>9, <1>11, <1>12, <1>14, <1>15, <1>16, <2>1, Pushes
  <1>18. \A o \in {l} : OnList(o)' \/ OnStack(o)'
    BY <1>17
  <1> QED
    BY <1>1, <1>6, <1>10, <1>17, <1>18, NewlyReadSInv

(* The last step of a call: its object has what was read of it. *)
LEMMA FinishesSInv ==
  ASSUME SInv, NEW s \in {"assign", "take"}, AtStep(s), NEW c, c = Top.obj,
         NEW x \in Held, x.phase = Reading(c).phase, OutputsRead(c, x), SetReading(c, x),
         stack' = Append(Below, Advanced(Top)), UNCHANGED <<Quiet, status>>,
         \/ nodes' = nodes
         \/ nodes' = fresh' /\ \A o \in DOMAIN fresh' : OutputsRead(o, fresh'[o])
  PROVE  SInv'
  <1>1. /\ stack # <<>> /\ Top \in Frame /\ FrameOK(Top) /\ At(Top, s) /\ Top.todo = {}
        /\ Top.at \in Nat /\ c \in Objects
    BY StepDone, TopFacts
  <1>2. PICK g : g = Advanced(Top)
    OBVIOUS
  <1>3. UNCHANGED <<tree, phase, op>>
    BY DEF Quiet, Backend
  <1>4. /\ FreshForward /\ DOMAIN fresh' = DOMAIN fresh
        /\ fresh' \in [DOMAIN fresh' -> Held] /\ DOMAIN fresh' \subseteq Objects
        /\ Reading(c)' = x
        /\ \A o : o # c => ReadAlike(o)
        /\ \A o \in DOMAIN fresh' : o # c => fresh'[o] = fresh[o]
        /\ c = Root => root' = x /\ fresh' = fresh
        /\ c # Root => root' = root /\ fresh'[c] = x /\ c \in DOMAIN fresh
    BY <1>1, Written
  <1>5. /\ g \in Frame /\ g.obj = c /\ g.steps = Top.steps /\ g.at = Top.at + 1 /\ g.todo = {}
        /\ g.data = Top.data /\ stack' = Append(Below, g)
    BY <1>1, <1>2, TopFacts
  <1>6. FrameOK(g)'
    <2>1. \A r : Past(g, r)' => Past(Top, r) \/ r = s
      BY <1>1, <1>5, PastStep
    <2>2. g.obj = Root \/ g.obj \in DOMAIN fresh'
      BY <1>4, <1>5
    <2>3. Fits(g.obj, g.steps)' /\ g.at >= 1
      BY <1>1, <1>3, <1>5, TreeKept DEF FrameOK
    <2>4. Past(Top, "data") /\ x.phase = "succeeded" => g.data = "full"
      BY <1>1, <1>5 DEF FrameOK
    <2>5. OutputsRead(g.obj, Reading(g.obj))'
      BY <1>3, <1>4, <1>5, TreeKept DEF OutputsRead, is_successful
    <2>6. Past(Top, "fetch") =>
            /\ Launched(c)' \in DOMAIN fresh'
            /\ x.phase = "succeeded" => fresh'[Launched(c)'].phase = "succeeded"
      <3>1. PICK l : l = Launched(c)
        OBVIOUS
      <3>2. SUFFICES ASSUME Past(Top, "fetch")
                     PROVE  /\ l \in DOMAIN fresh'
                            /\ x.phase = "succeeded" => fresh'[l].phase = "succeeded"
        BY <1>3, <3>1, TreeKept
      <3>3. Kind(c) = "launch_plan_node"
        BY <1>1, <3>2, AtFacts DEF FrameOK
      <3>4. l \in Children(c)
        BY <1>1, <3>1, <3>3, LaunchedIsChild DEF SInv
      <3>5. l # c
        <4>1. Len(stack) \in 1 .. Len(stack) /\ Len(stack) <= Len(stack) /\ stack[Len(stack)].obj = c
          BY <1>1, StackShapes DEF SInv, Typed, Top
        <4> QED
          BY <3>4, <4>1, NoCycle DEF SInv
      <3>6. /\ l \in DOMAIN fresh
            /\ Reading(c).phase = "succeeded" => fresh[l].phase = "succeeded"
        BY <1>1, <3>1, <3>2 DEF FrameOK
      <3> QED
        BY <1>4, <3>5, <3>6
    <2> QED
      BY <1>4, <1>5, <2>1, <2>2, <2>3, <2>4, <2>5, <2>6 DEF FrameOK
  <1>7. /\ stack' \in Seq(Frame) /\ stack' # <<>>
        /\ Path' /\ FramesOK'
        /\ \A o : OnStack(o) => OnStack(o)'
        /\ \A o : OnList(o) => OnList(o)'
    <2>1. \A o : OnStack(o) /\ o # Top.obj => ReadAlike(o)
      BY <1>4
    <2> QED
      BY <1>1, <1>3, <1>4, <1>5, <1>6, <2>1, InPlace
  <1>8. FreshOK'
    <2>1. c \in DOMAIN fresh' =>
            /\ c # Root
            /\ fresh'[c].phase \in Terminal => phase[c] = fresh'[c].phase
            /\ OnStack(c)'
      <3>1. OnStack(c)' /\ (Reading(c).phase \in Terminal => phase[c] = Reading(c).phase)
        BY <1>1, <1>7, TopFacts
      <3> QED
        BY <1>4, <3>1 DEF SInv, FreshOK
    <2>2. \A o \in DOMAIN fresh' \ {c} :
             /\ o \in DOMAIN fresh /\ fresh'[o] = fresh[o]
             /\ OnStack(o) => OnStack(o)'
             /\ OnList(o) => OnList(o)' \/ OnStack(o)'
      BY <1>4, <1>7
    <2>3. \A o \in DOMAIN fresh' \cap {c} :
             /\ o # Root
             /\ fresh'[o].phase \in Terminal => phase[o] = fresh'[o].phase
             /\ OnStack(o)' \/ OnList(o)'
      BY <2>1
    <2> QED
      BY <1>3, <2>2, <2>3, FreshKept
  <1>9. root' \in Held /\ root'.phase # "absent"
         /\ (root'.phase \in Terminal => phase[Root] = root'.phase)
    <2>1. root \in Held /\ root.phase # "absent"
          /\ (root.phase \in Terminal => phase[Root] = root.phase)
      BY StepDone DEF SInv, Typed, TypeOK, ClientOK
    <2> QED
      BY <1>4, <2>1 DEF Reading
  <1>10. Typed' /\ NamedOnce' /\ BackendOK' /\ ClientOK' /\ RootOK'
    BY <1>1, <1>4, <1>7, <1>9, SyncStep
  <1>11. NodesOK'
    BY <1>3, TreeKept DEF SInv, NodesOK, OutputsRead, is_successful
  <1> QED
    BY <1>7, <1>8, <1>10, <1>11 DEF SInv

(* When the first call ends, nothing is on a list or on the stack: what has
   been found is complete. *)
LEMMA AllComplete ==
  ASSUME SInv, AtStep("assign"), Top.obj = Root
  PROVE  \A o \in DOMAIN fresh : OutputsRead(o, fresh[o])
  <1> SUFFICES ASSUME NEW o \in DOMAIN fresh PROVE ~ OnStack(o) /\ ~ OnList(o)
    BY DEF SInv, FreshOK
  <1>1. Len(stack) = 1 /\ Top.todo = {} /\ stack[1] = Top /\ o # Root
    BY StepDone DEF Top, SInv, FreshOK
  <1>2. \A k \in 1 .. Len(stack) : stack[k] = Top
    BY <1>1
  <1> QED
    BY <1>1, <1>2 DEF OnStack, OnList

LEMMA AssignSInv ==
  ASSUME SInv, assign PROVE SInv'
  <1>1. AtStep("assign") /\ stack # <<>> /\ FrameOK(Top) /\ At(Top, "assign")
        /\ Past(Top, "data") /\ Reading(Top.obj) \in Held /\ Top.data \in {"empty", "full"}
    BY StepDone, TopFacts, AtFacts DEF assign, FrameOK, Frame
  <1>2. PICK c : c = Top.obj
    OBVIOUS
  <1>3. PICK x : x = _assign_inputs_and_outputs(Reading(c), Top.data)
    OBVIOUS
  <1>4. x \in Held /\ x.phase = Reading(c).phase /\ OutputsRead(c, x)
    <2>1. \A y \in Held, d \in {"empty", "full"} :
            LET e == _assign_inputs_and_outputs(y, d)
            IN  /\ e \in Held /\ e.phase = y.phase
                /\ y.phase = "succeeded" => e.outputs = d
      BY DEF _assign_inputs_and_outputs, Held, is_done, error, Terminal
    <2>2. /\ x \in Held /\ x.phase = Reading(c).phase
          /\ Reading(c).phase = "succeeded" => x.outputs = Top.data
      BY <1>1, <1>2, <1>3, <2>1
    <2> QED
      BY <1>1, <1>2, <2>2 DEF FrameOK, OutputsRead, is_successful
  <1>5. /\ SetReading(c, x) /\ stack' = Append(Below, Advanced(Top))
        /\ UNCHANGED <<Quiet, status>>
        /\ nodes' = IF c = Root /\ op = "wait" THEN fresh ELSE nodes
    BY <1>2, <1>3 DEF assign
  <1>6. nodes' = nodes \/ (nodes' = fresh' /\ \A o \in DOMAIN fresh' : OutputsRead(o, fresh'[o]))
    <2>1. CASE c = Root /\ op = "wait"
      <3>1. fresh' = fresh /\ nodes' = fresh
        BY <1>5, <2>1 DEF SetReading
      <3> QED
        BY <1>1, <1>2, <2>1, <3>1, AllComplete
    <2>2. CASE ~ (c = Root /\ op = "wait")
      BY <1>5, <2>2
    <2> QED
      BY <2>1, <2>2
  <1>7. PICK s \in {"assign", "take"} : s = "assign"
    OBVIOUS
  <1>8. AtStep(s)
    BY <1>1, <1>7
  <1> QED
    BY <1>2, <1>4, <1>5, <1>6, <1>8, FinishesSInv

(* The node takes the outputs of the execution it launched, which is
   complete: it is neither on the stack, above its node, nor on a list, since
   it is below no other object. *)
LEMMA LaunchedIsComplete ==
  ASSUME SInv, AtStep("take"), NEW l, l = Launched(Top.obj)
  PROVE  /\ Kind(Top.obj) = "launch_plan_node"
         /\ l \in DOMAIN fresh /\ fresh[l].phase = "succeeded" => fresh[l].outputs = "full"
         /\ l \in DOMAIN fresh /\ l # Top.obj
         /\ Reading(Top.obj).phase = "succeeded" => fresh[l].phase = "succeeded"
  <1>1. /\ stack # <<>> /\ Top \in Frame /\ FrameOK(Top) /\ At(Top, "take") /\ Top.todo = {}
        /\ Top.at \in Nat /\ Top.obj \in Objects
    BY StepDone, TopFacts
  <1>2. Kind(Top.obj) = "launch_plan_node" /\ Past(Top, "fetch")
    BY <1>1, AtFacts DEF FrameOK
  <1>3. l \in Children(Top.obj) /\ Kind(l) = "execution"
    BY <1>1, <1>2, LaunchedIsChild DEF SInv
  <1>4. /\ l \in DOMAIN fresh
        /\ Reading(Top.obj).phase = "succeeded" => fresh[l].phase = "succeeded"
    BY <1>1, <1>2 DEF FrameOK
  <1>5. PICK n : n = Len(stack)
    OBVIOUS
  <1>6. n \in 1 .. Len(stack) /\ stack[n] = Top /\ \A k \in 1 .. Len(stack) : k <= n
    BY <1>1, <1>5, StackShapes DEF SInv, Typed, Top
  <1>7. ~ OnStack(l)
    BY <1>3, <1>6, NoCycle DEF SInv, OnStack
  <1>8. ~ OnList(l)
    <2> SUFFICES ASSUME NEW k \in 1 .. Len(stack), NEW t \in stack[k].todo, t.obj = l
                 PROVE  FALSE
      BY DEF OnList
    <2>1. stack[k].obj \in Objects /\ l \in Children(stack[k].obj)
      <3>1. stack[k] \in Frame /\ FrameOK(stack[k])
        BY DEF SInv, Typed, FramesOK
      <3> QED
        BY <3>1 DEF Frame, FrameOK
    <2>2. stack[k].obj = stack[n].obj
      BY <1>1, <1>3, <1>6, <2>1 DEF SInv, Typed, IsTree, Children
    <2>3. k = n
      BY <1>5, <1>6, <2>2, StackDistinct DEF SInv
    <2> QED
      BY <1>1, <1>6, <2>3
  <1>9. OutputsRead(l, fresh[l]) /\ HasOutputs(l)
    BY <1>3, <1>4, <1>7, <1>8 DEF SInv, FreshOK, HasOutputs
  <1>10. l # Top.obj
    BY <1>6, <1>7 DEF OnStack
  <1> QED
    BY <1>2, <1>4, <1>9, <1>10 DEF OutputsRead, is_successful

LEMMA TakeSInv ==
  ASSUME SInv, take PROVE SInv'
  <1>1. AtStep("take") /\ stack # <<>> /\ FrameOK(Top)
        /\ Reading(Top.obj) \in Held /\ Top.obj \in Objects
    BY StepDone, TopFacts DEF take
  <1>2. PICK c : c = Top.obj
    OBVIOUS
  <1>3. PICK l : l = Launched(c)
    OBVIOUS
  <1>4. /\ Kind(c) = "launch_plan_node"
        /\ fresh[l].phase = "succeeded" => fresh[l].outputs = "full"
        /\ l \in DOMAIN fresh /\ l # c
        /\ Reading(c).phase = "succeeded" => fresh[l].phase = "succeeded"
    BY <1>1, <1>2, <1>3, LaunchedIsComplete
  <1>5. c # Root
    BY <1>4 DEF SInv, Typed, IsTree, Kind
  <1>6. /\ c \in DOMAIN fresh /\ Reading(c) = fresh[c] /\ fresh \in [DOMAIN fresh -> Held]
        /\ fresh[l] \in Held /\ fresh[c] \in Held
    BY <1>1, <1>2, <1>4, <1>5 DEF FrameOK, Reading, SInv, Typed
  <1>7. PICK x : x = IF fresh[l].phase = "succeeded"
                     THEN [fresh[c] EXCEPT !.outputs = fresh[l].outputs] ELSE fresh[c]
    OBVIOUS
  <1>8. x \in Held /\ x.phase = fresh[c].phase
        /\ (fresh[l].phase = "succeeded" => x.outputs = "full")
    <2>1. \A y, z \in Held :
            LET e == [y EXCEPT !.outputs = z.outputs]
            IN  e \in Held /\ e.phase = y.phase /\ e.outputs = z.outputs
      BY DEF Held
    <2> QED
      BY <1>4, <1>6, <1>7, <2>1
  <1>9. OutputsRead(c, x)
    BY <1>4, <1>6, <1>8 DEF OutputsRead, is_successful
  <1>10. fresh' = [fresh EXCEPT ![c] = x]
    <2>1. fresh' = IF fresh[l].phase = "succeeded"
                   THEN [fresh EXCEPT ![c].outputs = fresh[l].outputs] ELSE fresh
      BY <1>2, <1>3 DEF take, is_done, is_successful, Terminal
    <2>2. CASE fresh[l].phase = "succeeded"
      BY <1>7, <2>1, <2>2, Zenon
    <2>3. CASE fresh[l].phase # "succeeded"
      <3>1. fresh' = fresh /\ x = fresh[c]
        BY <1>7, <2>1, <2>3
      <3> QED
        BY <1>6, <3>1
    <2> QED
      BY <2>2, <2>3
  <1>11. /\ SetReading(c, x) /\ stack' = Append(Below, Advanced(Top))
         /\ UNCHANGED <<Quiet, status>> /\ nodes' = nodes
    BY <1>5, <1>10 DEF take, SetReading, Execution
  <1>12. PICK s \in {"assign", "take"} : s = "take"
    OBVIOUS
  <1>13. AtStep(s)
    BY <1>1, <1>12
  <1> QED
    BY <1>2, <1>6, <1>8, <1>9, <1>11, <1>13, FinishesSInv

LEMMA ReturnsSInv ==
  ASSUME SInv, returns PROVE SInv'
  <1>1. /\ stack # <<>> /\ Top \in Frame /\ FrameOK(Top) /\ Top.at > Len(Top.steps)
        /\ Top.at \in Nat /\ Top.steps \in Seq(Steps)
    BY TopFacts DEF returns
  <1>2. /\ stack' = Below /\ UNCHANGED <<Quiet, root, nodes>>
        /\ status' = IF Below # <<>> THEN "sync"
                     ELSE IF op = "wait" /\ ~ is_done(root) THEN "sleep" ELSE "returned"
        /\ fresh' = IF Below = <<>> THEN <<>> ELSE fresh
    BY DEF returns, Execution
  <1>3. UNCHANGED <<tree, naming, ids, phase, aborting, op, retries, calls, faults>>
    BY <1>2 DEF Quiet, Backend
  <1>4. /\ status = "sync" /\ op \in {"wait", "sync"} /\ root.phase # "absent"
    BY <1>1 DEF SInv, Typed, TypeOK, ClientOK
  <1>5. Top.todo = {} /\ OutputsRead(Top.obj, Reading(Top.obj))
    <2>1. ~ At(Top, "each")
      BY <1>1 DEF At
    <2>2. HasOutputs(Top.obj) => Past(Top, "assign") \/ Past(Top, "take")
      BY <1>1, AtFacts DEF FrameOK
    <2> QED
      BY <1>1, <2>1, <2>2 DEF FrameOK, OutputsRead
  <1>6. PICK n : n = Len(stack)
    OBVIOUS
  <1>7. /\ n \in Nat \ {0} /\ stack[n] = Top /\ Below \in Seq(Frame) /\ Len(Below) = n - 1
        /\ \A k \in 1 .. n - 1 : Below[k] = stack[k]
    BY <1>1, <1>6, StackShapes DEF SInv, Typed, Top
  <1>8. NamedOnce' /\ BackendOK' /\ NodesOK'
    BY <1>2, <1>3, TreeKept DEF SInv, NamedOnce, BackendOK, NodesOK, OutputsRead, is_successful
  <1>9. CASE Below = <<>>
    <2>1. Top.obj = Root /\ Reading(Top.obj) = root
      BY <1>1, <1>7, <1>9 DEF SInv, Path, Reading
    <2>2. /\ status' \in {"sleep", "returned"} /\ stack' = <<>>
          /\ fresh' \in [DOMAIN fresh' -> Held] /\ DOMAIN fresh' = {}
          /\ status' = "sleep" => op = "wait"
      BY <1>2, <1>9
    <2>3. Typed'
      BY <1>2, <1>3, <1>4, <2>2 DEF SInv, Typed, TypeOK, Objects, Ended
    <2>4. ClientOK'
      BY <1>2, <1>3, <1>4, <2>2 DEF SInv, ClientOK
    <2>5. RootOK'
      BY <1>2, <1>3, <1>5, <2>1, TreeKept DEF RootOK, OutputsRead, is_successful
    <2>6. Path' /\ FramesOK' /\ FreshOK'
      BY <2>2, Emptied
    <2> QED
      BY <1>8, <2>3, <2>4, <2>5, <2>6 DEF SInv
  <1>10. CASE Below # <<>>
    <2>1. status' = "sync" /\ UNCHANGED <<fresh, status>>
      BY <1>2, <1>4, <1>10
    <2>2. /\ stack' \in Seq(Frame) /\ stack' # <<>> /\ Len(stack') = n - 1 /\ n - 1 \in Nat \ {0}
          /\ \A k \in 1 .. n - 1 : stack'[k] = stack[k]
      BY <1>2, <1>7, <1>10
    <2>3. Typed' /\ ClientOK' /\ RootOK'
      <3>1. root \in Held /\ (root.phase \in Terminal => phase[Root] = root.phase)
            /\ fresh \in [DOMAIN fresh -> Held] /\ DOMAIN fresh \subseteq Objects
        BY DEF SInv, Typed, TypeOK, ClientOK
      <3> QED
        BY <1>1, <1>2, <1>4, <2>1, <2>2, <3>1, SyncStep
    <2>4. Path'
      <3>1. \A k \in 1 .. (n - 1) - 1 : k \in 1 .. n - 1 /\ k + 1 \in 1 .. n - 1
        BY <1>7
      <3>2. \A k \in 1 .. n - 1 : stack[k + 1].obj \in Children(stack[k].obj)
        BY <1>6 DEF SInv, Path
      <3>3. \A k \in 1 .. Len(stack') - 1 : stack'[k + 1].obj \in Children(stack'[k].obj)
        BY <2>2, <3>1, <3>2
      <3>4. stack'[1] = stack[1]
        BY <2>2
      <3> QED
        BY <1>1, <1>3, <3>3, <3>4 DEF SInv, Path, Children
    <2>5. FramesOK'
      <3> SUFFICES ASSUME NEW k \in 1 .. n - 1 PROVE FrameOK(stack[k])'
        BY <2>2 DEF FramesOK
      <3>1. PICK f : f = stack[k]
        OBVIOUS
      <3>2. f \in Frame /\ FrameOK(f) /\ stack'[k] = f
        BY <1>6, <1>7, <2>2, <3>1 DEF SInv, Typed, FramesOK
      <3>3. FreshForward /\ ReadAlike(f.obj)
        BY <1>2, <2>1 DEF FreshForward, ReadAlike
      <3>4. FrameOK(f)'
        BY <1>3, <3>2, <3>3, FrameKept
      <3> QED
        BY <3>2, <3>4
    <2>6. FreshOK'
      <3> SUFFICES ASSUME NEW o \in DOMAIN fresh
                   PROVE  OnStack(o)' \/ OnList(o)' \/ OutputsRead(o, fresh[o])'
        BY <1>3, <2>1 DEF SInv, FreshOK
      <3>1. \A k \in 1 .. Len(stack) : k \in 1 .. n - 1 \/ k = n
        BY <1>6, <1>7
      <3>2. OnList(o) => OnList(o)'
        BY <1>5, <1>7, <2>2, <3>1 DEF OnList
      <3>3. OnStack(o) => OnStack(o)' \/ o = Top.obj
        BY <1>7, <2>2, <3>1 DEF OnStack
      <3>4. OutputsRead(o, fresh[o])' <=> OutputsRead(o, fresh[o])
        BY <1>3, <2>1, TreeKept DEF OutputsRead, is_successful
      <3>5. o # Root
        BY DEF SInv, FreshOK
      <3> QED
        BY <1>5, <3>2, <3>3, <3>4, <3>5 DEF SInv, FreshOK, Reading
    <2> QED
      BY <1>8, <2>3, <2>4, <2>5, <2>6 DEF SInv
  <1> QED
    BY <1>9, <1>10

(* Every step keeps the invariant. *)
LEMMA NextSInv ==
  ASSUME SInv, [Next]_vars PROVE SInv'
  <1>1. CASE CallExecute
    BY <1>1, CallExecuteSInv
  <1>2. CASE wait_wakes \/ \E o \in {"wait", "sync"} : CallMethod(o)
    BY <1>2, StartSyncSInv
  <1>3. CASE create_execution
    BY <1>3, CreateSInv
  <1>4. CASE get_execution
    BY <1>4, GetExecutionSInv
  <1>5. CASE closure
    BY <1>5, ClosureSInv
  <1>6. CASE data
    BY <1>6, DataSInv
  <1>7. CASE list
    BY <1>7, ListSInv
  <1>8. CASE each
    BY <1>8, EachSInv
  <1>9. CASE fetch
    BY <1>9, FetchSInv
  <1>10. CASE sync
    BY <1>10, SyncSInv
  <1>11. CASE take
    BY <1>11, TakeSInv
  <1>12. CASE assign
    BY <1>12, AssignSInv
  <1>13. CASE returns
    BY <1>13, ReturnsSInv
  <1>14. CASE read_raises
    BY <1>14, ReadRaisesSInv
  <1>15. CASE terminate \/ BackendStep \/ UNCHANGED vars
    BY <1>15, MovesOnSInv
  <1> QED
    BY <1>1, <1>2, <1>3, <1>4, <1>5, <1>6, <1>7, <1>8, <1>9, <1>10, <1>11, <1>12, <1>13, <1>14,
       <1>15 DEF Next, ClientStep

-----------------------------------------------------------------------------
(* Theorems about what a sync returns *)

(* The invariant holds in every state. *)
THEOREM Invariance == Spec => []SInv
  <1>1. Init => SInv
    BY InitSInv
  <1>2. SInv /\ [Next]_vars => SInv'
    BY NextSInv
  <1> QED
    BY <1>1, <1>2, PTL DEF Spec

(* Every variable has its type: in particular a method is syncing exactly
   while a call of sync_execution is under way. *)
THEOREM TypeCorrect == Spec => []TypeOK
  <1>1. SInv => TypeOK
    BY DEF SInv, Typed
  <1> QED
    BY <1>1, Invariance, PTL

(* Whatever the backend does between the reads of a sync, an execution that
   is returned as succeeded has its outputs, and so has every node, task and
   launched execution below it: the closure is read before the data. *)
THEOREM OutputsOfSuccess == Spec => []SucceededHasOutputs
  <1>1. SInv => SucceededHasOutputs
    <2> SUFFICES ASSUME SInv, Synced PROVE SucceededHasOutputs
      BY DEF SucceededHasOutputs
    <2>1. HasOutputs(Root)
      BY DEF SInv, Typed, IsTree, Kind, HasOutputs
    <2>2. is_successful(root) => root.outputs = "full"
      BY <2>1 DEF SInv, RootOK, OutputsRead
    <2>3. \A o \in DOMAIN nodes :
             is_successful(nodes[o]) /\ HasOutputs(o) => nodes[o].outputs = "full"
      BY DEF SInv, NodesOK, OutputsRead
    <2> QED
      BY <2>2, <2>3 DEF SucceededHasOutputs
  <1> QED
    BY <1>1, Invariance, PTL

(* However often the create of _execute is tried again, a call with a name
   or a prefix starts one execution at most: every attempt asks for the same
   one. *)
THEOREM CreatedOnce == Spec => []OneExecutionPerCall
  <1>1. SInv => OneExecutionPerCall
    <2> SUFFICES ASSUME SInv, NEW i \in ids, NEW j \in ids, i.call = j.call, i.naming # "none"
                 PROVE  i = j
      BY DEF OneExecutionPerCall
    <2>1. i \in [naming : {naming}, call : Nat, attempt : Nat]
          /\ j \in [naming : {naming}, call : Nat, attempt : Nat]
      BY DEF SInv, Typed
    <2>2. naming # "none" /\ i.attempt = 0 /\ j.attempt = 0
      BY <2>1 DEF SInv, NamedOnce
    <2> QED
      BY <2>1, <2>2
  <1> QED
    BY <1>1, Invariance, PTL

-----------------------------------------------------------------------------
(* Everything is found.  The steps of a sync, once more *)

(* The call at the top is changed, and perhaps another one made. *)
Shifts(g) ==
    /\ g \in Frame /\ g.obj = Top.obj /\ g.steps = Top.steps /\ g.at \in {Top.at, Top.at + 1}
    /\ stack' \in Seq(Frame) /\ Len(stack') \in {Len(stack), Len(stack) + 1}
    /\ \A k \in 1 .. Len(stack) - 1 : stack'[k] = stack[k]
    /\ stack'[Len(stack)] = g

(* The step of the node after fetch. *)
LEMMA SyncAfterFetch ==
  ASSUME NEW f, NEW g, f.at \in Nat, f.at >= 1, Fits(f.obj, f.steps), At(f, "fetch"),
         g.at = f.at + 1, g.steps = f.steps
  PROVE  At(g, "sync")
  <1>1. CASE f.steps = <<"closure", "data", "list", "each", "assign">>
    BY <1>1 DEF At
  <1>2. CASE f.steps = <<"closure", "data", "assign">>
    BY <1>2 DEF At
  <1>3. CASE f.steps = <<"data", "fetch", "sync", "take">>
    BY <1>3 DEF At
  <1>4. CASE f.steps = <<"data", "list", "each", "assign">>
    BY <1>4 DEF At
  <1>5. CASE f.steps = <<"data", "list", "each">>
    BY <1>5 DEF At
  <1>6. CASE f.steps = <<"data">> \/ f.steps = <<>>
    BY <1>6 DEF At
  <1> QED
    BY Shapes, <1>1, <1>2, <1>3, <1>4, <1>5, <1>6

(* Which steps come after the list. *)
LEMMA ListFirst ==
  ASSUME NEW f, f.at \in Nat, f.at >= 1, Fits(f.obj, f.steps)
  PROVE  /\ At(f, "each") => Past(f, "list")
         /\ At(f, "list") /\ Kind(f.obj) = "launch_plan_node" =>
                f.steps = <<"data", "list", "each", "assign">>
         /\ f.steps = <<"closure", "data", "list", "each", "assign">>
              /\ (At(f, "assign") \/ f.at > Len(f.steps)) => Past(f, "list")
         /\ Kind(f.obj) = "execution" /\ f.at > Len(f.steps) => Past(f, "assign")
         /\ f.at > Len(f.steps) =>
                \/ Past(f, "list")
                \/ Kind(f.obj) = "execution" /\ f.steps = <<"closure", "data", "assign">>
                \/ Kind(f.obj) = "launch_plan_node" /\ Past(f, "fetch")
                \/ Kind(f.obj) \in {"gate_node", "end_node", "task_execution"}
  <1>1. CASE f.steps = <<"closure", "data", "list", "each", "assign">> /\ Kind(f.obj) = "execution"
    BY <1>1 DEF At, Past
  <1>2. CASE /\ f.steps = <<"closure", "data", "assign">>
             /\ Kind(f.obj) \in {"execution", "task_execution"}
    BY <1>2 DEF At, Past
  <1>3. CASE f.steps = <<"data", "fetch", "sync", "take">> /\ Kind(f.obj) = "launch_plan_node"
    BY <1>3 DEF At, Past
  <1>4. CASE /\ f.steps = <<"data", "list", "each", "assign">>
             /\ Kind(f.obj) \in {"task_node", "parent_node", "launch_plan_node"}
    BY <1>4 DEF At, Past
  <1>5. CASE f.steps = <<"data", "list", "each">> /\ Kind(f.obj) = "array_of_launch_plans"
    BY <1>5 DEF At, Past
  <1>6. CASE f.steps = <<"data">> /\ Kind(f.obj) = "gate_node"
    BY <1>6 DEF At, Past
  <1>7. CASE f.steps = <<>> /\ Kind(f.obj) = "end_node"
    BY <1>7 DEF At, Past
  <1> QED
    BY Shapes, <1>1, <1>2, <1>3, <1>4, <1>5, <1>6, <1>7

(* What the call at the top has done after its step. *)
LEMMA ShiftFacts ==
  ASSUME SInv, NEW s, AtStep(s), NEW g, Shifts(g)
  PROVE  /\ Len(stack) \in Nat \ {0} /\ stack[Len(stack)] = Top
         /\ \A k \in 1 .. Len(stack) : k \in 1 .. Len(stack) - 1 \/ k = Len(stack)
         /\ \A k \in 1 .. Len(stack') : k \in 1 .. Len(stack) - 1 \/ k = Len(stack)
                                        \/ (k = Len(stack) + 1 /\ Len(stack') = k)
         /\ \A r : Past(Top, r) => Past(g, r)
         /\ \A r : Past(g, r) => Past(Top, r) \/ r = s
         /\ g.at = Top.at + 1 => Past(g, s)
         /\ \A k \in 1 .. Len(stack) : /\ k \in 1 .. Len(stack')
                                       /\ stack'[k].obj = stack[k].obj
                                       /\ stack'[k].steps = stack[k].steps
         /\ \A o : OnStack(o) => OnStack(o)'
  <1>1. stack # <<>> /\ Top.at \in Nat /\ Top.steps \in Seq(Steps)
    BY StepDone, TopFacts
  <1>2. Len(stack) \in Nat \ {0} /\ stack[Len(stack)] = Top
    BY <1>1, StackShapes DEF SInv, Typed, Top
  <1>3. \A k \in 1 .. Len(stack) : k \in 1 .. Len(stack) - 1 \/ k = Len(stack)
    BY <1>2
  <1>4. \A k \in 1 .. Len(stack') : k \in 1 .. Len(stack) - 1 \/ k = Len(stack)
                                     \/ (k = Len(stack) + 1 /\ Len(stack') = k)
    BY <1>2 DEF Shifts
  <1>5. /\ \A r : Past(Top, r) => Past(g, r)
        /\ \A r : Past(g, r) => Past(Top, r) \/ r = s
        /\ g.at = Top.at + 1 => Past(g, s)
    <2>1. CASE g.at = Top.at + 1
      BY <2>1, PastStep DEF Shifts
    <2>2. CASE g.at = Top.at
      <3>1. g.at # Top.at + 1
        BY <1>1, <2>2
      <3> QED
        BY <2>2, <3>1 DEF Shifts, Past
    <2> QED
      BY <2>1, <2>2 DEF Shifts
  <1>6. \A k \in 1 .. Len(stack) : /\ k \in 1 .. Len(stack')
                                   /\ stack'[k].obj = stack[k].obj
                                   /\ stack'[k].steps = stack[k].steps
    <2>1. \A k \in 1 .. Len(stack) : k \in 1 .. Len(stack')
      BY <1>2 DEF Shifts
    <2> QED
      BY <1>2, <1>3, <2>1 DEF Shifts
  <1>7. \A o : OnStack(o) => OnStack(o)'
    BY <1>6 DEF OnStack
  <1> QED
    BY <1>2, <1>3, <1>4, <1>5, <1>6, <1>7

(* Nothing is found before the first list. *)
LEMMA StartsEmptyKept ==
  ASSUME WInv, NEW s, AtStep(s), NEW g, Shifts(g), s = "list" => g.at = Top.at + 1,
         s \notin {"list", "each", "fetch", "sync"} =>
             DOMAIN fresh' = DOMAIN fresh /\ Len(stack') = Len(stack)
  PROVE  StartsEmpty'
  <1> SUFFICES ASSUME ~ Past(stack[1], "list")'
               PROVE  DOMAIN fresh' = {} /\ Len(stack') = 1
    BY DEF StartsEmpty
  <1>1. SInv /\ stack # <<>> /\ StartsEmpty
    BY StepDone DEF WInv
  <1>2. Len(stack) \in Nat \ {0} /\ stack[Len(stack)] = Top
        /\ (\A r : Past(Top, r) => Past(g, r)) /\ (g.at = Top.at + 1 => Past(g, s))
    BY <1>1, ShiftFacts
  <1>3. PICK f : f = stack'[1]
    OBVIOUS
  <1>4. ~ Past(f, "list")
    BY <1>3
  <1>5. ~ Past(stack[1], "list")
    <2>1. CASE Len(stack) = 1
      BY <1>2, <1>3, <1>4, <2>1 DEF Shifts
    <2>2. CASE Len(stack) # 1
      BY <1>2, <1>3, <1>4, <2>2 DEF Shifts
    <2> QED
      BY <2>1, <2>2
  <1>6. DOMAIN fresh = {} /\ Len(stack) = 1 /\ stack[1] = Top
    BY <1>1, <1>2, <1>5 DEF StartsEmpty
  <1>7. f = g /\ ~ Past(g, "list") /\ Top.obj = Root
    BY <1>1, <1>3, <1>4, <1>6 DEF Shifts, SInv, Path
  <1>8. /\ At(Top, s) /\ Top.at \in Nat /\ Top.at >= 1 /\ Fits(Top.obj, Top.steps)
        /\ Kind(Top.obj) = "execution"
    BY <1>1, <1>7, StepDone, TopFacts DEF FrameOK, SInv, Typed, IsTree, Kind
  <1>9. s \notin {"list", "each", "fetch", "sync"}
    BY <1>2, <1>5, <1>6, <1>7, <1>8, ListFirst, AtFacts
  <1> QED
    BY <1>6, <1>9

(* A launched execution is fetched, without its nodes, before it is synced. *)
LEMMA FetchedFirstKept ==
  ASSUME WInv, NEW s, AtStep(s), NEW g, Shifts(g), UNCHANGED tree,
         NEW st, st = sync_execution(FALSE),
         \A h : Len(stack') = Len(stack) + 1 /\ h = stack'[Len(stack) + 1]
                 /\ Kind(h.obj) = "execution" /\ h.steps = st => At(g, "sync")
  PROVE  FetchedFirst'
  <1>1. SInv /\ FetchedFirst
    BY DEF WInv
  <1> SUFFICES ASSUME NEW k \in 2 .. Len(stack'), Kind(stack'[k].obj) = "execution",
                      stack'[k].steps = st
               PROVE  At(stack[k - 1], "sync")'
    BY TreeKept DEF FetchedFirst
  <1>3. /\ Len(stack) \in Nat \ {0} /\ k \in 1 .. Len(stack') /\ k - 1 \in Nat
        /\ k \in 1 .. Len(stack) - 1 \/ k = Len(stack) \/ (k = Len(stack) + 1 /\ Len(stack') = k)
    <2>1. k \in 1 .. Len(stack') /\ k - 1 \in Nat
      BY DEF Shifts
    <2> QED
      BY <1>1, <2>1, ShiftFacts
  <1>4. PICK f : f = stack'[k - 1]
    OBVIOUS
  <1>5. CASE k = Len(stack) + 1
    <2>1. f = g
      BY <1>3, <1>4, <1>5 DEF Shifts
    <2>2. At(g, "sync")
      <3>1. PICK h : h = stack'[k]
        OBVIOUS
      <3>2. PICK m : m = Len(stack)
        OBVIOUS
      <3>3. m \in Nat /\ k = m + 1 /\ k \notin 1 .. m - 1 /\ k # m
        BY <1>3, <1>5, <3>2
      <3>4. Len(stack') = Len(stack) + 1 /\ h = stack'[Len(stack) + 1]
        BY <1>3, <3>1, <3>2, <3>3
      <3>5. Kind(h.obj) = "execution" /\ h.steps = st
        BY <3>1
      <3> QED
        BY <3>4, <3>5, Zenon
    <2> QED
      BY <1>4, <2>1, <2>2
  <1>6. CASE k # Len(stack) + 1
    <2>1. k \in 2 .. Len(stack) /\ k - 1 \in 1 .. Len(stack) - 1 /\ k \in 1 .. Len(stack)
      BY <1>3, <1>6
    <2>2. f = stack[k - 1]
      BY <1>4, <2>1 DEF Shifts
    <2>3. Kind(stack[k].obj) = "execution" /\ stack[k].steps = st
      BY <1>1, <2>1, ShiftFacts
    <2>4. At(f, "sync")
      BY <1>1, <2>1, <2>2, <2>3 DEF FetchedFirst
    <2> QED
      BY <1>4, <2>4
  <1> QED
    BY <1>5, <1>6

(* Launched executions are on no list. *)
LEMMA ListedKindsKept ==
  ASSUME WInv, NEW s, AtStep(s), NEW g, Shifts(g), UNCHANGED tree,
         \A t \in g.todo : Kind(t.obj) # "execution",
         Len(stack') = Len(stack) + 1 => stack'[Len(stack) + 1].todo = {}
  PROVE  ListedKinds'
  <1> SUFFICES ASSUME NEW k \in 1 .. Len(stack'), NEW t \in stack'[k].todo
               PROVE  Kind(t.obj) # "execution"
    BY TreeKept DEF ListedKinds
  <1>1. SInv /\ ListedKinds
    BY DEF WInv
  <1>2. /\ Len(stack) \in Nat \ {0}
        /\ k \in 1 .. Len(stack) - 1 \/ k = Len(stack) \/ (k = Len(stack) + 1 /\ Len(stack') = k)
    BY <1>1, ShiftFacts
  <1>3. CASE k \in 1 .. Len(stack) - 1
    <2>1. stack'[k] = stack[k] /\ k \in 1 .. Len(stack)
      BY <1>2, <1>3 DEF Shifts
    <2> QED
      BY <1>1, <2>1 DEF ListedKinds
  <1>4. CASE k = Len(stack)
    BY <1>4 DEF Shifts
  <1> QED
    BY <1>2, <1>3, <1>4

(* When the execution is known as done, what was found of an object stays,
   and an object that is still to be looked at stays so or is looked at. *)
LEMMA WholeKept ==
  ASSUME WInv, NEW s, AtStep(s), NEW g, Shifts(g), UNCHANGED <<tree, phase>>, is_done(root),
         DOMAIN fresh \subseteq DOMAIN fresh',
         \A o \in DOMAIN fresh' : fresh'[o].phase = phase[o],
         \A o \in DOMAIN fresh' \ DOMAIN fresh : OnStack(o)' \/ OnList(o)',
         \A o : OnList(o) => OnList(o)' \/ OnStack(o)',
         \A o : s = "sync" /\ o = Launched(Top.obj) => OnStack(o)',
         s = "list" => \A x \in Children(Top.obj) : phase[x] # "absent" => x \in DOMAIN fresh',
         \A t \in g.todo : StepsAsListed(t.obj, t.steps),
         ASSUME NEW h, Len(stack') = Len(stack) + 1, h = stack'[Len(stack) + 1]
         PROVE  h.at = 1 /\ h.todo = {} /\ StepsAsListed(h.obj, h.steps)
  PROVE  WholeSoFar'
  <1>1. SInv /\ WholeSoFar
    BY DEF WInv
  <1>2. /\ Len(stack) \in Nat \ {0} /\ stack[Len(stack)] = Top
        /\ \A k \in 1 .. Len(stack) : k \in 1 .. Len(stack) - 1 \/ k = Len(stack)
        /\ \A k \in 1 .. Len(stack') : k \in 1 .. Len(stack) - 1 \/ k = Len(stack)
                                       \/ (k = Len(stack) + 1 /\ Len(stack') = k)
        /\ \A r : Past(g, r) => Past(Top, r) \/ r = s
        /\ \A k \in 1 .. Len(stack) : k \in 1 .. Len(stack')
        /\ \A o : OnStack(o) => OnStack(o)'
    BY <1>1, ShiftFacts
  <1>3. /\ \A o, st : StepsAsListed(o, st)' <=> StepsAsListed(o, st)
        /\ \A o : ChildrenFound(o)' <=>
                    \A x \in Children(o) : phase[x] # "absent" => x \in DOMAIN fresh'
        /\ \A o : ChildrenFound(o) => ChildrenFound(o)'
    <2>1. \A o, st : StepsAsListed(o, st)' <=> StepsAsListed(o, st)
      BY Zenon DEF StepsAsListed, Kind, Launched, Children, sync_node_execution
    <2> QED
      BY <2>1, TreeKept DEF ChildrenFound
  <1>4. ASSUME NEW o \in DOMAIN fresh'
        PROVE  OnStack(o)' \/ OnList(o)' \/ AboutToSync(o)' \/ ChildrenFound(o)'
    <2>1. CASE o \notin DOMAIN fresh
      BY <2>1
    <2>2. CASE o \in DOMAIN fresh
      <3>1. OnStack(o) \/ OnList(o) \/ AboutToSync(o) \/ ChildrenFound(o)
        BY <1>1, <2>2 DEF WholeSoFar
      <3>2. ASSUME AboutToSync(o) PROVE AboutToSync(o)' \/ OnStack(o)'
        <4>1. PICK k \in 1 .. Len(stack) : At(stack[k], "sync") /\ Launched(stack[k].obj) = o
          BY <3>2 DEF AboutToSync
        <4>2. CASE k = Len(stack)
          <5>1. s = "sync"
            BY <1>1, <1>2, <4>1, <4>2, StepDone
          <5> QED
            BY <1>2, <4>1, <4>2, <5>1
        <4>3. CASE k # Len(stack)
          <5>1. PICK f : f = stack[k]
            OBVIOUS
          <5>2. stack'[k] = f /\ k \in 1 .. Len(stack') /\ At(f, "sync") /\ Launched(f.obj) = o
            BY <1>2, <4>1, <4>3, <5>1 DEF Shifts
          <5>3. Launched(f.obj)' = o
            BY <5>2, TreeKept
          <5>4. At(stack[k], "sync")' /\ Launched(stack[k].obj)' = o
            BY <5>2, <5>3
          <5> QED
            BY <5>2, <5>4 DEF AboutToSync
        <4> QED
          BY <4>2, <4>3
      <3> QED
        BY <1>2, <1>3, <3>1, <3>2
    <2> QED
      BY <2>1, <2>2
  <1>5. ASSUME NEW k \in 1 .. Len(stack') PROVE FrameWhole(stack[k])'
    <2>1. PICK f : f = stack'[k]
      OBVIOUS
    <2>2. CASE k \in 1 .. Len(stack) - 1
      <3>1. f = stack[k] /\ k \in 1 .. Len(stack)
        BY <1>2, <2>1, <2>2 DEF Shifts
      <3>2. FrameWhole(f)
        BY <1>1, <3>1 DEF WholeSoFar
      <3>3. FrameWhole(f)'
        BY <1>3, <3>2 DEF FrameWhole, Past
      <3> QED
        BY <2>1, <3>3
    <2>3. CASE k = Len(stack)
      <3>1. f = g /\ FrameWhole(Top)
        BY <1>1, <1>2, <2>1, <2>3 DEF Shifts, WholeSoFar
      <3>2. Past(g, "list") => ChildrenFound(g.obj)'
        BY <1>2, <1>3, <3>1 DEF FrameWhole, Shifts
      <3>3. StepsAsListed(g.obj, g.steps)' /\ \A t \in g.todo : StepsAsListed(t.obj, t.steps)'
        BY <1>3, <3>1 DEF FrameWhole, Shifts
      <3>4. FrameWhole(g)'
        BY <3>2, <3>3 DEF FrameWhole, Past
      <3> QED
        BY <2>1, <3>1, <3>4
    <2>4. CASE k = Len(stack) + 1 /\ Len(stack') = k
      <3>1. f.at = 1 /\ f.todo = {} /\ StepsAsListed(f.obj, f.steps)
        BY <2>1, <2>4
      <3>2. \A r : ~ Past(f, r)
        <4>1. f \in Frame
          BY <2>1 DEF Shifts
        <4> QED
          BY <3>1, <4>1 DEF Past, Frame
      <3>3. FrameWhole(f)'
        BY <1>3, <3>1, <3>2 DEF FrameWhole, Past
      <3> QED
        BY <2>1, <3>3
    <2> QED
      BY <1>2, <2>2, <2>3, <2>4
  <1> QED
    BY <1>4, <1>5 DEF WholeSoFar

(* What was assigned when the first call ended. *)
LEMMA WholeAtEndKept ==
  ASSUME WInv, NEW s, AtStep(s), NEW g, Shifts(g), UNCHANGED <<tree, phase, op, status>>,
         is_done(root), \/ nodes' = nodes /\ ~ (s = "assign" /\ Top.obj = Root /\ op = "wait")
                        \/ AllBelow(nodes')
  PROVE  WholeAtEnd'
  <1>1. SInv /\ WholeAtEnd /\ stack # <<>> /\ status = "sync"
    BY StepDone DEF WInv
  <1>2. \A read : AllBelow(read)' <=> AllBelow(read)
    BY TreeKept DEF AllBelow
  <1> SUFFICES ASSUME op = "wait", Past(stack[1], "assign")', nodes' = nodes,
                      ~ (s = "assign" /\ Top.obj = Root)
               PROVE  AllBelow(nodes)
    BY <1>1, <1>2 DEF WholeAtEnd
  <1>3. Len(stack) \in Nat \ {0} /\ stack[Len(stack)] = Top
        /\ (\A r : Past(g, r) => Past(Top, r) \/ r = s)
    BY <1>1, ShiftFacts
  <1>4. PICK f : f = stack'[1]
    OBVIOUS
  <1>5. Past(f, "assign")
    BY <1>4
  <1>6. Past(stack[1], "assign")
    <2>1. CASE Len(stack) = 1
      <3>1. f = g /\ stack[1] = Top /\ Top.obj = Root
        BY <1>1, <1>3, <1>4, <2>1 DEF Shifts, SInv, Path
      <3> QED
        BY <1>3, <1>5, <3>1
    <2>2. CASE Len(stack) # 1
      <3>1. \A m \in Nat \ {0} : m # 1 => 1 \in 1 .. m - 1
        OBVIOUS
      <3>2. 1 \in 1 .. Len(stack) - 1
        BY <1>3, <2>2, <3>1, Zenon
      <3>3. f = stack[1]
        BY <1>4, <3>2 DEF Shifts
      <3> QED
        BY <1>5, <3>3
    <2> QED
      BY <2>1, <2>2
  <1> QED
    BY <1>1, <1>6 DEF WholeAtEnd

LEMMA Shifted ==
  ASSUME SInv, stack # <<>>, NEW g \in Frame, g.obj = Top.obj, g.steps = Top.steps,
         g.at \in {Top.at, Top.at + 1}
  PROVE  /\ stack' = Append(Below, g) => Shifts(g) /\ Len(stack') = Len(stack)
         /\ \A h \in Frame : stack' = Append(Append(Below, g), h) =>
                Shifts(g) /\ Len(stack') = Len(stack) + 1 /\ stack'[Len(stack) + 1] = h
  <1>1. stack \in Seq(Frame) /\ Len(stack) \in Nat
    BY DEF SInv, Typed
  <1>2. stack' = Append(Below, g) => Shifts(g) /\ Len(stack') = Len(stack)
    BY <1>1, StackShapes DEF Shifts
  <1>3. ASSUME NEW h \in Frame, stack' = Append(Append(Below, g), h)
        PROVE  Shifts(g) /\ Len(stack') = Len(stack) + 1 /\ stack'[Len(stack) + 1] = h
    BY <1>1, <1>3, StackShapes DEF Shifts
  <1> QED
    BY <1>2, <1>3

(* Of what is on a list, only the entries of the call at the top change. *)
LEMMA ListsKept ==
  ASSUME SInv, NEW s, AtStep(s), NEW g, Shifts(g), NEW o, OnList(o),
         \A t \in Top.todo : t.obj = o => \E e \in g.todo : e.obj = o
  PROVE  OnList(o)'
  <1>1. PICK k \in 1 .. Len(stack) : \E t \in stack[k].todo : t.obj = o
    BY DEF OnList
  <1>2. /\ k \in 1 .. Len(stack') /\ stack[Len(stack)] = Top
        /\ k \in 1 .. Len(stack) - 1 \/ k = Len(stack)
    BY ShiftFacts
  <1>3. \E t \in stack'[k].todo : t.obj = o
    BY <1>1, <1>2 DEF Shifts
  <1> QED
    BY <1>2, <1>3 DEF OnList

(* The parts of the invariant together. *)
LEMMA ShiftWInv ==
  ASSUME WInv, SInv', UNCHANGED <<tree, phase, op, status>>, root'.phase = root.phase,
         StartsEmpty', FetchedFirst', ListedKinds', is_done(root) => WholeSoFar' /\ WholeAtEnd'
  PROVE  WInv'
  <1>1. is_done(root)' <=> is_done(root)
    BY DEF is_done
  <1>2. CASE is_done(root)
    BY <1>2 DEF WInv
  <1>3. CASE ~ is_done(root)
    BY <1>1, <1>3 DEF WInv, WholeSoFar, WholeAtEnd
  <1> QED
    BY <1>2, <1>3

(* A step of the call at the top that finds nothing and calls nothing. *)
LEMMA InPlaceWInv ==
  ASSUME WInv, SInv', NEW s, s \notin {"list", "fetch", "sync"}, AtStep(s), Top.todo = {},
         NEW g \in Frame, g.obj = Top.obj, g.steps = Top.steps, g.at = Top.at + 1,
         g.todo = {}, stack' = Append(Below, g), UNCHANGED <<tree, phase, op, status>>,
         root'.phase = root.phase, DOMAIN fresh' = DOMAIN fresh,
         is_done(root) => \A o \in DOMAIN fresh : fresh'[o].phase = phase[o],
         is_done(root) => \/ nodes' = nodes /\ ~ (s = "assign" /\ Top.obj = Root /\ op = "wait")
                          \/ AllBelow(nodes')
  PROVE  WInv'
  <1>1. SInv /\ stack # <<>>
    BY StepDone DEF WInv
  <1>2. Shifts(g) /\ Len(stack') = Len(stack) /\ Len(stack) \in Nat
    BY <1>1, Shifted DEF SInv, Typed
  <1>3. Len(stack') # Len(stack) + 1
    BY <1>2
  <1>4. StartsEmpty'
    BY <1>2, StartsEmptyKept
  <1>5. FetchedFirst'
    <2>1. PICK st : st = sync_execution(FALSE)
      OBVIOUS
    <2> QED
      BY <1>2, <1>3, <2>1, FetchedFirstKept
  <1>6. ListedKinds'
    BY <1>2, <1>3, ListedKindsKept
  <1>7. ASSUME is_done(root) PROVE WholeSoFar' /\ WholeAtEnd'
    <2>1. \A o : OnList(o) => OnList(o)'
      BY <1>1, <1>2, ListsKept
    <2>2. WholeSoFar'
      BY <1>2, <1>3, <1>7, <2>1, WholeKept
    <2>3. WholeAtEnd'
      BY <1>2, <1>7, WholeAtEndKept
    <2> QED
      BY <2>2, <2>3
  <1> QED
    BY <1>4, <1>5, <1>6, <1>7, ShiftWInv

(* The closure of the execution itself is read before anything is found. *)
LEMMA ClosureWInv ==
  ASSUME WInv, closure PROVE WInv'
  <1>1. SInv /\ SInv' /\ AtStep("closure")
    BY ClosureSInv DEF WInv, closure
  <1>2. /\ stack # <<>> /\ Top \in Frame /\ FrameOK(Top) /\ At(Top, "closure") /\ Top.todo = {}
        /\ Top.at \in Nat /\ Top.obj \in Objects /\ status = "sync"
        /\ Top.obj = Root => Len(stack) = 1
    BY <1>1, StepDone, TopFacts
  <1>3. PICK g : g = Advanced(Top)
    OBVIOUS
  <1>4. /\ g \in Frame /\ g.obj = Top.obj /\ g.steps = Top.steps /\ g.at = Top.at + 1 /\ g.todo = {}
    BY <1>1, <1>2, <1>3, TopFacts
  <1>5. PICK c : c = Top.obj
    OBVIOUS
  <1>6. PICK x : x = [phase |-> phase[c], outputs |-> Reading(c).outputs]
    OBVIOUS
  <1>7. /\ SetReading(c, x) /\ stack' = Append(Below, g) /\ x.phase = phase[c]
        /\ UNCHANGED <<tree, phase, op, status, nodes>>
    BY <1>3, <1>5, <1>6 DEF closure, Quiet, Backend
  <1>8. Top.at = 1
    BY <1>2, AtFacts DEF FrameOK
  <1>9. CASE c = Root
    <2>1. Len(stack) = 1 /\ stack[1] = Top /\ fresh' = fresh
      BY <1>2, <1>5, <1>7, <1>9 DEF Top, SetReading
    <2>2. Len(stack') = 1 /\ stack'[1] = g
      BY <1>1, <1>2, <1>4, <1>7, <2>1, Shifted DEF Shifts
    <2>3. DOMAIN fresh = {}
      <3>1. ~ Past(Top, "list")
        BY <1>2, <1>8 DEF Past, Frame
      <3> QED
        BY <1>2, <2>1, <3>1 DEF WInv, StartsEmpty
    <2>4. \A r : Past(g, r) => r = "closure"
      <3>1. \A r : Past(g, r) <=> Past(Top, r) \/ r = "closure"
        BY <1>1, <1>4, PastStep
      <3>2. \A r : ~ Past(Top, r)
        BY <1>2, <1>8 DEF Past, Frame
      <3> QED
        BY <3>1, <3>2
    <2>5. \A r : Past(stack[1], r)' => r = "closure"
      BY <2>2, <2>4
    <2>6. StartsEmpty' /\ FetchedFirst' /\ ListedKinds'
      BY <1>4, <2>1, <2>2, <2>3 DEF StartsEmpty, FetchedFirst, ListedKinds
    <2>7. FrameWhole(g)'
      <3>1. \A r : Past(g, r)' => r = "closure"
        BY <2>4 DEF Past
      <3>2. Kind(g.obj)' = "execution"
        BY <1>1, <1>4, <1>5, <1>7, <1>9, TreeKept DEF SInv, Typed, IsTree, Kind
      <3> QED
        BY <1>4, <3>1, <3>2 DEF FrameWhole, StepsAsListed
    <2>8. WholeSoFar'
      BY <2>1, <2>2, <2>3, <2>7 DEF WholeSoFar
    <2>9. WholeAtEnd'
      BY <1>2, <1>7, <2>5 DEF WholeAtEnd
    <2> QED
      BY <1>1, <2>6, <2>8, <2>9 DEF WInv
  <1>10. CASE c # Root
    <2>1. x \in Held /\ (Reading(c).phase = "succeeded" => x.phase = "succeeded")
      <3>1. c \in Objects /\ Reading(c) \in Held /\ phase \in [Objects -> Phases]
            /\ (Reading(c).phase \in Terminal => phase[c] = Reading(c).phase)
        BY <1>1, <1>2, <1>5, TopFacts DEF SInv, Typed, TypeOK
      <3>2. x \in Held
        BY <1>6, <3>1 DEF Held
      <3> QED
        BY <1>7, <3>1, <3>2 DEF Terminal
    <2>2. /\ DOMAIN fresh' = DOMAIN fresh /\ root' = root /\ fresh'[c] = x
          /\ \A o \in DOMAIN fresh' : o # c => fresh'[o] = fresh[o]
      BY <1>1, <1>2, <1>5, <1>7, <1>10, <2>1, Written
    <2>3. is_done(root) => \A o \in DOMAIN fresh : fresh'[o].phase = phase[o]
      BY <1>7, <2>2 DEF WInv, WholeSoFar
    <2>4. PICK s : s = "closure"
      OBVIOUS
    <2>5. s \notin {"list", "fetch", "sync"} /\ s # "assign" /\ AtStep(s)
      BY <1>1, <2>4
    <2> QED
      BY <1>1, <1>2, <1>4, <1>7, <2>2, <2>3, <2>5, InPlaceWInv
  <1> QED
    BY <1>9, <1>10

LEMMA DataWInv ==
  ASSUME WInv, data PROVE WInv'
  <1>1. SInv /\ SInv' /\ AtStep("data") /\ stack # <<>> /\ Top.todo = {}
    BY DataSInv, StepDone DEF WInv, data
  <1>2. PICK g : g = [Advanced(Top) EXCEPT !.data = Data(Top.obj)]
    OBVIOUS
  <1>3. /\ stack' = Append(Below, g)
        /\ UNCHANGED <<tree, phase, op, status, root, nodes, fresh>>
    BY <1>2 DEF data, Execution, Quiet, Backend
  <1>4. /\ g \in Frame /\ g.obj = Top.obj /\ g.steps = Top.steps /\ g.at = Top.at + 1
        /\ g.todo = {}
    <2>1. \A f \in Frame, b \in {"empty", "full"} :
            LET h == [f EXCEPT !.data = b]
            IN  /\ h \in Frame /\ h.obj = f.obj /\ h.steps = f.steps /\ h.at = f.at
                /\ h.todo = f.todo /\ h.data = b
      BY DEF Frame
    <2>2. PICK d \in {"empty", "full"} : d = Data(Top.obj)
      BY DEF Data
    <2> QED
      BY <1>1, <1>2, <2>1, <2>2, TopFacts
  <1>5. is_done(root) => \A o \in DOMAIN fresh : fresh'[o].phase = phase[o]
    BY <1>3 DEF WInv, WholeSoFar
  <1>6. PICK s : s = "data"
    OBVIOUS
  <1>7. s \notin {"list", "fetch", "sync"} /\ s # "assign" /\ AtStep(s)
    BY <1>1, <1>6
  <1> QED
    BY <1>1, <1>3, <1>4, <1>5, <1>7, InPlaceWInv

LEMMA TakeWInv ==
  ASSUME WInv, take PROVE WInv'
  <1>1. SInv /\ SInv' /\ AtStep("take") /\ stack # <<>> /\ Top.todo = {}
    BY TakeSInv, StepDone DEF WInv, take
  <1>2. PICK g : g = Advanced(Top)
    OBVIOUS
  <1>3. /\ stack' = Append(Below, g)
        /\ UNCHANGED <<tree, phase, op, status, root, nodes>>
    BY <1>2 DEF take, Execution, Quiet, Backend
  <1>4. /\ g \in Frame /\ g.obj = Top.obj /\ g.steps = Top.steps /\ g.at = Top.at + 1
        /\ g.todo = {}
    BY <1>1, <1>2, TopFacts
  <1>5. DOMAIN fresh' = DOMAIN fresh /\ \A o \in DOMAIN fresh : fresh'[o].phase = fresh[o].phase
    <2>1. fresh \in [DOMAIN fresh -> Held] /\ Top.obj \in Objects
      BY <1>1, TopFacts DEF SInv, Typed
    <2>2. PICK c, u : c = Top.obj /\ u = fresh[Launched(Top.obj)].outputs
      OBVIOUS
    <2>3. fresh' = fresh \/ fresh' = [fresh EXCEPT ![c].outputs = u]
      BY <2>2, Zenon DEF take
    <2>4. \A y \in Held : [y EXCEPT !.outputs = u].phase = y.phase
      BY DEF Held
    <2>5. PICK y : y = [fresh[c] EXCEPT !.outputs = u]
      OBVIOUS
    <2>6. c \in DOMAIN fresh => y.phase = fresh[c].phase
      <3>1. c \in DOMAIN fresh => fresh[c] \in Held
        BY <2>1
      <3> QED
        BY <2>4, <2>5, <3>1, Zenon
    <2>7. fresh' = fresh \/ fresh' = [fresh EXCEPT ![c] = y]
      BY <2>3, <2>5, Zenon
    <2> QED
      BY <2>1, <2>6, <2>7
  <1>6. is_done(root) => \A o \in DOMAIN fresh : fresh'[o].phase = phase[o]
    BY <1>5 DEF WInv, WholeSoFar
  <1>7. PICK s : s = "take"
    OBVIOUS
  <1>8. s \notin {"list", "fetch", "sync"} /\ s # "assign" /\ AtStep(s)
    BY <1>1, <1>7
  <1> QED
    BY <1>1, <1>3, <1>4, <1>5, <1>6, <1>8, InPlaceWInv

(* When the first call ends everything that is there has been found: an
   object that had not been would be below one whose children were. *)
LEMMA AllFound ==
  ASSUME WInv, AtStep("assign"), Top.obj = Root, op = "wait", is_done(root)
  PROVE  AllBelow(fresh)
  <1>1. SInv /\ stack # <<>> /\ Len(stack) = 1 /\ stack[1] = Top /\ Top.todo = {}
        /\ At(Top, "assign")
    BY StepDone DEF WInv, Top
  <1>2. Top.steps = <<"closure", "data", "list", "each", "assign">>
    <2>1. PICK w : w = (op = "wait")
      OBVIOUS
    <2>2. Top.steps = sync_execution(w)
      BY <1>1, <2>1 DEF SInv, Path
    <2> QED
      BY <2>1, <2>2 DEF sync_execution
  <1>3. Past(Top, "list")
    BY <1>1, <1>2, ListFirst, TopFacts DEF FrameOK
  <1>4. ChildrenFound(Root)
    <2>1. FrameWhole(Top)
      BY <1>1 DEF WInv, WholeSoFar
    <2> QED
      BY <1>3, <2>1 DEF FrameWhole
  <1>5. \A k \in 1 .. Len(stack) : stack[k] = Top
    BY <1>1
  <1>6. ASSUME NEW p \in DOMAIN fresh PROVE fresh[p].phase = phase[p] /\ ChildrenFound(p)
    <2>1. ~ OnStack(p) /\ ~ OnList(p)
      BY <1>1, <1>5 DEF OnStack, OnList, SInv, FreshOK
    <2>2. ~ AboutToSync(p)
      <3>1. ~ At(Top, "sync")
        BY <1>1, AtOne
      <3> QED
        BY <1>5, <3>1 DEF AboutToSync
    <2> QED
      BY <2>1, <2>2 DEF WInv, WholeSoFar
  <1> DEFINE S == {o \in Objects \ {Root} : phase[o] # "absent" /\ o \notin DOMAIN fresh}
  <1>7. S = {}
    <2> SUFFICES ASSUME S # {} PROVE FALSE
      OBVIOUS
    <2>1. S \in SUBSET Objects
      OBVIOUS
    <2>2. PICK o \in S : \A p \in S : o \notin Children(p)
      <3> HIDE DEF S
      <3> QED
        BY <1>1, <2>1 DEF SInv, Typed, IsTree, Children
    <2>3. PICK p \in Objects : o \in Children(p)
      BY <1>1 DEF SInv, Typed, IsTree, Children
    <2>4. phase[p] # "absent"
      BY <1>1, <2>3 DEF SInv, BackendOK
    <2>5. p = Root \/ p \in DOMAIN fresh
      BY <2>2, <2>3, <2>4
    <2> QED
      BY <1>4, <1>6, <2>3, <2>5 DEF ChildrenFound
  <1> QED
    BY <1>6, <1>7 DEF AllBelow

LEMMA AssignWInv ==
  ASSUME WInv, assign PROVE WInv'
  <1>1. SInv /\ SInv' /\ AtStep("assign") /\ stack # <<>> /\ Top.todo = {}
    BY AssignSInv, StepDone DEF WInv, assign
  <1>2. PICK g : g = Advanced(Top)
    OBVIOUS
  <1>3. PICK c : c = Top.obj
    OBVIOUS
  <1>4. PICK x : x = _assign_inputs_and_outputs(Reading(c), Top.data)
    OBVIOUS
  <1>5. /\ stack' = Append(Below, g) /\ SetReading(c, x)
        /\ UNCHANGED <<tree, phase, op, status>>
        /\ nodes' = IF c = Root /\ op = "wait" THEN fresh ELSE nodes
    BY <1>2, <1>3, <1>4 DEF assign, Quiet, Backend
  <1>6. /\ g \in Frame /\ g.obj = Top.obj /\ g.steps = Top.steps /\ g.at = Top.at + 1
        /\ g.todo = {}
    BY <1>1, <1>2, TopFacts
  <1>7. x \in Held /\ x.phase = Reading(c).phase
    <2>1. \A y \in Held, d \in {"empty", "full"} :
            LET e == _assign_inputs_and_outputs(y, d)
            IN  e \in Held /\ e.phase = y.phase
      BY DEF _assign_inputs_and_outputs, Held
    <2>2. Reading(c) \in Held /\ Top.data \in {"empty", "full"}
      BY <1>1, <1>3, TopFacts DEF Frame
    <2> QED
      BY <1>4, <2>1, <2>2
  <1>8. /\ DOMAIN fresh' = DOMAIN fresh /\ root'.phase = root.phase
        /\ \A o \in DOMAIN fresh : fresh'[o].phase = fresh[o].phase
    <2>1. /\ DOMAIN fresh' = DOMAIN fresh
          /\ \A o \in DOMAIN fresh' : o # c => fresh'[o] = fresh[o]
          /\ c = Root => root' = x /\ fresh' = fresh
          /\ c # Root => root' = root /\ fresh'[c] = x /\ c \in DOMAIN fresh
      BY <1>1, <1>3, <1>5, <1>7, Written
    <2> QED
      BY <1>7, <2>1 DEF Reading
  <1>9. is_done(root) => \A o \in DOMAIN fresh : fresh'[o].phase = phase[o]
    BY <1>8 DEF WInv, WholeSoFar
  <1>10. is_done(root) => \/ nodes' = nodes /\ ~ (Top.obj = Root /\ op = "wait")
                          \/ AllBelow(nodes')
    BY <1>1, <1>3, <1>5, AllFound
  <1>11. PICK s : s = "assign"
    OBVIOUS
  <1>12. s \notin {"list", "fetch", "sync"} /\ AtStep(s)
    BY <1>1, <1>11
  <1> QED
    BY <1>1, <1>5, <1>6, <1>8, <1>9, <1>10, <1>12, InPlaceWInv

(* The steps of an object are chosen by what there is when it is listed. *)
LEMMA ListedSteps ==
  ASSUME SInv, NEW o \in Objects PROVE StepsAsListed(o, StepsFor(o))
  <1> SUFFICES ASSUME Kind(o) = "launch_plan_node"
               PROVE  StepsFor(o) = sync_node_execution(o, phase[Launched(o)] # "absent")
    BY DEF StepsAsListed
  <1>1. Children(o) = {Launched(o)}
    BY LaunchedIsChild DEF SInv
  <1>2. (\E x \in Children(o) : phase[x] # "absent") = (phase[Launched(o)] # "absent")
    BY <1>1, Zenon
  <1>3. StepsFor(o) = sync_node_execution(o, \E x \in Children(o) : phase[x] # "absent")
    BY Zenon DEF StepsFor
  <1> QED
    BY <1>2, <1>3, Zenon

LEMMA ListWInv ==
  ASSUME WInv, list PROVE WInv'
  <1>1. /\ SInv /\ SInv' /\ AtStep("list") /\ stack # <<>> /\ Top.todo = {} /\ Top \in Frame
        /\ FrameOK(Top) /\ At(Top, "list") /\ Top.obj \in Objects /\ Top.at \in Nat
    BY ListSInv, StepDone, TopFacts DEF WInv, list
  <1>2. PICK L : L = {o \in Children(Top.obj) : phase[o] # "absent" /\ Kind(o) # "execution"}
    OBVIOUS
  <1>3. PICK td : td = {[obj |-> o, steps |-> StepsFor(o)] : o \in L}
    OBVIOUS
  <1>4. PICK g : g = [Advanced(Top) EXCEPT !.todo = td]
    OBVIOUS
  <1>5. /\ stack' = Append(Below, g) /\ fresh' = WithNew(L)
        /\ UNCHANGED <<tree, phase, op, status, root, nodes>>
    BY <1>2, <1>3, <1>4 DEF list, Execution, Quiet, Backend
  <1>6. L \in SUBSET Children(Top.obj)
    BY <1>2
  <1>7. /\ DOMAIN fresh' = DOMAIN fresh \cup L
        /\ \A o \in L : o \in Objects \ {Root} /\ fresh'[o].phase = phase[o]
        /\ \A o \in DOMAIN fresh \ L : fresh'[o] = fresh[o]
    BY <1>1, <1>5, <1>6, NewlyRead
  <1>8. /\ td \in SUBSET Entry
        /\ \A t \in td : Kind(t.obj) # "execution" /\ StepsAsListed(t.obj, t.steps)
        /\ \A o \in L : \E t \in td : t.obj = o
    <2>1. ASSUME NEW o \in L, NEW t, t = [obj |-> o, steps |-> StepsFor(o)]
          PROVE  t \in Entry /\ t.obj = o /\ Kind(t.obj) # "execution"
                 /\ StepsAsListed(t.obj, t.steps)
      <3>1. o \in Objects /\ Kind(o) # "execution"
        BY <1>2, <1>7
      <3>2. StepsFor(o) \in Seq(Steps) /\ StepsAsListed(o, StepsFor(o))
        BY <1>1, <3>1, StepsForFits, ListedSteps
      <3>3. t.obj = o /\ t.steps = StepsFor(o)
        BY <2>1
      <3> QED
        BY <2>1, <3>1, <3>2, <3>3 DEF Entry
    <2> QED
      BY <1>3, <2>1
  <1>9. /\ g \in Frame /\ g.obj = Top.obj /\ g.steps = Top.steps /\ g.at = Top.at + 1
        /\ g.todo = td
    <2>1. \A f \in Frame, b \in SUBSET Entry :
            LET e == [f EXCEPT !.todo = b]
            IN  /\ e \in Frame /\ e.obj = f.obj /\ e.steps = f.steps /\ e.at = f.at
                /\ e.todo = b /\ e.data = f.data
      BY DEF Frame
    <2> QED
      BY <1>1, <1>4, <1>8, <2>1, TopFacts
  <1>10. Shifts(g) /\ Len(stack') = Len(stack) /\ Len(stack) \in Nat \ {0}
    BY <1>1, <1>5, <1>9, Shifted, StackShapes DEF SInv, Typed
  <1>11. Len(stack') # Len(stack) + 1
    BY <1>10
  <1>12. PICK s : s = "list"
    OBVIOUS
  <1>13. AtStep(s) /\ s # "sync" /\ s # "assign"
    BY <1>1, <1>12
  <1>14. StartsEmpty'
    BY <1>9, <1>10, <1>12, <1>13, StartsEmptyKept
  <1>15. FetchedFirst'
    <2>1. PICK st : st = sync_execution(FALSE)
      OBVIOUS
    <2> QED
      BY <1>5, <1>10, <1>11, <1>13, <2>1, FetchedFirstKept
  <1>16. ListedKinds'
    BY <1>5, <1>8, <1>9, <1>10, <1>11, <1>13, ListedKindsKept
  <1>17. ASSUME is_done(root) PROVE WholeSoFar' /\ WholeAtEnd'
    <2>1. \A o : OnList(o) => OnList(o)'
      BY <1>1, <1>10, <1>13, ListsKept
    <2>2. \A o \in DOMAIN fresh' : fresh'[o].phase = phase[o]
      BY <1>7, <1>17 DEF WInv, WholeSoFar
    <2>3. \A o \in L : OnList(o)'
      <3>1. Len(stack) \in 1 .. Len(stack') /\ stack'[Len(stack)] = g
        BY <1>10 DEF Shifts
      <3> QED
        BY <1>8, <1>9, <3>1 DEF OnList
    <2>4. \A x \in Children(Top.obj) : phase[x] # "absent" => x \in DOMAIN fresh'
      <3>1. CASE Kind(Top.obj) # "launch_plan_node"
        <4>1. \A x \in Children(Top.obj) : Kind(x) # "execution"
          BY <1>1, <3>1 DEF SInv, Typed, IsTree, Children, Kind
        <4> QED
          BY <1>2, <1>7, <4>1
      <3>2. CASE Kind(Top.obj) = "launch_plan_node"
        <4>1. Top.steps = <<"data", "list", "each", "assign">>
          BY <1>1, <3>2, ListFirst DEF FrameOK
        <4>2. PICK b : b = (phase[Launched(Top.obj)] # "absent")
          OBVIOUS
        <4>3. Top.steps = sync_node_execution(Top.obj, b)
          <5>1. stack[Len(stack)] = Top /\ Len(stack) \in 1 .. Len(stack)
            BY <1>10 DEF Top
          <5>2. FrameWhole(Top)
            BY <1>17, <5>1 DEF WInv, WholeSoFar
          <5> QED
            BY <3>2, <4>2, <5>2, Zenon DEF FrameWhole, StepsAsListed
        <4>4. ~ b
          <5> SUFFICES ASSUME b PROVE FALSE
            OBVIOUS
          <5>1. Top.steps = <<"data", "fetch", "sync", "take">>
            BY <3>2, <4>3 DEF sync_node_execution
          <5> QED
            BY <4>1, <5>1
        <4>5. Children(Top.obj) = {Launched(Top.obj)}
          BY <1>1, <3>2, LaunchedIsChild DEF SInv
        <4> QED
          BY <4>2, <4>4, <4>5
      <3> QED
        BY <3>1, <3>2
    <2>5. WholeSoFar'
      BY <1>5, <1>7, <1>8, <1>9, <1>10, <1>11, <1>13, <1>17, <2>1, <2>2, <2>3, <2>4, WholeKept
    <2>6. WholeAtEnd'
      BY <1>5, <1>10, <1>13, <1>17, WholeAtEndKept
    <2> QED
      BY <2>5, <2>6
  <1> QED
    BY <1>1, <1>5, <1>14, <1>15, <1>16, <1>17, ShiftWInv

(* A call of what was listed, or of the execution that was fetched. *)
LEMMA PushWInv ==
  ASSUME WInv, SInv', NEW s \in {"each", "fetch", "sync"}, AtStep(s),
         NEW g \in Frame, NEW h \in Frame, stack' = Append(Append(Below, g), h),
         g.obj = Top.obj, g.steps = Top.steps, g.at \in {Top.at, Top.at + 1}, h.at = 1, h.todo = {},
         g.todo \subseteq Top.todo, \A t \in Top.todo \ g.todo : t.obj = h.obj,
         UNCHANGED <<tree, phase, op, status, root, nodes>>,
         NEW st, st = sync_execution(FALSE),
         Kind(h.obj) = "execution" /\ h.steps = st => At(g, "sync"),
         s # "each" => h.obj = Launched(Top.obj),
         DOMAIN fresh \subseteq DOMAIN fresh', DOMAIN fresh' \subseteq DOMAIN fresh \cup {h.obj},
         is_done(root) => StepsAsListed(h.obj, h.steps),
         \A o \in DOMAIN fresh' : fresh'[o].phase = phase[o] \/ (o \in DOMAIN fresh /\ fresh'[o] = fresh[o])
  PROVE  WInv'
  <1>1. SInv /\ stack # <<>> /\ s # "list" /\ s # "assign"
    BY StepDone DEF WInv
  <1>2. Shifts(g) /\ Len(stack') = Len(stack) + 1 /\ stack'[Len(stack) + 1] = h
        /\ Len(stack) \in Nat \ {0} /\ stack[Len(stack)] = Top
    BY <1>1, Shifted, StackShapes DEF SInv, Typed, Top
  <1>3. OnStack(h.obj)'
    <2>1. Len(stack) + 1 \in 1 .. Len(stack')
      BY <1>2
    <2> QED
      BY <1>2, <2>1 DEF OnStack
  <1>4. StartsEmpty'
    BY <1>1, <1>2, StartsEmptyKept
  <1>5. FetchedFirst'
    <2>1. \A f : Len(stack') = Len(stack) + 1 /\ f = stack'[Len(stack) + 1]
                 /\ Kind(f.obj) = "execution" /\ f.steps = st => At(g, "sync")
      BY <1>2
    <2> QED
      BY <1>2, <2>1, FetchedFirstKept
  <1>6. ListedKinds'
    <2>1. \A t \in Top.todo : Kind(t.obj) # "execution"
      BY <1>2 DEF WInv, ListedKinds
    <2> QED
      BY <1>2, <2>1, ListedKindsKept
  <1>7. ASSUME is_done(root) PROVE WholeSoFar' /\ WholeAtEnd'
    <2>1. ASSUME NEW o, OnList(o) PROVE OnList(o)' \/ OnStack(o)'
      <3>1. CASE o = h.obj
        BY <1>3, <3>1
      <3>2. CASE o # h.obj
        <4>1. \A t \in Top.todo : t.obj = o => \E e \in g.todo : e.obj = o
          BY <3>2
        <4> QED
          BY <1>1, <1>2, <2>1, <4>1, ListsKept
      <3> QED
        BY <3>1, <3>2
    <2>2. \A o \in DOMAIN fresh' : fresh'[o].phase = phase[o]
      BY <1>7 DEF WInv, WholeSoFar
    <2>3. \A t \in g.todo : StepsAsListed(t.obj, t.steps)
      <3>1. FrameWhole(Top)
        BY <1>2, <1>7 DEF WInv, WholeSoFar
      <3> QED
        BY <3>1 DEF FrameWhole
    <2>4. \A o \in DOMAIN fresh' \ DOMAIN fresh : OnStack(o)'
      BY <1>3
    <2>5. \A o : s = "sync" /\ o = Launched(Top.obj) => OnStack(o)'
      BY <1>3
    <2>6. WholeSoFar'
      BY <1>1, <1>2, <1>7, <2>1, <2>2, <2>3, <2>4, <2>5, WholeKept
    <2>7. WholeAtEnd'
      BY <1>1, <1>2, <1>7, WholeAtEndKept
    <2> QED
      BY <2>6, <2>7
  <1> QED
    BY <1>4, <1>5, <1>6, <1>7, ShiftWInv

LEMMA EachWInv ==
  ASSUME WInv, each PROVE WInv'
  <1>1. /\ SInv /\ SInv' /\ AtStep("each") /\ stack # <<>> /\ Top \in Frame /\ FrameOK(Top)
        /\ Top.obj \in Objects
    BY EachSInv, StepDone, TopFacts DEF WInv, each
  <1>2. UNCHANGED <<tree, phase, op, status, root, nodes, fresh>>
    BY DEF each, Execution, Quiet, Backend
  <1>3. is_done(root) => \A o \in DOMAIN fresh : fresh'[o].phase = phase[o]
    BY <1>2 DEF WInv, WholeSoFar
  <1>4. PICK s \in {"each", "fetch", "sync"} : s = "each"
    OBVIOUS
  <1>5. AtStep(s) /\ s \notin {"list", "fetch", "sync"} /\ s # "assign"
    BY <1>1, <1>4
  <1>6. CASE Top.todo = {} /\ stack' = Append(Below, Advanced(Top))
    <2>1. PICK g : g = Advanced(Top)
      OBVIOUS
    <2>2. /\ g \in Frame /\ g.obj = Top.obj /\ g.steps = Top.steps /\ g.at = Top.at + 1
          /\ g.todo = {}
      BY <1>1, <1>6, <2>1, TopFacts
    <2> QED
      BY <1>1, <1>2, <1>3, <1>5, <1>6, <2>1, <2>2, InPlaceWInv
  <1>7. CASE \E t \in Top.todo :
               stack' = Append(Append(Below, [Top EXCEPT !.todo = @ \ {t}]), Call(t.obj, t.steps))
    <2>1. PICK t \in Top.todo :
               stack' = Append(Append(Below, [Top EXCEPT !.todo = @ \ {t}]), Call(t.obj, t.steps))
      BY <1>7
    <2>2. PICK td : td = Top.todo \ {t}
      OBVIOUS
    <2>3. PICK g : g = [Top EXCEPT !.todo = td]
      OBVIOUS
    <2>4. PICK h : h = Call(t.obj, t.steps)
      OBVIOUS
    <2>5. stack' = Append(Append(Below, g), h)
      BY <2>1, <2>2, <2>3, <2>4, Zenon
    <2>6. t \in Entry /\ td \in SUBSET Entry
      BY <1>1, <2>1, <2>2 DEF Frame
    <2>7. /\ g \in Frame /\ g.obj = Top.obj /\ g.steps = Top.steps /\ g.at = Top.at
          /\ g.todo = td
      <3>1. \A f \in Frame, b \in SUBSET Entry :
              LET e == [f EXCEPT !.todo = b]
              IN  /\ e \in Frame /\ e.obj = f.obj /\ e.steps = f.steps /\ e.at = f.at
                  /\ e.todo = b /\ e.data = f.data
        BY DEF Frame
      <3> QED
        BY <1>1, <2>3, <2>6, <3>1
    <2>8. /\ h \in Frame /\ h.obj = t.obj /\ h.steps = t.steps /\ h.at = 1 /\ h.todo = {}
      BY <2>4, <2>6 DEF Call, Frame, Entry
    <2>9. /\ Kind(h.obj) # "execution"
          /\ is_done(root) => StepsAsListed(h.obj, h.steps)
      <3>1. stack[Len(stack)] = Top /\ Len(stack) \in 1 .. Len(stack)
        BY <1>1, StackShapes DEF Top, SInv, Typed
      <3>2. Kind(t.obj) # "execution"
        BY <2>1, <3>1 DEF WInv, ListedKinds
      <3>3. is_done(root) => StepsAsListed(t.obj, t.steps)
        BY <2>1, <3>1 DEF WInv, WholeSoFar, FrameWhole
      <3> QED
        BY <2>8, <3>2, <3>3
    <2>10. g.todo \subseteq Top.todo /\ \A e \in Top.todo \ g.todo : e.obj = h.obj
      BY <2>2, <2>7, <2>8
    <2>11. PICK st : st = sync_execution(FALSE)
      OBVIOUS
    <2>12. g.at \in {Top.at, Top.at + 1}
      BY <2>7
    <2>13. /\ DOMAIN fresh \subseteq DOMAIN fresh' /\ DOMAIN fresh' \subseteq DOMAIN fresh \cup {h.obj}
           /\ \A o \in DOMAIN fresh' : o \in DOMAIN fresh /\ fresh'[o] = fresh[o]
      BY <1>2
    <2> QED
      BY <1>1, <1>2, <1>4, <1>5, <2>5, <2>7, <2>8, <2>9, <2>10, <2>11, <2>12, <2>13, PushWInv
  <1> QED
    BY <1>6, <1>7 DEF each

LEMMA FetchWInv ==
  ASSUME WInv, fetch PROVE WInv'
  <1>1. /\ SInv /\ SInv' /\ AtStep("fetch") /\ stack # <<>> /\ Top \in Frame /\ FrameOK(Top)
        /\ At(Top, "fetch") /\ Top.todo = {} /\ Top.obj \in Objects /\ Top.at \in Nat
    BY FetchSInv, StepDone, TopFacts DEF WInv, fetch
  <1>2. PICK l : l = Launched(Top.obj)
    OBVIOUS
  <1>3. PICK g : g = Advanced(Top)
    OBVIOUS
  <1>4. PICK st : st = sync_execution(FALSE)
    OBVIOUS
  <1>5. PICK h : h = Call(l, st)
    OBVIOUS
  <1>6. /\ stack' = Append(Append(Below, g), h) /\ fresh' = WithNew({l})
        /\ UNCHANGED <<tree, phase, op, status, root, nodes>>
    BY <1>2, <1>3, <1>4, <1>5 DEF fetch, Push, Execution, Quiet, Backend
  <1>7. Kind(Top.obj) = "launch_plan_node"
    BY <1>1, AtFacts DEF FrameOK
  <1>8. l \in Children(Top.obj) /\ l \in Objects /\ Kind(l) = "execution"
    BY <1>1, <1>2, <1>7, LaunchedIsChild DEF SInv
  <1>9. {l} \in SUBSET Children(Top.obj)
    BY <1>8
  <1>10. /\ DOMAIN fresh' = DOMAIN fresh \cup {l}
         /\ \A o \in {l} : fresh'[o].phase = phase[o]
         /\ \A o \in DOMAIN fresh \ {l} : fresh'[o] = fresh[o]
    BY <1>1, <1>6, <1>9, NewlyRead
  <1>11. /\ g \in Frame /\ g.obj = Top.obj /\ g.steps = Top.steps /\ g.at = Top.at + 1
         /\ g.todo = {}
    BY <1>1, <1>3, TopFacts
  <1>12. st \in Seq(Steps)
    BY <1>4 DEF sync_execution, Steps
  <1>13. /\ h \in Frame /\ h.obj = l /\ h.steps = st /\ h.at = 1 /\ h.todo = {}
    BY <1>5, <1>8, <1>12 DEF Call, Frame
  <1>14. At(g, "sync")
    BY <1>1, <1>11, SyncAfterFetch DEF FrameOK
  <1>15. StepsAsListed(h.obj, h.steps)
    BY <1>8, <1>13 DEF StepsAsListed
  <1>16. PICK s \in {"each", "fetch", "sync"} : s = "fetch"
    OBVIOUS
  <1>17. AtStep(s)
    BY <1>1, <1>16
  <1>18. \A o \in DOMAIN fresh' :
           fresh'[o].phase = phase[o] \/ (o \in DOMAIN fresh /\ fresh'[o] = fresh[o])
    BY <1>10
  <1>19. g.at \in {Top.at, Top.at + 1}
    BY <1>11
  <1> QED
    BY <1>1, <1>2, <1>4, <1>6, <1>10, <1>11, <1>13, <1>14, <1>15, <1>17, <1>18, <1>19, PushWInv

LEMMA SyncWInv ==
  ASSUME WInv, sync PROVE WInv'
  <1>1. /\ SInv /\ SInv' /\ AtStep("sync") /\ stack # <<>> /\ Top \in Frame /\ FrameOK(Top)
        /\ At(Top, "sync") /\ Top.todo = {} /\ Top.obj \in Objects /\ Top.at \in Nat
    BY SyncSInv, StepDone, TopFacts DEF WInv, sync
  <1>2. PICK l : l = Launched(Top.obj)
    OBVIOUS
  <1>3. PICK g : g = Advanced(Top)
    OBVIOUS
  <1>4. PICK wt : wt = sync_execution(TRUE)
    OBVIOUS
  <1>5. PICK st : st = sync_execution(FALSE)
    OBVIOUS
  <1>6. PICK h : h = Call(l, wt)
    OBVIOUS
  <1>7. /\ stack' = Append(Append(Below, g), h)
        /\ UNCHANGED <<tree, phase, op, status, root, nodes, fresh>>
    BY <1>2, <1>3, <1>4, <1>6 DEF sync, Push, Execution, Quiet, Backend
  <1>8. Kind(Top.obj) = "launch_plan_node"
    BY <1>1, AtFacts DEF FrameOK
  <1>9. l \in Children(Top.obj) /\ l \in Objects /\ Kind(l) = "execution"
    BY <1>1, <1>2, <1>8, LaunchedIsChild DEF SInv
  <1>10. /\ g \in Frame /\ g.obj = Top.obj /\ g.steps = Top.steps /\ g.at = Top.at + 1
         /\ g.todo = {}
    BY <1>1, <1>3, TopFacts
  <1>11. wt \in Seq(Steps) /\ wt # st
    <2>1. Len(wt) = 5 /\ Len(st) = 3
      BY <1>4, <1>5 DEF sync_execution
    <2> QED
      BY <1>4, <2>1 DEF sync_execution, Steps
  <1>12. /\ h \in Frame /\ h.obj = l /\ h.steps = wt /\ h.at = 1 /\ h.todo = {}
    BY <1>6, <1>9, <1>11 DEF Call, Frame
  <1>13. StepsAsListed(h.obj, h.steps)
    BY <1>9, <1>12 DEF StepsAsListed
  <1>14. PICK s \in {"each", "fetch", "sync"} : s = "sync"
    OBVIOUS
  <1>15. AtStep(s)
    BY <1>1, <1>14
  <1>16. /\ DOMAIN fresh \subseteq DOMAIN fresh' /\ DOMAIN fresh' \subseteq DOMAIN fresh \cup {h.obj}
         /\ \A o \in DOMAIN fresh' : o \in DOMAIN fresh /\ fresh'[o] = fresh[o]
    BY <1>7
  <1>17. g.at \in {Top.at, Top.at + 1}
    BY <1>10
  <1> QED
    BY <1>1, <1>2, <1>5, <1>7, <1>10, <1>11, <1>12, <1>13, <1>15, <1>16, <1>17, PushWInv

LEMMA EmptiedWhole ==
  ASSUME stack' = <<>>, DOMAIN fresh' = {}
  PROVE  StartsEmpty' /\ FetchedFirst' /\ ListedKinds' /\ WholeSoFar'
  BY DEF StartsEmpty, FetchedFirst, ListedKinds, WholeSoFar

LEMMA ReturnsWInv ==
  ASSUME WInv, returns PROVE WInv'
  <1>1. /\ SInv /\ SInv' /\ stack # <<>> /\ Top \in Frame /\ FrameOK(Top)
        /\ Top.at > Len(Top.steps) /\ Top.at \in Nat /\ Top.steps \in Seq(Steps)
        /\ Top.obj \in Objects
    BY ReturnsSInv, TopFacts DEF WInv, returns
  <1>2. /\ stack' = Below /\ UNCHANGED <<tree, phase, op, root, nodes>>
        /\ Below # <<>> => status' = "sync"
        /\ fresh' = IF Below = <<>> THEN <<>> ELSE fresh
    BY DEF returns, Execution, Quiet, Backend
  <1>3. status = "sync" /\ (\A s : ~ At(Top, s)) /\ Top.todo = {}
    <2>1. \A s : ~ At(Top, s)
      BY <1>1 DEF At
    <2> QED
      BY <1>1, <2>1 DEF FrameOK, SInv, Typed, TypeOK
  <1>4. PICK n : n = Len(stack)
    OBVIOUS
  <1>5. /\ n \in Nat \ {0} /\ stack[n] = Top /\ Below \in Seq(Frame) /\ Len(Below) = n - 1
        /\ \A k \in 1 .. n - 1 : Below[k] = stack[k]
    BY <1>1, <1>4, StackShapes DEF SInv, Typed, Top
  <1>6. \A read : AllBelow(read)' <=> AllBelow(read)
    BY <1>2, TreeKept DEF AllBelow
  <1>7. CASE Below = <<>>
    <2>1. stack' = <<>> /\ DOMAIN fresh' = {} /\ n = 1
      BY <1>2, <1>5, <1>7
    <2>2. stack[1] = Top /\ Top.obj = Root
      BY <1>1, <1>5, <2>1 DEF SInv, Path
    <2>3. Past(stack[1], "assign")
      <3>1. Kind(Top.obj) = "execution"
        BY <1>1, <2>2 DEF SInv, Typed, IsTree, Kind
      <3>2. Past(Top, "assign")
        BY <1>1, <3>1, ListFirst DEF FrameOK
      <3> QED
        BY <2>2, <3>2
    <2>4. WholeAtEnd'
      BY <1>1, <1>2, <1>6, <2>3 DEF WInv, WholeAtEnd, is_done
    <2> QED
      BY <1>1, <2>1, <2>4, EmptiedWhole DEF WInv
  <1>8. CASE Below # <<>>
    <2>1. /\ status' = "sync" /\ fresh' = fresh
          /\ Len(stack') = n - 1 /\ n - 1 \in Nat \ {0} /\ stack' # <<>>
          /\ \A k \in 1 .. n - 1 : stack'[k] = stack[k]
          /\ stack'[1] = stack[1]
      <3>1. Len(Below) \in Nat \ {0}
        BY <1>5, <1>8
      <3> QED
        BY <1>2, <1>5, <1>8, <3>1
    <2>2. \A k \in 1 .. Len(stack) : k \in 1 .. n - 1 \/ k = n
      BY <1>4, <1>5
    <2>3. \A k \in 1 .. Len(stack') : k \in 1 .. Len(stack) /\ stack'[k] = stack[k]
      BY <1>4, <1>5, <2>1
    <2>4. StartsEmpty'
      <3>1. Past(stack[1], "list")
        <4>1. Len(stack) # 1
          BY <1>4, <1>5, <2>1
        <4> QED
          BY <1>1, <4>1 DEF WInv, StartsEmpty
      <3>2. Past(stack[1], "list")'
        BY <2>1, <3>1
      <3> QED
        BY <3>2 DEF StartsEmpty
    <2>5. FetchedFirst'
      <3>1. PICK st : st = sync_execution(FALSE)
        OBVIOUS
      <3> SUFFICES ASSUME NEW k \in 2 .. Len(stack'), Kind(stack'[k].obj) = "execution",
                          stack'[k].steps = st
                   PROVE  At(stack[k - 1], "sync")'
        BY <1>2, <3>1, TreeKept DEF FetchedFirst
      <3>2. k \in 1 .. Len(stack') /\ k - 1 \in 1 .. Len(stack') /\ k \in 2 .. Len(stack)
        BY <1>4, <1>5, <2>1
      <3>3. stack'[k] = stack[k] /\ stack'[k - 1] = stack[k - 1]
        BY <2>3, <3>2
      <3>4. At(stack[k - 1], "sync")
        BY <3>1, <3>2, <3>3 DEF WInv, FetchedFirst
      <3> QED
        BY <3>3, <3>4
    <2>6. ListedKinds'
      BY <1>2, <2>3, TreeKept DEF WInv, ListedKinds
    <2>7. WholeAtEnd'
      <3>1. Past(stack[1], "assign")' <=> Past(stack[1], "assign")
        BY <2>1
      <3> QED
        BY <1>1, <1>2, <1>6, <2>1, <3>1 DEF WInv, WholeAtEnd, is_done
    <2>8. ASSUME is_done(root) PROVE WholeSoFar'
      <3>1. /\ \A o, st : StepsAsListed(o, st)' <=> StepsAsListed(o, st)
            /\ \A o : ChildrenFound(o)' <=> ChildrenFound(o)
        <4>1. \A o, st : StepsAsListed(o, st)' <=> StepsAsListed(o, st)
          BY <1>2, Zenon DEF StepsAsListed, Kind, Launched, Children, sync_node_execution
        <4> QED
          BY <1>2, <2>1, <4>1, TreeKept DEF ChildrenFound
      <3>2. ASSUME NEW k \in 1 .. Len(stack') PROVE FrameWhole(stack[k])'
        <4>1. PICK f : f = stack[k]
          OBVIOUS
        <4>2. stack'[k] = f /\ FrameWhole(f)
          BY <2>3, <2>8, <4>1 DEF WInv, WholeSoFar
        <4>3. FrameWhole(f)'
          BY <3>1, <4>2 DEF FrameWhole, Past
        <4> QED
          BY <4>2, <4>3
      <3>3. ASSUME NEW o \in DOMAIN fresh, o # Top.obj
            PROVE  OnStack(o)' \/ OnList(o)' \/ AboutToSync(o)' \/ ChildrenFound(o)'
        <4>1. OnStack(o) \/ OnList(o) \/ AboutToSync(o) \/ ChildrenFound(o)
          BY <2>8 DEF WInv, WholeSoFar
        <4>2. OnStack(o) => OnStack(o)'
          BY <1>5, <2>1, <2>2, <3>3 DEF OnStack
        <4>3. OnList(o) => OnList(o)'
          BY <1>3, <1>5, <2>1, <2>2 DEF OnList
        <4>4. ASSUME AboutToSync(o) PROVE AboutToSync(o)'
          <5>1. PICK k \in 1 .. Len(stack) : At(stack[k], "sync") /\ Launched(stack[k].obj) = o
            BY <4>4 DEF AboutToSync
          <5>2. PICK f : f = stack[k]
            OBVIOUS
          <5>3. k \in 1 .. n - 1 /\ At(f, "sync") /\ Launched(f.obj) = o
            BY <1>3, <1>5, <2>2, <5>1, <5>2
          <5>4. stack'[k] = f /\ k \in 1 .. Len(stack') /\ Launched(f.obj)' = o
            BY <1>2, <2>1, <5>2, <5>3, TreeKept
          <5>5. At(stack[k], "sync")' /\ Launched(stack[k].obj)' = o
            BY <5>3, <5>4
          <5> QED
            BY <5>4, <5>5 DEF AboutToSync
        <4> QED
          BY <3>1, <4>1, <4>2, <4>3, <4>4
      <3>c. PICK c : c = Top.obj
        OBVIOUS
      <3>4. AboutToSync(c)' \/ ChildrenFound(c)
        <4>1. CASE Past(Top, "list")
          <5>1. FrameWhole(Top)
            BY <1>4, <1>5, <2>8 DEF WInv, WholeSoFar
          <5> QED
            BY <3>c, <4>1, <5>1 DEF FrameWhole
        <4>2. CASE Kind(Top.obj) = "launch_plan_node" /\ Past(Top, "fetch")
          <5>1. Children(Top.obj) = {Launched(Top.obj)}
            BY <1>1, <4>2, LaunchedIsChild DEF SInv
          <5> QED
            BY <1>1, <3>c, <4>2, <5>1 DEF ChildrenFound, FrameOK
        <4>3. CASE Kind(Top.obj) \in {"gate_node", "end_node", "task_execution"}
          BY <1>1, <3>c, <4>3 DEF SInv, Typed, IsTree, Kind, Children, ChildrenFound
        <4>4. CASE Kind(Top.obj) = "execution" /\ Top.steps = <<"closure", "data", "assign">>
          <5>1. Top.steps = sync_execution(FALSE)
            BY <4>4 DEF sync_execution
          <5>2. PICK f : f = stack[n - 1]
            OBVIOUS
          <5>4. n \in 2 .. Len(stack) /\ n - 1 \in 1 .. Len(stack) - 1 /\ (n - 1) + 1 = n
                /\ n - 1 \in 1 .. Len(stack') /\ n - 1 \in 1 .. Len(stack)
            BY <1>4, <1>5, <2>1
          <5>5. At(f, "sync")
            BY <1>5, <4>4, <5>1, <5>2, <5>4 DEF WInv, FetchedFirst
          <5>6. c \in Children(f.obj)
            BY <1>1, <1>5, <3>c, <5>2, <5>4 DEF SInv, Path
          <5>7. f \in Frame /\ FrameOK(f)
            BY <1>1, <5>2, <5>4 DEF SInv, Typed, FramesOK
          <5>8. f.obj \in Objects /\ Kind(f.obj) = "launch_plan_node"
            BY <5>5, <5>7, AtFacts DEF FrameOK, Frame
          <5>9. Launched(f.obj) = c
            BY <1>1, <5>6, <5>8, LaunchedIsChild DEF SInv
          <5>10. stack'[n - 1] = f /\ Launched(f.obj)' = c
            BY <1>2, <2>3, <5>2, <5>4, <5>9, TreeKept
          <5>11. At(stack[n - 1], "sync")' /\ Launched(stack[n - 1].obj)' = c
            BY <5>5, <5>10
          <5> QED
            BY <5>4, <5>11 DEF AboutToSync
        <4> QED
          BY <1>1, <4>1, <4>2, <4>3, <4>4, ListFirst DEF FrameOK
      <3>5. \A o \in DOMAIN fresh' : fresh'[o].phase = phase'[o]
        BY <1>2, <2>1, <2>8 DEF WInv, WholeSoFar
      <3>6. \A o \in DOMAIN fresh' :
              OnStack(o)' \/ OnList(o)' \/ AboutToSync(o)' \/ ChildrenFound(o)'
        BY <2>1, <3>1, <3>3, <3>c, <3>4
      <3> QED
        BY <3>2, <3>5, <3>6 DEF WholeSoFar
    <2>9. WholeSoFar'
      <3>1. CASE ~ is_done(root)
        BY <1>2, <3>1 DEF WholeSoFar, is_done
      <3> QED
        BY <2>8, <3>1
    <2> QED
      BY <1>1, <2>4, <2>5, <2>6, <2>7, <2>9 DEF WInv
  <1> QED
    BY <1>7, <1>8

(* An execution that is known as done does not move on. *)
LEMMA MovesOnWInv ==
  ASSUME WInv, terminate \/ BackendStep \/ UNCHANGED vars PROVE WInv'
  <1>1. SInv /\ SInv' /\ UNCHANGED <<tree, status, op, stack, root, nodes, fresh>>
    BY MovesOnSInv DEF WInv, terminate, BackendStep, vars, Execution
  <1>2. StartsEmpty' /\ FetchedFirst' /\ ListedKinds'
    BY <1>1 DEF WInv, StartsEmpty, FetchedFirst, ListedKinds, Kind, At, Past
  <1>3. CASE is_done(root)
    <2>1. phase' = phase
      <3>1. \A o \in Objects : phase[o] # "running"
        BY <1>1, <1>3, Frozen DEF SInv, ClientOK, is_done
      <3>2. ~ BackendStep
        BY <3>1 DEF BackendStep, ends, appears
      <3> QED
        BY <3>2 DEF terminate, vars
    <2>2. /\ \A o, st : StepsAsListed(o, st)' <=> StepsAsListed(o, st)
          /\ \A o : ChildrenFound(o)' <=> ChildrenFound(o)
      <3>1. \A o, st : StepsAsListed(o, st)' <=> StepsAsListed(o, st)
        BY <1>1, <2>1, Zenon DEF StepsAsListed, Kind, Launched, Children, sync_node_execution
      <3> QED
        BY <1>1, <2>1, <3>1, TreeKept DEF ChildrenFound
    <2>3. \A f : FrameWhole(f) => FrameWhole(f)'
      BY <2>2 DEF FrameWhole, Past
    <2>4. \A o : /\ OnStack(o) => OnStack(o)'
                 /\ OnList(o) => OnList(o)'
                 /\ AboutToSync(o) => AboutToSync(o)'
      BY <1>1 DEF OnStack, OnList, AboutToSync, At, Launched, Children
    <2>5. WholeSoFar'
      <3>1. ASSUME NEW k \in 1 .. Len(stack') PROVE FrameWhole(stack[k])'
        <4>1. PICK f : f = stack[k]
          OBVIOUS
        <4>2. stack'[k] = f /\ FrameWhole(f)
          BY <1>1, <1>3, <4>1 DEF WInv, WholeSoFar
        <4> QED
          BY <2>3, <4>2
      <3>2. \A o \in DOMAIN fresh' :
              /\ fresh'[o].phase = phase'[o]
              /\ OnStack(o)' \/ OnList(o)' \/ AboutToSync(o)' \/ ChildrenFound(o)'
        BY <1>1, <1>3, <2>1, <2>2, <2>4 DEF WInv, WholeSoFar
      <3> QED
        BY <3>1, <3>2 DEF WholeSoFar
    <2>6. WholeAtEnd'
      BY <1>1, <2>1 DEF WInv, WholeAtEnd, AllBelow, Objects, is_done, Past
    <2> QED
      BY <1>1, <1>2, <2>5, <2>6 DEF WInv
  <1>4. CASE ~ is_done(root)
    BY <1>1, <1>2, <1>4 DEF WInv, WholeSoFar, WholeAtEnd, is_done
  <1> QED
    BY <1>3, <1>4

(* A sync begins, or wait is over. *)
LEMMA StartSyncWInv ==
  ASSUME WInv, wait_wakes \/ \E o \in {"wait", "sync"} : CallMethod(o) PROVE WInv'
  <1>1. SInv /\ SInv'
    BY StartSyncSInv DEF WInv
  <1>2. /\ UNCHANGED <<tree, phase, root, nodes, fresh>> /\ stack = <<>>
        /\ \/ status' = "timed_out" /\ stack' = <<>>
           \/ status' = "sync" /\ \E w \in BOOLEAN : stack' = <<Call(Root, sync_execution(w))>>
    <2>1. CASE wait_wakes
      <3>1. UNCHANGED <<tree, phase>> /\ stack = <<>>
        BY <1>1, <2>1 DEF wait_wakes, Quiet, Backend, SInv, Typed, TypeOK
      <3> QED
        BY <2>1, <3>1 DEF wait_wakes, StartSync, Execution
    <2>2. ASSUME NEW o \in {"wait", "sync"}, CallMethod(o) PROVE <1>2!:
      <3>1. UNCHANGED <<tree, phase>> /\ stack = <<>>
        BY <1>1, <2>2 DEF CallMethod, Backend, SInv, Typed, TypeOK, Ended
      <3>2. PICK w \in BOOLEAN : w = (o = "wait")
        OBVIOUS
      <3>3. /\ UNCHANGED <<root, nodes, fresh>> /\ status' = "sync"
            /\ stack' = <<Call(Root, sync_execution(w))>>
        BY <2>2, <3>2 DEF CallMethod, StartSync, Execution
      <3> QED
        BY <3>1, <3>3
    <2> QED
      BY <2>1, <2>2
  <1>3. DOMAIN fresh' = {}
    BY <1>1, <1>2 DEF SInv, ClientOK
  <1>4. CASE status' = "timed_out" /\ stack' = <<>>
    BY <1>1, <1>3, <1>4, EmptiedWhole DEF WInv, WholeAtEnd
  <1>5. CASE status' = "sync" /\ \E w \in BOOLEAN : stack' = <<Call(Root, sync_execution(w))>>
    <2>1. PICK w \in BOOLEAN : stack' = <<Call(Root, sync_execution(w))>>
      BY <1>5
    <2>2. PICK st : st = sync_execution(w)
      OBVIOUS
    <2>3. PICK g : g = Call(Root, st)
      OBVIOUS
    <2>4. Len(stack') = 1 /\ stack'[1] = g
      BY <2>1, <2>2, <2>3
    <2>5. g.obj = Root /\ g.at = 1 /\ g.todo = {} /\ g.steps = st
      BY <2>3 DEF Call
    <2>6. \A r : ~ Past(g, r)
      <3>1. /\ <<"closure", "data", "list", "each", "assign">> \in Seq(Steps)
            /\ <<"closure", "data", "assign">> \in Seq(Steps)
        BY DEF Steps
      <3>2. st \in Seq(Steps)
        BY <2>2, <3>1 DEF sync_execution
      <3> QED
        BY <2>5, <3>2 DEF Past
    <2>7. \A r : ~ Past(stack[1], r)'
      BY <2>4, <2>6
    <2>8. FrameWhole(g)'
      <3>1. Kind(g.obj)' = "execution"
        BY <1>1, <1>2, <2>5, TreeKept DEF SInv, Typed, IsTree, Kind
      <3> QED
        BY <2>5, <2>6, <3>1 DEF FrameWhole, StepsAsListed, Past
    <2>9. StartsEmpty' /\ FetchedFirst' /\ ListedKinds'
      BY <1>3, <2>4, <2>5 DEF StartsEmpty, FetchedFirst, ListedKinds
    <2>10. WholeSoFar'
      BY <1>3, <2>4, <2>8 DEF WholeSoFar
    <2>11. WholeAtEnd'
      BY <1>5, <2>7 DEF WholeAtEnd
    <2> QED
      BY <1>1, <2>9, <2>10, <2>11 DEF WInv
  <1> QED
    BY <1>2, <1>4, <1>5

(* The steps before an execution is held, and a read that raises. *)
LEMMA OutsideWInv ==
  ASSUME WInv, CallExecute \/ create_execution \/ get_execution \/ read_raises PROVE WInv'
  <1>1. SInv /\ SInv'
    BY CallExecuteSInv, CreateSInv, GetExecutionSInv, ReadRaisesSInv DEF WInv
  <1>2. stack' = <<>> /\ DOMAIN fresh' = {}
    <2>1. CASE read_raises
      BY <2>1 DEF read_raises
    <2>2. CASE CallExecute
      BY <1>1, <2>2 DEF CallExecute, SInv, Typed, TypeOK, ClientOK, Ended
    <2>3. CASE create_execution
      BY <1>1, <2>3 DEF create_execution, SInv, Typed, TypeOK, ClientOK
    <2>4. CASE get_execution
      BY <1>1, <2>4 DEF get_execution, SInv, Typed, TypeOK, ClientOK
    <2> QED
      BY <2>1, <2>2, <2>3, <2>4
  <1>3. op' = "execute" \/ status' = "raised"
    <2>1. CASE create_execution
      BY <1>1, <2>1 DEF create_execution, SInv, ClientOK
    <2>2. CASE get_execution
      BY <1>1, <2>2 DEF get_execution, SInv, ClientOK
    <2> QED
      BY <2>1, <2>2 DEF CallExecute, read_raises
  <1>4. WholeAtEnd'
    BY <1>2, <1>3 DEF WholeAtEnd
  <1> QED
    BY <1>1, <1>2, <1>4, EmptiedWhole DEF WInv

LEMMA NextWInv ==
  ASSUME WInv, [Next]_vars PROVE WInv'
  <1>1. CASE CallExecute \/ create_execution \/ get_execution \/ read_raises
    BY <1>1, OutsideWInv
  <1>2. CASE wait_wakes \/ \E o \in {"wait", "sync"} : CallMethod(o)
    BY <1>2, StartSyncWInv
  <1>3. CASE closure
    BY <1>3, ClosureWInv
  <1>4. CASE data
    BY <1>4, DataWInv
  <1>5. CASE list
    BY <1>5, ListWInv
  <1>6. CASE each
    BY <1>6, EachWInv
  <1>7. CASE fetch
    BY <1>7, FetchWInv
  <1>8. CASE sync
    BY <1>8, SyncWInv
  <1>9. CASE take
    BY <1>9, TakeWInv
  <1>10. CASE assign
    BY <1>10, AssignWInv
  <1>11. CASE returns
    BY <1>11, ReturnsWInv
  <1>12. CASE terminate \/ BackendStep \/ UNCHANGED vars
    BY <1>12, MovesOnWInv
  <1> QED
    BY <1>1, <1>2, <1>3, <1>4, <1>5, <1>6, <1>7, <1>8, <1>9, <1>10, <1>11, <1>12
    DEF Next, ClientStep

(* When wait returns an execution as done, it has found every object below
   it and each of them as it ended, however the tree of executions looks and
   whenever the execution ended between the reads: the closure is read before
   anything is listed, and a launched execution is fetched before its nodes. *)
THEOREM EverythingFound == Spec => []DoneIsWhole
  <1>1. Init => WInv
    <2> SUFFICES ASSUME Init PROVE WInv
      OBVIOUS
    <2>1. SInv
      BY InitSInv
    <2>2. stack = <<>> /\ DOMAIN fresh = {} /\ op = "none"
      BY DEF Init
    <2>3. StartsEmpty /\ FetchedFirst /\ ListedKinds /\ WholeSoFar /\ WholeAtEnd
      BY <2>2 DEF StartsEmpty, FetchedFirst, ListedKinds, WholeSoFar, WholeAtEnd
    <2> QED
      BY <2>1, <2>3 DEF WInv
  <1>2. WInv /\ [Next]_vars => WInv'
    BY NextWInv
  <1>3. WInv => DoneIsWhole
    BY DEF WInv, WholeAtEnd, AllBelow, DoneIsWhole, Synced
  <1> QED
    BY <1>1, <1>2, <1>3, PTL DEF Spec
=============================================================================
