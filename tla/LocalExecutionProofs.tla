------------------------ MODULE LocalExecutionProofs ------------------------
(* The context stack of local execution, for every program: any nesting of
   workflows, sections and array nodes, any number of calls. *)
EXTENDS LocalExecution, SequenceTheorems, TLAPS

(***************************************************************************)
(* The inductive invariant, as a predicate of a list of contexts cs, a     *)
(* stack of frames fs and the exception flag e.                            *)
(***************************************************************************)
SkippedAt(cs, i) == cs[cs[i].es].local /\ cs[cs[i].es].branch = "skipped"

(* A call owns the ExecutionStates of everything above its caller's        *)
(* context, so that no branch inside of it writes below; and it was not    *)
(* made in a skipped branch.                                               *)
CallOK(cs, fs, i) ==
    /\ Len(fs[i].saved) = i
    /\ \A k \in 1..i : fs[i].saved[k] = cs[k]
    /\ \A k \in (i + 1)..Len(cs) : cs[k].es > i
    /\ ~SkippedAt(cs, i)

FrameOK(cs, fs, i) ==
    /\ fs[i].base = i + 1
    /\ fs[i].kind = "section" => i > 1 /\ fs[i - 1].kind # "array"
    /\ fs[i].kind # "section" => CallOK(cs, fs, i)
    /\ fs[i].kind = "array" => cs[i + 1].es = i + 1 /\ cs[i + 1].branch # "skipped"

(* Contexts leak only while an exception travels through sections and      *)
(* workflows.                                                              *)
Clean(fs, e) == ~e \/ fs = <<>> \/ fs[Len(fs)].kind = "array"

Stacked(cs, fs, e) ==
    /\ cs \in Seq(Context) /\ fs \in Seq(Frame)
    /\ Len(cs) >= Len(fs) + 1
    /\ Clean(fs, e) => Len(cs) = Len(fs) + 1
    /\ cs[1] = Default
    /\ \A k \in 2..Len(cs) : cs[k].es \in 2..k
    /\ \A i \in 1..Len(fs) : FrameOK(cs, fs, i)

IInv ==
    /\ TypeOK
    /\ Stacked(ctxs, frames, exc)
    /\ FailureHandlerRuns

-----------------------------------------------------------------------------
(* Facts about sequences.                                                  *)

LEMMA PrefixFacts ==
    ASSUME NEW S, NEW s \in Seq(S), NEW n \in 0..Len(s)
    PROVE  /\ SubSeq(s, 1, n) \in Seq(S)
           /\ Len(SubSeq(s, 1, n)) = n
           /\ \A i \in 1..n : SubSeq(s, 1, n)[i] = s[i]
<1>1. n \in Int /\ 1 \in Int /\ n - 1 + 1 = n
  OBVIOUS
<1>2. \A i \in 1..n : s[i] \in S
  OBVIOUS
<1>3. CASE n = 0
  BY <1>1, <1>2, <1>3, SubSeqProperties
<1>4. CASE n >= 1
  BY <1>1, <1>2, <1>4, SubSeqProperties
<1> QED BY <1>3, <1>4

LEMMA FrontFacts ==
    ASSUME NEW S, NEW s \in Seq(S), s # <<>>
    PROVE  /\ Front(s) \in Seq(S)
           /\ Len(Front(s)) = Len(s) - 1
           /\ \A i \in 1..(Len(s) - 1) : Front(s)[i] = s[i]
<1>1. Len(s) \in Nat /\ Len(s) >= 1
  OBVIOUS
<1>2. Len(s) - 1 \in 0..Len(s)
  BY <1>1
<1> QED BY <1>2, PrefixFacts DEF Front

(* Every frame has a base, a kind and the nested flag; those of calls a    *)
(* saved list.                                                             *)
LEMMA FrameFacts ==
    ASSUME NEW f \in Frame
    PROVE  /\ f.kind \in {"workflow", "section", "array"}
           /\ f.base \in Nat
           /\ f.nested \in BOOLEAN
           /\ f.kind # "section" => f.saved \in Seq(Context)
           /\ f.kind = "workflow" <=> f \in WorkflowFrame
           /\ f.kind = "section" <=> f \in SectionFrame
           /\ f.kind = "array" <=> f \in ArrayFrame
BY DEF Frame, WorkflowFrame, SectionFrame, ArrayFrame

-----------------------------------------------------------------------------
(* The ways in which a step changes the two stacks.                        *)

(* Frames that differ in nothing the invariant looks at.                   *)
Alike(fs, gs) ==
    /\ gs \in Seq(Frame)
    /\ Len(gs) = Len(fs)
    /\ \A i \in 1..Len(fs) :
        /\ gs[i].kind = fs[i].kind
        /\ gs[i].base = fs[i].base
        /\ fs[i].kind # "section" => gs[i].saved = fs[i].saved

LEMMA AlikeStacked ==
    ASSUME NEW cs, NEW fs, NEW gs, NEW e, NEW e2, Stacked(cs, fs, e),
           Alike(fs, gs), Clean(fs, e2) => Len(cs) = Len(fs) + 1
    PROVE  Stacked(cs, gs, e2)
<1>1. \A i \in 1..Len(gs) : FrameOK(cs, gs, i)
  <2>1. SUFFICES ASSUME NEW i \in 1..Len(gs) PROVE FrameOK(cs, gs, i)
    OBVIOUS
  <2>2. Len(gs) = Len(fs) /\ i \in 1..Len(fs) /\ i \in Nat
    BY DEF Alike, Stacked
  <2>3. FrameOK(cs, fs, i)
    BY <2>2 DEF Stacked
  <2>4. i > 1 => i - 1 \in 1..Len(fs)
    BY <2>2 DEF Stacked
  <2>5. gs[i].kind # "section" => CallOK(cs, gs, i)
    BY <2>2, <2>3 DEF FrameOK, CallOK, Alike
  <2> QED BY <2>2, <2>3, <2>4, <2>5 DEF FrameOK, Alike
<1>2. Clean(gs, e2) => Len(cs) = Len(gs) + 1
  BY DEF Clean, Alike, Stacked
<1> QED BY <1>1, <1>2 DEF Stacked, Alike

(* Entering a call or a section.                                           *)
LEMMA PushStacked ==
    ASSUME NEW cs, NEW fs, NEW c \in Context, NEW f \in Frame,
           Stacked(cs, fs, FALSE),
           c.es \in 2..(Len(cs) + 1),
           \A i \in 1..Len(fs) : fs[i].kind # "section" => c.es > i,
           f.base = Len(cs) + 1,
           f.kind = "section" => Len(fs) > 0 /\ fs[Len(fs)].kind # "array",
           f.kind # "section" =>
              f.saved = cs /\ c.es = Len(cs) + 1 /\ ~SkippedAt(cs, Len(cs)),
           f.kind = "array" => c.branch # "skipped"
    PROVE  Stacked(Append(cs, c), Append(fs, f), FALSE)
<1> DEFINE ds == Append(cs, c)
           gs == Append(fs, f)
           n == Len(fs)
<1>1. cs \in Seq(Context) /\ fs \in Seq(Frame) /\ n \in Nat /\ Len(cs) = n + 1
  BY DEF Stacked, Clean
<1>2. /\ ds \in Seq(Context) /\ Len(ds) = n + 2 /\ ds[n + 2] = c
      /\ \A k \in 1..(n + 1) : ds[k] = cs[k]
  BY <1>1
<1>3. /\ gs \in Seq(Frame) /\ Len(gs) = n + 1 /\ gs[n + 1] = f
      /\ \A k \in 1..n : gs[k] = fs[k]
  BY <1>1
<1>4. cs[1] = Default /\ cs[1].es = 1 /\ (\A k \in 2..(n + 1) : cs[k].es \in 2..k)
  BY <1>1 DEF Stacked, Default
<1> HIDE DEF ds, gs
<1>5. \A k \in 2..(n + 2) : ds[k].es \in 2..k
  BY <1>1, <1>2, <1>4
<1>6. \A k \in 1..(n + 1) : SkippedAt(ds, k) <=> SkippedAt(cs, k)
  <2>1. \A k \in 1..(n + 1) : cs[k].es \in 1..(n + 1)
    BY <1>1, <1>4
  <2> QED BY <1>2, <2>1 DEF SkippedAt
<1>7. \A i \in 1..n : FrameOK(ds, gs, i)
  <2>1. SUFFICES ASSUME NEW i \in 1..n PROVE FrameOK(ds, gs, i)
    OBVIOUS
  <2>2. FrameOK(cs, fs, i)
    BY DEF Stacked
  <2>3. /\ gs[i] = fs[i] /\ i \in 1..(n + 1) /\ i + 1 \in 1..(n + 1)
        /\ i > 1 => i - 1 \in 1..n /\ gs[i - 1] = fs[i - 1]
        /\ ds[i + 1] = cs[i + 1]
    <3>1. n \in Nat /\ i \in 1..(n + 1) /\ i + 1 \in 1..(n + 1)
      BY <1>1
    <3>2. i > 1 => i - 1 \in 1..n
      BY <1>1
    <3>3. gs[i] = fs[i] /\ ds[i + 1] = cs[i + 1]
      BY <1>2, <1>3, <3>1
    <3>4. i > 1 => gs[i - 1] = fs[i - 1]
      BY <1>3, <3>2
    <3> QED BY <3>1, <3>2, <3>3, <3>4
  <2>4. ASSUME fs[i].kind # "section" PROVE CallOK(ds, gs, i)
    <3>1. CallOK(cs, fs, i) /\ c.es > i
      BY <2>2, <2>4 DEF FrameOK
    <3>2. \A k \in 1..i : ds[k] = cs[k]
      BY <1>1, <1>2
    <3>3. \A k \in (i + 1)..(n + 2) : ds[k].es > i
      <4>1. SUFFICES ASSUME NEW k \in (i + 1)..(n + 2) PROVE ds[k].es > i
        OBVIOUS
      <4>2. CASE k = n + 2
        BY <1>2, <3>1, <4>2
      <4>3. CASE k # n + 2
        <5>1. k \in 1..(n + 1) /\ k \in (i + 1)..Len(cs)
          BY <1>1, <4>3
        <5> QED BY <1>2, <3>1, <5>1 DEF CallOK
      <4> QED BY <4>2, <4>3
    <3> QED BY <1>2, <1>6, <2>3, <3>1, <3>2, <3>3 DEF CallOK
  <2> QED BY <2>2, <2>3, <2>4 DEF FrameOK
<1>8. FrameOK(ds, gs, n + 1)
  <2>1. /\ gs[n + 1] = f /\ ds[n + 2] = c /\ f.base = n + 2
        /\ n > 0 => gs[n] = fs[n]
    BY <1>1, <1>2, <1>3
  <2>2. ASSUME f.kind # "section" PROVE CallOK(ds, gs, n + 1)
    <3>1. f.saved = cs /\ c.es = n + 2 /\ ~SkippedAt(ds, n + 1)
      BY <1>1, <1>6, <2>2
    <3>2. \A k \in (n + 2)..Len(ds) : ds[k].es > n + 1
      BY <1>1, <1>2, <3>1
    <3> QED BY <1>1, <1>2, <2>1, <3>1, <3>2 DEF CallOK
  <2>3. (n + 1) - 1 = n /\ (n + 1) + 1 = n + 2
    BY <1>1
  <2>4. f.kind = "section" => n + 1 > 1 /\ fs[n].kind # "array"
    BY <1>1
  <2>5. f.kind = "array" => ds[n + 2].es = n + 2 /\ ds[n + 2].branch # "skipped"
    BY <1>1, <2>1
  <2> QED BY <1>1, <2>1, <2>2, <2>3, <2>4, <2>5 DEF FrameOK
<1>9. \A i \in 1..Len(gs) : FrameOK(ds, gs, i)
  BY <1>1, <1>3, <1>7, <1>8
<1>10. ds[1] = Default
  BY <1>1, <1>2, <1>4
<1> QED BY <1>1, <1>2, <1>3, <1>5, <1>9, <1>10 DEF Stacked, ds, gs

(* Leaving a call: with_context cuts the list down to what the caller had, *)
(* whatever was leaked on top.                                             *)
LEMMA ExitStacked ==
    ASSUME NEW cs, NEW fs, NEW e, NEW e2, Stacked(cs, fs, e), fs # <<>>,
           fs[Len(fs)].kind # "section"
    PROVE  /\ Stacked(with_context_exit(cs, fs[Len(fs)].base), Front(fs), e2)
           /\ ~SkippedAt(with_context_exit(cs, fs[Len(fs)].base), Len(fs))
           /\ Len(with_context_exit(cs, fs[Len(fs)].base)) = Len(fs)
<1> DEFINE n == Len(fs)
           ds == SubSeq(cs, 1, n)
           gs == Front(fs)
<1>1. /\ cs \in Seq(Context) /\ fs \in Seq(Frame) /\ n \in Nat /\ n >= 1
      /\ Len(cs) \in Nat /\ Len(cs) >= n + 1
  BY DEF Stacked
<1>2. FrameOK(cs, fs, n) /\ CallOK(cs, fs, n)
  BY <1>1 DEF Stacked, FrameOK
<1>3. with_context_exit(cs, fs[Len(fs)].base) = ds
  <2>1. fs[n].base = n + 1 /\ (n + 1) - 1 = n
    BY <1>1, <1>2 DEF FrameOK
  <2> QED BY <2>1 DEF with_context_exit
<1>4. ds \in Seq(Context) /\ Len(ds) = n /\ \A k \in 1..n : ds[k] = cs[k]
  <2>1. n \in 0..Len(cs)
    BY <1>1
  <2> QED BY <1>1, <2>1, PrefixFacts
<1>5. gs \in Seq(Frame) /\ Len(gs) = n - 1 /\ \A k \in 1..(n - 1) : gs[k] = fs[k]
  BY <1>1, FrontFacts
<1> HIDE DEF ds, gs
<1>6. cs[1] = Default /\ cs[1].es = 1 /\ (\A k \in 2..n : cs[k].es \in 2..k)
  BY <1>1 DEF Stacked, Default
<1>7. \A k \in 1..n : SkippedAt(ds, k) <=> SkippedAt(cs, k)
  <2>1. \A k \in 1..n : cs[k].es \in 1..n
    BY <1>1, <1>6
  <2> QED BY <1>4, <2>1 DEF SkippedAt
<1>8. \A i \in 1..Len(gs) : FrameOK(ds, gs, i)
  <2>1. SUFFICES ASSUME NEW i \in 1..(n - 1) PROVE FrameOK(ds, gs, i)
    BY <1>5
  <2>2. FrameOK(cs, fs, i)
    BY <1>1 DEF Stacked
  <2>3. /\ gs[i] = fs[i] /\ i \in 1..n /\ i + 1 \in 1..n
        /\ i > 1 => i - 1 \in 1..(n - 1) /\ gs[i - 1] = fs[i - 1]
        /\ ds[i + 1] = cs[i + 1]
    <3>1. i \in 1..n /\ i + 1 \in 1..n /\ (i > 1 => i - 1 \in 1..(n - 1))
      BY <1>1
    <3> QED BY <1>4, <1>5, <3>1
  <2>4. ASSUME fs[i].kind # "section" PROVE CallOK(ds, gs, i)
    <3>1. CallOK(cs, fs, i)
      BY <2>2, <2>4 DEF FrameOK
    <3>2. \A k \in 1..i : ds[k] = cs[k]
      BY <1>1, <1>4
    <3>3. \A k \in (i + 1)..n : k \in (i + 1)..Len(cs) /\ ds[k] = cs[k]
      BY <1>1, <1>4
    <3>4. \A k \in (i + 1)..n : ds[k].es > i
      BY <3>1, <3>3 DEF CallOK
    <3> QED BY <1>4, <1>7, <2>3, <3>1, <3>2, <3>4 DEF CallOK
  <2> QED BY <2>2, <2>3, <2>4 DEF FrameOK
<1>9. \A k \in 2..Len(ds) : ds[k].es \in 2..k
  BY <1>1, <1>4, <1>6
<1>10. ds[1] = Default /\ Len(ds) = Len(gs) + 1
  BY <1>1, <1>4, <1>5, <1>6
<1>11. Stacked(ds, gs, e2)
  BY <1>1, <1>4, <1>5, <1>8, <1>9, <1>10 DEF Stacked
<1>12. ~SkippedAt(ds, n)
  BY <1>1, <1>2, <1>7 DEF CallOK
<1> QED BY <1>3, <1>4, <1>11, <1>12 DEF gs

(* An exception leaves a section, whose context stays behind.              *)
LEMMA DropStacked ==
    ASSUME NEW cs, NEW fs, Stacked(cs, fs, TRUE), fs # <<>>,
           fs[Len(fs)].kind = "section"
    PROVE  Stacked(cs, Front(fs), TRUE)
<1> DEFINE n == Len(fs)
           gs == Front(fs)
<1>1. /\ cs \in Seq(Context) /\ fs \in Seq(Frame) /\ n \in Nat /\ n >= 1
      /\ Len(cs) \in Nat /\ Len(cs) >= n + 1
  BY DEF Stacked
<1>2. gs \in Seq(Frame) /\ Len(gs) = n - 1 /\ \A k \in 1..(n - 1) : gs[k] = fs[k]
  BY <1>1, FrontFacts
<1> HIDE DEF gs
<1>3. n > 1 /\ fs[n - 1].kind # "array"
  BY <1>1 DEF Stacked, FrameOK
<1>4. ~Clean(gs, TRUE)
  BY <1>1, <1>2, <1>3 DEF Clean
<1>5. \A i \in 1..Len(gs) : FrameOK(cs, gs, i)
  <2>1. SUFFICES ASSUME NEW i \in 1..(n - 1) PROVE FrameOK(cs, gs, i)
    BY <1>2
  <2>2. FrameOK(cs, fs, i)
    BY <1>1 DEF Stacked
  <2>3. /\ gs[i] = fs[i]
        /\ i > 1 => i - 1 \in 1..(n - 1) /\ gs[i - 1] = fs[i - 1]
    BY <1>1, <1>2
  <2> QED BY <2>2, <2>3 DEF FrameOK, CallOK
<1>6. Len(cs) >= Len(gs) + 1
  BY <1>1, <1>2
<1>7. Stacked(cs, gs, TRUE)
  BY <1>2, <1>4, <1>5, <1>6 DEF Stacked
<1> QED BY <1>7 DEF gs

(* take_branch and branch_complete write into an ExecutionState that       *)
(* belongs to the innermost open call.                                     *)
LEMMA SetModeStacked ==
    ASSUME NEW cs, NEW fs, NEW mode \in BranchEvalMode, Stacked(cs, fs, FALSE),
           fs # <<>>, fs[Len(fs)].kind = "section"
    PROVE  Stacked(SetMode(cs, mode), fs, FALSE)
<1> DEFINE n == Len(fs)
           p == cs[n + 1].es
           ds == [cs EXCEPT ![p].branch = mode]
<1>1. /\ cs \in Seq(Context) /\ fs \in Seq(Frame) /\ n \in Nat /\ n >= 1
      /\ Len(cs) = n + 1
  BY DEF Stacked, Clean
<1>2. p \in 2..(n + 1)
  BY <1>1 DEF Stacked
<1>3. SetMode(cs, mode) = ds
  BY <1>1 DEF SetMode, Last
<1>4. cs[p] \in Context
  BY <1>1, <1>2
<1>5. [cs[p] EXCEPT !.branch = mode] \in Context
  BY <1>4 DEF Context
<1>6. /\ ds \in Seq(Context) /\ Len(ds) = n + 1
      /\ \A k \in 1..(n + 1) : k # p => ds[k] = cs[k]
      /\ ds[p] = [cs[p] EXCEPT !.branch = mode]
  BY <1>1, <1>2, <1>5
<1>7. \A k \in 1..(n + 1) : ds[k].es = cs[k].es
  <2>1. ds[p].es = cs[p].es
    BY <1>4, <1>6 DEF Context
  <2> QED BY <1>6, <2>1
<1> HIDE DEF ds, p
<1>8. ds[1] = Default /\ cs[1].es = 1 /\ (\A k \in 2..(n + 1) : ds[k].es \in 2..k)
  <2>1. cs[1] = Default /\ (\A k \in 2..(n + 1) : cs[k].es \in 2..k)
    BY <1>1 DEF Stacked
  <2>2. ds[1] = cs[1]
    BY <1>1, <1>2, <1>6
  <2> QED BY <1>1, <1>7, <2>1, <2>2 DEF Default
<1>9. \A i \in 1..Len(fs) : FrameOK(ds, fs, i)
  <2>1. SUFFICES ASSUME NEW i \in 1..n PROVE FrameOK(ds, fs, i)
    OBVIOUS
  <2>2. FrameOK(cs, fs, i)
    BY <1>1 DEF Stacked
  <2>3. ASSUME fs[i].kind # "section" PROVE CallOK(ds, fs, i) /\ p > i
    <3>1. CallOK(cs, fs, i)
      BY <2>2, <2>3 DEF FrameOK
    <3>2. p > i
      BY <1>1, <3>1 DEF CallOK, p
    <3>3. \A k \in 1..i : k \in 1..(n + 1) /\ k # p /\ ds[k] = cs[k]
      BY <1>1, <1>2, <1>6, <3>2
    <3>4. \A k \in (i + 1)..Len(ds) : ds[k].es > i
      BY <1>1, <1>6, <1>7, <3>1 DEF CallOK
    <3>5. cs[i].es \in 1..i
      BY <1>1, <1>8, <1>7
    <3>6. ~SkippedAt(ds, i)
      <4>1. ds[i] = cs[i] /\ ds[cs[i].es] = cs[cs[i].es]
        BY <1>1, <3>3, <3>5
      <4> QED BY <3>1, <4>1 DEF CallOK, SkippedAt
    <3> QED BY <3>1, <3>2, <3>3, <3>4, <3>6 DEF CallOK
  <2>4. ASSUME fs[i].kind = "array" PROVE p > i + 1 /\ ds[i + 1] = cs[i + 1]
    <3>1. i # n /\ i + 1 \in 1..n /\ (i + 1) - 1 = i
      BY <1>1, <2>4
    <3>2. fs[i + 1].kind # "section"
      BY <1>1, <2>4, <3>1 DEF Stacked, FrameOK
    <3>3. CallOK(cs, fs, i + 1)
      BY <1>1, <3>1, <3>2 DEF Stacked, FrameOK
    <3>4. p > i + 1
      BY <1>1, <3>1, <3>3 DEF CallOK, p
    <3> QED BY <1>1, <1>2, <1>6, <3>1, <3>4
  <2> QED BY <2>2, <2>3, <2>4 DEF FrameOK
<1> QED BY <1>1, <1>3, <1>6, <1>8, <1>9 DEF Stacked

(* The last branch of a section pops its context.                          *)
LEMMA PopStacked ==
    ASSUME NEW cs, NEW fs, NEW e2, Stacked(cs, fs, FALSE), fs # <<>>,
           fs[Len(fs)].kind = "section"
    PROVE  Stacked(Front(cs), Front(fs), e2)
<1> DEFINE n == Len(fs)
           ds == Front(cs)
           gs == Front(fs)
<1>1. /\ cs \in Seq(Context) /\ fs \in Seq(Frame) /\ n \in Nat /\ n >= 1
      /\ Len(cs) = n + 1
  BY DEF Stacked, Clean
<1>2. ds \in Seq(Context) /\ Len(ds) = n /\ \A k \in 1..n : ds[k] = cs[k]
  <2>1. cs # <<>> /\ (n + 1) - 1 = n
    BY <1>1
  <2> QED BY <1>1, <2>1, FrontFacts
<1>3. gs \in Seq(Frame) /\ Len(gs) = n - 1 /\ \A k \in 1..(n - 1) : gs[k] = fs[k]
  BY <1>1, FrontFacts
<1> HIDE DEF ds, gs
<1>4. cs[1] = Default /\ cs[1].es = 1 /\ (\A k \in 2..n : cs[k].es \in 2..k)
  BY <1>1 DEF Stacked, Default
<1>5. \A i \in 1..Len(gs) : FrameOK(ds, gs, i)
  <2>1. SUFFICES ASSUME NEW i \in 1..(n - 1) PROVE FrameOK(ds, gs, i)
    BY <1>3
  <2>2. FrameOK(cs, fs, i)
    BY <1>1 DEF Stacked
  <2>3. /\ gs[i] = fs[i] /\ i \in 1..n /\ i + 1 \in 1..n
        /\ i > 1 => i - 1 \in 1..(n - 1) /\ gs[i - 1] = fs[i - 1]
        /\ ds[i + 1] = cs[i + 1] /\ ds[i] = cs[i]
    BY <1>1, <1>2, <1>3
  <2>4. ASSUME fs[i].kind # "section" PROVE CallOK(ds, gs, i)
    <3>1. CallOK(cs, fs, i)
      BY <2>2, <2>4 DEF FrameOK
    <3>2. \A k \in 1..i : ds[k] = cs[k]
      BY <1>1, <1>2
    <3>3. \A k \in (i + 1)..n : k \in (i + 1)..Len(cs) /\ ds[k] = cs[k]
      BY <1>1, <1>2
    <3>4. \A k \in (i + 1)..n : ds[k].es > i
      BY <3>1, <3>3 DEF CallOK
    <3>5. cs[i].es \in 1..n
      BY <1>1, <1>4
    <3>6. ~SkippedAt(ds, i)
      BY <1>2, <2>3, <3>1, <3>5 DEF CallOK, SkippedAt
    <3> QED BY <1>2, <2>3, <3>1, <3>2, <3>4, <3>6 DEF CallOK
  <2> QED BY <2>2, <2>3, <2>4 DEF FrameOK
<1>6. \A k \in 2..Len(ds) : ds[k].es \in 2..k
  BY <1>1, <1>2, <1>4
<1>7. ds[1] = Default /\ Len(ds) = Len(gs) + 1
  BY <1>1, <1>2, <1>3, <1>4
<1> QED BY <1>1, <1>2, <1>3, <1>5, <1>6, <1>7 DEF Stacked, ds, gs

-----------------------------------------------------------------------------
(* The operators that change frames.                                       *)

LEMMA ReplaceTopAlike ==
    ASSUME NEW fs \in Seq(Frame), fs # <<>>, NEW g \in Frame,
           g.kind = fs[Len(fs)].kind, g.base = fs[Len(fs)].base,
           g.kind # "section" => g.saved = fs[Len(fs)].saved
    PROVE  Alike(fs, [fs EXCEPT ![Len(fs)] = g])
<1> DEFINE gs == [fs EXCEPT ![Len(fs)] = g]
<1>1. Len(fs) \in Nat /\ Len(fs) \in 1..Len(fs)
  OBVIOUS
<1>2. gs \in Seq(Frame) /\ Len(gs) = Len(fs)
  BY <1>1
<1>3. gs[Len(fs)] = g /\ \A i \in 1..Len(fs) : i # Len(fs) => gs[i] = fs[i]
  BY <1>1
<1> HIDE DEF gs
<1>4. Alike(fs, gs)
  BY <1>2, <1>3 DEF Alike
<1> QED BY <1>4 DEF gs

(* The value of a call does not change what is open.                       *)
LEMMA DeliverAlike ==
    ASSUME NEW fs \in Seq(Frame), NEW v \in Values
    PROVE  Alike(fs, Deliver(fs, v))
<1>1. CASE fs = <<>>
  BY <1>1 DEF Deliver, Alike
<1>2. CASE fs # <<>>
  <2> DEFINE t == fs[Len(fs)]
  <2>1. t \in Frame /\ Last(fs) = t
    BY <1>2 DEF Last
  <2>2. CASE t.kind = "array"
    <3> DEFINE g == [t EXCEPT !.done = @ + 1]
    <3>1. t \in ArrayFrame
      BY <2>1, <2>2, FrameFacts
    <3>2. g \in ArrayFrame /\ g.kind = t.kind /\ g.base = t.base /\ g.saved = t.saved
      BY <3>1 DEF ArrayFrame
    <3>3. g \in Frame
      BY <3>2 DEF Frame
    <3>4. Deliver(fs, v) = [fs EXCEPT ![Len(fs)] = g]
      BY <1>2, <2>1, <2>2 DEF Deliver
    <3> HIDE DEF g
    <3> QED BY <1>2, <3>2, <3>3, <3>4, ReplaceTopAlike
  <2>3. CASE t.kind # "array"
    <3> DEFINE g == [t EXCEPT !.out = v]
    <3>1. t \in WorkflowFrame \/ t \in SectionFrame
      BY <2>1, <2>3, FrameFacts
    <3>2. /\ g \in WorkflowFrame \/ g \in SectionFrame
          /\ g.kind = t.kind /\ g.base = t.base
          /\ g.kind # "section" => g.saved = t.saved
      BY <3>1 DEF WorkflowFrame, SectionFrame
    <3>3. g \in Frame
      BY <3>2 DEF Frame
    <3>4. Deliver(fs, v) = [fs EXCEPT ![Len(fs)] = g]
      BY <1>2, <2>1, <2>3 DEF Deliver
    <3> HIDE DEF g
    <3> QED BY <1>2, <3>2, <3>3, <3>4, ReplaceTopAlike
  <2> QED BY <2>2, <2>3
<1> QED BY <1>1, <1>2

LEMMA MarkNestedAlike ==
    ASSUME NEW fs \in Seq(Frame)
    PROVE  Alike(fs, MarkNested(fs))
<1> DEFINE gs == MarkNested(fs)
           b(i) == fs[i].nested \/ \E j \in Sections(fs) : j <= i
<1>1. DOMAIN fs = 1..Len(fs) /\ Len(fs) \in Nat
  OBVIOUS
<1>2. gs = [i \in 1..Len(fs) |-> [fs[i] EXCEPT !.nested = b(i)]]
  BY <1>1 DEF MarkNested
<1>3. ASSUME NEW i \in 1..Len(fs)
      PROVE  /\ gs[i] \in Frame /\ gs[i].kind = fs[i].kind
             /\ gs[i].base = fs[i].base
             /\ fs[i].kind # "section" => gs[i].saved = fs[i].saved
  <2>1. gs[i] = [fs[i] EXCEPT !.nested = b(i)]
    BY <1>2
  <2>2. b(i) \in BOOLEAN
    OBVIOUS
  <2>3. fs[i] \in Frame
    OBVIOUS
  <2> DEFINE r == fs[i]
  <2> HIDE DEF b, gs, r
  <2>4. \A c \in BOOLEAN, f \in Frame :
           /\ [f EXCEPT !.nested = c] \in Frame
           /\ [f EXCEPT !.nested = c].kind = f.kind
           /\ [f EXCEPT !.nested = c].base = f.base
           /\ f.kind # "section" => [f EXCEPT !.nested = c].saved = f.saved
    BY DEF Frame, WorkflowFrame, SectionFrame, ArrayFrame
  <2> QED BY <2>1, <2>2, <2>3, <2>4
<1>4. gs \in Seq(Frame) /\ Len(gs) = Len(fs)
  <2>1. \A i \in 1..Len(fs) : gs[i] \in Frame
    BY <1>3
  <2>2. gs = [i \in 1..Len(fs) |-> gs[i]]
    BY <1>2
  <2> HIDE DEF gs
  <2> QED BY <1>1, <2>1, <2>2
<1> HIDE DEF gs
<1>5. Alike(fs, gs)
  BY <1>3, <1>4 DEF Alike
<1> QED BY <1>5 DEF gs

LEMMA AlikeItself ==
    ASSUME NEW fs \in Seq(Frame)
    PROVE  Alike(fs, fs)
BY DEF Alike

-----------------------------------------------------------------------------
(* The current context.                                                    *)

LEMMA CurrentFacts ==
    ASSUME IInv
    PROVE  /\ ctxs \in Seq(Context) /\ frames \in Seq(Frame)
           /\ Len(ctxs) \in Nat /\ Len(frames) \in Nat /\ Len(ctxs) >= 1
           /\ current_context = ctxs[Len(ctxs)]
           /\ current_context \in Context
           /\ current_context.es \in 1..Len(ctxs)
           /\ ctxs[current_context.es] \in Context
           /\ CurrentMode \in BranchEvalMode
           /\ is_local_execution \in BOOLEAN
           /\ IsSkipped <=> SkippedAt(ctxs, Len(ctxs))
           /\ ~exc => Len(ctxs) = Len(frames) + 1
<1>1. /\ ctxs \in Seq(Context) /\ frames \in Seq(Frame)
      /\ Len(ctxs) \in Nat /\ Len(frames) \in Nat /\ Len(ctxs) >= 1
      /\ ctxs[1] = Default /\ (\A k \in 2..Len(ctxs) : ctxs[k].es \in 2..k)
      /\ (~exc => Len(ctxs) = Len(frames) + 1)
  BY DEF IInv, Stacked, Clean
<1>2. current_context = ctxs[Len(ctxs)] /\ current_context \in Context
  BY <1>1 DEF current_context, Last
<1>3. current_context.es \in 1..Len(ctxs)
  BY <1>1, <1>2 DEF Default
<1>4. ctxs[current_context.es] \in Context
  BY <1>1, <1>3
<1>5. CurrentMode \in BranchEvalMode /\ is_local_execution \in BOOLEAN
  BY <1>4 DEF CurrentMode, is_local_execution, Context
<1>6. IsSkipped <=> SkippedAt(ctxs, Len(ctxs))
  BY <1>2 DEF IsSkipped, SkippedAt, CurrentMode, is_local_execution
<1> QED BY <1>1, <1>2, <1>3, <1>4, <1>5, <1>6

LEMMA ChildFacts ==
    ASSUME IInv
    PROVE  /\ ChildContext \in Context
           /\ ChildContext.es = Len(ctxs) + 1
           /\ ~IsSkipped => ChildContext.branch # "skipped"
<1>1. CASE is_local_execution
  BY <1>1, CurrentFacts DEF ChildContext, Context, IsSkipped, BranchEvalMode
<1>2. CASE ~is_local_execution
  BY <1>2, CurrentFacts DEF ChildContext, Context, IsSkipped, BranchEvalMode
<1> QED BY <1>1, <1>2

(* A call that ends at once, or an exception in user code.                 *)
LEMMA LeafStacked ==
    ASSUME IInv, ~exc, ctxs' = ctxs, Alike(frames, frames'), exc' \in BOOLEAN
    PROVE  Stacked(ctxs, frames, exc)'
<1>1. Len(ctxs) = Len(frames) + 1
  BY CurrentFacts
<1>2. Stacked(ctxs, frames, exc)
  BY DEF IInv
<1>3. Stacked(ctxs, frames', exc')
  BY <1>1, <1>2, AlikeStacked
<1> QED BY <1>3

(* Entering a workflow or an array node.                                   *)
LEMMA EnterStacked ==
    ASSUME IInv, ~exc, NEW f \in Frame, Enter(f), exc' = exc, ~IsSkipped,
           f.base = Len(ctxs) + 1, f.kind # "section", f.saved = ctxs
    PROVE  Stacked(ctxs, frames, exc)'
<1>1. Stacked(ctxs, frames, FALSE)
  <2>1. Stacked(ctxs, frames, exc) /\ exc = FALSE
    BY DEF IInv, TypeOK
  <2> QED BY <2>1
<1>2. /\ ChildContext \in Context /\ ChildContext.es = Len(ctxs) + 1
      /\ ChildContext.branch # "skipped"
  BY ChildFacts
<1>3. Len(ctxs) = Len(frames) + 1 /\ Len(frames) \in Nat /\ ~SkippedAt(ctxs, Len(ctxs))
  BY CurrentFacts
<1>4. \A i \in 1..Len(frames) : frames[i].kind # "section" => ChildContext.es > i
  BY <1>2, <1>3
<1>5. ChildContext.es \in 2..(Len(ctxs) + 1)
  BY <1>2, <1>3
<1> DEFINE c == ChildContext
<1> HIDE DEF c
<1>6. Stacked(Append(ctxs, c), Append(frames, f), FALSE)
  BY <1>1, <1>2, <1>3, <1>4, <1>5, PushStacked DEF c
<1>7. exc' = FALSE /\ ctxs' = Append(ctxs, c) /\ frames' = Append(frames, f)
  BY DEF Enter, push_context, c, IInv, TypeOK
<1> QED BY <1>6, <1>7

-----------------------------------------------------------------------------
(* One lemma per group of actions.                                         *)

Seen == [call : {"no", "task", "workflow", "handler"}, ran : BOOLEAN,
         wanted : BOOLEAN, flat : BOOLEAN]

LEMMA ObserveFacts ==
    ASSUME NEW call \in {"no", "task", "workflow", "handler"}, NEW ran \in BOOLEAN,
           NEW fs, Observe(call, ran, fs)
    PROVE  seen' \in Seen /\ seen'.call = call /\ seen'.ran = ran
<1> DEFINE w == Wanted(fs)
           f == Flat(fs)
<1>1. w \in BOOLEAN
  BY DEF Wanted
<1>2. f \in BOOLEAN
  BY DEF Flat
<1>3. seen' = [call |-> call, ran |-> ran, wanted |-> w, flat |-> f]
  BY DEF Observe
<1> HIDE DEF w, f
<1> QED BY <1>1, <1>2, <1>3 DEF Seen

LEMMA NoCallFacts == NoCall \in Seen /\ NoCall.call = "no"
BY DEF NoCall, Seen

(* What is left to show for a step: the stacks, and the other variables.   *)
LEMMA Assemble ==
    ASSUME Stacked(ctxs, frames, exc)', exc' \in BOOLEAN, cache' \subseteq Tasks,
           calls' \in Nat, seen' \in Seen, seen'.call = "handler" => seen'.ran
    PROVE  IInv'
<1>1. TypeOK'
  <2>1. ctxs' \in Seq(Context) /\ Len(ctxs') # 0 /\ frames' \in Seq(Frame)
    BY DEF Stacked
  <2> QED BY <2>1 DEF TypeOK, Seen
<1>2. FailureHandlerRuns'
  BY DEF FailureHandlerRuns
<1> QED BY <1>1, <1>2 DEF IInv

LEMMA TypeFacts ==
    ASSUME IInv
    PROVE  /\ exc \in BOOLEAN /\ cache \subseteq Tasks /\ calls \in Nat
           /\ calls + 1 \in Nat
BY DEF IInv, TypeOK

LEMMA SkipStep ==
    ASSUME IInv, ~exc, Counted, NEW call \in {"task", "workflow"}, Skip(call)
    PROVE  IInv'
<1>1. Alike(frames, frames')
  BY CurrentFacts, DeliverAlike DEF Skip, Values
<1>2. /\ ctxs' = ctxs /\ exc' \in BOOLEAN /\ cache' \subseteq Tasks
      /\ calls' \in Nat
  BY TypeFacts DEF Skip, Counted
<1>3. Stacked(ctxs, frames, exc)'
  BY <1>1, <1>2, LeafStacked
<1>4. seen' \in Seen /\ seen'.call = call
  <2>1. Observe(call, FALSE, frames)
    BY DEF Skip
  <2>2. FALSE \in BOOLEAN /\ call \in {"no", "task", "workflow", "handler"}
    OBVIOUS
  <2> QED BY <2>1, <2>2, ObserveFacts
<1> QED BY <1>2, <1>3, <1>4, Assemble

LEMMA AnswerStep ==
    ASSUME IInv, ~exc, Counted, Answer("task"), cache' \subseteq Tasks
    PROVE  IInv'
<1>1. Alike(frames, frames')
  BY CurrentFacts, DeliverAlike DEF Answer, Values
<1>2. /\ ctxs' = ctxs /\ exc' \in BOOLEAN /\ calls' \in Nat
  BY TypeFacts DEF Answer, Counted
<1>3. Stacked(ctxs, frames, exc)'
  BY <1>1, <1>2, LeafStacked
<1>4. seen' \in Seen /\ seen'.call = "task"
  BY ObserveFacts DEF Answer
<1> QED BY <1>2, <1>3, <1>4, Assemble

LEMMA RaiseStep ==
    ASSUME IInv, ~exc, Counted, Raise("task")
    PROVE  IInv'
<1>1. Alike(frames, frames')
  BY CurrentFacts, AlikeItself DEF Raise
<1>2. /\ ctxs' = ctxs /\ exc' \in BOOLEAN /\ calls' \in Nat /\ cache' \subseteq Tasks
  BY TypeFacts DEF Raise, Counted
<1>3. Stacked(ctxs, frames, exc)'
  BY <1>1, <1>2, LeafStacked
<1>4. seen' \in Seen /\ seen'.call = "task"
  BY ObserveFacts DEF Raise
<1> QED BY <1>2, <1>3, <1>4, Assemble

LEMMA local_executeStep ==
    ASSUME IInv, ~exc, Counted, NEW t \in Tasks, local_execute(t)
    PROVE  IInv'
<1>1. CASE Answer("task") /\ UNCHANGED cache
  BY <1>1, AnswerStep, TypeFacts
<1>2. CASE Answer("task") /\ cache' = IF t \in CachedTasks THEN cache \cup {t} ELSE cache
  <2>1. cache' \subseteq Tasks
    BY <1>2, TypeFacts
  <2> QED BY <1>2, <2>1, AnswerStep
<1>3. CASE Raise("task")
  BY <1>3, RaiseStep
<1> QED BY <1>1, <1>2, <1>3 DEF local_execute

LEMMA LeafCalls ==
    ASSUME IInv, CallTask \/ CreateNode \/ CallGate \/ CallMapTask
    PROVE  IInv'
<1>1. ~exc /\ Counted
  BY DEF CallTask, CreateNode, CallGate, CallMapTask, MayCall, InUserCode
<1>2. ASSUME NEW call \in {"task", "workflow"}, Skip(call) PROVE IInv'
  BY <1>1, <1>2, SkipStep
<1>3. CASE CallTask
  BY <1>1, <1>2, <1>3, local_executeStep DEF CallTask
<1>4. CASE CreateNode
  <2>1. CASE exc' = TRUE /\ seen' = NoCall /\ UNCHANGED <<ctxs, frames, cache>>
    <3>1. Alike(frames, frames')
      BY <2>1, CurrentFacts, AlikeItself
    <3>2. Stacked(ctxs, frames, exc)'
      BY <1>1, <2>1, <3>1, LeafStacked
    <3> QED BY <1>1, <2>1, <3>2, Assemble, NoCallFacts, TypeFacts DEF Counted
  <2>2. ASSUME NEW t \in Tasks, local_execute(t) PROVE IInv'
    BY <1>1, <2>2, local_executeStep
  <2> QED BY <1>4, <2>1, <2>2 DEF CreateNode
<1>5. CASE CallGate
  <2>1. CASE Answer("task") /\ UNCHANGED cache
    BY <1>1, <2>1, AnswerStep, TypeFacts
  <2>2. CASE Raise("task")
    BY <1>1, <2>2, RaiseStep
  <2> QED BY <1>2, <1>5, <2>1, <2>2 DEF CallGate
<1>6. CASE CallMapTask
  <2>1. CASE Answer("task") /\ UNCHANGED cache
    BY <1>1, <2>1, AnswerStep, TypeFacts
  <2>2. CASE Raise("task")
    BY <1>1, <2>2, RaiseStep
  <2>3. Skip("task") \/ Raise("task") \/ (Answer("task") /\ UNCHANGED cache)
    <3>1. CASE Skip("task")
      BY <3>1
    <3>2. ASSUME NEW count \in ItemCounts, NEW p \in Policies, NEW failed \in 0..count,
                 IF count - failed < MinSuccesses(count, p) /\ failed > 0
                 THEN Raise("task") ELSE Answer("task") /\ UNCHANGED cache
          PROVE  Raise("task") \/ (Answer("task") /\ UNCHANGED cache)
      BY <3>2
    <3> QED BY <1>6, <3>1, <3>2 DEF CallMapTask
  <2> QED BY <1>2, <2>1, <2>2, <2>3
<1> QED BY <1>3, <1>4, <1>5, <1>6

LEMMA NewWorkflowFacts ==
    ASSUME IInv, NEW handler \in BOOLEAN
    PROVE  /\ NewWorkflow(handler) \in Frame
           /\ NewWorkflow(handler).kind = "workflow"
           /\ NewWorkflow(handler).base = Len(ctxs) + 1
           /\ NewWorkflow(handler).saved = ctxs
<1>1. NewWorkflow(handler) \in WorkflowFrame
  BY CurrentFacts DEF NewWorkflow, WorkflowFrame, Values
<1> QED BY <1>1 DEF NewWorkflow, Frame

LEMMA CallWorkflowStep ==
    ASSUME IInv, CallWorkflow
    PROVE  IInv'
<1>1. ~exc /\ Counted
  BY DEF CallWorkflow, MayCall, InUserCode
<1>2. CASE Skip("workflow")
  BY <1>1, <1>2, SkipStep
<1>3. CASE /\ ~IsSkipped
           /\ \E handler \in BOOLEAN : Enter(NewWorkflow(handler))
           /\ Observe("workflow", TRUE, frames)
           /\ UNCHANGED <<exc, cache>>
  <2>1. PICK handler \in BOOLEAN : Enter(NewWorkflow(handler))
    BY <1>3
  <2>2. Stacked(ctxs, frames, exc)'
    BY <1>1, <1>3, <2>1, NewWorkflowFacts, EnterStacked
  <2>3. seen' \in Seen /\ seen'.call = "workflow"
    BY <1>3, ObserveFacts
  <2> QED BY <1>1, <1>3, <2>2, <2>3, TypeFacts, Assemble DEF Counted
<1> QED BY <1>2, <1>3 DEF CallWorkflow

(* The context of an array node is never in a skipped branch.              *)
LEMMA ItemsAreRun ==
    ASSUME IInv, ~exc, TopKind = "array"
    PROVE  ~IsSkipped
<1> DEFINE n == Len(frames)
<1>1. frames # <<>> /\ frames[n].kind = "array"
  BY DEF TopKind, Top, Last
<1>2. n \in Nat /\ n \in 1..n /\ Len(ctxs) = n + 1
  BY <1>1, CurrentFacts
<1>3. ctxs[n + 1].es = n + 1 /\ ctxs[n + 1].branch # "skipped"
  BY <1>1, <1>2 DEF IInv, Stacked, FrameOK
<1>4. ~SkippedAt(ctxs, n + 1)
  BY <1>3 DEF SkippedAt
<1> QED BY <1>2, <1>4, CurrentFacts

LEMMA ArrayItemStep ==
    ASSUME IInv, ArrayItem
    PROVE  IInv'
<1>1. ~exc /\ UNCHANGED <<exc, cache, calls>> /\ Observe("workflow", TRUE, frames)
  BY DEF ArrayItem
<1>2. ~IsSkipped
  BY <1>1, ItemsAreRun DEF ArrayItem
<1>3. PICK handler \in BOOLEAN : Enter(NewWorkflow(handler))
  BY DEF ArrayItem
<1>4. Stacked(ctxs, frames, exc)'
  BY <1>1, <1>2, <1>3, NewWorkflowFacts, EnterStacked
<1>5. seen' \in Seen /\ seen'.call = "workflow"
  BY <1>1, ObserveFacts
<1> QED BY <1>1, <1>4, <1>5, TypeFacts, Assemble

LEMMA MinSuccessesFacts ==
    ASSUME NEW count \in ItemCounts, NEW p \in Policies
    PROVE  count \in Nat /\ MinSuccesses(count, p) \in Nat
<1>1. count \in Nat /\ p.successes \in Nat /\ p.ratio \in Nat
  BY LocalAssumption
<1>2. \A a, b \in Nat : a * b \in Nat
  OBVIOUS
<1>3. \A a \in Nat : (a + 99) \div 100 \in Nat
  OBVIOUS
<1>4. (count * p.ratio + 99) \div 100 \in Nat
  BY <1>1, <1>2, <1>3
<1> QED BY <1>1, <1>4 DEF MinSuccesses

LEMMA CallArrayNodeStep ==
    ASSUME IInv, CallArrayNode
    PROVE  IInv'
<1>1. ~exc /\ Counted
  BY DEF CallArrayNode, MayCall, InUserCode
<1>2. CASE Skip("workflow")
  BY <1>1, <1>2, SkipStep
<1>3. CASE ~Skip("workflow")
  <2>1. ~IsSkipped /\ Observe("workflow", TRUE, frames) /\ UNCHANGED <<exc, cache>>
    BY <1>3 DEF CallArrayNode
  <2>2. PICK count \in ItemCounts, p \in Policies, outputs \in BOOLEAN :
           Enter([kind |-> "array", base |-> Len(ctxs) + 1, saved |-> ctxs,
                  count |-> count, done |-> 0, failed |-> 0,
                  min_successes |-> MinSuccesses(count, p), outputs |-> outputs,
                  nested |-> FALSE])
    BY <1>3 DEF CallArrayNode
  <2> DEFINE ms == MinSuccesses(count, p)
             f == [kind |-> "array", base |-> Len(ctxs) + 1, saved |-> ctxs,
                   count |-> count, done |-> 0, failed |-> 0,
                   min_successes |-> ms, outputs |-> outputs, nested |-> FALSE]
  <2>3. count \in Nat /\ ms \in Nat
    BY MinSuccessesFacts
  <2> HIDE DEF ms
  <2>4. f \in ArrayFrame
    BY <2>3, CurrentFacts DEF ArrayFrame
  <2>5. /\ f \in Frame /\ f.kind = "array" /\ f.base = Len(ctxs) + 1
        /\ f.saved = ctxs
    BY <2>4 DEF Frame
  <2>6. Enter(f)
    BY <2>2 DEF ms
  <2> HIDE DEF f
  <2>7. Stacked(ctxs, frames, exc)'
    BY <1>1, <2>1, <2>5, <2>6, EnterStacked
  <2>8. seen' \in Seen /\ seen'.call = "workflow"
    BY <2>1, ObserveFacts
  <2> QED BY <1>1, <2>1, <2>7, <2>8, TypeFacts, Assemble DEF Counted
<1> QED BY <1>2, <1>3

LEMMA TopFacts ==
    ASSUME IInv, NEW k \in {"workflow", "section", "array"}, TopKind = k
    PROVE  /\ frames # <<>> /\ Top = frames[Len(frames)] /\ Top.kind = k
           /\ Top \in Frame /\ Len(frames) \in 1..Len(frames)
           /\ Front(frames) \in Seq(Frame)
<1>1. frames # <<>> /\ frames \in Seq(Frame) /\ Len(frames) \in Nat
  BY CurrentFacts DEF TopKind
<1>2. Top = frames[Len(frames)] /\ Len(frames) \in 1..Len(frames)
  BY <1>1 DEF Top, Last
<1>3. Front(frames) \in Seq(Frame)
  BY <1>1, FrontFacts
<1> QED BY <1>1, <1>2, <1>3 DEF TopKind

(* A call returns v or raises.                                             *)
LEMMA LeaveStacked ==
    ASSUME IInv, TopKind \in {"workflow", "array"}, NEW v \in Values,
           ctxs' = with_context_exit(ctxs, Top.base), exc' = exc,
           \/ ~exc /\ frames' = Deliver(Front(frames), v)
           \/ frames' = Front(frames)
    PROVE  Stacked(ctxs, frames, exc)'
<1>1. /\ frames # <<>> /\ Top = frames[Len(frames)] /\ Top.kind # "section"
      /\ Front(frames) \in Seq(Frame)
  BY TopFacts
<1>2. Stacked(ctxs, frames, exc)
  BY DEF IInv
<1>3. Stacked(ctxs', Front(frames), exc')
  BY <1>1, <1>2, ExitStacked
<1>4. CASE frames' = Front(frames)
  BY <1>3, <1>4
<1>5. CASE ~exc /\ frames' = Deliver(Front(frames), v)
  <2>1. Alike(Front(frames), frames')
    BY <1>1, <1>5, DeliverAlike
  <2>2. Len(ctxs') = Len(Front(frames)) + 1
    BY <1>3, <1>5 DEF Stacked, Clean
  <2>3. Stacked(ctxs', frames', exc')
    BY <1>3, <2>1, <2>2, AlikeStacked
  <2> QED BY <2>3
<1> QED BY <1>4, <1>5

LEMMA ReturnSteps ==
    ASSUME IInv, ReturnWorkflow \/ ReturnArray
    PROVE  IInv'
<1>1. /\ TopKind \in {"workflow", "array"} /\ ~exc
      /\ ctxs' = with_context_exit(ctxs, Top.base)
      /\ seen' = NoCall /\ UNCHANGED <<exc, cache, calls>>
  BY DEF ReturnWorkflow, ReturnArray
<1>2. PICK v \in Values : frames' = Deliver(Front(frames), v)
  <2>1. CASE ReturnArray
    BY <2>1 DEF ReturnArray, Values
  <2>2. CASE ReturnWorkflow
    <3>1. Top \in WorkflowFrame
      BY <2>2, TopFacts, FrameFacts DEF ReturnWorkflow
    <3>2. Top.out \in Values
      BY <3>1 DEF WorkflowFrame
    <3> QED BY <2>2, <3>2 DEF ReturnWorkflow
  <2> QED BY <2>1, <2>2
<1>3. Stacked(ctxs, frames, exc)'
  BY <1>1, <1>2, LeaveStacked
<1> QED BY <1>1, <1>3, NoCallFacts, TypeFacts, Assemble

LEMMA WorkflowFailsStep ==
    ASSUME IInv, WorkflowFails
    PROVE  IInv'
<1>1. /\ TopKind = "workflow" /\ frames' = Front(frames)
      /\ ctxs' = with_context_exit(ctxs, Top.base)
      /\ UNCHANGED <<exc, cache, calls>>
  BY DEF WorkflowFails
<1>2. Stacked(ctxs, frames, exc)'
  <2>1. "val" \in Values
    BY DEF Values
  <2> QED BY <1>1, <2>1, LeaveStacked
<1>3. ~SkippedAt(ctxs', Len(ctxs'))
  <2>1. frames # <<>> /\ Top = frames[Len(frames)] /\ Top.kind = "workflow"
    BY <1>1, TopFacts
  <2>2. Stacked(ctxs, frames, exc)
    BY DEF IInv
  <2> QED BY <1>1, <2>1, <2>2, ExitStacked
<1>4. CASE Top.on_failure
  <2> DEFINE c == Last(ctxs')
             ran == ~(ctxs'[c.es].local /\ ctxs'[c.es].branch = "skipped")
  <2>1. Observe("handler", ran, Front(frames))
    BY <1>4 DEF WorkflowFails
  <2>2. ran = TRUE
    BY <1>3 DEF SkippedAt, Last
  <2> HIDE DEF ran
  <2>3. seen' \in Seen /\ seen'.call = "handler" /\ seen'.ran = TRUE
    BY <2>1, <2>2, ObserveFacts
  <2> QED BY <1>1, <1>2, <2>3, TypeFacts, Assemble
<1>5. CASE ~Top.on_failure
  <2>1. seen' = NoCall
    BY <1>5 DEF WorkflowFails
  <2> QED BY <1>1, <1>2, <2>1, NoCallFacts, TypeFacts, Assemble
<1> QED BY <1>4, <1>5

LEMMA ScriptFailsStep ==
    ASSUME IInv, ScriptFails
    PROVE  IInv'
<1>1. /\ TopKind = "script" /\ exc' = FALSE /\ seen' = NoCall
      /\ UNCHANGED <<ctxs, frames, cache, calls>>
  BY DEF ScriptFails
<1>2. frames = <<>>
  <2>1. frames # <<>> => frames[Len(frames)] \in Frame
    BY CurrentFacts
  <2> QED BY <1>1, <2>1, FrameFacts DEF TopKind, Top, Last
<1>3. Len(ctxs) = Len(frames) + 1 /\ Alike(frames, frames)
  BY <1>2, CurrentFacts, AlikeItself DEF IInv, Stacked, Clean
<1>4. Stacked(ctxs, frames, exc)
  BY DEF IInv
<1>5. Stacked(ctxs, frames, FALSE)
  BY <1>3, <1>4, AlikeStacked
<1>6. Stacked(ctxs, frames, exc)'
  BY <1>1, <1>5
<1> QED BY <1>1, <1>6, NoCallFacts, TypeFacts, Assemble

LEMMA ArrayItemFailsStep ==
    ASSUME IInv, ArrayItemFails
    PROVE  IInv'
<1>1. exc /\ TopKind = "array" /\ seen' = NoCall /\ UNCHANGED <<cache, calls>>
  BY DEF ArrayItemFails
<1>2. CASE TooManyFailures(Top)
  <2>1. /\ ctxs' = with_context_exit(ctxs, Top.base) /\ frames' = Front(frames)
        /\ exc' = exc
    BY <1>2 DEF ArrayItemFails
  <2>2. "val" \in Values
    BY DEF Values
  <2>3. Stacked(ctxs, frames, exc)'
    BY <1>1, <2>1, <2>2, LeaveStacked
  <2> QED BY <1>1, <2>1, <2>3, NoCallFacts, TypeFacts, Assemble
<1>3. CASE ~TooManyFailures(Top)
  <2> DEFINE t == frames[Len(frames)]
             d == t.done + 1
             x == IF t.outputs THEN t.failed + 1 ELSE t.failed
             g == [t EXCEPT !.done = d, !.failed = x]
  <2>1. frames # <<>> /\ Top = t /\ t \in ArrayFrame /\ frames \in Seq(Frame)
    BY <1>1, TopFacts, FrameFacts, CurrentFacts
  <2>2. g \in ArrayFrame /\ g.kind = t.kind /\ g.base = t.base /\ g.saved = t.saved
    <3>1. d \in Nat /\ x \in Nat
      BY <2>1 DEF ArrayFrame
    <3> HIDE DEF d, x
    <3> QED BY <2>1, <3>1 DEF ArrayFrame
  <2>3. g \in Frame
    BY <2>2 DEF Frame
  <2>4. frames' = [frames EXCEPT ![Len(frames)] = g]
    BY <1>3, <2>1 DEF ArrayItemFails
  <2> HIDE DEF g
  <2>5. Alike(frames, frames')
    BY <2>1, <2>2, <2>3, <2>4, ReplaceTopAlike
  <2>6. Len(ctxs) = Len(frames) + 1
    <3>1. t.kind = "array"
      BY <2>1 DEF ArrayFrame
    <3>2. Clean(frames, exc)
      BY <3>1 DEF Clean
    <3> QED BY <3>2 DEF IInv, Stacked
  <2>7. ctxs' = ctxs /\ exc' = FALSE
    BY <1>3 DEF ArrayItemFails
  <2>8. Stacked(ctxs, frames, exc)
    BY DEF IInv
  <2>9. Stacked(ctxs, frames', FALSE)
    BY <2>5, <2>6, <2>8, AlikeStacked
  <2>10. Stacked(ctxs, frames, exc)'
    BY <2>7, <2>9
  <2> QED BY <1>1, <2>7, <2>10, NoCallFacts, TypeFacts, Assemble
<1> QED BY <1>2, <1>3

(* What conditional(name) opens.                                           *)
LEMMA NewSectionFacts ==
    ASSUME IInv
    PROVE  /\ NewSection \in SectionFrame /\ NewSection \in Frame
           /\ NewSection.kind = "section" /\ NewSection.base = Len(ctxs) + 1
<1> DEFINE b == CurrentMode = "skipped"
           f == NewSection
<1>1. b \in BOOLEAN
  OBVIOUS
<1>2. f = [kind |-> "section", base |-> Len(ctxs) + 1, skipped |-> b,
           cases |-> 0, last_case |-> FALSE, in_branch |-> FALSE, selected |-> 0,
           result |-> "none", chosen |-> 0, out |-> "val", nested |-> FALSE]
  BY DEF NewSection
<1> HIDE DEF b, f
<1>3. f \in SectionFrame
  BY <1>1, <1>2, CurrentFacts DEF SectionFrame, Values
<1> QED BY <1>2, <1>3 DEF Frame, f

LEMMA ConditionalStep ==
    ASSUME IInv, Conditional
    PROVE  IInv'
<1>1. ~exc /\ Counted /\ seen' = NoCall /\ cache' = cache
  BY DEF Conditional, MayCall, InUserCode
<1>2. CASE exc' = TRUE /\ UNCHANGED <<ctxs, frames>>
  <2>1. Alike(frames, frames')
    BY <1>2, CurrentFacts, AlikeItself
  <2>2. Stacked(ctxs, frames, exc)'
    BY <1>1, <1>2, <2>1, LeafStacked
  <2> QED BY <1>1, <1>2, <2>2, Assemble, NoCallFacts, TypeFacts DEF Counted
<1>3. CASE /\ is_local_execution
           /\ ctxs' = push_context(enter_conditional_section)
           /\ frames' = Append(MarkNested(frames), NewSection)
           /\ UNCHANGED exc
  <2> DEFINE n == Len(frames)
             c == enter_conditional_section
             gs == MarkNested(frames)
             f == NewSection
  <2>1. /\ ctxs \in Seq(Context) /\ frames \in Seq(Frame) /\ n \in Nat
        /\ Len(ctxs) = n + 1 /\ ctxs[1] = Default
        /\ (\A k \in 2..(n + 1) : ctxs[k].es \in 2..k)
    BY <1>1, CurrentFacts DEF IInv, Stacked
  <2>2. current_context = ctxs[n + 1] /\ current_context.es # 1
    BY <1>3, <2>1, CurrentFacts DEF is_local_execution, Default
  <2>3. n >= 1 /\ current_context.es \in 2..(n + 1)
    BY <2>1, <2>2 DEF Default
  <2>4. TopKind # "array"
    BY DEF Conditional, MayCall, InUserCode
  <2>5. frames # <<>> /\ frames[n].kind # "array"
    BY <2>1, <2>3, <2>4 DEF TopKind, Top, Last
  <2>6. c \in Context /\ (c.es = n + 2 \/ c.es = current_context.es)
    <3>1. CASE ~current_context.in_a_condition \/ CurrentMode = "skipped"
      BY <2>1, <3>1 DEF enter_conditional_section, Context, BranchEvalMode
    <3>2. CASE ~(~current_context.in_a_condition \/ CurrentMode = "skipped")
      BY <2>3, <3>2 DEF enter_conditional_section, Context, BranchEvalMode
    <3> QED BY <3>1, <3>2
  <2>7. \A i \in 1..n : frames[i].kind # "section" => c.es > i
    <3>1. SUFFICES ASSUME NEW i \in 1..n, frames[i].kind # "section" PROVE c.es > i
      OBVIOUS
    <3>2. CallOK(ctxs, frames, i)
      BY <3>1 DEF IInv, Stacked, FrameOK
    <3>3. ctxs[n + 1].es > i
      BY <2>1, <3>2 DEF CallOK
    <3> QED BY <2>1, <2>2, <2>6, <3>3
  <2>8. f \in Frame /\ f.kind = "section" /\ f.base = Len(ctxs) + 1
    BY NewSectionFacts
  <2>10. Alike(frames, gs)
    BY <2>1, MarkNestedAlike
  <2>11. Stacked(ctxs, frames, exc)
    BY DEF IInv
  <2>12. Stacked(ctxs, gs, FALSE)
    BY <2>1, <2>10, <2>11, AlikeStacked
  <2>13. /\ Len(gs) = n /\ gs[n].kind # "array"
         /\ \A i \in 1..n : gs[i].kind # "section" => c.es > i
    BY <2>1, <2>3, <2>5, <2>7, <2>10 DEF Alike
  <2>14. c.es \in 2..(Len(ctxs) + 1)
    BY <2>1, <2>3, <2>6
  <2> HIDE DEF c, gs, f
  <2>15. Stacked(Append(ctxs, c), Append(gs, f), FALSE)
    <3>1. /\ f.base = Len(ctxs) + 1 /\ Len(gs) > 0 /\ gs[Len(gs)].kind # "array"
          /\ \A i \in 1..Len(gs) : gs[i].kind # "section" => c.es > i
      BY <2>1, <2>3, <2>8, <2>13
    <3> QED BY <2>6, <2>8, <2>12, <2>14, <3>1, PushStacked
  <2>16. exc' = FALSE /\ ctxs' = Append(ctxs, c) /\ frames' = Append(gs, f)
    BY <1>1, <1>3 DEF push_context, c, gs, f, IInv, TypeOK
  <2>17. Stacked(ctxs, frames, exc)'
    BY <2>15, <2>16
  <2> QED BY <1>1, <2>16, <2>17, Assemble, NoCallFacts, TypeFacts DEF Counted
<1> QED BY <1>2, <1>3 DEF Conditional

LEMMA SectionTop ==
    ASSUME IInv, ~exc, TopKind = "section"
    PROVE  /\ frames # <<>> /\ Top = frames[Len(frames)] /\ Top \in SectionFrame
           /\ frames[Len(frames)].kind = "section" /\ frames \in Seq(Frame)
           /\ Stacked(ctxs, frames, FALSE)
<1>1. Stacked(ctxs, frames, exc) /\ exc = FALSE
  BY DEF IInv, TypeOK
<1>2. Stacked(ctxs, frames, FALSE)
  BY <1>1
<1> QED BY <1>2, TopFacts, FrameFacts, CurrentFacts

LEMMA StartBranchStep ==
    ASSUME IInv, NEW truth \in BOOLEAN, NEW last \in BOOLEAN, start_branch(truth, last)
    PROVE  IInv'
<1> DEFINE f == Top
           sel == IF Selects(f, truth, last) THEN f.cases + 1 ELSE f.selected
           cho == IF f.chosen = 0 /\ (truth \/ last) THEN f.cases + 1 ELSE f.chosen
           g == [f EXCEPT !.cases = f.cases + 1, !.last_case = last, !.in_branch = TRUE,
                          !.selected = sel, !.chosen = cho, !.out = "val"]
<1>1. /\ ~exc /\ TopKind = "section" /\ seen' = NoCall
      /\ UNCHANGED <<exc, cache, calls>>
      /\ frames' = [frames EXCEPT ![Len(frames)] = g]
      /\ ctxs' = IF Selects(f, truth, last) THEN SetMode(ctxs, "active") ELSE ctxs
  BY DEF start_branch
<1>2. /\ frames # <<>> /\ f = frames[Len(frames)] /\ f \in SectionFrame
      /\ frames[Len(frames)].kind = "section" /\ frames \in Seq(Frame)
      /\ Stacked(ctxs, frames, FALSE)
  BY <1>1, SectionTop
<1>3. g \in SectionFrame /\ g.kind = f.kind /\ g.base = f.base
  <2> DEFINE one == f.cases + 1
  <2>1. sel \in Nat /\ cho \in Nat /\ one \in Nat /\ "val" \in Values
    BY <1>2 DEF SectionFrame, Values
  <2> HIDE DEF sel, cho, one, f
  <2>2. f \in SectionFrame
    BY <1>2
  <2>3. g = [f EXCEPT !.cases = one, !.last_case = last, !.in_branch = TRUE,
                      !.selected = sel, !.chosen = cho, !.out = "val"]
    BY DEF one
  <2> QED BY <2>1, <2>2, <2>3 DEF SectionFrame
<1>4. g \in Frame /\ g.kind = "section"
  BY <1>2, <1>3 DEF Frame
<1> HIDE DEF g
<1>5. Alike(frames, frames')
  BY <1>1, <1>2, <1>3, <1>4, ReplaceTopAlike
<1>6. Stacked(ctxs', frames, FALSE)
  <2>1. "active" \in BranchEvalMode
    BY DEF BranchEvalMode
  <2>2. CASE Selects(f, truth, last)
    BY <1>1, <1>2, <2>1, <2>2, SetModeStacked
  <2>3. CASE ~Selects(f, truth, last)
    BY <1>1, <1>2, <2>3
  <2> QED BY <2>2, <2>3
<1>7. Stacked(ctxs', frames', FALSE)
  <2>1. Len(ctxs') = Len(frames) + 1
    BY <1>6 DEF Stacked, Clean
  <2> QED BY <1>5, <1>6, <2>1, AlikeStacked
<1>8. exc' = FALSE
  BY <1>1 DEF IInv, TypeOK
<1>9. Stacked(ctxs, frames, exc)'
  BY <1>7, <1>8
<1> QED BY <1>1, <1>8, <1>9, NoCallFacts, TypeFacts, Assemble

LEMMA EndBranchStep ==
    ASSUME IInv, NEW result \in Values \cup {"err"}, end_branch(result)
    PROVE  IInv'
<1> DEFINE f == Top
           r == SelectedResult(f, result)
           ds == branch_complete(f)
<1>1. ~exc /\ TopKind = "section" /\ seen' = NoCall /\ UNCHANGED <<cache, calls>>
  BY DEF end_branch
<1>2. /\ frames # <<>> /\ f = frames[Len(frames)] /\ f \in SectionFrame
      /\ frames[Len(frames)].kind = "section" /\ frames \in Seq(Frame)
      /\ Stacked(ctxs, frames, FALSE)
  BY <1>1, SectionTop
<1>3. r \in Values \cup {"err"}
  BY <1>2 DEF SelectedResult, SectionFrame
<1>4. Stacked(ds, frames, FALSE)
  <2>1. "skipped" \in BranchEvalMode
    BY DEF BranchEvalMode
  <2>2. CASE f.skipped
    BY <1>2, <2>2 DEF branch_complete
  <2>3. CASE ~f.skipped
    BY <1>2, <2>1, <2>3, SetModeStacked DEF branch_complete
  <2> QED BY <2>2, <2>3
<1> HIDE DEF r, ds
<1>5. CASE f.last_case
  <2> DEFINE b == ~f.skipped /\ r = "err"
             v == IF f.skipped THEN "none" ELSE r
  <2>1. /\ ctxs' = Front(ds) /\ exc' = b
        /\ frames' = IF exc' THEN Front(frames) ELSE Deliver(Front(frames), v)
    BY <1>5 DEF end_branch, pop_context, r, ds
  <2>2. b \in BOOLEAN /\ (~b => v \in Values)
    BY <1>3 DEF Values
  <2> HIDE DEF b, v
  <2>3. Front(frames) \in Seq(Frame)
    BY <1>2, FrontFacts
  <2>4. CASE exc'
    <3>1. Stacked(Front(ds), Front(frames), b)
      BY <1>2, <1>4, PopStacked
    <3>2. Stacked(ctxs, frames, exc)'
      BY <2>1, <2>4, <3>1
    <3> QED BY <1>1, <2>1, <2>2, <3>2, NoCallFacts, TypeFacts, Assemble
  <2>5. CASE ~exc'
    <3>1. Stacked(Front(ds), Front(frames), FALSE)
      BY <1>2, <1>4, PopStacked
    <3>2. Alike(Front(frames), frames')
      BY <2>1, <2>2, <2>3, <2>5, DeliverAlike
    <3>3. Len(Front(ds)) = Len(Front(frames)) + 1
      BY <3>1 DEF Stacked, Clean
    <3>4. Stacked(Front(ds), frames', FALSE)
      BY <3>1, <3>2, <3>3, AlikeStacked
    <3>5. exc' = FALSE
      BY <2>1, <2>2, <2>5
    <3>6. Stacked(ctxs, frames, exc)'
      BY <2>1, <3>4, <3>5
    <3> QED BY <1>1, <2>1, <2>2, <3>6, NoCallFacts, TypeFacts, Assemble
  <2> QED BY <2>4, <2>5
<1>6. CASE ~f.last_case
  <2> DEFINE g == [f EXCEPT !.in_branch = FALSE, !.result = r]
  <2>1. /\ ctxs' = ds /\ exc' = exc
        /\ frames' = [frames EXCEPT ![Len(frames)] = g]
    BY <1>2, <1>6 DEF end_branch, r, ds
  <2>2. g \in SectionFrame /\ g.kind = f.kind /\ g.base = f.base
    <3> HIDE DEF f
    <3>1. f \in SectionFrame
      BY <1>2
    <3> QED BY <1>3, <3>1 DEF SectionFrame
  <2>3. g \in Frame /\ g.kind = "section"
    BY <1>2, <2>2 DEF Frame
  <2> HIDE DEF g
  <2>4. Alike(frames, frames')
    BY <1>2, <2>1, <2>2, <2>3, ReplaceTopAlike
  <2>5. Len(ds) = Len(frames) + 1
    BY <1>4 DEF Stacked, Clean
  <2>6. Stacked(ds, frames', FALSE)
    BY <1>4, <2>4, <2>5, AlikeStacked
  <2>7. exc' = FALSE
    BY <1>1, <2>1 DEF IInv, TypeOK
  <2>8. Stacked(ctxs, frames, exc)'
    BY <2>1, <2>6, <2>7
  <2> QED BY <1>1, <2>7, <2>8, NoCallFacts, TypeFacts, Assemble
<1> QED BY <1>5, <1>6

LEMMA SectionFailsStep ==
    ASSUME IInv, SectionFails
    PROVE  IInv'
<1>1. /\ exc /\ TopKind = "section" /\ frames' = Front(frames) /\ seen' = NoCall
      /\ UNCHANGED <<ctxs, exc, cache, calls>>
  BY DEF SectionFails
<1>2. frames # <<>> /\ frames[Len(frames)].kind = "section"
  BY <1>1, TopFacts
<1>3. exc = TRUE /\ Stacked(ctxs, frames, TRUE)
  <2>1. exc = TRUE /\ Stacked(ctxs, frames, exc)
    BY <1>1 DEF IInv, TypeOK
  <2> QED BY <2>1
<1>4. Stacked(ctxs, Front(frames), TRUE)
  BY <1>2, <1>3, DropStacked
<1>5. Stacked(ctxs, frames, exc)'
  BY <1>1, <1>3, <1>4
<1> QED BY <1>1, <1>5, NoCallFacts, TypeFacts, Assemble

-----------------------------------------------------------------------------
(* The invariant is established and kept.                                  *)

LEMMA InitIInv == Init => IInv
<1> SUFFICES ASSUME Init PROVE IInv
  OBVIOUS
<1>1. Default \in Context
  BY DEF Default, Context, BranchEvalMode
<1>2. /\ ctxs \in Seq(Context) /\ Len(ctxs) = 1 /\ ctxs[1] = Default
      /\ frames \in Seq(Frame) /\ Len(frames) = 0 /\ frames = <<>>
  BY <1>1 DEF Init
<1>3. Stacked(ctxs, frames, exc)
  BY <1>2 DEF Stacked
<1>4. TypeOK
  BY <1>2, NoCallFacts DEF Init, TypeOK, Seen
<1>5. FailureHandlerRuns
  BY DEF Init, FailureHandlerRuns, NoCall
<1> QED BY <1>3, <1>4, <1>5 DEF IInv

LEMMA NextIInv == IInv /\ [Next]_vars => IInv'
<1> SUFFICES ASSUME IInv, [Next]_vars PROVE IInv'
  OBVIOUS
<1>1. CASE CallTask \/ CreateNode \/ CallGate \/ CallMapTask
  BY <1>1, LeafCalls
<1>2. CASE CallWorkflow
  BY <1>2, CallWorkflowStep
<1>3. CASE ReturnWorkflow \/ ReturnArray
  BY <1>3, ReturnSteps
<1>4. CASE WorkflowFails
  BY <1>4, WorkflowFailsStep
<1>5. CASE ScriptFails
  BY <1>5, ScriptFailsStep
<1>6. CASE CallArrayNode
  BY <1>6, CallArrayNodeStep
<1>7. CASE ArrayItem
  BY <1>7, ArrayItemStep
<1>8. CASE ArrayItemFails
  BY <1>8, ArrayItemFailsStep
<1>9. CASE Conditional
  BY <1>9, ConditionalStep
<1>10. CASE IfElifElse
  BY <1>10, StartBranchStep DEF IfElifElse
<1>11. CASE Then
  <2>1. TopKind = "section" /\ ~exc /\ end_branch(Top.out)
    BY <1>11 DEF Then, end_branch
  <2>2. Top.out \in Values \cup {"err"}
    BY <2>1, SectionTop DEF SectionFrame
  <2> QED BY <2>1, <2>2, EndBranchStep
<1>12. CASE Fail
  BY <1>12, EndBranchStep DEF Fail
<1>13. CASE SectionFails
  BY <1>13, SectionFailsStep
<1>14. CASE UNCHANGED vars
  BY <1>14 DEF vars, IInv, TypeOK, Stacked, FrameOK, CallOK, SkippedAt, Clean,
     FailureHandlerRuns
<1> QED BY <1>1, <1>2, <1>3, <1>4, <1>5, <1>6, <1>7, <1>8, <1>9, <1>10, <1>11,
     <1>12, <1>13, <1>14 DEF Next

LEMMA AlwaysIInv == Spec => []IInv
BY InitIInv, NextIInv, PTL DEF Spec

(* The variables of local execution keep their types, for every program.   *)
THEOREM LocalTypeCorrect == Spec => []TypeOK
<1>1. IInv => TypeOK
  BY DEF IInv
<1> QED BY <1>1, AlwaysIInv, PTL

(***************************************************************************)
(* with_context restores the list of contexts: whatever sections were left *)
(* open or leaked by exceptions inside of a call, the contexts below it,   *)
(* their branch modes included, are those its caller had.                  *)
(***************************************************************************)
THEOREM CallsRestoreContext == Spec => []ContextRestored
<1>1. IInv => ContextRestored
  <2> SUFFICES ASSUME IInv PROVE ContextRestored
    OBVIOUS
  <2>1. ASSUME NEW i \in DOMAIN frames, frames[i].kind # "section"
        PROVE  SubSeq(ctxs, 1, frames[i].base - 1) = frames[i].saved
    <3>1. /\ i \in 1..Len(frames) /\ i \in Nat /\ frames[i] \in Frame
          /\ Len(ctxs) \in Nat /\ i \in 0..Len(ctxs) /\ ctxs \in Seq(Context)
      BY CurrentFacts DEF IInv, Stacked
    <3>2. frames[i].base - 1 = i /\ CallOK(ctxs, frames, i)
      BY <2>1, <3>1 DEF IInv, Stacked, FrameOK
    <3> DEFINE p == SubSeq(ctxs, 1, i)
               q == frames[i].saved
    <3>3. p \in Seq(Context) /\ Len(p) = i /\ \A k \in 1..i : p[k] = ctxs[k]
      BY <3>1, PrefixFacts
    <3>4. q \in Seq(Context) /\ Len(q) = i /\ \A k \in 1..i : q[k] = ctxs[k]
      BY <2>1, <3>1, <3>2, FrameFacts DEF CallOK
    <3> HIDE DEF p, q
    <3>5. p = q
      BY <3>3, <3>4
    <3> QED BY <3>2, <3>5 DEF p, q
  <2>2. ASSUME frames = <<>> PROVE ctxs = <<Default>>
    <3>1. ctxs \in Seq(Context) /\ Len(ctxs) = 1 /\ ctxs[1] = Default
      BY <2>2 DEF IInv, Stacked, Clean
    <3> QED BY <3>1
  <2> QED BY <2>1, <2>2 DEF ContextRestored
<1> QED BY <1>1, AlwaysIInv, PTL

(***************************************************************************)
(* User code never runs in a context that a failed section has leaked.     *)
(***************************************************************************)
THEOREM LeaksAreInvisible == Spec => []NoLeakedContext
<1>1. IInv => NoLeakedContext
  <2> SUFFICES ASSUME IInv, ~exc, frames # <<>> PROVE Len(ctxs) = Top.base
    BY DEF NoLeakedContext
  <2>1. Len(ctxs) = Len(frames) + 1 /\ Len(frames) \in Nat /\ frames \in Seq(Frame)
    BY CurrentFacts
  <2>2. Top.base = Len(frames) + 1
    BY <2>1 DEF IInv, Stacked, FrameOK, Top, Last
  <2> QED BY <2>1, <2>2
<1> QED BY <1>1, AlwaysIInv, PTL

(***************************************************************************)
(* A failure handler is never skipped.                                     *)
(***************************************************************************)
THEOREM HandlersRun == Spec => []FailureHandlerRuns
<1>1. IInv => FailureHandlerRuns
  BY DEF IInv
<1> QED BY <1>1, AlwaysIInv, PTL

-----------------------------------------------------------------------------
(***************************************************************************)
(* Which branch runs.  Only the outermost section matters: below it every  *)
(* context has a branch mode of its own, which is none, and what is opened *)
(* in one of its branches lives above it.                                  *)
(***************************************************************************)
First(fs, i) ==
    /\ i \in 1..Len(fs) /\ fs[i].kind = "section"
    /\ \A j \in 1..(i - 1) : fs[j].kind # "section"

NoSection(fs) == \A j \in 1..Len(fs) : fs[j].kind # "section"

Owns(cs, k, mode) == cs[k].es = k /\ cs[k].branch = mode

Outside(cs, fs) ==
    \A k \in 1..(Len(fs) + 1) : (\A j \in 1..(k - 1) : fs[j].kind # "section") =>
        Owns(cs, k, "none") /\ ~cs[k].in_a_condition

(* In a branch that is not taken, nothing but skipped sections is open.    *)
Untaken(cs, fs, i) ==
    /\ \A k \in (i + 1)..(Len(fs) + 1) : Owns(cs, k, "skipped") /\ cs[k].local
    /\ \A j \in (i + 1)..Len(fs) : fs[j].kind = "section" /\ fs[j].skipped

(* In the branch that is taken every call inherits the active mode, as     *)
(* long as no section is opened in it.                                     *)
Taken(cs, fs, i) ==
    /\ \A k \in (i + 1)..(Len(fs) + 1) : Owns(cs, k, "active") /\ cs[k].local
    /\ \A j \in (i + 1)..Len(fs) : fs[j].kind # "section"

FirstOK(cs, fs, i) ==
    /\ ~fs[i].skipped /\ fs[i].selected = fs[i].chosen /\ fs[i].chosen <= fs[i].cases
    /\ cs[i + 1].es = i + 1 /\ cs[i + 1].local
    /\ \A k \in (i + 1)..(Len(fs) + 1) : cs[k].es > i /\ cs[k].in_a_condition
    /\ ~fs[i].in_branch => i = Len(fs) /\ cs[i + 1].branch = "skipped"
    /\ fs[i].in_branch /\ fs[i].cases # fs[i].chosen => Untaken(cs, fs, i)
    /\ fs[i].in_branch /\ fs[i].cases = fs[i].chosen /\ ~fs[i].nested => Taken(cs, fs, i)

Sectioned(cs, fs) ==
    /\ Outside(cs, fs)
    /\ NoSection(fs) \/ \E i \in 1..Len(fs) : First(fs, i)
    /\ \A i \in 1..Len(fs) : First(fs, i) => FirstOK(cs, fs, i)

Branched == Sectioned(ctxs, frames) /\ FlatBranches /\ UntakenRunsNothing

BInv == IInv /\ Branched

-----------------------------------------------------------------------------
(* Changes of the stacks that leave this alone.                            *)

(* The sections stand as they did, but may be marked as nested.            *)
Similar(fs, gs) ==
    /\ Len(gs) = Len(fs)
    /\ \A i \in 1..Len(fs) :
        /\ gs[i].kind = fs[i].kind
        /\ fs[i].kind = "section" =>
            /\ gs[i].skipped = fs[i].skipped /\ gs[i].selected = fs[i].selected
            /\ gs[i].chosen = fs[i].chosen /\ gs[i].cases = fs[i].cases
            /\ gs[i].in_branch = fs[i].in_branch
            /\ fs[i].nested => gs[i].nested

LEMMA SimilarFirst ==
    ASSUME NEW fs \in Seq(Frame), NEW gs, Similar(fs, gs)
    PROVE  /\ NoSection(gs) <=> NoSection(fs)
           /\ \A i \in 1..Len(fs) : First(gs, i) <=> First(fs, i)
<1>1. Len(gs) = Len(fs) /\ Len(fs) \in Nat
  BY DEF Similar
<1>2. \A i \in 1..Len(fs) : First(gs, i) <=> First(fs, i)
  BY <1>1 DEF First, Similar
<1>3. NoSection(gs) <=> NoSection(fs)
  BY <1>1 DEF NoSection, Similar
<1> QED BY <1>2, <1>3

LEMMA SimilarSectioned ==
    ASSUME NEW cs, NEW fs \in Seq(Frame), NEW gs, Similar(fs, gs), Sectioned(cs, fs)
    PROVE  Sectioned(cs, gs)
<1>1. Len(gs) = Len(fs) /\ Len(fs) \in Nat
  BY DEF Similar
<1>2. \A i \in 1..Len(fs) : First(gs, i) <=> First(fs, i)
  BY SimilarFirst
<1>3. NoSection(gs) <=> NoSection(fs)
  BY SimilarFirst
<1>4. Outside(cs, gs)
  BY <1>1 DEF Outside, Similar, Sectioned
<1>5. ASSUME NEW i \in 1..Len(gs), First(gs, i) PROVE FirstOK(cs, gs, i)
  <2>1. FirstOK(cs, fs, i) /\ i \in 1..Len(fs) /\ fs[i].kind = "section"
    BY <1>1, <1>2, <1>5 DEF Sectioned, First
  <2>2. /\ gs[i].skipped = fs[i].skipped /\ gs[i].selected = fs[i].selected
        /\ gs[i].chosen = fs[i].chosen /\ gs[i].cases = fs[i].cases
        /\ gs[i].in_branch = fs[i].in_branch
        /\ fs[i].nested => gs[i].nested
    BY <2>1 DEF Similar
  <2>3. Untaken(cs, fs, i) => Untaken(cs, gs, i)
    BY <1>1, <2>1 DEF Untaken, Similar
  <2>4. Taken(cs, fs, i) => Taken(cs, gs, i)
    BY <1>1, <2>1 DEF Taken, Similar
  <2> QED BY <1>1, <2>1, <2>2, <2>3, <2>4 DEF FirstOK
<1> QED BY <1>1, <1>2, <1>3, <1>4, <1>5 DEF Sectioned

LEMMA CutSectioned ==
    ASSUME NEW cs, NEW ds, NEW fs \in Seq(Frame), NEW gs \in Seq(Frame), Len(gs) <= Len(fs),
           \A i \in 1..Len(gs) : gs[i] = fs[i],
           \A k \in 1..(Len(gs) + 1) : ds[k] = cs[k],
           Sectioned(cs, fs)
    PROVE  Sectioned(ds, gs)
<1>1. Len(gs) \in Nat /\ Len(fs) \in Nat
  OBVIOUS
<1>2. \A i \in 1..Len(gs) : i \in 1..Len(fs) /\ (First(gs, i) <=> First(fs, i))
  BY <1>1 DEF First
<1>3. Outside(ds, gs)
  BY <1>1 DEF Outside, Sectioned, Owns
<1>4. NoSection(gs) \/ \E i \in 1..Len(gs) : First(gs, i)
  <2>1. CASE NoSection(fs)
    BY <1>1, <2>1 DEF NoSection
  <2>2. ASSUME NEW i \in 1..Len(fs), First(fs, i) PROVE NoSection(gs) \/ First(gs, i)
    BY <1>1, <2>2 DEF NoSection, First
  <2>3. \A i \in 1..Len(fs) : First(gs, i) => i \in 1..Len(gs)
    BY DEF First
  <2> QED BY <2>1, <2>2, <2>3 DEF Sectioned
<1>5. ASSUME NEW i \in 1..Len(gs), First(gs, i) PROVE FirstOK(ds, gs, i)
  <2>1. FirstOK(cs, fs, i) /\ gs[i] = fs[i]
    BY <1>2, <1>5 DEF Sectioned
  <2>2. i + 1 \in 1..(Len(gs) + 1) /\ ds[i + 1] = cs[i + 1]
    BY <1>1
  <2>3. \A k \in (i + 1)..(Len(gs) + 1) : k \in (i + 1)..(Len(fs) + 1) /\ ds[k] = cs[k]
    BY <1>1
  <2>4. \A j \in (i + 1)..Len(gs) : j \in (i + 1)..Len(fs) /\ gs[j] = fs[j]
    BY <1>1
  <2>5. Untaken(cs, fs, i) => Untaken(ds, gs, i)
    BY <2>3, <2>4 DEF Untaken, Owns
  <2>6. Taken(cs, fs, i) => Taken(ds, gs, i)
    BY <2>3, <2>4 DEF Taken, Owns
  <2>7. i = Len(fs) => i = Len(gs)
    BY <1>1
  <2> QED BY <2>1, <2>2, <2>3, <2>5, <2>6, <2>7 DEF FirstOK
<1> QED BY <1>3, <1>4, <1>5 DEF Sectioned

LEMMA ReplaceTopSimilar ==
    ASSUME NEW fs \in Seq(Frame), fs # <<>>, NEW g, g.kind = fs[Len(fs)].kind,
           g.kind = "section" =>
             /\ g.skipped = fs[Len(fs)].skipped /\ g.selected = fs[Len(fs)].selected
             /\ g.chosen = fs[Len(fs)].chosen /\ g.cases = fs[Len(fs)].cases
             /\ g.in_branch = fs[Len(fs)].in_branch /\ g.nested = fs[Len(fs)].nested
    PROVE  Similar(fs, [fs EXCEPT ![Len(fs)] = g])
<1> DEFINE gs == [fs EXCEPT ![Len(fs)] = g]
<1>1. Len(fs) \in Nat /\ Len(fs) \in 1..Len(fs)
  OBVIOUS
<1>2. Len(gs) = Len(fs) /\ gs[Len(fs)] = g /\ \A i \in 1..Len(fs) : i # Len(fs) => gs[i] = fs[i]
  BY <1>1
<1> HIDE DEF gs
<1>3. Similar(fs, gs)
  BY <1>2 DEF Similar
<1> QED BY <1>3 DEF gs

LEMMA DeliverSimilar ==
    ASSUME NEW fs \in Seq(Frame), NEW v \in Values
    PROVE  Similar(fs, Deliver(fs, v))
<1>1. CASE fs = <<>>
  BY <1>1 DEF Deliver, Similar
<1>2. CASE fs # <<>>
  <2> DEFINE t == fs[Len(fs)]
  <2>1. t \in Frame /\ Last(fs) = t
    BY <1>2 DEF Last
  <2>2. CASE t.kind = "array"
    <3> DEFINE g == [t EXCEPT !.done = @ + 1]
    <3>1. t \in ArrayFrame
      BY <2>1, <2>2, FrameFacts
    <3>2. g.kind = "array"
      BY <3>1 DEF ArrayFrame
    <3>3. Deliver(fs, v) = [fs EXCEPT ![Len(fs)] = g]
      BY <1>2, <2>1, <2>2 DEF Deliver
    <3> HIDE DEF g
    <3> QED BY <1>2, <2>2, <3>2, <3>3, ReplaceTopSimilar
  <2>3. CASE t.kind # "array"
    <3> DEFINE g == [t EXCEPT !.out = v]
    <3>1. t \in WorkflowFrame \/ t \in SectionFrame
      BY <2>1, <2>3, FrameFacts
    <3>2. /\ g.kind = t.kind
          /\ g.kind = "section" =>
                /\ g.skipped = t.skipped /\ g.selected = t.selected
                /\ g.chosen = t.chosen /\ g.cases = t.cases
                /\ g.in_branch = t.in_branch /\ g.nested = t.nested
      BY <3>1 DEF WorkflowFrame, SectionFrame
    <3>3. Deliver(fs, v) = [fs EXCEPT ![Len(fs)] = g]
      BY <1>2, <2>1, <2>3 DEF Deliver
    <3> HIDE DEF g
    <3> QED BY <1>2, <3>2, <3>3, ReplaceTopSimilar
  <2> QED BY <2>2, <2>3
<1> QED BY <1>1, <1>2

(* A new section marks the outermost one, among others.                    *)
LEMMA MarkNestedSimilar ==
    ASSUME NEW fs \in Seq(Frame)
    PROVE  /\ Similar(fs, MarkNested(fs)) /\ MarkNested(fs) \in Seq(Frame)
           /\ \A i \in 1..Len(fs) : fs[i].kind = "section" => MarkNested(fs)[i].nested
<1> DEFINE gs == MarkNested(fs)
           b(i) == fs[i].nested \/ \E j \in Sections(fs) : j <= i
<1>1. DOMAIN fs = 1..Len(fs) /\ Len(fs) \in Nat
  OBVIOUS
<1>2. gs = [i \in 1..Len(fs) |-> [fs[i] EXCEPT !.nested = b(i)]]
  BY <1>1 DEF MarkNested
<1>3. gs \in Seq(Frame) /\ Len(gs) = Len(fs)
  BY MarkNestedAlike DEF Alike
<1>4. \A c \in BOOLEAN, f \in Frame :
        /\ [f EXCEPT !.nested = c].kind = f.kind
        /\ [f EXCEPT !.nested = c].nested = c
        /\ f.kind = "section" =>
              /\ [f EXCEPT !.nested = c].skipped = f.skipped
              /\ [f EXCEPT !.nested = c].selected = f.selected
              /\ [f EXCEPT !.nested = c].chosen = f.chosen
              /\ [f EXCEPT !.nested = c].cases = f.cases
              /\ [f EXCEPT !.nested = c].in_branch = f.in_branch
  BY DEF Frame, WorkflowFrame, SectionFrame, ArrayFrame
<1>5. ASSUME NEW i \in 1..Len(fs)
      PROVE  /\ gs[i].kind = fs[i].kind
             /\ gs[i].nested = b(i)
             /\ fs[i].kind = "section" =>
                  /\ gs[i].skipped = fs[i].skipped /\ gs[i].selected = fs[i].selected
                  /\ gs[i].chosen = fs[i].chosen /\ gs[i].cases = fs[i].cases
                  /\ gs[i].in_branch = fs[i].in_branch
  <2>1. gs[i] = [fs[i] EXCEPT !.nested = b(i)]
    BY <1>2
  <2>2. b(i) \in BOOLEAN /\ fs[i] \in Frame
    OBVIOUS
  <2> HIDE DEF b, gs
  <2> QED BY <1>4, <2>1, <2>2
<1>6. \A i \in 1..Len(fs) : /\ fs[i].nested => b(i)
                            /\ fs[i].kind = "section" => b(i)
  BY <1>1 DEF Sections
<1> HIDE DEF gs, b
<1>7. Similar(fs, gs)
  BY <1>3, <1>5, <1>6 DEF Similar
<1> QED BY <1>3, <1>5, <1>6, <1>7 DEF gs

-----------------------------------------------------------------------------
(* What the current context says of the branch that user code is in.       *)

LEMMA FirstIsUnique ==
    ASSUME NEW fs \in Seq(Frame), NEW i \in 1..Len(fs), First(fs, i),
           NEW j \in 1..Len(fs), First(fs, j)
    PROVE  i = j
<1>1. Len(fs) \in Nat /\ i \in Nat /\ j \in Nat
  OBVIOUS
<1>2. ~(i < j) /\ ~(j < i)
  BY <1>1 DEF First
<1> QED BY <1>1, <1>2

LEMMA SectionFacts ==
    ASSUME NEW f \in Frame, f.kind = "section"
    PROVE  /\ f.skipped \in BOOLEAN /\ f.in_branch \in BOOLEAN /\ f.last_case \in BOOLEAN
           /\ f.cases \in Nat /\ f.chosen \in Nat /\ f.selected \in Nat
           /\ f.nested \in BOOLEAN
BY FrameFacts DEF SectionFrame

(* User code that runs inside the outermost section is in one of its       *)
(* branches.                                                               *)
LEMMA InItsBranch ==
    ASSUME IInv, Sectioned(ctxs, frames), TopKind = "section" => Top.in_branch,
           NEW i \in 1..Len(frames), First(frames, i)
    PROVE  frames[i].in_branch
<1>1. FirstOK(ctxs, frames, i)
  BY DEF Sectioned
<1>2. CASE i = Len(frames)
  <2>1. frames # <<>> /\ Top = frames[i] /\ TopKind = "section"
    BY <1>2, CurrentFacts DEF Top, TopKind, Last, First
  <2> QED BY <2>1
<1>3. CASE i # Len(frames)
  BY <1>1, <1>3 DEF FirstOK
<1> QED BY <1>2, <1>3

LEMMA ModeFacts ==
    ASSUME IInv, Sectioned(ctxs, frames), ~exc, TopKind = "section" => Top.in_branch
    PROVE  /\ NoSection(frames) => /\ ~IsSkipped /\ CurrentMode = "none"
                                   /\ ~current_context.in_a_condition
           /\ \A i \in 1..Len(frames) : First(frames, i) =>
                /\ frames[i].in_branch
                /\ frames[i].cases # frames[i].chosen =>
                        IsSkipped /\ CurrentMode = "skipped" /\ Untaken(ctxs, frames, i)
                /\ frames[i].cases = frames[i].chosen /\ ~frames[i].nested =>
                        /\ ~IsSkipped /\ CurrentMode = "active" /\ is_local_execution
                        /\ Taken(ctxs, frames, i)
<1> DEFINE n == Len(frames)
<1>1. /\ n \in Nat /\ Len(ctxs) = n + 1 /\ current_context = ctxs[n + 1]
      /\ frames \in Seq(Frame)
  BY CurrentFacts
<1>2. \A mode : Owns(ctxs, n + 1, mode) => /\ CurrentMode = mode
                                           /\ is_local_execution = ctxs[n + 1].local
  BY <1>1 DEF Owns, CurrentMode, is_local_execution
<1>3. ASSUME NoSection(frames)
      PROVE  ~IsSkipped /\ CurrentMode = "none" /\ ~current_context.in_a_condition
  <2>1. Owns(ctxs, n + 1, "none") /\ ~ctxs[n + 1].in_a_condition
    BY <1>1, <1>3 DEF Sectioned, Outside, NoSection
  <2> QED BY <1>1, <1>2, <2>1 DEF IsSkipped
<1>4. ASSUME NEW i \in 1..n, First(frames, i)
      PROVE  /\ frames[i].in_branch
             /\ frames[i].cases # frames[i].chosen =>
                    IsSkipped /\ CurrentMode = "skipped" /\ Untaken(ctxs, frames, i)
             /\ frames[i].cases = frames[i].chosen /\ ~frames[i].nested =>
                    /\ ~IsSkipped /\ CurrentMode = "active" /\ is_local_execution
                    /\ Taken(ctxs, frames, i)
  <2>1. frames[i].in_branch /\ FirstOK(ctxs, frames, i)
    BY <1>4, InItsBranch DEF Sectioned
  <2>2. n + 1 \in (i + 1)..(n + 1)
    BY <1>1
  <2>3. Untaken(ctxs, frames, i) => Owns(ctxs, n + 1, "skipped") /\ ctxs[n + 1].local
    BY <2>2 DEF Untaken
  <2>4. Taken(ctxs, frames, i) => Owns(ctxs, n + 1, "active") /\ ctxs[n + 1].local
    BY <2>2 DEF Taken
  <2> QED BY <1>2, <2>1, <2>3, <2>4 DEF FirstOK, IsSkipped
<1> QED BY <1>3, <1>4

(* A call that ran if and only if it is not skipped is observed as it      *)
(* should be.                                                              *)
LEMMA ObservedRight ==
    ASSUME IInv, Sectioned(ctxs, frames), ~exc, TopKind = "section" => Top.in_branch,
           NEW call \in {"task", "workflow"}, NEW ran \in BOOLEAN, ran <=> ~IsSkipped,
           Observe(call, ran, frames),
           DOMAIN frames' = 1..Len(frames'), Len(frames') \in Nat, Len(frames) <= Len(frames'),
           \A i \in 1..Len(frames) :
                /\ frames'[i].kind = frames[i].kind
                /\ frames[i].kind = "section" => /\ frames'[i].cases = frames[i].cases
                                                 /\ frames'[i].chosen = frames[i].chosen,
           \A i \in (Len(frames) + 1)..Len(frames') : frames'[i].kind # "section"
    PROVE  FlatBranches' /\ UntakenRunsNothing'
<1>1. DOMAIN frames = 1..Len(frames) /\ Len(frames) \in Nat /\ frames \in Seq(Frame)
  BY CurrentFacts
<1>2. seen'.ran = ran /\ seen'.wanted = Wanted(frames) /\ seen'.flat = Flat(frames)
  BY DEF Observe
<1>3. ASSUME Flat(frames) PROVE Wanted(frames) <=> ~IsSkipped
  <2>1. CASE NoSection(frames)
    BY <1>1, <2>1, ModeFacts DEF NoSection, Wanted, Sections
  <2>2. ASSUME NEW i \in 1..Len(frames), First(frames, i) PROVE Wanted(frames) <=> ~IsSkipped
    <3>1. Sections(frames) = {i} /\ ~frames[i].nested
      BY <1>1, <1>3, <2>2 DEF Flat, First, Sections
    <3>2. Wanted(frames) <=> frames[i].cases = frames[i].chosen
      BY <3>1 DEF Wanted
    <3> QED BY <2>2, <3>1, <3>2, ModeFacts
  <2> QED BY <2>1, <2>2 DEF Sectioned
<1>4. FlatBranches'
  <2>1. Wanted(frames) \in BOOLEAN
    BY DEF Wanted
  <2>2. Flat(frames) => ran = Wanted(frames)
    BY <1>3, <2>1
  <2> QED BY <1>2, <2>2 DEF FlatBranches
<1>5. UntakenRunsNothing'
  <2> SUFFICES ASSUME ran, NEW i \in Sections(frames'),
                      \A j \in Sections(frames') : i <= j
               PROVE  frames'[i].cases = frames'[i].chosen
    BY <1>2 DEF UntakenRunsNothing
  <2>1. Sections(frames') = Sections(frames)
    BY <1>1 DEF Sections
  <2>2. i \in 1..Len(frames) /\ i \in Nat /\ frames[i].kind = "section"
    BY <1>1, <2>1 DEF Sections
  <2>3. First(frames, i)
    <3> SUFFICES ASSUME NEW j \in 1..(i - 1), frames[j].kind = "section" PROVE FALSE
      BY <2>2 DEF First
    <3>1. j \in Sections(frames') /\ j < i /\ j \in Nat
      BY <1>1, <2>1, <2>2 DEF Sections
    <3> QED BY <2>2, <3>1
  <2>4. frames[i].cases = frames[i].chosen
    BY <2>2, <2>3, ModeFacts
  <2> QED BY <2>2, <2>4
<1> QED BY <1>4, <1>5

LEMMA NothingObserved ==
    ASSUME seen'.call \in {"no", "handler"}
    PROVE  FlatBranches' /\ UntakenRunsNothing'
BY DEF FlatBranches, UntakenRunsNothing

-----------------------------------------------------------------------------
(* Pushing a context.                                                      *)

LEMMA PushFacts ==
    ASSUME NEW cs \in Seq(Context), NEW fs \in Seq(Frame), Len(cs) = Len(fs) + 1,
           NEW c \in Context, NEW f \in Frame, Sectioned(cs, fs),
           NoSection(fs) /\ f.kind # "section" =>
                c.es = Len(fs) + 2 /\ c.branch = "none" /\ ~c.in_a_condition,
           NoSection(fs) /\ f.kind = "section" => FirstOK(Append(cs, c), Append(fs, f), Len(fs) + 1),
           \A i \in 1..Len(fs) : First(fs, i) => FirstOK(Append(cs, c), Append(fs, f), i)
    PROVE  Sectioned(Append(cs, c), Append(fs, f))
<1> DEFINE ds == Append(cs, c)
           gs == Append(fs, f)
           n == Len(fs)
<1>1. n \in Nat
  OBVIOUS
<1>2. Len(ds) = n + 2 /\ ds[n + 2] = c /\ \A k \in 1..(n + 1) : ds[k] = cs[k]
  BY <1>1
<1>3. Len(gs) = n + 1 /\ gs[n + 1] = f /\ \A k \in 1..n : gs[k] = fs[k]
  BY <1>1
<1> HIDE DEF ds, gs
<1>4. \A i \in 1..n : First(gs, i) <=> First(fs, i)
  BY <1>1, <1>3 DEF First
<1>5. First(gs, n + 1) <=> NoSection(fs) /\ f.kind = "section"
  BY <1>1, <1>3 DEF First, NoSection
<1>6. NoSection(gs) <=> NoSection(fs) /\ f.kind # "section"
  BY <1>1, <1>3 DEF NoSection
<1>7. Outside(ds, gs)
  <2> SUFFICES ASSUME NEW k \in 1..(n + 2), \A j \in 1..(k - 1) : gs[j].kind # "section"
               PROVE  Owns(ds, k, "none") /\ ~ds[k].in_a_condition
    BY <1>1, <1>3 DEF Outside
  <2>1. CASE k = n + 2
    <3>1. NoSection(fs) /\ f.kind # "section"
      BY <1>1, <1>3, <2>1 DEF NoSection
    <3> QED BY <1>2, <2>1, <3>1 DEF Owns
  <2>2. CASE k # n + 2
    <3>1. k \in 1..(n + 1) /\ \A j \in 1..(k - 1) : j \in 1..n /\ fs[j].kind # "section"
      BY <1>1, <1>3, <2>2
    <3> QED BY <1>2, <3>1 DEF Sectioned, Outside, Owns
  <2> QED BY <2>1, <2>2
<1>8. NoSection(gs) \/ \E i \in 1..Len(gs) : First(gs, i)
  <2>1. n + 1 \in 1..Len(gs) /\ \A i \in 1..n : i \in 1..Len(gs)
    BY <1>1, <1>3
  <2> QED BY <1>4, <1>5, <1>6, <2>1 DEF Sectioned
<1>9. \A i \in 1..Len(gs) : First(gs, i) => FirstOK(ds, gs, i)
  <2> SUFFICES ASSUME NEW i \in 1..(n + 1), First(gs, i) PROVE FirstOK(ds, gs, i)
    BY <1>3
  <2>1. CASE i = n + 1
    BY <1>5, <2>1 DEF ds, gs
  <2>2. CASE i # n + 1
    <3>1. i \in 1..n
      BY <1>1, <2>2
    <3> QED BY <1>4, <3>1 DEF ds, gs
  <2> QED BY <2>1, <2>2
<1> QED BY <1>7, <1>8, <1>9 DEF Sectioned, ds, gs

(* A call is made where its caller is not skipped.                         *)
LEMMA EnterSectioned ==
    ASSUME IInv, Sectioned(ctxs, frames), ~exc, TopKind = "section" => Top.in_branch,
           NEW f \in Frame, Enter(f), ~IsSkipped, f.kind # "section"
    PROVE  Sectioned(ctxs', frames')
<1> DEFINE n == Len(frames)
           c == ChildContext
           ds == Append(ctxs, c)
           gs == Append(frames, f)
<1>1. /\ ctxs \in Seq(Context) /\ frames \in Seq(Frame) /\ n \in Nat /\ Len(ctxs) = n + 1
      /\ current_context = ctxs[n + 1]
  BY CurrentFacts
<1>2. c \in Context /\ c.es = n + 2
  BY <1>1, ChildFacts
<1>3. /\ c.local /\ c.in_a_condition = current_context.in_a_condition
      /\ is_local_execution => c.branch = CurrentMode
      /\ CurrentMode = "none" => c.branch = "none"
  BY DEF ChildContext
<1> HIDE DEF c
<1>4. Len(ds) = n + 2 /\ ds[n + 2] = c /\ \A k \in 1..(n + 1) : ds[k] = ctxs[k]
  BY <1>1, <1>2
<1>5. Len(gs) = n + 1 /\ gs[n + 1] = f /\ \A k \in 1..n : gs[k] = frames[k]
  BY <1>1
<1>6. NoSection(frames) => c.branch = "none" /\ ~c.in_a_condition
  BY <1>3, ModeFacts
<1> HIDE DEF ds, gs
<1>7. ASSUME NEW i \in 1..n, First(frames, i) PROVE FirstOK(ds, gs, i)
  <2>1. /\ FirstOK(ctxs, frames, i) /\ frames[i].in_branch
        /\ frames[i].cases = frames[i].chosen
        /\ ~frames[i].nested => CurrentMode = "active" /\ is_local_execution
                                /\ Taken(ctxs, frames, i)
    BY <1>7, ModeFacts DEF Sectioned
  <2>2. gs[i] = frames[i] /\ ds[i + 1] = ctxs[i + 1]
    BY <1>1, <1>4, <1>5
  <2>3. current_context.in_a_condition
    BY <1>1, <2>1 DEF FirstOK
  <2>4. \A k \in (i + 1)..(n + 2) : ds[k].es > i /\ ds[k].in_a_condition
    <3> SUFFICES ASSUME NEW k \in (i + 1)..(n + 2) PROVE ds[k].es > i /\ ds[k].in_a_condition
      OBVIOUS
    <3>1. CASE k = n + 2
      <4>1. ds[k] = c /\ c.es = n + 2 /\ c.in_a_condition
        BY <1>2, <1>3, <1>4, <2>3, <3>1
      <4>2. n + 2 > i
        BY <1>1
      <4> QED BY <4>1, <4>2
    <3>2. CASE k # n + 2
      <4>1. k \in 1..(n + 1) /\ k \in (i + 1)..(n + 1)
        BY <1>1, <3>2
      <4>2. ctxs[k].es > i /\ ctxs[k].in_a_condition
        BY <2>1, <4>1 DEF FirstOK
      <4> QED BY <1>4, <4>1, <4>2
    <3> QED BY <3>1, <3>2
  <2>5. ~frames[i].nested => Taken(ds, gs, i)
    <3> SUFFICES ASSUME ~frames[i].nested PROVE Taken(ds, gs, i)
      OBVIOUS
    <3>1. Taken(ctxs, frames, i) /\ c.branch = "active"
      BY <1>3, <2>1
    <3>2. \A k \in (i + 1)..(n + 2) : Owns(ds, k, "active") /\ ds[k].local
      <4> SUFFICES ASSUME NEW k \in (i + 1)..(n + 2) PROVE Owns(ds, k, "active") /\ ds[k].local
        OBVIOUS
      <4>1. CASE k = n + 2
        BY <1>2, <1>3, <1>4, <3>1, <4>1 DEF Owns
      <4>2. CASE k # n + 2
        BY <1>1, <1>4, <3>1, <4>2 DEF Taken, Owns
      <4> QED BY <4>1, <4>2
    <3>3. \A j \in (i + 1)..(n + 1) : gs[j].kind # "section"
      <4> SUFFICES ASSUME NEW j \in (i + 1)..(n + 1) PROVE gs[j].kind # "section"
        OBVIOUS
      <4>1. CASE j = n + 1
        BY <1>5, <4>1
      <4>2. CASE j # n + 1
        <5>1. j \in 1..n /\ j \in (i + 1)..n
          BY <1>1, <4>2
        <5> QED BY <1>5, <3>1, <5>1 DEF Taken
      <4> QED BY <4>1, <4>2
    <3>4. Len(gs) + 1 = n + 2
      BY <1>1, <1>5
    <3> QED BY <1>5, <3>2, <3>3, <3>4 DEF Taken
  <2> QED BY <1>5, <2>1, <2>2, <2>4, <2>5 DEF FirstOK
<1>8. Sectioned(ds, gs)
  BY <1>1, <1>2, <1>6, <1>7, PushFacts DEF ds, gs
<1> QED BY <1>8 DEF Enter, push_context, ds, gs, c

LEMMA BelowTop ==
    ASSUME NEW n \in Nat, NEW i \in 1..n, NEW k \in (i + 1)..(n + 2), k # n + 2
    PROVE  k \in 1..(n + 1) /\ k \in (i + 1)..(n + 1)
OBVIOUS

(* A section is opened.                                                    *)
LEMMA ConditionalSectioned ==
    ASSUME IInv, Sectioned(ctxs, frames), ~exc, TopKind = "section" => Top.in_branch,
           ctxs' = push_context(enter_conditional_section),
           frames' = Append(MarkNested(frames), NewSection)
    PROVE  Sectioned(ctxs', frames')
<1> DEFINE n == Len(frames)
           c == enter_conditional_section
           f == NewSection
           hs == MarkNested(frames)
           ds == Append(ctxs, c)
           gs == Append(hs, f)
<1>1. /\ ctxs \in Seq(Context) /\ frames \in Seq(Frame) /\ n \in Nat /\ Len(ctxs) = n + 1
      /\ current_context = ctxs[n + 1] /\ current_context.es \in Nat \ {0}
  BY CurrentFacts DEF Context
<1>2. /\ hs \in Seq(Frame) /\ Len(hs) = n /\ Similar(frames, hs)
      /\ \A i \in 1..n : frames[i].kind = "section" => hs[i].nested
  BY <1>1, MarkNestedSimilar DEF Similar
<1>3. /\ c.local /\ c.in_a_condition /\ (c.es = n + 2 \/ c.es = current_context.es)
      /\ ~current_context.in_a_condition \/ CurrentMode = "skipped" =>
            c.es = n + 2 /\ c.branch = "skipped"
  <2>1. CASE ~current_context.in_a_condition \/ CurrentMode = "skipped"
    BY <1>1, <2>1 DEF enter_conditional_section
  <2>2. CASE ~(~current_context.in_a_condition \/ CurrentMode = "skipped")
    BY <2>2 DEF enter_conditional_section
  <2> QED BY <2>1, <2>2
<1>4. c \in Context
  <2>1. CASE ~current_context.in_a_condition \/ CurrentMode = "skipped"
    BY <1>1, <2>1 DEF enter_conditional_section, Context, BranchEvalMode
  <2>2. CASE ~(~current_context.in_a_condition \/ CurrentMode = "skipped")
    BY <1>1, <2>2 DEF enter_conditional_section, Context, BranchEvalMode
  <2> QED BY <2>1, <2>2
<1>5. /\ f.kind = "section" /\ f.skipped = (CurrentMode = "skipped")
      /\ f.cases = 0 /\ f.selected = 0 /\ f.chosen = 0 /\ f.in_branch = FALSE
  BY DEF NewSection
<1>6. f \in Frame
  BY NewSectionFacts
<1> HIDE DEF c, f, hs
<1>7. Len(ds) = n + 2 /\ ds[n + 2] = c /\ \A k \in 1..(n + 1) : ds[k] = ctxs[k]
  BY <1>1, <1>4
<1>8. Len(gs) = n + 1 /\ gs[n + 1] = f /\ \A k \in 1..n : gs[k] = hs[k]
  BY <1>1, <1>2, <1>6
<1>9. Sectioned(ctxs, hs)
  BY <1>1, <1>2, SimilarSectioned
<1>10. /\ NoSection(hs) <=> NoSection(frames)
       /\ \A i \in 1..n : First(hs, i) <=> First(frames, i)
  BY <1>1, <1>2, SimilarFirst
<1> HIDE DEF ds, gs
<1>11. ASSUME NoSection(hs) PROVE FirstOK(ds, gs, n + 1)
  <2>1. CurrentMode = "none" /\ ~current_context.in_a_condition
    BY <1>10, <1>11, ModeFacts
  <2>2. c.es = n + 2 /\ c.branch = "skipped" /\ f.skipped = FALSE
    BY <1>3, <1>5, <2>1
  <2>3. (n + 1) + 1 = n + 2 /\ n + 2 > n + 1 /\ Len(gs) + 1 = n + 2
    BY <1>1, <1>8
  <2>4. \A k \in (n + 2)..(n + 2) : k = n + 2
    BY <1>1
  <2>5. gs[n + 1] = f /\ f.cases = 0 /\ f.selected = 0 /\ f.chosen = 0 /\ 0 <= 0
        /\ f.in_branch = FALSE
    BY <1>5, <1>8
  <2> QED BY <1>3, <1>7, <1>8, <2>2, <2>3, <2>4, <2>5 DEF FirstOK
<1>12. ASSUME NEW i \in 1..n, First(hs, i) PROVE FirstOK(ds, gs, i)
  <2>1. /\ FirstOK(ctxs, hs, i) /\ FirstOK(ctxs, frames, i) /\ First(frames, i)
        /\ frames[i].kind = "section" /\ hs[i].nested
    BY <1>2, <1>9, <1>10, <1>12 DEF Sectioned, First
  <2>2. /\ hs[i].in_branch = frames[i].in_branch /\ hs[i].cases = frames[i].cases
        /\ hs[i].chosen = frames[i].chosen
    BY <1>2, <2>1 DEF Similar
  <2>3. hs[i].in_branch /\ (hs[i].cases # hs[i].chosen => CurrentMode = "skipped")
    BY <2>1, <2>2, ModeFacts
  <2>4. gs[i] = hs[i] /\ ds[i + 1] = ctxs[i + 1] /\ n + 1 \in (i + 1)..(n + 1)
    BY <1>1, <1>7, <1>8
  <2>5. c.es > i
    <3>1. current_context.es > i
      BY <1>1, <2>1, <2>4 DEF FirstOK
    <3>2. n + 2 > i
      BY <1>1
    <3> QED BY <1>3, <3>1, <3>2
  <2>6. ASSUME NEW k \in (i + 1)..(n + 2)
        PROVE  ds[k].es > i /\ ds[k].in_a_condition
    <3>1. CASE k = n + 2
      BY <1>3, <1>7, <2>5, <3>1
    <3>2. CASE k # n + 2
      <4>1. k \in 1..(n + 1) /\ k \in (i + 1)..(n + 1)
        BY <1>1, <3>2, BelowTop
      <4> QED BY <1>2, <1>7, <2>1, <4>1 DEF FirstOK
    <3> QED BY <3>1, <3>2
  <2>7. ASSUME hs[i].cases # hs[i].chosen PROVE Untaken(ds, gs, i)
    <3>1. Untaken(ctxs, hs, i) /\ c.es = n + 2 /\ c.branch = "skipped" /\ f.skipped = TRUE
      BY <1>3, <1>5, <2>1, <2>3, <2>7 DEF FirstOK
    <3>2. ASSUME NEW k \in (i + 1)..(n + 2) PROVE Owns(ds, k, "skipped") /\ ds[k].local
      <4>1. CASE k = n + 2
        BY <1>3, <1>7, <3>1, <4>1 DEF Owns
      <4>2. CASE k # n + 2
        <5>1. k \in 1..(n + 1) /\ k \in (i + 1)..(n + 1)
          BY <1>1, <4>2, BelowTop
        <5> QED BY <1>2, <1>7, <3>1, <5>1 DEF Untaken, Owns
      <4> QED BY <4>1, <4>2
    <3>3. ASSUME NEW j \in (i + 1)..(n + 1) PROVE gs[j].kind = "section" /\ gs[j].skipped
      <4>1. CASE j = n + 1
        BY <1>5, <1>8, <3>1, <4>1
      <4>2. CASE j # n + 1
        <5>1. j \in 1..n /\ j \in (i + 1)..n
          BY <1>1, <4>2
        <5> QED BY <1>2, <1>8, <3>1, <5>1 DEF Untaken
      <4> QED BY <4>1, <4>2
    <3>4. Len(gs) + 1 = n + 2
      BY <1>1, <1>8
    <3> QED BY <1>8, <3>2, <3>3, <3>4 DEF Untaken
  <2>8. Len(gs) + 1 = n + 2
    BY <1>1, <1>8
  <2> QED BY <2>1, <2>3, <2>4, <2>6, <2>7, <2>8 DEF FirstOK
<1>13. Sectioned(ds, gs)
  BY <1>1, <1>2, <1>4, <1>5, <1>6, <1>9, <1>11, <1>12, PushFacts DEF ds, gs
<1> QED BY <1>13 DEF push_context, ds, gs, c, f, hs

-----------------------------------------------------------------------------
(* Branches.                                                               *)

LEMMA SetModeFacts ==
    ASSUME NEW cs \in Seq(Context), NEW n \in Nat, Len(cs) = n + 1, NEW mode \in BranchEvalMode,
           cs[n + 1].es \in 1..(n + 1)
    PROVE  \A k \in 1..(n + 1) :
              /\ SetMode(cs, mode)[k].es = cs[k].es
              /\ SetMode(cs, mode)[k].local = cs[k].local
              /\ SetMode(cs, mode)[k].in_a_condition = cs[k].in_a_condition
              /\ SetMode(cs, mode)[k].branch =
                    IF k = cs[n + 1].es THEN mode ELSE cs[k].branch
<1> DEFINE p == cs[n + 1].es
           ds == [cs EXCEPT ![p].branch = mode]
<1>1. SetMode(cs, mode) = ds
  BY DEF SetMode, Last
<1>2. cs[p] \in Context
  OBVIOUS
<1>3. \A k \in 1..(n + 1) : ds[k] = IF k = p THEN [cs[p] EXCEPT !.branch = mode] ELSE cs[k]
  OBVIOUS
<1>4. /\ [cs[p] EXCEPT !.branch = mode].es = cs[p].es
      /\ [cs[p] EXCEPT !.branch = mode].local = cs[p].local
      /\ [cs[p] EXCEPT !.branch = mode].in_a_condition = cs[p].in_a_condition
      /\ [cs[p] EXCEPT !.branch = mode].branch = mode
  BY <1>2 DEF Context
<1> HIDE DEF p, ds
<1>5. \A k \in 1..(n + 1) :
        /\ ds[k].es = cs[k].es /\ ds[k].local = cs[k].local
        /\ ds[k].in_a_condition = cs[k].in_a_condition
        /\ ds[k].branch = IF k = p THEN mode ELSE cs[k].branch
  BY <1>3, <1>4
<1> QED BY <1>1, <1>5 DEF p

(* A branch of a section that is not the outermost one starts or ends.  It *)
(* writes at most into contexts of a branch that is taken and nested.      *)
LEMMA InnerBranch ==
    ASSUME NEW cs \in Seq(Context), NEW ds, NEW fs \in Seq(Frame), fs # <<>>,
           Len(cs) = Len(fs) + 1, cs[Len(cs)].es \in 1..Len(cs),
           Sectioned(cs, fs), fs[Len(fs)].kind = "section", ~First(fs, Len(fs)),
           NEW g, g.kind = "section", g.skipped = fs[Len(fs)].skipped,
           NEW mode \in BranchEvalMode,
           ds = cs \/ (~g.skipped /\ ds = SetMode(cs, mode))
    PROVE  Sectioned(ds, [fs EXCEPT ![Len(fs)] = g])
<1> DEFINE n == Len(fs)
           gs == [fs EXCEPT ![n] = g]
<1>1. n \in Nat /\ n \in 1..n
  OBVIOUS
<1>2. Len(gs) = n /\ gs[n] = g /\ \A j \in 1..n : j # n => gs[j] = fs[j]
  BY <1>1
<1> HIDE DEF gs
<1>3. PICK i \in 1..n : First(fs, i)
  BY <1>1 DEF Sectioned, NoSection
<1>4. i \in Nat /\ i < n /\ FirstOK(cs, fs, i) /\ fs[i].kind = "section"
  BY <1>1, <1>3 DEF Sectioned, First
<1>5. \A j \in 1..n : gs[j].kind = fs[j].kind
  BY <1>1, <1>2
<1>6. \A j \in 1..n : First(gs, j) <=> j = i
  <2>1. \A j \in 1..n : First(gs, j) <=> First(fs, j)
    BY <1>1, <1>2, <1>5 DEF First
  <2> QED BY <1>3, <2>1, FirstIsUnique
<1>7. fs[i].in_branch
  BY <1>4 DEF FirstOK
<1>8. \A k \in 1..(n + 1) : /\ ds[k].es = cs[k].es /\ ds[k].local = cs[k].local
                            /\ ds[k].in_a_condition = cs[k].in_a_condition
                            /\ k <= i => ds[k].branch = cs[k].branch
  <2>1. CASE ds = cs
    BY <2>1
  <2>2. CASE ds = SetMode(cs, mode)
    <3>1. cs[n + 1].es > i /\ cs[n + 1].es \in 1..(n + 1)
      BY <1>1, <1>4 DEF FirstOK
    <3>2. \A k \in 1..(n + 1) : k <= i => k # cs[n + 1].es
      BY <1>4, <3>1
    <3> QED BY <1>1, <2>2, <3>1, <3>2, SetModeFacts
  <2> QED BY <2>1, <2>2
<1>9. ~(fs[i].cases = fs[i].chosen /\ ~fs[i].nested)
  <2>1. ~Taken(cs, fs, i)
    BY <1>1, <1>4 DEF Taken
  <2> QED BY <1>4, <1>7, <2>1 DEF FirstOK
<1>10. ASSUME fs[i].cases # fs[i].chosen PROVE Untaken(ds, gs, i)
  <2>1. Untaken(cs, fs, i)
    BY <1>4, <1>7, <1>10 DEF FirstOK
  <2>2. fs[n].skipped /\ ds = cs
    BY <1>1, <1>4, <2>1 DEF Untaken
  <2>3. \A j \in (i + 1)..n : j \in 1..n
    BY <1>1, <1>4
  <2>4. \A j \in (i + 1)..n : gs[j].kind = "section" /\ gs[j].skipped
    BY <1>2, <2>1, <2>2, <2>3 DEF Untaken
  <2> QED BY <1>2, <2>1, <2>2, <2>4 DEF Untaken
<1>11. FirstOK(ds, gs, i)
  <2>1. gs[i] = fs[i] /\ i + 1 \in 1..(n + 1)
    BY <1>1, <1>2, <1>4
  <2>2. \A k \in (i + 1)..(n + 1) : k \in 1..(n + 1)
    BY <1>1, <1>4
  <2>3. \A k \in (i + 1)..(n + 1) : ds[k].es > i /\ ds[k].in_a_condition
    BY <1>4, <1>8, <2>2 DEF FirstOK
  <2>4. ds[i + 1].es = i + 1 /\ ds[i + 1].local
    BY <1>4, <1>8, <2>1 DEF FirstOK
  <2> QED BY <1>2, <1>4, <1>7, <1>9, <1>10, <2>1, <2>3, <2>4 DEF FirstOK
<1>12. Outside(ds, gs)
  <2> SUFFICES ASSUME NEW k \in 1..(n + 1), \A j \in 1..(k - 1) : gs[j].kind # "section"
               PROVE  Owns(ds, k, "none") /\ ~ds[k].in_a_condition
    BY <1>2 DEF Outside
  <2>1. k <= i
    BY <1>1, <1>4, <1>5
  <2>2. \A j \in 1..(k - 1) : j \in 1..n /\ fs[j].kind # "section"
    <3>1. \A j \in 1..(k - 1) : j \in 1..n
      BY <1>1
    <3> QED BY <1>5, <3>1
  <2>3. Owns(cs, k, "none") /\ ~cs[k].in_a_condition
    BY <2>2 DEF Sectioned, Outside
  <2> QED BY <1>8, <2>1, <2>3 DEF Owns
<1>13. Sectioned(ds, gs)
  BY <1>2, <1>6, <1>11, <1>12 DEF Sectioned
<1> QED BY <1>13 DEF gs

(* A branch of the outermost section starts or ends: its context says      *)
(* active exactly in the chosen branch.                                    *)
LEMMA OuterBranch ==
    ASSUME NEW cs, NEW ds, NEW fs \in Seq(Frame), fs # <<>>,
           Sectioned(cs, fs), First(fs, Len(fs)),
           NEW g, g.kind = "section", ~g.skipped, g.selected = g.chosen, g.chosen <= g.cases,
           NEW mode \in {"active", "skipped"},
           mode = "active" <=> g.in_branch /\ g.cases = g.chosen,
           \A k \in 1..(Len(fs) + 1) :
                /\ ds[k].es = cs[k].es /\ ds[k].local = cs[k].local
                /\ ds[k].in_a_condition = cs[k].in_a_condition
                /\ k # Len(fs) + 1 => ds[k].branch = cs[k].branch,
           ds[Len(fs) + 1].branch = mode
    PROVE  Sectioned(ds, [fs EXCEPT ![Len(fs)] = g])
<1> DEFINE n == Len(fs)
           gs == [fs EXCEPT ![n] = g]
<1>1. n \in Nat /\ n \in 1..n
  OBVIOUS
<1>2. Len(gs) = n /\ gs[n] = g /\ \A j \in 1..n : j # n => gs[j] = fs[j]
  BY <1>1
<1> HIDE DEF gs
<1>3. FirstOK(cs, fs, n) /\ fs[n].kind = "section"
  BY <1>1 DEF Sectioned, First
<1>4. \A j \in 1..n : gs[j].kind = fs[j].kind
  BY <1>1, <1>2, <1>3
<1>5. \A j \in 1..n : First(gs, j) <=> j = n
  <2>1. \A j \in 1..n : First(gs, j) <=> First(fs, j)
    BY <1>1, <1>2, <1>4 DEF First
  <2> QED BY <1>1, <2>1, FirstIsUnique
<1>6. Outside(ds, gs)
  <2> SUFFICES ASSUME NEW k \in 1..(n + 1), \A j \in 1..(k - 1) : gs[j].kind # "section"
               PROVE  Owns(ds, k, "none") /\ ~ds[k].in_a_condition
    BY <1>2 DEF Outside
  <2>1. k # n + 1
    BY <1>1, <1>3, <1>4
  <2>2. \A j \in 1..(k - 1) : j \in 1..n /\ fs[j].kind # "section"
    <3>1. \A j \in 1..(k - 1) : j \in 1..n
      BY <1>1
    <3> QED BY <1>4, <3>1
  <2>3. Owns(cs, k, "none") /\ ~cs[k].in_a_condition
    BY <2>2 DEF Sectioned, Outside
  <2> QED BY <2>1, <2>3 DEF Owns
<1>7. ds[n + 1].es = n + 1 /\ ds[n + 1].local /\ ds[n + 1].in_a_condition
  <2>1. n + 1 \in 1..(n + 1) /\ n + 1 \in (n + 1)..(n + 1)
    BY <1>1
  <2>2. cs[n + 1].es = n + 1 /\ cs[n + 1].local /\ cs[n + 1].in_a_condition
    BY <1>3, <2>1 DEF FirstOK
  <2> QED BY <2>1, <2>2
<1>8. (\A k \in (n + 1)..(n + 1) : k = n + 1) /\ (\A j \in (n + 1)..n : FALSE) /\ n + 1 > n
  BY <1>1
<1>9. FirstOK(ds, gs, n)
  <2>1. mode = "skipped" => Untaken(ds, gs, n)
    BY <1>2, <1>7, <1>8 DEF Untaken, Owns
  <2>2. mode = "active" => Taken(ds, gs, n)
    BY <1>2, <1>7, <1>8 DEF Taken, Owns
  <2>3. ~g.in_branch => mode = "skipped"
    OBVIOUS
  <2>4. g.in_branch /\ g.cases # g.chosen => mode = "skipped"
    OBVIOUS
  <2>5. \A k \in (n + 1)..(n + 1) : ds[k].es > n /\ ds[k].in_a_condition
    BY <1>7, <1>8
  <2> QED BY <1>2, <1>7, <2>1, <2>2, <2>3, <2>4, <2>5 DEF FirstOK
<1>10. Sectioned(ds, gs)
  BY <1>1, <1>2, <1>5, <1>6, <1>9 DEF Sectioned
<1> QED BY <1>10 DEF gs

(* What both kinds of branches need to know of the current context.        *)
LEMMA BranchContext ==
    ASSUME IInv, ~exc, TopKind = "section", Sectioned(ctxs, frames)
    PROVE  /\ frames # <<>> /\ frames \in Seq(Frame) /\ Top = frames[Len(frames)]
           /\ Top \in SectionFrame /\ Top.kind = "section" /\ Len(frames) \in Nat
           /\ ctxs \in Seq(Context) /\ Len(ctxs) = Len(frames) + 1
           /\ ctxs[Len(ctxs)].es \in 1..Len(ctxs)
           /\ First(frames, Len(frames)) =>
                /\ FirstOK(ctxs, frames, Len(frames))
                /\ ctxs[Len(frames) + 1].es = Len(frames) + 1
<1>1. /\ frames # <<>> /\ frames \in Seq(Frame) /\ Top = frames[Len(frames)]
      /\ Top \in SectionFrame /\ Top.kind = "section" /\ Stacked(ctxs, frames, FALSE)
  BY SectionTop
<1>2. ctxs \in Seq(Context) /\ Len(ctxs) = Len(frames) + 1 /\ Len(frames) \in Nat
  BY <1>1 DEF Stacked, Clean
<1>3. ctxs[Len(ctxs)].es \in 1..Len(ctxs)
  <2>1. Len(ctxs) \in 2..Len(ctxs)
    BY <1>1, <1>2
  <2>2. ctxs[Len(ctxs)].es \in 2..Len(ctxs)
    BY <1>1, <2>1 DEF Stacked
  <2> QED BY <1>2, <2>2
<1>4. First(frames, Len(frames)) => FirstOK(ctxs, frames, Len(frames))
  BY <1>1, <1>2 DEF Sectioned
<1> QED BY <1>1, <1>2, <1>3, <1>4 DEF FirstOK

LEMMA StartBranchSectioned ==
    ASSUME IInv, Sectioned(ctxs, frames),
           NEW truth \in BOOLEAN, NEW last \in BOOLEAN, start_branch(truth, last)
    PROVE  Sectioned(ctxs', frames')
<1> DEFINE n == Len(frames)
           f == Top
           takes == Selects(f, truth, last)
           sel == IF takes THEN f.cases + 1 ELSE f.selected
           cho == IF f.chosen = 0 /\ (truth \/ last) THEN f.cases + 1 ELSE f.chosen
           g == [f EXCEPT !.cases = f.cases + 1, !.last_case = last, !.in_branch = TRUE,
                          !.selected = sel, !.chosen = cho, !.out = "val"]
<1>1. /\ ~exc /\ TopKind = "section" /\ ~f.in_branch
      /\ frames' = [frames EXCEPT ![n] = g]
      /\ ctxs' = IF takes THEN SetMode(ctxs, "active") ELSE ctxs
  BY DEF start_branch
<1>2. /\ frames # <<>> /\ frames \in Seq(Frame) /\ f = frames[n]
      /\ f \in SectionFrame /\ f.kind = "section" /\ n \in Nat
      /\ ctxs \in Seq(Context) /\ Len(ctxs) = n + 1
      /\ ctxs[Len(ctxs)].es \in 1..Len(ctxs)
      /\ First(frames, n) => FirstOK(ctxs, frames, n) /\ ctxs[n + 1].es = n + 1
  BY <1>1, BranchContext
<1>3. f.cases \in Nat /\ f.selected \in Nat /\ f.chosen \in Nat /\ f.skipped \in BOOLEAN
  BY <1>2 DEF SectionFrame
<1>4. /\ g.kind = "section" /\ g.skipped = f.skipped /\ g.selected = sel
      /\ g.chosen = cho /\ g.cases = f.cases + 1 /\ g.in_branch
  <2> DEFINE one == f.cases + 1
  <2>1. g = [f EXCEPT !.cases = one, !.last_case = last, !.in_branch = TRUE,
                      !.selected = sel, !.chosen = cho, !.out = "val"]
    OBVIOUS
  <2>2. f \in SectionFrame /\ f.kind = "section" /\ one = f.cases + 1
    BY <1>2
  <2> HIDE DEF f, sel, cho, one, g
  <2>3. /\ g.kind = f.kind /\ g.skipped = f.skipped /\ g.selected = sel
        /\ g.chosen = cho /\ g.cases = one /\ g.in_branch = TRUE
    BY <2>1, <2>2 DEF SectionFrame
  <2> QED BY <2>2, <2>3
<1>5. takes <=> ~f.skipped /\ f.selected = 0 /\ (truth \/ last)
  BY DEF Selects
<1> HIDE DEF g, takes
<1>6. CASE ~First(frames, n)
  <2>1. ctxs' = ctxs \/ (~g.skipped /\ ctxs' = SetMode(ctxs, "active"))
    BY <1>1, <1>4, <1>5
  <2>2. "active" \in BranchEvalMode
    BY DEF BranchEvalMode
  <2> HIDE DEF f
  <2> QED BY <1>1, <1>2, <1>4, <1>6, <2>1, <2>2, InnerBranch
<1>7. CASE First(frames, n)
  <2>1. /\ FirstOK(ctxs, frames, n) /\ ctxs[n + 1].es = n + 1
        /\ ~f.skipped /\ f.selected = f.chosen /\ f.chosen <= f.cases
        /\ ctxs[n + 1].branch = "skipped"
    BY <1>1, <1>2, <1>7 DEF FirstOK
  <2>2. sel = cho /\ cho <= f.cases + 1 /\ (takes <=> cho = f.cases + 1)
    BY <1>3, <1>5, <2>1
  <2>3. PICK mode : mode = IF takes THEN "active" ELSE "skipped"
    OBVIOUS
  <2>4. mode \in {"active", "skipped"} /\ (mode = "active" <=> takes)
    BY <2>3
  <2>5. /\ \A k \in 1..(n + 1) :
            /\ ctxs'[k].es = ctxs[k].es /\ ctxs'[k].local = ctxs[k].local
            /\ ctxs'[k].in_a_condition = ctxs[k].in_a_condition
            /\ k # n + 1 => ctxs'[k].branch = ctxs[k].branch
        /\ ctxs'[n + 1].branch = mode
    <3>1. CASE takes
      <4>1. ctxs' = SetMode(ctxs, "active") /\ "active" \in BranchEvalMode /\ mode = "active"
        BY <1>1, <2>3, <3>1 DEF BranchEvalMode
      <4>2. n + 1 \in 1..(n + 1) /\ ctxs[n + 1].es \in 1..(n + 1)
        BY <1>2, <2>1
      <4> HIDE DEF f
      <4> QED BY <1>2, <2>1, <4>1, <4>2, SetModeFacts
    <3>2. CASE ~takes
      BY <1>1, <2>1, <2>3, <3>2
    <3> QED BY <3>1, <3>2
  <2>6. /\ ~g.skipped /\ g.selected = g.chosen /\ g.chosen <= g.cases
        /\ mode = "active" <=> g.in_branch /\ g.cases = g.chosen
    BY <1>4, <2>1, <2>2, <2>4
  <2> HIDE DEF f, sel, cho
  <2>7. g.kind = "section"
    BY <1>4
  <2>8. Sectioned(ctxs', [frames EXCEPT ![n] = g])
    BY <1>2, <1>7, <2>4, <2>5, <2>6, <2>7, OuterBranch
  <2> QED BY <1>1, <2>8
<1> QED BY <1>6, <1>7

(* The contexts after branch_complete, with the branch closed.             *)
LEMMA CompleteSectioned ==
    ASSUME IInv, Sectioned(ctxs, frames), ~exc, TopKind = "section", Top.in_branch,
           NEW r \in Values \cup {"err"}
    PROVE  /\ Sectioned(branch_complete(Top),
                        [frames EXCEPT ![Len(frames)] =
                            [Top EXCEPT !.in_branch = FALSE, !.result = r]])
           /\ [Top EXCEPT !.in_branch = FALSE, !.result = r] \in Frame
<1> DEFINE n == Len(frames)
           f == Top
           g == [f EXCEPT !.in_branch = FALSE, !.result = r]
           ds == branch_complete(f)
<1>1. /\ frames # <<>> /\ frames \in Seq(Frame) /\ f = frames[n]
      /\ f \in SectionFrame /\ f.kind = "section" /\ n \in Nat
      /\ ctxs \in Seq(Context) /\ Len(ctxs) = n + 1
      /\ ctxs[Len(ctxs)].es \in 1..Len(ctxs)
      /\ First(frames, n) => FirstOK(ctxs, frames, n) /\ ctxs[n + 1].es = n + 1
  BY BranchContext
<1>2. /\ g.kind = f.kind /\ g.skipped = f.skipped /\ g.selected = f.selected
      /\ g.chosen = f.chosen /\ g.cases = f.cases /\ g.in_branch = FALSE
      /\ g \in SectionFrame
  <2> HIDE DEF f
  <2>1. f \in SectionFrame
    BY <1>1
  <2> QED BY <2>1 DEF SectionFrame
<1>3. ds = IF f.skipped THEN ctxs ELSE SetMode(ctxs, "skipped")
  BY DEF branch_complete
<1> HIDE DEF g, ds
<1>4. g \in Frame
  BY <1>2 DEF Frame
<1>5. "skipped" \in BranchEvalMode
  BY DEF BranchEvalMode
<1>6. CASE ~First(frames, n)
  <2>1. ds = ctxs \/ (~g.skipped /\ ds = SetMode(ctxs, "skipped"))
    BY <1>2, <1>3
  <2> HIDE DEF f
  <2>2. Sectioned(ds, [frames EXCEPT ![n] = g])
    BY <1>1, <1>2, <1>5, <1>6, <2>1, InnerBranch
  <2> QED BY <1>4, <2>2 DEF ds, g, f
<1>7. CASE First(frames, n)
  <2>1. /\ ctxs[n + 1].es = n + 1 /\ ~f.skipped /\ f.selected = f.chosen /\ f.chosen <= f.cases
    BY <1>1, <1>7 DEF FirstOK
  <2>2. ds = SetMode(ctxs, "skipped")
    BY <1>3, <2>1
  <2>3. n + 1 \in 1..(n + 1) /\ ctxs[n + 1].es \in 1..(n + 1)
    BY <1>1, <2>1
  <2> HIDE DEF f
  <2>4. /\ \A k \in 1..(n + 1) :
            /\ ds[k].es = ctxs[k].es /\ ds[k].local = ctxs[k].local
            /\ ds[k].in_a_condition = ctxs[k].in_a_condition
            /\ k # n + 1 => ds[k].branch = ctxs[k].branch
        /\ ds[n + 1].branch = "skipped"
    BY <1>1, <1>5, <2>1, <2>2, <2>3, SetModeFacts
  <2>5. /\ ~g.skipped /\ g.selected = g.chosen /\ g.chosen <= g.cases
        /\ "skipped" = "active" <=> g.in_branch /\ g.cases = g.chosen
        /\ g.kind = "section" /\ "skipped" \in {"active", "skipped"}
    BY <1>1, <1>2, <2>1
  <2>6. Sectioned(ds, [frames EXCEPT ![n] = g])
    BY <1>1, <1>7, <2>4, <2>5, OuterBranch
  <2> QED BY <1>4, <2>6 DEF ds, g, f
<1> QED BY <1>6, <1>7

(* The innermost call or section is gone, the value v perhaps delivered.   *)
LEMMA FrontSectioned ==
    ASSUME NEW cs, NEW ds, NEW hs \in Seq(Frame), NEW fs \in Seq(Frame), fs # <<>>,
           Len(hs) = Len(fs), \A i \in 1..(Len(fs) - 1) : hs[i] = fs[i],
           Sectioned(cs, hs), \A k \in 1..Len(fs) : ds[k] = cs[k],
           NEW gs, NEW v \in Values, gs = Front(fs) \/ gs = Deliver(Front(fs), v)
    PROVE  Sectioned(ds, gs)
<1> DEFINE n == Len(fs)
           us == Front(fs)
<1>1. n \in Nat /\ n >= 1 /\ us \in Seq(Frame) /\ Len(us) = n - 1
      /\ (\A i \in 1..(n - 1) : us[i] = fs[i])
  BY FrontFacts
<1> HIDE DEF us
<1>2. Sectioned(ds, us)
  <2>1. /\ Len(us) <= Len(hs) /\ Len(us) + 1 = n
        /\ (\A i \in 1..Len(us) : us[i] = hs[i])
    BY <1>1
  <2>2. \A k \in 1..(Len(us) + 1) : ds[k] = cs[k]
    BY <2>1
  <2> QED BY <1>1, <2>1, <2>2, CutSectioned
<1>3. CASE gs = us
  BY <1>2, <1>3
<1>4. CASE gs = Deliver(us, v)
  BY <1>1, <1>2, <1>4, DeliverSimilar, SimilarSectioned
<1> QED BY <1>3, <1>4 DEF us

LEMMA EndBranchSectioned ==
    ASSUME IInv, Sectioned(ctxs, frames), NEW result \in Values \cup {"err"}, end_branch(result)
    PROVE  Sectioned(ctxs', frames')
<1> DEFINE n == Len(frames)
           f == Top
           r == SelectedResult(f, result)
           ds == branch_complete(f)
           g == [f EXCEPT !.in_branch = FALSE, !.result = r]
           hs == [frames EXCEPT ![n] = g]
<1>1. ~exc /\ TopKind = "section" /\ f.in_branch
  BY DEF end_branch
<1>2. /\ frames # <<>> /\ f = frames[n] /\ f \in SectionFrame
      /\ frames \in Seq(Frame) /\ Stacked(ctxs, frames, FALSE)
  BY <1>1, SectionTop
<1>3. r \in Values \cup {"err"}
  BY <1>2 DEF SelectedResult, SectionFrame
<1>4. Stacked(ds, frames, FALSE)
  <2>1. "skipped" \in BranchEvalMode /\ frames[n].kind = "section"
    BY <1>1, SectionTop DEF BranchEvalMode
  <2>2. CASE f.skipped
    BY <1>2, <2>2 DEF branch_complete
  <2>3. CASE ~f.skipped
    BY <1>2, <2>1, <2>3, SetModeStacked DEF branch_complete
  <2> QED BY <2>2, <2>3
<1> HIDE DEF r
<1>5. Sectioned(ds, hs) /\ g \in Frame
  BY <1>1, <1>3, CompleteSectioned
<1>6. CASE ~f.last_case
  <2>1. ctxs' = ds /\ frames' = hs
    BY <1>2, <1>6 DEF end_branch, r
  <2> QED BY <1>5, <2>1
<1>7. CASE f.last_case
  <2> DEFINE v == IF f.skipped THEN "none" ELSE r
  <2>1. /\ ctxs' = Front(ds) /\ exc' = (~f.skipped /\ r = "err")
        /\ frames' = IF exc' THEN Front(frames) ELSE Deliver(Front(frames), v)
    BY <1>7 DEF end_branch, pop_context, r
  <2>2. ~(~f.skipped /\ r = "err") => v \in Values
    BY <1>3 DEF Values
  <2>3. PICK w \in Values : frames' = Front(frames) \/ frames' = Deliver(Front(frames), w)
    <3>1. CASE exc'
      BY <2>1, <3>1 DEF Values
    <3>2. CASE ~exc'
      BY <2>1, <2>2, <3>2
    <3> QED BY <3>1, <3>2
  <2>4. n \in Nat /\ hs \in Seq(Frame) /\ Len(hs) = n
        /\ (\A i \in 1..(n - 1) : hs[i] = frames[i])
    <3> HIDE DEF g
    <3> QED BY <1>2, <1>5
  <2>5. ds \in Seq(Context) /\ ds # <<>> /\ Len(ds) - 1 = n
    BY <1>4, <2>4 DEF Stacked, Clean
  <2>6. \A k \in 1..n : ctxs'[k] = ds[k]
    BY <2>1, <2>5, FrontFacts
  <2> HIDE DEF hs, ds, f
  <2> QED BY <1>2, <1>5, <2>3, <2>4, <2>6, FrontSectioned
<1> QED BY <1>6, <1>7

(* The innermost workflow or array node is left.                           *)
LEMMA LeaveSectioned ==
    ASSUME IInv, Sectioned(ctxs, frames), TopKind \in {"workflow", "array"},
           ctxs' = with_context_exit(ctxs, Top.base),
           NEW v \in Values, frames' = Front(frames) \/ frames' = Deliver(Front(frames), v)
    PROVE  Sectioned(ctxs', frames')
<1> DEFINE n == Len(frames)
<1>1. frames # <<>> /\ Top = frames[n] /\ n \in 1..n /\ frames \in Seq(Frame) /\ n \in Nat
  BY TopFacts, CurrentFacts
<1>2. Top.base = n + 1 /\ Len(ctxs) >= n + 1 /\ ctxs \in Seq(Context)
  BY <1>1 DEF IInv, Stacked, FrameOK
<1>3. ctxs' = SubSeq(ctxs, 1, n) /\ n \in 0..Len(ctxs)
  <2>1. (n + 1) - 1 = n
    BY <1>1
  <2> QED BY <1>1, <1>2, <2>1 DEF with_context_exit
<1>4. \A k \in 1..n : ctxs'[k] = ctxs[k]
  BY <1>2, <1>3, PrefixFacts
<1> QED BY <1>1, <1>4, FrontSectioned

(* A call that is over before user code goes on.                           *)
LEMMA LeafSectioned ==
    ASSUME IInv, Sectioned(ctxs, frames), ctxs' = ctxs, Similar(frames, frames')
    PROVE  Sectioned(ctxs', frames')
BY CurrentFacts, SimilarSectioned

LEMMA SimilarItself ==
    ASSUME NEW fs
    PROVE  Similar(fs, fs)
BY DEF Similar

-----------------------------------------------------------------------------
(* One lemma per group of actions.                                         *)

LEMMA LeafBranched ==
    ASSUME IInv, Branched, InUserCode, NEW call \in {"task", "workflow"},
           Skip(call) \/ (~IsSkipped /\ (Answer(call) \/ Raise(call)))
    PROVE  Branched'
<1>1. ~exc /\ (TopKind = "section" => Top.in_branch) /\ Sectioned(ctxs, frames)
  BY DEF InUserCode, Branched
<1>2. frames \in Seq(Frame) /\ Len(frames) \in Nat
  BY CurrentFacts
<1>3. ctxs' = ctxs /\ Similar(frames, frames') /\ frames' \in Seq(Frame)
  <2>1. CASE frames' = frames /\ ctxs' = ctxs
    BY <1>2, <2>1, SimilarItself
  <2>2. ASSUME NEW v \in Values, frames' = Deliver(frames, v)
        PROVE  Similar(frames, frames') /\ frames' \in Seq(Frame)
    BY <1>2, <2>2, DeliverSimilar, DeliverAlike DEF Alike
  <2>3. CASE Skip(call)
    BY <2>2, <2>3 DEF Skip, Values
  <2>4. CASE Answer(call)
    BY <2>2, <2>4 DEF Answer, Values
  <2>5. CASE Raise(call)
    BY <2>1, <2>5 DEF Raise
  <2> QED BY <2>3, <2>4, <2>5
<1>4. PICK ran \in BOOLEAN : (ran <=> ~IsSkipped) /\ Observe(call, ran, frames)
  <2>1. CASE Skip(call)
    BY <2>1 DEF Skip
  <2>2. CASE ~IsSkipped /\ (Answer(call) \/ Raise(call))
    BY <2>2 DEF Answer, Raise
  <2> QED BY <2>1, <2>2
<1>5. /\ DOMAIN frames' = 1..Len(frames') /\ Len(frames') = Len(frames)
      /\ Len(frames') \in Nat /\ Len(frames) <= Len(frames')
      /\ (\A i \in 1..Len(frames) :
            /\ frames'[i].kind = frames[i].kind
            /\ frames[i].kind = "section" => /\ frames'[i].cases = frames[i].cases
                                             /\ frames'[i].chosen = frames[i].chosen)
      /\ \A i \in (Len(frames) + 1)..Len(frames') : frames'[i].kind # "section"
  BY <1>2, <1>3 DEF Similar
<1>6. FlatBranches' /\ UntakenRunsNothing'
  BY <1>1, <1>4, <1>5, ObservedRight
<1>7. Sectioned(ctxs', frames')
  BY <1>1, <1>3, LeafSectioned
<1> QED BY <1>6, <1>7 DEF Branched

LEMMA local_executeBranched ==
    ASSUME IInv, Branched, InUserCode, ~IsSkipped, NEW t \in Tasks, local_execute(t)
    PROVE  Branched'
<1>1. Answer("task") \/ Raise("task")
  BY DEF local_execute
<1> QED BY <1>1, LeafBranched

(* Nothing is observed, and the stacks are as they were.                   *)
LEMMA QuietBranched ==
    ASSUME Sectioned(ctxs', frames'), seen' = NoCall
    PROVE  Branched'
BY NoCallFacts, NothingObserved DEF Branched

LEMMA LeafCallsBranched ==
    ASSUME IInv, Branched, CallTask \/ CreateNode \/ CallGate \/ CallMapTask
    PROVE  Branched'
<1>1. InUserCode
  BY DEF CallTask, CreateNode, CallGate, CallMapTask, MayCall
<1>2. CASE Skip("task")
  BY <1>1, <1>2, LeafBranched
<1>3. CASE ~IsSkipped /\ (Answer("task") \/ Raise("task"))
  BY <1>1, <1>3, LeafBranched
<1>4. CASE CallTask
  BY <1>1, <1>2, <1>4, local_executeBranched DEF CallTask
<1>5. CASE CreateNode
  <2>1. CASE seen' = NoCall /\ UNCHANGED <<ctxs, frames>>
    <3>1. Sectioned(ctxs', frames')
      BY <2>1 DEF Branched
    <3> QED BY <2>1, <3>1, QuietBranched
  <2>2. ASSUME NEW t \in Tasks, ~IsSkipped, local_execute(t) PROVE Branched'
    BY <1>1, <2>2, local_executeBranched
  <2> QED BY <1>5, <2>1, <2>2 DEF CreateNode
<1>6. CASE CallGate
  BY <1>2, <1>3, <1>6 DEF CallGate
<1>7. CASE CallMapTask
  <2>1. Skip("task") \/ (~IsSkipped /\ (Raise("task") \/ Answer("task")))
    <3>1. CASE Skip("task")
      BY <3>1
    <3>2. ASSUME NEW count \in ItemCounts, NEW p \in Policies, NEW failed \in 0..count,
                 ~IsSkipped,
                 IF count - failed < MinSuccesses(count, p) /\ failed > 0
                 THEN Raise("task") ELSE Answer("task") /\ UNCHANGED cache
          PROVE  ~IsSkipped /\ (Raise("task") \/ Answer("task"))
      BY <3>2
    <3> QED BY <1>7, <3>1, <3>2 DEF CallMapTask
  <2> QED BY <1>2, <1>3, <2>1
<1> QED BY <1>4, <1>5, <1>6, <1>7

LEMMA EnterBranched ==
    ASSUME IInv, Branched, ~exc, TopKind = "section" => Top.in_branch,
           NEW f \in Frame, Enter(f), ~IsSkipped, f.kind # "section",
           Observe("workflow", TRUE, frames)
    PROVE  Branched'
<1>1. Sectioned(ctxs, frames)
  BY DEF Branched
<1>2. frames \in Seq(Frame) /\ Len(frames) \in Nat /\ frames' = Append(frames, f)
  BY CurrentFacts DEF Enter
<1>3. /\ DOMAIN frames' = 1..Len(frames') /\ Len(frames') = Len(frames) + 1
      /\ (\A i \in 1..Len(frames) : frames'[i] = frames[i])
      /\ frames'[Len(frames) + 1] = f
  BY <1>2
<1>4. /\ Len(frames') \in Nat /\ Len(frames) <= Len(frames')
      /\ \A i \in (Len(frames) + 1)..Len(frames') : i = Len(frames) + 1
  BY <1>2, <1>3
<1>5. \A i \in (Len(frames) + 1)..Len(frames') : frames'[i].kind # "section"
  BY <1>3, <1>4
<1>6. FlatBranches' /\ UntakenRunsNothing'
  <2>1. TRUE \in BOOLEAN /\ (TRUE <=> ~IsSkipped) /\ "workflow" \in {"task", "workflow"}
    OBVIOUS
  <2> QED BY <1>1, <1>3, <1>4, <1>5, <2>1, ObservedRight
<1>7. Sectioned(ctxs', frames')
  BY <1>1, EnterSectioned
<1> QED BY <1>6, <1>7 DEF Branched

LEMMA CallsBranched ==
    ASSUME IInv, Branched, CallWorkflow \/ CallArrayNode \/ ArrayItem
    PROVE  Branched'
<1>1. CASE Skip("workflow") /\ InUserCode
  BY <1>1, LeafBranched
<1>2. CASE CallWorkflow /\ ~Skip("workflow")
  <2>1. /\ InUserCode /\ ~IsSkipped /\ Observe("workflow", TRUE, frames)
        /\ \E handler \in BOOLEAN : Enter(NewWorkflow(handler))
    BY <1>2 DEF CallWorkflow, MayCall
  <2>2. PICK handler \in BOOLEAN : Enter(NewWorkflow(handler))
    BY <2>1
  <2>3. NewWorkflow(handler) \in Frame /\ NewWorkflow(handler).kind # "section"
    BY NewWorkflowFacts
  <2>4. ~exc /\ (TopKind = "section" => Top.in_branch)
    BY <2>1 DEF InUserCode
  <2> QED BY <2>1, <2>2, <2>3, <2>4, EnterBranched
<1>3. CASE CallArrayNode /\ ~Skip("workflow")
  <2>1. InUserCode /\ ~IsSkipped /\ Observe("workflow", TRUE, frames)
    BY <1>3 DEF CallArrayNode, MayCall
  <2>2. PICK count \in ItemCounts, p \in Policies, outputs \in BOOLEAN :
           Enter([kind |-> "array", base |-> Len(ctxs) + 1, saved |-> ctxs,
                  count |-> count, done |-> 0, failed |-> 0,
                  min_successes |-> MinSuccesses(count, p), outputs |-> outputs,
                  nested |-> FALSE])
    BY <1>3 DEF CallArrayNode
  <2> DEFINE ms == MinSuccesses(count, p)
             f == [kind |-> "array", base |-> Len(ctxs) + 1, saved |-> ctxs,
                   count |-> count, done |-> 0, failed |-> 0,
                   min_successes |-> ms, outputs |-> outputs, nested |-> FALSE]
  <2>3. count \in Nat /\ ms \in Nat
    BY MinSuccessesFacts
  <2> HIDE DEF ms
  <2>4. f \in ArrayFrame
    BY <2>3, CurrentFacts DEF ArrayFrame
  <2>5. f \in Frame /\ f.kind # "section"
    BY <2>4 DEF Frame
  <2>6. Enter(f)
    BY <2>2 DEF ms
  <2>7. ~exc /\ (TopKind = "section" => Top.in_branch)
    BY <2>1 DEF InUserCode
  <2> HIDE DEF f
  <2> QED BY <2>1, <2>5, <2>6, <2>7, EnterBranched
<1>4. CASE ArrayItem
  <2>1. ~exc /\ TopKind = "array" /\ Observe("workflow", TRUE, frames)
    BY <1>4 DEF ArrayItem
  <2>2. PICK handler \in BOOLEAN : Enter(NewWorkflow(handler))
    BY <1>4 DEF ArrayItem
  <2>3. NewWorkflow(handler) \in Frame /\ NewWorkflow(handler).kind # "section"
    BY NewWorkflowFacts
  <2>4. ~IsSkipped
    BY <2>1, ItemsAreRun
  <2> QED BY <2>1, <2>2, <2>3, <2>4, EnterBranched
<1> QED BY <1>1, <1>2, <1>3, <1>4 DEF CallWorkflow, CallArrayNode, MayCall

LEMMA LeaveBranched ==
    ASSUME IInv, Branched, ReturnWorkflow \/ ReturnArray \/ WorkflowFails
    PROVE  Branched'
<1>1. /\ TopKind \in {"workflow", "array"} /\ Sectioned(ctxs, frames)
      /\ ctxs' = with_context_exit(ctxs, Top.base)
  BY DEF ReturnWorkflow, ReturnArray, WorkflowFails, Branched
<1>2. PICK v \in Values : frames' = Front(frames) \/ frames' = Deliver(Front(frames), v)
  <2>1. CASE ReturnArray
    BY <2>1 DEF ReturnArray, Values
  <2>2. CASE WorkflowFails
    BY <2>2 DEF WorkflowFails, Values
  <2>3. CASE ReturnWorkflow
    <3>1. Top \in WorkflowFrame
      BY <2>3, TopFacts, FrameFacts DEF ReturnWorkflow
    <3>2. Top.out \in Values
      BY <3>1 DEF WorkflowFrame
    <3> QED BY <2>3, <3>2 DEF ReturnWorkflow
  <2> QED BY <2>1, <2>2, <2>3
<1>3. Sectioned(ctxs', frames')
  BY <1>1, <1>2, LeaveSectioned
<1>4. seen'.call \in {"no", "handler"}
  <2>1. CASE seen' = NoCall
    BY <2>1, NoCallFacts
  <2>2. CASE WorkflowFails /\ Top.on_failure
    <3> DEFINE c == Last(ctxs')
               ran == ~(ctxs'[c.es].local /\ ctxs'[c.es].branch = "skipped")
    <3>1. Observe("handler", ran, Front(frames))
      BY <2>2 DEF WorkflowFails
    <3> HIDE DEF ran
    <3> QED BY <3>1 DEF Observe
  <2> QED BY <2>1, <2>2 DEF ReturnWorkflow, ReturnArray, WorkflowFails
<1> QED BY <1>3, <1>4, NothingObserved DEF Branched

LEMMA ArrayItemFailsBranched ==
    ASSUME IInv, Branched, ArrayItemFails
    PROVE  Branched'
<1>1. TopKind = "array" /\ seen' = NoCall /\ Sectioned(ctxs, frames)
  BY DEF ArrayItemFails, Branched
<1>2. CASE TooManyFailures(Top)
  <2>1. ctxs' = with_context_exit(ctxs, Top.base) /\ frames' = Front(frames)
    BY <1>2 DEF ArrayItemFails
  <2>2. "val" \in Values
    BY DEF Values
  <2>3. Sectioned(ctxs', frames')
    BY <1>1, <2>1, <2>2, LeaveSectioned
  <2> QED BY <1>1, <2>3, QuietBranched
<1>3. CASE ~TooManyFailures(Top)
  <2> DEFINE t == frames[Len(frames)]
             d == t.done + 1
             x == IF t.outputs THEN t.failed + 1 ELSE t.failed
             g == [t EXCEPT !.done = d, !.failed = x]
  <2>1. frames # <<>> /\ Top = t /\ t \in ArrayFrame /\ frames \in Seq(Frame)
    BY <1>1, TopFacts, FrameFacts, CurrentFacts
  <2>2. g.kind = t.kind /\ g.kind # "section"
    <3> HIDE DEF d, x
    <3> QED BY <2>1 DEF ArrayFrame
  <2>3. frames' = [frames EXCEPT ![Len(frames)] = g] /\ ctxs' = ctxs
    BY <1>3, <2>1 DEF ArrayItemFails
  <2> HIDE DEF g
  <2>4. Similar(frames, frames')
    BY <2>1, <2>2, <2>3, ReplaceTopSimilar
  <2>5. Sectioned(ctxs', frames')
    BY <1>1, <2>3, <2>4, LeafSectioned
  <2> QED BY <1>1, <2>5, QuietBranched
<1> QED BY <1>2, <1>3

LEMMA SectionsBranched ==
    ASSUME IInv, Branched, Conditional \/ IfElifElse \/ Then \/ Fail \/ SectionFails \/ ScriptFails
    PROVE  Branched'
<1>1. Sectioned(ctxs, frames)
  BY DEF Branched
<1>2. seen' = NoCall
  BY DEF Conditional, IfElifElse, Then, Fail, SectionFails, ScriptFails, start_branch, end_branch
<1>3. CASE UNCHANGED <<ctxs, frames>>
  BY <1>1, <1>2, <1>3, QuietBranched
<1>4. CASE Conditional
  <2>1. CASE /\ ctxs' = push_context(enter_conditional_section)
             /\ frames' = Append(MarkNested(frames), NewSection)
    <3>1. ~exc /\ (TopKind = "section" => Top.in_branch)
      BY <1>4 DEF Conditional, MayCall, InUserCode
    <3>2. Sectioned(ctxs', frames')
      BY <1>1, <2>1, <3>1, ConditionalSectioned
    <3> QED BY <1>2, <3>2, QuietBranched
  <2> QED BY <1>3, <1>4, <2>1 DEF Conditional
<1>5. CASE IfElifElse
  BY <1>1, <1>2, <1>5, StartBranchSectioned, QuietBranched DEF IfElifElse
<1>6. CASE Then
  <2>1. TopKind = "section" /\ ~exc /\ end_branch(Top.out)
    BY <1>6 DEF Then, end_branch
  <2>2. Top.out \in Values \cup {"err"}
    BY <2>1, SectionTop DEF SectionFrame
  <2> QED BY <1>1, <1>2, <2>1, <2>2, EndBranchSectioned, QuietBranched
<1>7. CASE Fail
  BY <1>1, <1>2, <1>7, EndBranchSectioned, QuietBranched DEF Fail
<1>8. CASE SectionFails
  <2>1. ctxs' = ctxs /\ frames' = Front(frames) /\ TopKind = "section" /\ "val" \in Values
    BY <1>8 DEF SectionFails, Values
  <2>2. frames # <<>> /\ frames \in Seq(Frame)
    BY <2>1, TopFacts, CurrentFacts
  <2>3. Sectioned(ctxs', frames')
    BY <1>1, <2>1, <2>2, FrontSectioned
  <2> QED BY <1>2, <2>3, QuietBranched
<1>9. CASE ScriptFails
  BY <1>3, <1>9 DEF ScriptFails
<1> QED BY <1>4, <1>5, <1>6, <1>7, <1>8, <1>9

LEMMA InitBInv == Init => BInv
<1> SUFFICES ASSUME Init PROVE BInv
  OBVIOUS
<1>1. IInv
  BY InitIInv
<1>2. Len(frames) = 0 /\ ctxs[1] = Default
  BY DEF Init
<1>3. Sectioned(ctxs, frames)
  BY <1>2 DEF Sectioned, Outside, NoSection, Owns, Default
<1>4. FlatBranches /\ UntakenRunsNothing
  BY DEF Init, FlatBranches, UntakenRunsNothing, NoCall
<1> QED BY <1>1, <1>3, <1>4 DEF BInv, Branched

LEMMA NextBInv == BInv /\ [Next]_vars => BInv'
<1> SUFFICES ASSUME IInv, Branched, [Next]_vars PROVE Branched'
  BY NextIInv DEF BInv
<1>1. CASE CallTask \/ CreateNode \/ CallGate \/ CallMapTask
  BY <1>1, LeafCallsBranched
<1>2. CASE CallWorkflow \/ CallArrayNode \/ ArrayItem
  BY <1>2, CallsBranched
<1>3. CASE ReturnWorkflow \/ ReturnArray \/ WorkflowFails
  BY <1>3, LeaveBranched
<1>4. CASE ArrayItemFails
  BY <1>4, ArrayItemFailsBranched
<1>5. CASE Conditional \/ IfElifElse \/ Then \/ Fail \/ SectionFails \/ ScriptFails
  BY <1>5, SectionsBranched
<1>6. CASE UNCHANGED vars
  BY <1>6 DEF vars, Branched, FlatBranches, UntakenRunsNothing
<1> QED BY <1>1, <1>2, <1>3, <1>4, <1>5, <1>6 DEF Next

LEMMA AlwaysBInv == Spec => []BInv
BY InitBInv, NextBInv, PTL DEF Spec

(* In a program whose sections are not nested, a call runs if and only if  *)
(* the first true case, or else the last, asks for it: start_branch,       *)
(* end_branch and the skip test of flyte_entity_call_handler agree on the  *)
(* branch, however the branches and calls follow each other.               *)
THEOREM BranchesRun == Spec => []FlatBranches
<1>1. BInv => FlatBranches
  BY DEF BInv, Branched
<1> QED BY <1>1, AlwaysBInv, PTL

(* No call runs in a branch that the outermost section has not taken, for  *)
(* every nesting of sections in it (SkippedConditionalSection).            *)
THEOREM UntakenBranchesAreIdle == Spec => []UntakenRunsNothing
<1>1. BInv => UntakenRunsNothing
  BY DEF BInv, Branched
<1> QED BY <1>1, AlwaysBInv, PTL

-----------------------------------------------------------------------------
(***************************************************************************)
(* The minimum of successes of array nodes.  It is inductive: only a       *)
(* failed item changes what it speaks of.                                  *)
(***************************************************************************)
Meets(f) ==
    f.kind = "array" /\ f.outputs /\ f.min_successes <= f.count =>
        f.count - f.failed >= f.min_successes

AllMeet(fs) == \A i \in 1..Len(fs) : Meets(fs[i])

LEMMA ReplaceTopMeets ==
    ASSUME NEW fs \in Seq(Frame), fs # <<>>, AllMeet(fs), NEW g, Meets(g)
    PROVE  AllMeet([fs EXCEPT ![Len(fs)] = g])
BY DEF AllMeet

LEMMA AppendMeets ==
    ASSUME NEW fs \in Seq(Frame), AllMeet(fs), NEW g \in Frame, Meets(g)
    PROVE  AllMeet(Append(fs, g))
<1>1. /\ Len(fs) \in Nat /\ Len(Append(fs, g)) = Len(fs) + 1
      /\ Append(fs, g)[Len(fs) + 1] = g /\ \A i \in 1..Len(fs) : Append(fs, g)[i] = fs[i]
  OBVIOUS
<1>2. \A i \in 1..(Len(fs) + 1) : i = Len(fs) + 1 \/ i \in 1..Len(fs)
  BY <1>1
<1> QED BY <1>1, <1>2 DEF AllMeet

LEMMA FrontMeets ==
    ASSUME NEW fs \in Seq(Frame), fs # <<>>, AllMeet(fs)
    PROVE  AllMeet(Front(fs)) /\ Front(fs) \in Seq(Frame)
<1>1. /\ Front(fs) \in Seq(Frame) /\ Len(Front(fs)) = Len(fs) - 1 /\ Len(fs) \in Nat
      /\ \A i \in 1..(Len(fs) - 1) : Front(fs)[i] = fs[i]
  BY FrontFacts
<1> QED BY <1>1 DEF AllMeet

LEMMA DeliverMeets ==
    ASSUME NEW fs \in Seq(Frame), AllMeet(fs), NEW v
    PROVE  AllMeet(Deliver(fs, v))
<1>1. CASE fs = <<>>
  BY <1>1 DEF Deliver
<1>2. CASE fs # <<>>
  <2> DEFINE t == fs[Len(fs)]
             d == t.done + 1
  <2>1. t \in Frame /\ Last(fs) = t /\ Meets(t)
    BY <1>2 DEF Last, AllMeet
  <2>2. CASE t.kind = "array"
    <3> DEFINE g == [t EXCEPT !.done = d]
    <3>1. t \in ArrayFrame
      BY <2>1, <2>2, FrameFacts
    <3>2. /\ g.outputs = t.outputs /\ g.count = t.count /\ g.failed = t.failed
          /\ g.min_successes = t.min_successes
      <4> HIDE DEF d
      <4> QED BY <3>1 DEF ArrayFrame
    <3>3. Deliver(fs, v) = [fs EXCEPT ![Len(fs)] = g]
      BY <1>2, <2>1, <2>2 DEF Deliver
    <3> HIDE DEF g
    <3>4. Meets(g)
      BY <2>1, <2>2, <3>2 DEF Meets
    <3> QED BY <1>2, <3>3, <3>4, ReplaceTopMeets
  <2>3. CASE t.kind # "array"
    <3> DEFINE g == [t EXCEPT !.out = v]
    <3>1. t \in WorkflowFrame \/ t \in SectionFrame
      BY <2>1, <2>3, FrameFacts
    <3>2. g.kind = t.kind
      BY <3>1 DEF WorkflowFrame, SectionFrame
    <3>3. Deliver(fs, v) = [fs EXCEPT ![Len(fs)] = g]
      BY <1>2, <2>1, <2>3 DEF Deliver
    <3> HIDE DEF g
    <3>4. Meets(g)
      BY <2>3, <3>2 DEF Meets
    <3> QED BY <1>2, <3>3, <3>4, ReplaceTopMeets
  <2> QED BY <2>2, <2>3
<1> QED BY <1>1, <1>2

LEMMA MarkNestedMeets ==
    ASSUME NEW fs \in Seq(Frame), AllMeet(fs)
    PROVE  AllMeet(MarkNested(fs)) /\ MarkNested(fs) \in Seq(Frame)
<1> DEFINE gs == MarkNested(fs)
           b(i) == fs[i].nested \/ \E j \in Sections(fs) : j <= i
<1>1. DOMAIN fs = 1..Len(fs)
  OBVIOUS
<1>2. gs = [i \in 1..Len(fs) |-> [fs[i] EXCEPT !.nested = b(i)]]
  BY <1>1 DEF MarkNested
<1>3. gs \in Seq(Frame) /\ Len(gs) = Len(fs)
  BY MarkNestedAlike DEF Alike
<1>4. \A c \in BOOLEAN, f \in Frame :
        /\ [f EXCEPT !.nested = c].kind = f.kind
        /\ f.kind = "array" =>
              /\ [f EXCEPT !.nested = c].outputs = f.outputs
              /\ [f EXCEPT !.nested = c].count = f.count
              /\ [f EXCEPT !.nested = c].failed = f.failed
              /\ [f EXCEPT !.nested = c].min_successes = f.min_successes
  BY DEF Frame, WorkflowFrame, SectionFrame, ArrayFrame
<1>5. ASSUME NEW i \in 1..Len(fs) PROVE Meets(gs[i])
  <2>1. gs[i] = [fs[i] EXCEPT !.nested = b(i)]
    BY <1>2
  <2>2. b(i) \in BOOLEAN /\ fs[i] \in Frame /\ Meets(fs[i])
    BY DEF AllMeet
  <2> HIDE DEF b, gs
  <2>3. /\ gs[i].kind = fs[i].kind
        /\ fs[i].kind = "array" =>
              /\ gs[i].outputs = fs[i].outputs /\ gs[i].count = fs[i].count
              /\ gs[i].failed = fs[i].failed /\ gs[i].min_successes = fs[i].min_successes
    BY <1>4, <2>1, <2>2
  <2> QED BY <2>2, <2>3 DEF Meets
<1> HIDE DEF gs
<1>6. AllMeet(gs)
  BY <1>3, <1>5 DEF AllMeet
<1> QED BY <1>3, <1>6 DEF gs

LEMMA CallsMeet ==
    ASSUME IInv, AllMeet(frames), CallWorkflow \/ CallArrayNode \/ ArrayItem
    PROVE  AllMeet(frames')
<1>1. frames \in Seq(Frame)
  BY CurrentFacts
<1>2. CASE Skip("workflow")
  BY <1>1, <1>2, DeliverMeets DEF Skip
<1>3. ASSUME NEW handler \in BOOLEAN, Enter(NewWorkflow(handler)) PROVE AllMeet(frames')
  <2>1. NewWorkflow(handler) \in Frame /\ NewWorkflow(handler).kind = "workflow"
    BY NewWorkflowFacts
  <2>2. Meets(NewWorkflow(handler))
    BY <2>1 DEF Meets
  <2> QED BY <1>1, <1>3, <2>1, <2>2, AppendMeets DEF Enter
<1>4. CASE CallArrayNode /\ ~Skip("workflow")
  <2>1. PICK count \in ItemCounts, p \in Policies, outputs \in BOOLEAN :
           Enter([kind |-> "array", base |-> Len(ctxs) + 1, saved |-> ctxs,
                  count |-> count, done |-> 0, failed |-> 0,
                  min_successes |-> MinSuccesses(count, p), outputs |-> outputs,
                  nested |-> FALSE])
    BY <1>4 DEF CallArrayNode
  <2> DEFINE ms == MinSuccesses(count, p)
             f == [kind |-> "array", base |-> Len(ctxs) + 1, saved |-> ctxs,
                   count |-> count, done |-> 0, failed |-> 0,
                   min_successes |-> ms, outputs |-> outputs, nested |-> FALSE]
  <2>2. count \in Nat /\ ms \in Nat
    BY MinSuccessesFacts
  <2> HIDE DEF ms
  <2>3. f \in ArrayFrame
    BY <2>2, CurrentFacts DEF ArrayFrame
  <2>4. f \in Frame /\ Meets(f)
    BY <2>2, <2>3 DEF Frame, Meets
  <2>5. Enter(f)
    BY <2>1 DEF ms
  <2> HIDE DEF f
  <2> QED BY <1>1, <2>4, <2>5, AppendMeets DEF Enter
<1> QED BY <1>2, <1>3, <1>4 DEF CallWorkflow, CallArrayNode, ArrayItem

LEMMA FailuresMeet ==
    ASSUME IInv, AllMeet(frames), ArrayItemFails
    PROVE  AllMeet(frames')
<1> DEFINE t == frames[Len(frames)]
           d == t.done + 1
           x == IF t.outputs THEN t.failed + 1 ELSE t.failed
           g == [t EXCEPT !.done = d, !.failed = x]
<1>1. /\ frames # <<>> /\ Top = t /\ t \in ArrayFrame /\ frames \in Seq(Frame)
      /\ t.kind = "array"
  BY TopFacts, FrameFacts, CurrentFacts DEF ArrayItemFails
<1>2. CASE TooManyFailures(Top)
  BY <1>1, <1>2, FrontMeets DEF ArrayItemFails
<1>3. CASE ~TooManyFailures(Top)
  <2>1. g.outputs = t.outputs /\ g.count = t.count /\ g.failed = x
        /\ g.min_successes = t.min_successes
    <3> HIDE DEF d, x
    <3> QED BY <1>1 DEF ArrayFrame
  <2>2. frames' = [frames EXCEPT ![Len(frames)] = g]
    BY <1>1, <1>3 DEF ArrayItemFails
  <2>3. /\ t.count \in Nat /\ t.failed \in Nat /\ t.min_successes \in Nat
        /\ t.outputs \in BOOLEAN
    BY <1>1 DEF ArrayFrame
  <2> HIDE DEF g
  <2>4. Meets(g)
    <3>1. CASE t.outputs
      BY <1>1, <1>3, <2>1, <2>3, <3>1 DEF TooManyFailures, Meets
    <3>2. CASE ~t.outputs
      BY <2>1, <3>2 DEF Meets
    <3> QED BY <3>1, <3>2
  <2> QED BY <1>1, <2>2, <2>4, ReplaceTopMeets
<1> QED BY <1>2, <1>3

LEMMA SectionsMeet ==
    ASSUME IInv, AllMeet(frames), Conditional \/ IfElifElse \/ Then \/ Fail
    PROVE  AllMeet(frames')
<1>1. frames \in Seq(Frame)
  BY CurrentFacts
<1>2. CASE Conditional
  <2>1. CASE frames' = Append(MarkNested(frames), NewSection)
    <3>1. AllMeet(MarkNested(frames)) /\ MarkNested(frames) \in Seq(Frame)
      BY <1>1, MarkNestedMeets
    <3>2. NewSection \in Frame /\ Meets(NewSection)
      BY NewSectionFacts DEF Meets
    <3> QED BY <2>1, <3>1, <3>2, AppendMeets
  <2> QED BY <1>2, <2>1 DEF Conditional
<1>3. ASSUME NEW truth \in BOOLEAN, NEW last \in BOOLEAN, start_branch(truth, last)
      PROVE  AllMeet(frames')
  <2> DEFINE f == Top
             one == f.cases + 1
             sel == IF Selects(f, truth, last) THEN one ELSE f.selected
             cho == IF f.chosen = 0 /\ (truth \/ last) THEN one ELSE f.chosen
             g == [f EXCEPT !.cases = one, !.last_case = last, !.in_branch = TRUE,
                            !.selected = sel, !.chosen = cho, !.out = "val"]
  <2>1. frames # <<>> /\ f \in SectionFrame
    BY <1>3, SectionTop DEF start_branch
  <2>2. frames' = [frames EXCEPT ![Len(frames)] = g]
    BY <1>3 DEF start_branch
  <2>3. g.kind = "section"
    <3> HIDE DEF one, sel, cho, f
    <3> QED BY <2>1 DEF SectionFrame
  <2> HIDE DEF g
  <2>4. Meets(g)
    BY <2>3 DEF Meets
  <2> QED BY <1>1, <2>1, <2>2, <2>4, ReplaceTopMeets
<1>4. ASSUME NEW result, end_branch(result)
      PROVE  AllMeet(frames')
  <2> DEFINE f == Top
             r == SelectedResult(f, result)
             g == [f EXCEPT !.in_branch = FALSE, !.result = r]
  <2>1. frames # <<>> /\ f = frames[Len(frames)] /\ f \in SectionFrame
    BY <1>4, SectionTop DEF end_branch
  <2>2. CASE f.last_case
    <3>1. frames' = Front(frames) \/ \E v : frames' = Deliver(Front(frames), v)
      BY <1>4, <2>2 DEF end_branch
    <3> QED BY <1>1, <2>1, <3>1, FrontMeets, DeliverMeets
  <2>3. CASE ~f.last_case
    <3> HIDE DEF r
    <3>1. frames' = [frames EXCEPT ![Len(frames)] = g]
      BY <1>4, <2>1, <2>3 DEF end_branch, r
    <3>2. g.kind = "section"
      <4> HIDE DEF f
      <4> QED BY <2>1 DEF SectionFrame
    <3> HIDE DEF g
    <3>3. Meets(g)
      BY <3>2 DEF Meets
    <3> QED BY <1>1, <2>1, <3>1, <3>3, ReplaceTopMeets
  <2> QED BY <2>2, <2>3
<1> QED BY <1>2, <1>3, <1>4 DEF IfElifElse, Then, Fail

(* An array node whose outputs are expected goes on, and returns, only as  *)
(* long as the minimum of successes can still be met: TooManyFailures is   *)
(* asked before each failure is counted, whatever the items do.            *)
THEOREM ArraysMeetMinimum == Spec => []ArrayMeetsMinimum
<1>1. Init => AllMeet(frames)
  BY DEF Init, AllMeet
<1>2. IInv /\ AllMeet(frames) /\ [Next]_vars => AllMeet(frames)'
  <2> SUFFICES ASSUME IInv, AllMeet(frames), [Next]_vars PROVE AllMeet(frames')
    OBVIOUS
  <2>1. frames \in Seq(Frame)
    BY CurrentFacts
  <2>2. CASE frames' = frames
    BY <2>2
  <2>3. ASSUME NEW v, frames' = Deliver(frames, v) PROVE AllMeet(frames')
    BY <2>1, <2>3, DeliverMeets
  <2>4. ASSUME frames # <<>>, NEW v, frames' = Front(frames) \/ frames' = Deliver(Front(frames), v)
        PROVE  AllMeet(frames')
    BY <2>1, <2>4, FrontMeets, DeliverMeets
  <2>5. CASE CallTask \/ CreateNode \/ CallGate \/ CallMapTask
    <3>1. frames' = frames \/ \E v : frames' = Deliver(frames, v)
      BY <2>5 DEF CallTask, CreateNode, CallGate, CallMapTask, local_execute, Skip, Answer, Raise
    <3> QED BY <2>2, <2>3, <3>1
  <2>6. CASE CallWorkflow \/ CallArrayNode \/ ArrayItem
    BY <2>6, CallsMeet
  <2>7. CASE ReturnWorkflow \/ ReturnArray \/ WorkflowFails \/ SectionFails
    <3>1. frames # <<>>
      BY <2>7 DEF ReturnWorkflow, ReturnArray, WorkflowFails, SectionFails, TopKind
    <3>2. \E v : frames' = Front(frames) \/ frames' = Deliver(Front(frames), v)
      BY <2>7 DEF ReturnWorkflow, ReturnArray, WorkflowFails, SectionFails
    <3> QED BY <2>4, <3>1, <3>2
  <2>8. CASE ArrayItemFails
    BY <2>8, FailuresMeet
  <2>9. CASE Conditional \/ IfElifElse \/ Then \/ Fail
    BY <2>9, SectionsMeet
  <2>10. CASE ScriptFails \/ UNCHANGED vars
    BY <2>2, <2>10 DEF ScriptFails, vars
  <2> QED BY <2>5, <2>6, <2>7, <2>8, <2>9, <2>10 DEF Next
<1>3. IInv /\ AllMeet(frames) => ArrayMeetsMinimum
  <2> SUFFICES ASSUME IInv, AllMeet(frames) PROVE ArrayMeetsMinimum
    OBVIOUS
  <2>1. DOMAIN frames = 1..Len(frames)
    BY CurrentFacts
  <2> QED BY <2>1 DEF AllMeet, Meets, ArrayMeetsMinimum
<1> QED BY <1>1, <1>2, <1>3, AlwaysIInv, PTL DEF Spec
=============================================================================
