----------------------- MODULE EagerControllerProofs -----------------------
(***************************************************************************)
(* Proofs about EagerController, for every eager function, every number of *)
(* attempts and every set of faults, and about the RateLimiter that its    *)
(* thread goes through. IInv is inductive for the controller; the safety   *)
(* properties follow from it. Three lemmas carry the preservation proof:   *)
(*   - ItemsUntouched, for the steps of the main thread, of Admin and of   *)
(*     the clean-up task, which leave the work items alone and only move   *)
(*     executions forward;                                                 *)
(*   - Reconciled, for the five outcomes of reconcile_one;                 *)
(*   - one lemma for each step of the coroutines and of the controller     *)
(*     thread that changes the items.                                      *)
(***************************************************************************)
EXTENDS EagerController, RateLimiter, FiniteSetTheorems, SequenceTheorems,
        WellFoundedInduction, TLAPS

-----------------------------------------------------------------------------
(***************************************************************************)
(* The rate limiter: its queue and the spacing of the times it hands out,  *)
(* for every number of requests, rate, window and lateness of the loop.    *)
(***************************************************************************)

(* What "clearing out old data" leaves: a suffix of the queue that begins with
   the first timestamp that has not expired. *)
LEMMA ClearedShape ==
    ASSUME queue \in Seq(Nat), now \in Nat
    PROVE  \E k \in 1..(Len(queue) + 1) :
              /\ Cleared = SubSeq(queue, k, Len(queue))
              /\ \A j \in 1..(k - 1) : Expired(queue[j])
<1> DEFINE T == {i \in 1..(Len(queue) + 1) :
                    i = Len(queue) + 1 \/ ~Expired(queue[i])}
           P(i) == /\ \A j \in 1..(i - 1) : Expired(queue[j])
                   /\ i = Len(queue) + 1 \/ ~Expired(queue[i])
<1>1. Len(queue) \in Nat
  OBVIOUS
<1>2. T \subseteq Nat /\ T # {}
  BY <1>1
<1> DEFINE Less == {ss \in Nat \X Nat : ss[1] < ss[2]}
<1>3. IsWellFoundedOn(Less, Nat)
  BY NatLessThanWellFounded DEF OpToRel
<1>4. PICK x \in T : \A y \in T : ~(y < x)
  <2>1. \E x \in T : \A y \in T : ~(<<y, x>> \in Less)
    <3> HIDE DEF T, Less
    <3> QED BY <1>2, <1>3, WFMin
  <2> QED BY <1>2, <2>1
<1>5. x \in 1..(Len(queue) + 1) /\ P(x)
  BY <1>1, <1>4
<1>6. \E i \in 1..(Len(queue) + 1) : P(i)
  BY <1>5
<1> DEFINE k == CHOOSE i \in 1..(Len(queue) + 1) : P(i)
<1>7. k \in 1..(Len(queue) + 1) /\ P(k)
  BY <1>6
<1>8. Cleared = SubSeq(queue, k, Len(queue))
  BY DEF Cleared
<1> QED BY <1>7, <1>8

(* Dropping the first k - 1 elements and appending one. *)
LEMMA DropAndAppend ==
    ASSUME NEW s \in Seq(Nat), NEW k \in 1..(Len(s) + 1), NEW t \in Nat,
           NEW r, r = Append(SubSeq(s, k, Len(s)), t)
    PROVE  /\ r \in Seq(Nat)
           /\ Len(r) = Len(s) - k + 2
           /\ r[Len(s) - k + 2] = t
           /\ \A j \in 1..(Len(s) - k + 1) : r[j] = s[k + j - 1]
<1> DEFINE u == SubSeq(s, k, Len(s))
<1>1. /\ u \in Seq(Nat)
      /\ Len(u) = Len(s) - k + 1
      /\ \A j \in 1..(Len(s) - k + 1) : u[j] = s[k + j - 1]
  <2>1. /\ Len(s) \in Nat /\ k \in Nat /\ k >= 1 /\ k <= Len(s) + 1
        /\ Len(s) \in k - 1..Len(s)
    OBVIOUS
  <2>2. CASE k <= Len(s)
    BY <2>1, <2>2, SubSeqProperties
  <2>3. CASE k = Len(s) + 1
    BY <2>1, <2>3, SubSeqProperties
  <2> QED BY <2>1, <2>2, <2>3
<1>2. Len(s) \in Nat /\ k \in Nat /\ k <= Len(s) + 1
  OBVIOUS
<1>3. r = Append(u, t)
  OBVIOUS
<1> HIDE DEF u
<1>4. /\ r \in Seq(Nat) /\ Len(r) = Len(u) + 1 /\ r[Len(u) + 1] = t
      /\ \A j \in 1..Len(u) : r[j] = u[j]
  BY <1>1, <1>3, AppendProperties
<1> QED BY <1>1, <1>2, <1>4

(* One stamp t goes on the queue Q of length q, and its first k - 1 elements
   go, which gives Q2; the stamps S, L of them, become S2. The stamp rpm places
   back is a window older, and each element that went had expired at time `at`
   or was the stamp rpm places back itself. *)
Stamping(L, q, k, t, at, Q, S, Q2, S2) ==
    /\ L \in Nat /\ q \in Nat /\ k \in 1..(q + 1) /\ t \in Nat /\ at \in Nat
    /\ q <= L /\ q - k + 1 < rpm
    /\ \A i \in 1..L : S[i] \in Nat
    /\ \A j \in 1..q : Q[j] = S[L - q + j]
    /\ \A i \in 1..L : i + rpm \in 1..L => S[i] + Delay <= S[i + rpm]
    /\ \A i \in 1..(L - q) : i + rpm <= L \/ S[i] + Delay < at
    /\ \A i \in 1..L : i + rpm = L + 1 => S[i] + Delay <= t
    /\ \A j \in 1..(k - 1) : Q[j] + Delay < at \/ L - q + j + rpm <= L + 1
    /\ Q2[q - k + 2] = t
    /\ \A j \in 1..(q - k + 1) : Q2[j] = Q[k + j - 1]
    /\ S2[L + 1] = t
    /\ \A i \in 1..L : S2[i] = S[i]

(* Then the new stamps are spaced, the new queue is a suffix of them, and what
   is no longer on it was popped when it was due. *)
LEMMA StampKeepsSpacing ==
    ASSUME NEW L, NEW q, NEW k, NEW t, NEW at, NEW Q, NEW S, NEW Q2, NEW S2,
           Stamping(L, q, k, t, at, Q, S, Q2, S2)
    PROVE  /\ \A i \in 1..(L + 1) :
                 i + rpm \in 1..(L + 1) => S2[i] + Delay <= S2[i + rpm]
           /\ \A j \in 1..(q - k + 2) :
                 Q2[j] = S2[(L + 1) - (q - k + 2) + j]
           /\ \A i \in 1..((L + 1) - (q - k + 2)) :
                 i + rpm <= L + 1 \/ S2[i] + Delay < at
<1> USE RateAssumption, TimeAssumption DEF Stamping
<1>1. ASSUME NEW i \in 1..(L + 1), i + rpm \in 1..(L + 1)
      PROVE  S2[i] + Delay <= S2[i + rpm]
  <2>1. i \in 1..L /\ S2[i] = S[i]
    BY <1>1
  <2>2. CASE i + rpm = L + 1
    BY <2>1, <2>2
  <2>3. CASE i + rpm # L + 1
    BY <1>1, <2>1, <2>3
  <2> QED BY <2>2, <2>3
<1>2. ASSUME NEW j \in 1..(q - k + 2)
      PROVE  Q2[j] = S2[(L + 1) - (q - k + 2) + j]
  <2>1. CASE j = q - k + 2
    BY <2>1
  <2>2. CASE j # q - k + 2
    <3>1. j \in 1..(q - k + 1) /\ k + j - 1 \in 1..q /\ L - q + (k + j - 1) \in 1..L
      BY <2>2
    <3>2. (L + 1) - (q - k + 2) + j = L - q + (k + j - 1)
      OBVIOUS
    <3> QED BY <3>1, <3>2
  <2> QED BY <2>1, <2>2
<1>3. ASSUME NEW i \in 1..((L + 1) - (q - k + 2)), ~(i + rpm <= L + 1)
      PROVE  S2[i] + Delay < at
  <2>1. i \in 1..L /\ S2[i] = S[i]
    OBVIOUS
  <2>2. CASE i <= L - q
    BY <1>3, <2>1, <2>2
  <2>3. CASE i > L - q
    <3>1. /\ i - (L - q) \in 1..(k - 1) /\ i - (L - q) \in 1..q
          /\ L - q + (i - (L - q)) = i
      BY <2>3
    <3> QED BY <1>3, <2>1, <3>1
  <2> QED BY <2>2, <2>3
<1> QED BY <1>1, <1>2, <1>3

(* What every step of acquire does to the queue and the stamps. *)
StampStep(k, t) ==
    /\ t \in Nat /\ k \in 1..(Len(queue) + 1)
    /\ queue' = Append(SubSeq(queue, k, Len(queue)), t)
    /\ stamps' = Append(stamps, t)
    /\ now' = now
    /\ Len(queue) - k + 1 < rpm
    /\ \A i \in 1..Len(stamps) :
          i + rpm = Len(stamps) + 1 => stamps[i] + Delay <= t
    /\ \A j \in 1..(k - 1) :
          \/ queue[j] + Delay < now
          \/ Len(stamps) - Len(queue) + j + rpm <= Len(stamps) + 1

(* Such a step keeps the part of the invariant that is about the queue. *)
LEMMA StampLInv ==
    ASSUME LInv, NEW k, NEW t, StampStep(k, t)
    PROVE  /\ queue' \in Seq(Nat) /\ stamps' \in Seq(Nat)
           /\ QueueBounded' /\ StampsSpaced' /\ QueueIsSuffix' /\ PoppedWhenDue'
<1>1. /\ queue \in Seq(Nat) /\ stamps \in Seq(Nat) /\ now \in Nat
      /\ rpm \in Nat
  BY RateAssumption DEF LInv, LimiterTypeOK
<1>2. PICK L \in Nat, q \in Nat : L = Len(stamps) /\ q = Len(queue)
  BY <1>1
<1>3. /\ queue' \in Seq(Nat)
      /\ Len(queue') = q - k + 2
      /\ queue'[q - k + 2] = t
      /\ \A j \in 1..(q - k + 1) : queue'[j] = queue[k + j - 1]
  <2>1. /\ k \in 1..(Len(queue) + 1) /\ t \in Nat
        /\ queue' = Append(SubSeq(queue, k, Len(queue)), t)
    BY DEF StampStep
  <2>2. /\ queue' \in Seq(Nat)
        /\ Len(queue') = Len(queue) - k + 2
        /\ queue'[Len(queue) - k + 2] = t
        /\ \A j \in 1..(Len(queue) - k + 1) : queue'[j] = queue[k + j - 1]
    <3>1. ASSUME NEW r, r = Append(SubSeq(queue, k, Len(queue)), t)
          PROVE  /\ r \in Seq(Nat)
                 /\ Len(r) = Len(queue) - k + 2
                 /\ r[Len(queue) - k + 2] = t
                 /\ \A j \in 1..(Len(queue) - k + 1) : r[j] = queue[k + j - 1]
      BY <1>1, <2>1, <3>1, DropAndAppend
    <3> QED BY <2>1, <3>1
  <2> QED BY <1>2, <2>2
<1>4. /\ stamps' \in Seq(Nat)
      /\ Len(stamps') = L + 1
      /\ stamps'[L + 1] = t
      /\ \A i \in 1..L : stamps'[i] = stamps[i]
  BY <1>1, <1>2, AppendProperties DEF StampStep
<1>5. /\ DOMAIN stamps = 1..L /\ DOMAIN queue = 1..q
      /\ DOMAIN stamps' = 1..(L + 1) /\ DOMAIN queue' = 1..(q - k + 2)
      /\ \A i \in 1..L : stamps[i] \in Nat
  <2>1. \A s \in Seq(Nat) : DOMAIN s = 1..Len(s) /\ \A i \in 1..Len(s) : s[i] \in Nat
    OBVIOUS
  <2> QED BY <1>1, <1>2, <1>3, <1>4, <2>1
<1>6. /\ q <= L
      /\ \A j \in 1..q : queue[j] = stamps[L - q + j]
      /\ \A i \in 1..L : i + rpm \in 1..L => stamps[i] + Delay <= stamps[i + rpm]
      /\ \A i \in 1..(L - q) : i + rpm <= L \/ stamps[i] + Delay < now
  BY <1>2, <1>5 DEF LInv, StampsSpaced, QueueIsSuffix, PoppedWhenDue
<1>7. /\ t \in Nat /\ now' = now /\ k \in 1..(q + 1) /\ q - k + 1 < rpm
      /\ \A i \in 1..L : i + rpm = L + 1 => stamps[i] + Delay <= t
      /\ \A j \in 1..(k - 1) :
            queue[j] + Delay < now \/ L - q + j + rpm <= L + 1
  BY <1>2 DEF StampStep
<1>8. /\ \A i \in 1..(L + 1) :
            i + rpm \in 1..(L + 1) => stamps'[i] + Delay <= stamps'[i + rpm]
      /\ \A j \in 1..(q - k + 2) :
            queue'[j] = stamps'[(L + 1) - (q - k + 2) + j]
      /\ \A i \in 1..((L + 1) - (q - k + 2)) :
            i + rpm <= L + 1 \/ stamps'[i] + Delay < now
  <2>1. Stamping(L, q, k, t, now, queue, stamps, queue', stamps')
    BY <1>1, <1>3, <1>4, <1>5, <1>6, <1>7 DEF Stamping
  <2> QED BY <2>1, StampKeepsSpacing
<1>9. QueueBounded'
  BY <1>1, <1>3, <1>7 DEF QueueBounded
<1>10. StampsSpaced'
  BY <1>5, <1>8 DEF StampsSpaced
<1>11. QueueIsSuffix'
  <2>1. q - k + 2 <= L + 1
    BY <1>6, <1>7
  <2>2. Len(queue') <= Len(stamps')
    BY <1>3, <1>4, <2>1
  <2>3. \A j \in DOMAIN queue' :
           queue'[j] = stamps'[Len(stamps') - Len(queue') + j]
    BY <1>3, <1>4, <1>5, <1>8
  <2> QED BY <2>2, <2>3 DEF QueueIsSuffix
<1>12. PoppedWhenDue'
  BY <1>3, <1>4, <1>7, <1>8 DEF PoppedWhenDue
<1> QED BY <1>3, <1>4, <1>9, <1>10, <1>11, <1>12

(* With room on the queue, acquire stamps the present time. *)
LEMMA FreeStamps ==
    ASSUME LInv, NEW c, AcquireFree(c)
    PROVE  \E k : StampStep(k, now)
<1>1. /\ queue \in Seq(Nat) /\ stamps \in Seq(Nat) /\ now \in Nat
      /\ rpm \in Nat /\ Len(queue) \in Nat /\ Len(stamps) \in Nat
  BY RateAssumption DEF LInv, LimiterTypeOK
<1>2. PICK k \in 1..(Len(queue) + 1) :
         /\ Cleared = SubSeq(queue, k, Len(queue))
         /\ \A j \in 1..(k - 1) : queue[j] + Delay < now
  BY <1>1, ClearedShape DEF Expired
<1>3. Len(queue) - k + 1 < rpm
  <2>1. Len(SubSeq(queue, k, Len(queue))) = Len(queue) - k + 1
    BY <1>1
  <2> QED BY <1>2, <2>1 DEF AcquireFree
<1>4. ASSUME NEW i \in 1..Len(stamps), i + rpm = Len(stamps) + 1
      PROVE  stamps[i] + Delay <= now
  <2>1. stamps[i] \in Nat /\ Delay \in Nat
    BY <1>1, TimeAssumption
  <2>2. CASE i <= Len(stamps) - Len(queue)
    <3>1. stamps[i] + Delay < now
      BY <1>1, <1>4, <2>2 DEF LInv, PoppedWhenDue
    <3> QED BY <1>1, <2>1, <3>1
  <2>3. CASE i > Len(stamps) - Len(queue)
    <3>1. PICK j \in 1..Len(queue) : i = Len(stamps) - Len(queue) + j
      <4> DEFINE j == i - (Len(stamps) - Len(queue))
      <4>1. j \in 1..Len(queue) /\ i = Len(stamps) - Len(queue) + j
        BY <1>1, <2>3
      <4> QED BY <4>1
    <3>2. queue[j] = stamps[i]
      <4>1. DOMAIN queue = 1..Len(queue)
        BY <1>1
      <4>2. \A m \in DOMAIN queue : queue[m] = stamps[Len(stamps) - Len(queue) + m]
        BY DEF LInv, QueueIsSuffix
      <4> QED BY <3>1, <4>1, <4>2
    <3>3. j \in 1..(k - 1)
      BY <1>1, <1>3, <1>4, <3>1
    <3>4. stamps[i] + Delay < now
      BY <1>2, <3>2, <3>3
    <3> QED BY <1>1, <2>1, <3>4
  <2> QED BY <1>1, <2>2, <2>3
<1>5. StampStep(k, now)
  BY <1>1, <1>2, <1>3, <1>4 DEF AcquireFree, Stamp, StampStep
<1> QED BY <1>5

(* With a full queue nothing was cleared, and acquire replaces the oldest
   timestamp by one that is at least a window later. *)
LEMMA FullStamps ==
    ASSUME LInv, NEW t \in Nat, Len(Cleared) >= rpm,
           Head(Cleared) + Delay <= t, Stamp(Tail(Cleared), t), now' = now
    PROVE  StampStep(2, t)
<1>1. /\ queue \in Seq(Nat) /\ stamps \in Seq(Nat) /\ now \in Nat
      /\ rpm \in Nat \ {0} /\ Len(queue) \in Nat /\ Len(stamps) \in Nat
      /\ Len(queue) <= rpm
  BY RateAssumption DEF LInv, LimiterTypeOK, QueueBounded
<1>2. PICK k \in 1..(Len(queue) + 1) : Cleared = SubSeq(queue, k, Len(queue))
  BY <1>1, ClearedShape
<1>3. k = 1 /\ Len(queue) = rpm
  <2>1. Len(SubSeq(queue, k, Len(queue))) = Len(queue) - k + 1
    BY <1>1
  <2> QED BY <1>1, <1>2, <2>1
<1>4. Cleared = queue
  <2>1. SubSeq(queue, 1, Len(queue)) = queue
    BY <1>1, SubSeqFull
  <2> QED BY <1>2, <1>3, <2>1
<1>5. queue # <<>> /\ Head(queue) = queue[1]
  BY <1>1, <1>3
<1>6. Tail(queue) = SubSeq(queue, 2, Len(queue))
  BY <1>1, <1>5, TailIsSubSeq
<1>7. /\ Len(queue) <= Len(stamps)
      /\ queue[1] = stamps[Len(stamps) - Len(queue) + 1]
  BY <1>1, <1>3 DEF LInv, QueueIsSuffix
<1>8. \A i \in 1..Len(stamps) :
         i + rpm = Len(stamps) + 1 => stamps[i] + Delay <= t
  <2> SUFFICES ASSUME NEW i \in 1..Len(stamps), i + rpm = Len(stamps) + 1
               PROVE  stamps[i] + Delay <= t
    OBVIOUS
  <2>1. i = Len(stamps) - Len(queue) + 1
    BY <1>1, <1>3
  <2> QED BY <1>4, <1>5, <1>7, <2>1
<1>9. /\ queue' = Append(SubSeq(queue, 2, Len(queue)), t)
      /\ stamps' = Append(stamps, t)
  BY <1>4, <1>6 DEF Stamp
<1>10. /\ 2 \in 1..(Len(queue) + 1) /\ Len(queue) - 2 + 1 < rpm
       /\ \A j \in 1..(2 - 1) : Len(stamps) - Len(queue) + j + rpm <= Len(stamps) + 1
  BY <1>1, <1>3, <1>7
<1> QED BY <1>8, <1>9, <1>10 DEF StampStep

Sleepers == {c \in Coro : state[c] = "sleeping"}

(* The permits are accounted for: falling asleep takes one, waking up returns
   one, and a coroutine that does not sleep returns it within its step. *)
LEMMA PermitsAccounted ==
    ASSUME LInv, NEW c \in Coro,
           \/ /\ state[c] = "idle" /\ sem > 0
              /\ state' = [state EXCEPT ![c] = "sleeping"] /\ sem' = sem - 1
           \/ /\ state[c] = "sleeping"
              /\ state' = [state EXCEPT ![c] = "done"] /\ sem' = sem + 1
           \/ /\ state[c] = "idle"
              /\ state' = [state EXCEPT ![c] = "done"] /\ sem' = sem
    PROVE  PermitsHeld' /\ sem' \in 0..rpm /\ state' \in [Coro -> CoroutineState]
<1>1. /\ state \in [Coro -> CoroutineState] /\ sem \in 0..rpm /\ rpm \in Nat
      /\ sem + Cardinality(Sleepers) = rpm
  BY RateAssumption DEF LInv, LimiterTypeOK, PermitsHeld, Sleepers
<1>2. IsFiniteSet(Sleepers) /\ Cardinality(Sleepers) \in Nat
  <2>1. Sleepers \in SUBSET Coro
    BY DEF Sleepers
  <2>2. IsFiniteSet(Sleepers)
    BY <2>1, CoroAssumption, FS_Subset
  <2> QED BY <2>2, FS_CardinalityType
<1>3. state' \in [Coro -> CoroutineState]
  BY <1>1 DEF CoroutineState
<1>4. CASE state[c] = "idle" /\ sem > 0
           /\ state' = [state EXCEPT ![c] = "sleeping"] /\ sem' = sem - 1
  <2>1. c \notin Sleepers /\ Sleepers' = Sleepers \cup {c}
    BY <1>1, <1>4 DEF Sleepers
  <2>2. Cardinality(Sleepers') = Cardinality(Sleepers) + 1
    BY <1>2, <2>1, FS_AddElement
  <2>3. sem' + Cardinality(Sleepers') = rpm /\ sem' \in 0..rpm
    BY <1>1, <1>2, <1>4, <2>2
  <2> QED BY <1>3, <2>3 DEF PermitsHeld, Sleepers
<1>5. CASE state[c] = "sleeping"
           /\ state' = [state EXCEPT ![c] = "done"] /\ sem' = sem + 1
  <2>1. c \in Sleepers /\ Sleepers' = Sleepers \ {c}
    BY <1>1, <1>5 DEF Sleepers
  <2>2. Cardinality(Sleepers') = Cardinality(Sleepers) - 1
    BY <1>2, <2>1, FS_RemoveElement
  <2>3. Cardinality(Sleepers') \in Nat
    BY <1>2, <2>1, FS_RemoveElement, FS_CardinalityType
  <2>4. sem' + Cardinality(Sleepers') = rpm /\ sem' \in 0..rpm
    BY <1>1, <1>2, <1>5, <2>2, <2>3
  <2> QED BY <1>3, <2>4 DEF PermitsHeld, Sleepers
<1>6. CASE state[c] = "idle"
           /\ state' = [state EXCEPT ![c] = "done"] /\ sem' = sem
  <2>1. Sleepers' = Sleepers
    BY <1>1, <1>6 DEF Sleepers
  <2> QED BY <1>1, <1>3, <1>6, <2>1 DEF PermitsHeld, Sleepers
<1> QED BY <1>4, <1>5, <1>6

(* The invariant holds initially and is kept by every step. *)
LEMMA InitLInv == LimiterInit => LInv
<1> SUFFICES ASSUME LimiterInit PROVE LInv
  OBVIOUS
<1>1. LimiterTypeOK
  BY RateAssumption DEF LimiterInit, LimiterTypeOK, CoroutineState
<1>2. QueueBounded /\ StampsSpaced /\ QueueIsSuffix /\ PoppedWhenDue
  BY RateAssumption
  DEF LimiterInit, QueueBounded, StampsSpaced, QueueIsSuffix, PoppedWhenDue
<1>3. PermitsHeld
  <2>1. {c \in Coro : state[c] = "sleeping"} = {}
    BY DEF LimiterInit
  <2>2. Cardinality({c \in Coro : state[c] = "sleeping"}) = 0
    BY <2>1, FS_EmptySet
  <2> QED BY <2>2, RateAssumption DEF LimiterInit, PermitsHeld
<1> QED BY <1>1, <1>2, <1>3 DEF LInv

(* Acquire, in each of its three outcomes. *)
LEMMA AcquireLInv ==
    ASSUME LInv, NEW c \in Coro, Acquire(c)
    PROVE  LInv'
<1>1. /\ queue \in Seq(Nat) /\ stamps \in Seq(Nat) /\ now \in Nat
      /\ grants \in Seq(Nat) /\ wake \in [Coro -> Nat]
      /\ rpm \in Nat \ {0} /\ Delay \in Nat /\ sem \in 0..rpm
  BY RateAssumption, TimeAssumption DEF LInv, LimiterTypeOK
<1>2. Len(Cleared) >= rpm => Head(Cleared) + Delay \in Nat
  <2>1. PICK k \in 1..(Len(queue) + 1) : Cleared = SubSeq(queue, k, Len(queue))
    BY <1>1, ClearedShape
  <2>2. SubSeq(queue, k, Len(queue)) \in Seq(Nat)
    BY <1>1
  <2>3. Cleared \in Seq(Nat)
    BY <2>1, <2>2
  <2> SUFFICES ASSUME Len(Cleared) >= rpm PROVE Head(Cleared) + Delay \in Nat
    OBVIOUS
  <2>4. Cleared # <<>>
    BY <1>1, <2>3
  <2>5. Head(Cleared) \in Nat
    BY <2>3, <2>4, HeadTailProperties
  <2> QED BY <1>1, <2>5
<1>3. now' = now /\ \E k, t : StampStep(k, t)
  <2>1. CASE AcquireFree(c)
    BY <2>1, FreeStamps DEF AcquireFree
  <2>2. CASE AcquireDue(c)
    BY <1>1, <2>2, FullStamps DEF AcquireDue
  <2>3. CASE AcquireSleeps(c)
    <3>1. Head(Cleared) + Delay <= Head(Cleared) + Delay
      BY <1>2, <2>3 DEF AcquireSleeps
    <3> QED BY <1>2, <2>3, <3>1, FullStamps DEF AcquireSleeps
  <2> QED BY <2>1, <2>2, <2>3 DEF Acquire
<1>4. /\ queue' \in Seq(Nat) /\ stamps' \in Seq(Nat)
      /\ QueueBounded' /\ StampsSpaced' /\ QueueIsSuffix' /\ PoppedWhenDue'
  BY <1>3, StampLInv
<1>5. PermitsHeld' /\ sem' \in 0..rpm /\ state' \in [Coro -> CoroutineState]
  BY PermitsAccounted DEF Acquire, AcquireFree, AcquireDue, AcquireSleeps, Granted
<1>6. wake' \in [Coro -> Nat] /\ grants' \in Seq(Nat)
  <2>1. CASE AcquireFree(c) \/ AcquireDue(c)
    <3>1. Granted(c)
      BY <2>1 DEF AcquireFree, AcquireDue
    <3> QED BY <1>1, <3>1 DEF Granted
  <2>2. CASE AcquireSleeps(c)
    <3>1. PICK w \in Nat : w = Head(Cleared) + Delay
      BY <1>2, <2>2 DEF AcquireSleeps
    <3>2. wake' = [wake EXCEPT ![c] = w] /\ grants' = grants
      BY <2>2, <3>1 DEF AcquireSleeps
    <3> QED BY <1>1, <3>2
  <2> QED BY <2>1, <2>2 DEF Acquire
<1> QED BY <1>1, <1>3, <1>4, <1>5, <1>6 DEF LInv, LimiterTypeOK

(* The end of a sleep. *)
LEMMA WakeLInv ==
    ASSUME LInv, NEW c \in Coro, Wake(c)
    PROVE  LInv'
<1>1. PermitsHeld' /\ sem' \in 0..rpm /\ state' \in [Coro -> CoroutineState]
  BY PermitsAccounted DEF Wake
<1>2. UNCHANGED <<now, queue, wake, stamps>> /\ grants' \in Seq(Nat)
  BY DEF Wake, LInv, LimiterTypeOK
<1> QED BY <1>1, <1>2
        DEF LInv, LimiterTypeOK, QueueBounded, StampsSpaced, QueueIsSuffix, PoppedWhenDue

(* Time only makes what was popped older. *)
LEMMA TickLInv ==
    ASSUME LInv, Tick
    PROVE  LInv'
<1>1. now \in Nat /\ now' = now + 1
      /\ UNCHANGED <<queue, sem, state, wake, stamps, grants>>
  BY DEF Tick, LInv, LimiterTypeOK
<1>2. LimiterTypeOK'
  BY <1>1 DEF LInv, LimiterTypeOK
<1>3. QueueBounded' /\ StampsSpaced' /\ QueueIsSuffix'
  BY <1>1 DEF LInv, QueueBounded, StampsSpaced, QueueIsSuffix
<1>4. PoppedWhenDue'
  <2>1. \A i \in 1..(Len(stamps) - Len(queue)) : stamps[i] + Delay \in Nat
    <3>1. stamps \in Seq(Nat) /\ Len(stamps) \in Nat /\ Len(queue) \in Nat
          /\ Delay \in Nat
      BY TimeAssumption DEF LInv, LimiterTypeOK
    <3> QED BY <3>1
  <2> QED BY <1>1, <2>1 DEF LInv, PoppedWhenDue
<1>5. PermitsHeld'
  BY <1>1 DEF LInv, PermitsHeld
<1> QED BY <1>2, <1>3, <1>4, <1>5 DEF LInv

(* The inductive invariant of the limiter. *)
THEOREM LimiterInvariance == LimiterSpec => []LInv
<1>1. LInv /\ [LimiterNext]_limiterVars => LInv'
  <2> SUFFICES ASSUME LInv, [LimiterNext]_limiterVars PROVE LInv'
    OBVIOUS
  <2>1. CASE Tick
    BY <2>1, TickLInv
  <2>2. ASSUME NEW c \in Coro, Acquire(c) PROVE LInv'
    BY <2>2, AcquireLInv
  <2>3. ASSUME NEW c \in Coro, Wake(c) PROVE LInv'
    BY <2>3, WakeLInv
  <2>4. CASE UNCHANGED limiterVars
    BY <2>4 DEF limiterVars, LInv, LimiterTypeOK, QueueBounded, StampsSpaced, QueueIsSuffix,
                PoppedWhenDue, PermitsHeld
  <2> QED BY <2>1, <2>2, <2>3, <2>4 DEF LimiterNext
<1> QED BY <1>1, InitLInv, PTL DEF LimiterSpec

(* Every variable keeps its type; in particular the semaphore never has more
   permits than rpm nor fewer than none. *)
THEOREM LimiterTypeCorrect == LimiterSpec => []LimiterTypeOK
<1>1. LInv => LimiterTypeOK
  BY DEF LInv
<1> QED BY <1>1, LimiterInvariance, PTL

(* The deque never holds more than rpm timestamps (rate_limiter.py 37). *)
THEOREM QueueNeverOutgrows == LimiterSpec => []QueueBounded
<1>1. LInv => QueueBounded
  BY DEF LInv
<1> QED BY <1>1, LimiterInvariance, PTL

(* The times at which requests are due are a window apart, rpm places apart,
   for every number of concurrent requests (rate_limiter.py 23-54). *)
THEOREM DueTimesSpaced == LimiterSpec => []StampsSpaced
<1>1. LInv => StampsSpaced
  BY DEF LInv
<1> QED BY <1>1, LimiterInvariance, PTL

-----------------------------------------------------------------------------
(* From the due times to the times at which requests go through. Every grant
   has a stamp of its own, which it follows by at most Jitter; so among rpm + 1
   grants in a row there are two whose stamps are rpm places apart or more. *)

(* The stamps are in order: a stamp in the future is a window after the one
   rpm places back, and then the queue is full of stamps that are not old. *)
StampsSorted ==
    /\ \A i, j \in 1..Len(stamps) : i <= j => stamps[i] <= stamps[j]
    /\ Len(stamps) > 0 =>
         \/ stamps[Len(stamps)] <= now
         \/ /\ Len(stamps) > rpm
            /\ stamps[Len(stamps)] = stamps[Len(stamps) - rpm] + Delay

(* The stamps S, the grants G, the places P of the sleepers W. *)
OwnStamp(S, G, W, f, P) ==
    /\ \A i \in 1..Len(G) : /\ f[i] \in 1..Len(S)
                             /\ S[f[i]] <= G[i] /\ G[i] <= S[f[i]] + Jitter
    /\ \A i, j \in 1..Len(G) : f[i] = f[j] => i = j
    /\ \A c \in W : P[c] \in 1..Len(S) /\ \A i \in 1..Len(G) : f[i] # P[c]
    /\ \A c, d \in W : P[c] = P[d] => c = d

GrantsOwnStamps ==
    \E f, P : /\ OwnStamp(stamps, grants, Sleepers, f, P)
              /\ \A c \in Sleepers : wake[c] = stamps[P[c]]

GrantsInOrder ==
    /\ \A i, j \in 1..Len(grants) : i <= j => grants[i] <= grants[j]
    /\ \A i \in 1..Len(grants) : grants[i] <= now

NeverLate == \A c \in Sleepers : now <= wake[c] + Jitter

GInv == LInv /\ StampsSorted /\ GrantsOwnStamps /\ GrantsInOrder /\ NeverLate

(* Sequences of numbers. *)
LEMMA AppendInOrder ==
    ASSUME NEW s \in Seq(Nat), NEW t \in Nat, NEW r, r = Append(s, t),
           \A i, j \in 1..Len(s) : i <= j => s[i] <= s[j],
           Len(s) > 0 => s[Len(s)] <= t
    PROVE  \A i, j \in 1..Len(r) : i <= j => r[i] <= r[j]
<1> DEFINE n == Len(s)
<1>1. /\ n \in Nat /\ Len(r) = n + 1 /\ r[n + 1] = t
      /\ (\A i \in 1..n : r[i] = s[i] /\ s[i] \in Nat)
  BY AppendProperties
<1> SUFFICES ASSUME NEW i \in 1..(n + 1), NEW j \in 1..(n + 1), i <= j
             PROVE  r[i] <= r[j]
  BY <1>1
<1>2. CASE i = n + 1
  BY <1>1, <1>2
<1>3. CASE i # n + 1 /\ j = n + 1
  <2>1. i \in 1..n /\ n > 0 /\ n \in 1..n /\ i <= n
    BY <1>1, <1>3
  <2>2. s[i] <= s[n] /\ s[n] <= t
    BY <2>1
  <2> QED BY <1>1, <1>3, <2>1, <2>2
<1>4. CASE i # n + 1 /\ j # n + 1
  <2>1. i \in 1..n /\ j \in 1..n
    BY <1>1, <1>4
  <2> QED BY <1>1, <2>1
<1> QED BY <1>2, <1>3, <1>4

LEMMA AppendSorted ==
    ASSUME LInv, StampsSorted, NEW t \in Nat, stamps' = Append(stamps, t), now' = now,
           Len(stamps) > 0 => stamps[Len(stamps)] <= t,
           \/ t <= now
           \/ Len(stamps) >= rpm /\ t = stamps[Len(stamps) - rpm + 1] + Delay
    PROVE  StampsSorted'
<1> DEFINE n == Len(stamps)
<1>1. stamps \in Seq(Nat) /\ n \in Nat /\ rpm \in Nat \ {0}
  BY RateAssumption DEF LInv, LimiterTypeOK
<1>2. /\ Len(stamps') = n + 1 /\ stamps'[n + 1] = t
      /\ \A i \in 1..n : stamps'[i] = stamps[i]
  BY <1>1, AppendProperties
<1>3. \A i, j \in 1..Len(stamps') : i <= j => stamps'[i] <= stamps'[j]
  BY <1>1, AppendInOrder DEF StampsSorted
<1>4. n >= rpm => /\ n + 1 > rpm /\ (n + 1) - rpm = n - rpm + 1
                  /\ n - rpm + 1 \in 1..n
  BY <1>1
<1>5. \/ stamps'[Len(stamps')] <= now'
      \/ /\ Len(stamps') > rpm
         /\ stamps'[Len(stamps')] = stamps'[Len(stamps') - rpm] + Delay
  BY <1>2, <1>4
<1> QED BY <1>3, <1>5 DEF StampsSorted

LEMMA PlaceOnQueue ==
    ASSUME NEW n \in Nat, NEW q \in Nat, NEW k \in 1..(q + 1), NEW m \in 1..n,
           m = n - rpm + 1, q - k + 1 < rpm, m > n - q
    PROVE  /\ m - (n - q) \in 1..q /\ m - (n - q) \in 1..(k - 1)
           /\ n - q + (m - (n - q)) = m
BY RateAssumption

(* With room on the queue no stamp is in the future. *)
LEMMA FreeIsLatest ==
    ASSUME LInv, StampsSorted, NEW c, AcquireFree(c), Len(stamps) > 0
    PROVE  stamps[Len(stamps)] <= now
<1> DEFINE n == Len(stamps)
           q == Len(queue)
<1>1. /\ queue \in Seq(Nat) /\ stamps \in Seq(Nat) /\ now \in Nat
      /\ rpm \in Nat \ {0} /\ q \in Nat /\ n \in Nat /\ Delay \in Nat
      /\ (\A i \in 1..n : stamps[i] \in Nat)
  BY RateAssumption, TimeAssumption DEF LInv, LimiterTypeOK
<1>2. PICK k \in 1..(q + 1) :
         /\ Cleared = SubSeq(queue, k, q)
         /\ \A j \in 1..(k - 1) : queue[j] + Delay < now
  BY <1>1, ClearedShape DEF Expired
<1>3. q - k + 1 < rpm
  <2>1. Len(SubSeq(queue, k, q)) = q - k + 1
    BY <1>1
  <2> QED BY <1>2, <2>1 DEF AcquireFree
<1> SUFFICES ASSUME n > rpm, stamps[n] = stamps[n - rpm] + Delay
             PROVE  stamps[n] <= now
  BY DEF StampsSorted
<1> DEFINE m == n - rpm + 1
<1>4. m \in 1..n /\ n - rpm \in 1..n /\ n - rpm <= m
  BY <1>1
<1>5. stamps[n - rpm] <= stamps[m]
  BY <1>4 DEF StampsSorted
<1>6. stamps[m] + Delay < now
  <2>1. CASE m <= n - q
    <3>1. m \in 1..(n - q) /\ ~(m + rpm <= n)
      BY <1>1, <1>4, <2>1
    <3> QED BY <3>1 DEF LInv, PoppedWhenDue
  <2>2. CASE m > n - q
    <3>1. m - (n - q) \in 1..q /\ m - (n - q) \in 1..(k - 1) /\ n - q + (m - (n - q)) = m
      <4> HIDE DEF n, q
      <4> QED BY <1>1, <1>3, <1>4, <2>2, PlaceOnQueue
    <3>2. queue[m - (n - q)] = stamps[m]
      <4>1. DOMAIN queue = 1..q
        BY <1>1
      <4> QED BY <3>1, <4>1 DEF LInv, QueueIsSuffix
    <3> QED BY <1>2, <3>1, <3>2
  <2> QED BY <1>1, <1>4, <2>1, <2>2
<1>7. stamps[m] \in Nat /\ stamps[n - rpm] \in Nat
  BY <1>1, <1>4
<1>8. \A a, b, d \in Nat : a <= b /\ b + d < now => a + d <= now
  BY <1>1
<1> QED BY <1>1, <1>5, <1>6, <1>7, <1>8

(* With a full queue the new stamp is a window after its head, which is the
   stamp rpm places back; no stamp is later. *)
LEMMA FullIsLatest ==
    ASSUME LInv, StampsSorted, Len(Cleared) >= rpm
    PROVE  /\ Len(stamps) >= rpm /\ Len(stamps) > 0
           /\ Head(Cleared) = stamps[Len(stamps) - rpm + 1]
           /\ Head(Cleared) \in Nat
           /\ stamps[Len(stamps)] <= now \/ stamps[Len(stamps)] <= Head(Cleared) + Delay
<1> DEFINE n == Len(stamps)
           q == Len(queue)
<1>1. /\ queue \in Seq(Nat) /\ stamps \in Seq(Nat) /\ now \in Nat
      /\ rpm \in Nat \ {0} /\ q \in Nat /\ n \in Nat /\ q <= rpm /\ Delay \in Nat
      /\ (\A i \in 1..n : stamps[i] \in Nat)
  BY RateAssumption, TimeAssumption DEF LInv, LimiterTypeOK, QueueBounded
<1>2. PICK k \in 1..(q + 1) : Cleared = SubSeq(queue, k, q)
  BY <1>1, ClearedShape
<1>3. k = 1 /\ q = rpm
  <2>1. Len(SubSeq(queue, k, q)) = q - k + 1
    BY <1>1
  <2> QED BY <1>1, <1>2, <2>1
<1>4. Cleared = queue
  <2>1. SubSeq(queue, 1, q) = queue
    BY <1>1, SubSeqFull
  <2> QED BY <1>2, <1>3, <2>1
<1>5. queue # <<>> /\ Head(queue) = queue[1] /\ 1 \in DOMAIN queue
  BY <1>1, <1>3
<1>6. q <= n /\ queue[1] = stamps[n - q + 1]
  BY <1>5 DEF LInv, QueueIsSuffix
<1>7. /\ n >= rpm /\ n > 0 /\ Head(Cleared) = stamps[n - rpm + 1] /\ n - rpm + 1 \in 1..n
  BY <1>1, <1>3, <1>4, <1>5, <1>6
<1>8. CASE n > rpm /\ stamps[n] = stamps[n - rpm] + Delay
  <2>1. n - rpm \in 1..n /\ n - rpm <= n - rpm + 1
    BY <1>1, <1>8
  <2>2. stamps[n - rpm] <= stamps[n - rpm + 1]
    BY <1>7, <2>1 DEF StampsSorted
  <2>3. stamps[n - rpm] \in Nat /\ stamps[n - rpm + 1] \in Nat
    BY <1>1, <1>7, <2>1
  <2>4. \A a, b, d \in Nat : a <= b => a + d <= b + d
    OBVIOUS
  <2>5. stamps[n] <= Head(Cleared) + Delay
    BY <1>1, <1>7, <1>8, <2>2, <2>3, <2>4
  <2> QED BY <1>7, <2>3, <2>5
<1>9. CASE stamps[n] <= now
  BY <1>1, <1>7, <1>9
<1> QED BY <1>7, <1>8, <1>9 DEF StampsSorted

LEMMA AcquireSorted ==
    ASSUME LInv, StampsSorted, NEW c \in Coro, Acquire(c)
    PROVE  StampsSorted'
<1>1. now \in Nat /\ Delay \in Nat /\ stamps \in Seq(Nat)
  BY TimeAssumption DEF LInv, LimiterTypeOK
<1>2. CASE AcquireFree(c)
  BY <1>1, <1>2, FreeIsLatest, AppendSorted DEF AcquireFree, Stamp
<1>3. CASE AcquireDue(c)
  <2>1. /\ Len(Cleared) >= rpm /\ Head(Cleared) + Delay <= now /\ now' = now
        /\ stamps' = Append(stamps, now)
    BY <1>3 DEF AcquireDue, Stamp
  <2>2. stamps[Len(stamps)] <= now
    <3>1. Len(stamps) > 0 => stamps[Len(stamps)] \in Nat
      BY <1>1
    <3> QED BY <1>1, <2>1, <3>1, FullIsLatest
  <2> QED BY <1>1, <2>1, <2>2, AppendSorted
<1>4. CASE AcquireSleeps(c)
  <2>1. /\ Len(Cleared) >= rpm /\ Head(Cleared) + Delay > now /\ now' = now
        /\ stamps' = Append(stamps, Head(Cleared) + Delay)
    BY <1>4 DEF AcquireSleeps, Stamp
  <2>2. PICK t : t = Head(Cleared) + Delay
    OBVIOUS
  <2>3. t \in Nat /\ t > now
    BY <1>1, <2>1, <2>2, FullIsLatest
  <2>4. stamps[Len(stamps)] <= t
    <3>1. Len(stamps) > 0 => stamps[Len(stamps)] \in Nat
      BY <1>1
    <3> QED BY <1>1, <2>1, <2>2, <2>3, <3>1, FullIsLatest
  <2>5. Len(stamps) >= rpm /\ t = stamps[Len(stamps) - rpm + 1] + Delay
    BY <2>1, <2>2, FullIsLatest
  <2> QED BY <2>1, <2>2, <2>3, <2>4, <2>5, AppendSorted
<1> QED BY <1>2, <1>3, <1>4 DEF Acquire

(* A request that goes through at once. *)
LEMMA MatchAtOnce ==
    ASSUME NEW S \in Seq(Nat), NEW G \in Seq(Nat), NEW W, NEW f, NEW P, OwnStamp(S, G, W, f, P),
           NEW t \in Nat, NEW S2, S2 = Append(S, t), NEW G2, G2 = Append(G, t)
    PROVE  \E h : OwnStamp(S2, G2, W, h, P)
<1> DEFINE n == Len(S)
           m == Len(G)
           h == [i \in 1..(m + 1) |-> IF i = m + 1 THEN n + 1 ELSE f[i]]
<1>1. n \in Nat /\ m \in Nat /\ Jitter \in Nat
  BY TimeAssumption
<1>2. Len(S2) = n + 1 /\ S2[n + 1] = t /\ \A i \in 1..n : S2[i] = S[i]
  BY <1>1, AppendProperties
<1>3. Len(G2) = m + 1 /\ G2[m + 1] = t /\ \A i \in 1..m : G2[i] = G[i]
  BY <1>1, AppendProperties
<1>4. h[m + 1] = n + 1 /\ \A i \in 1..m : h[i] = f[i]
  BY <1>1
<1>5. \A i \in 1..(m + 1) : i = m + 1 \/ i \in 1..m
  BY <1>1
<1>6. \A k \in 1..n : k \in 1..(n + 1) /\ k # n + 1
  BY <1>1
<1>7. t <= t + Jitter /\ t <= t /\ n + 1 \in 1..(n + 1)
  BY <1>1
<1> HIDE DEF h, n, m
<1>8. \A i \in 1..(m + 1) : /\ h[i] \in 1..(n + 1)
                            /\ S2[h[i]] <= G2[i] /\ G2[i] <= S2[h[i]] + Jitter
  <2>1. h[m + 1] \in 1..(n + 1) /\ S2[h[m + 1]] <= G2[m + 1]
        /\ G2[m + 1] <= S2[h[m + 1]] + Jitter
    BY <1>2, <1>3, <1>4, <1>7
  <2>2. ASSUME NEW i \in 1..m
        PROVE  h[i] \in 1..(n + 1) /\ S2[h[i]] <= G2[i] /\ G2[i] <= S2[h[i]] + Jitter
    <3>1. f[i] \in 1..n /\ S[f[i]] <= G[i] /\ G[i] <= S[f[i]] + Jitter
      BY DEF OwnStamp, n, m
    <3> QED BY <1>2, <1>3, <1>4, <1>6, <3>1
  <2> QED BY <1>5, <2>1, <2>2
<1>9. \A i \in 1..m : f[i] \in 1..n
  BY DEF OwnStamp, n, m
<1>10. \A i, j \in 1..(m + 1) : h[i] = h[j] => i = j
  BY <1>4, <1>5, <1>6, <1>9 DEF OwnStamp, m
<1>11. \A c \in W : P[c] \in 1..(n + 1) /\ \A i \in 1..(m + 1) : h[i] # P[c]
  BY <1>4, <1>5, <1>6 DEF OwnStamp, n, m
<1>12. OwnStamp(S2, G2, W, h, P)
  BY <1>2, <1>3, <1>8, <1>10, <1>11 DEF OwnStamp
<1> QED BY <1>12

(* A request that reserves the stamp t and sleeps. *)
Reserves(S, G, W, f, P, t, S2, c, V) ==
    /\ OwnStamp(S, G, W, f, P)
    /\ S \in Seq(Nat) /\ t \in Nat /\ S2 = Append(S, t)
    /\ c \notin W /\ V = W \cup {c}

LEMMA MatchSleep ==
    ASSUME NEW S, NEW G, NEW W, NEW f, NEW P, NEW t, NEW S2, NEW c, NEW V,
           Reserves(S, G, W, f, P, t, S2, c, V)
    PROVE  \E R : /\ OwnStamp(S2, G, V, f, R)
                  /\ R[c] = Len(S) + 1 /\ \A d \in W : R[d] = P[d]
<1> USE DEF Reserves
<1> DEFINE n == Len(S)
           R == [d \in W \cup {c} |-> IF d = c THEN n + 1 ELSE P[d]]
<1>1. n \in Nat
  OBVIOUS
<1>2. Len(S2) = n + 1 /\ S2[n + 1] = t /\ \A i \in 1..n : S2[i] = S[i]
  BY <1>1, AppendProperties
<1>3. R[c] = n + 1 /\ \A d \in W : R[d] = P[d]
  OBVIOUS
<1>4. n + 1 \in 1..(n + 1) /\ \A k \in 1..n : k \in 1..(n + 1) /\ k # n + 1
  BY <1>1
<1> HIDE DEF R, n
<1>5. \A i \in 1..Len(G) : /\ f[i] \in 1..(n + 1) /\ f[i] # n + 1
                           /\ S2[f[i]] <= G[i] /\ G[i] <= S2[f[i]] + Jitter
  BY <1>2, <1>4 DEF OwnStamp, n
<1>6. \A d \in W : R[d] \in 1..(n + 1) /\ R[d] # n + 1 /\ \A i \in 1..Len(G) : f[i] # R[d]
  BY <1>3, <1>4 DEF OwnStamp, n
<1>7. \A d, e \in W \cup {c} : R[d] = R[e] => d = e
  BY <1>3, <1>6 DEF OwnStamp
<1>8. OwnStamp(S2, G, W \cup {c}, f, R)
  BY <1>2, <1>3, <1>4, <1>5, <1>6, <1>7 DEF OwnStamp
<1> QED BY <1>3, <1>8 DEF n

(* A sleeper c that goes through at the time g. *)
LEMMA MatchWake ==
    ASSUME NEW S, NEW G \in Seq(Nat), NEW W, NEW f, NEW P, OwnStamp(S, G, W, f, P),
           NEW c \in W, NEW g \in Nat, S[P[c]] <= g, g <= S[P[c]] + Jitter,
           NEW G2, G2 = Append(G, g)
    PROVE  \E h : OwnStamp(S, G2, W \ {c}, h, P)
<1> DEFINE m == Len(G)
           h == [i \in 1..(m + 1) |-> IF i = m + 1 THEN P[c] ELSE f[i]]
<1>1. m \in Nat
  OBVIOUS
<1>2. Len(G2) = m + 1 /\ G2[m + 1] = g /\ \A i \in 1..m : G2[i] = G[i]
  BY <1>1, AppendProperties
<1>3. h[m + 1] = P[c] /\ \A i \in 1..m : h[i] = f[i]
  BY <1>1
<1>4. \A i \in 1..(m + 1) : i = m + 1 \/ i \in 1..m
  BY <1>1
<1> HIDE DEF h, m
<1>5. \A i \in 1..(m + 1) : /\ h[i] \in 1..Len(S)
                            /\ S[h[i]] <= G2[i] /\ G2[i] <= S[h[i]] + Jitter
  BY <1>2, <1>3, <1>4 DEF OwnStamp, m
<1>6. \A i, j \in 1..(m + 1) : h[i] = h[j] => i = j
  BY <1>3, <1>4 DEF OwnStamp, m
<1>7. \A d \in W \ {c} : P[d] \in 1..Len(S) /\ \A i \in 1..(m + 1) : h[i] # P[d]
  BY <1>3, <1>4 DEF OwnStamp, m
<1>8. OwnStamp(S, G2, W \ {c}, h, P)
  BY <1>2, <1>5, <1>6, <1>7 DEF OwnStamp
<1> QED BY <1>8

(* Among rpm + 1 different places two are rpm or more apart. *)
LEMMA PlacesSpread ==
    ASSUME NEW i \in Nat, NEW f, \A x \in i..(i + rpm) : f[x] \in Nat,
           \A x, y \in i..(i + rpm) : f[x] = f[y] => x = y
    PROVE  \E x, y \in i..(i + rpm) : f[x] + rpm <= f[y]
<1> DEFINE D == i..(i + rpm)
           T == {f[x] : x \in D}
           Less == {ss \in Nat \X Nat : ss[1] < ss[2]}
<1>1. rpm \in Nat \ {0} /\ i \in D
  BY RateAssumption
<1>2. T \subseteq Nat /\ T # {}
  BY <1>1
<1>3. IsWellFoundedOn(Less, Nat)
  BY NatLessThanWellFounded DEF OpToRel
<1>4. PICK a \in T : \A b \in T : ~(b < a)
  <2>1. \E a \in T : \A b \in T : ~(<<b, a>> \in Less)
    <3> HIDE DEF T, Less
    <3> QED BY <1>2, <1>3, WFMin
  <2> QED BY <1>2, <2>1
<1>5. PICK x \in D : a = f[x]
  BY <1>4
<1>6. a \in Nat /\ \A y \in D : f[y] >= a
  BY <1>2, <1>4
<1> SUFFICES ASSUME \A y \in D : ~(a + rpm <= f[y]) PROVE FALSE
  BY <1>5
<1>7. \A y \in D : f[y] \in a..(a + rpm - 1)
  BY <1>1, <1>6
<1> DEFINE U == a..(a + rpm - 1)
           F == [y \in D |-> f[y]]
<1>8. F \in [D -> U]
  BY <1>7
<1>9. IsFiniteSet(D) /\ Cardinality(D) = rpm + 1
  <2>1. i \in Int /\ i + rpm \in Int /\ ~(i > i + rpm) /\ (i + rpm) - i + 1 = rpm + 1
    BY <1>1
  <2> QED BY <2>1, FS_Interval
<1>10. IsFiniteSet(U) /\ Cardinality(U) = rpm
  <2>1. /\ a \in Int /\ a + rpm - 1 \in Int /\ ~(a > a + rpm - 1)
        /\ (a + rpm - 1) - a + 1 = rpm
    BY <1>1, <1>6
  <2> QED BY <2>1, FS_Interval
<1>11. Cardinality(U) < Cardinality(D)
  BY <1>1, <1>9, <1>10
<1> HIDE DEF D, U, F
<1>12. \E y, z \in D : y # z /\ F[y] = F[z]
  BY <1>8, <1>9, <1>10, <1>11, FS_PigeonHole
<1> QED BY <1>12 DEF F, D

(* Grants that own their stamps respect the rate. *)
LEMMA OwnStampsSpaceGrants ==
    ASSUME GInv
    PROVE  RateRespected
<1> DEFINE m == Len(grants)
           n == Len(stamps)
<1>1. /\ grants \in Seq(Nat) /\ stamps \in Seq(Nat) /\ m \in Nat /\ n \in Nat
      /\ DOMAIN grants = 1..m /\ DOMAIN stamps = 1..n
      /\ rpm \in Nat \ {0} /\ Delay \in Nat /\ Jitter \in Nat
  BY RateAssumption, TimeAssumption DEF GInv, LInv, LimiterTypeOK
<1> SUFFICES ASSUME NEW i \in 1..m, i + rpm \in 1..m
             PROVE  grants[i] + Delay <= grants[i + rpm] + Jitter
  BY <1>1 DEF RateRespected
<1>2. PICK f, P : OwnStamp(stamps, grants, Sleepers, f, P)
  BY DEF GInv, GrantsOwnStamps
<1>3. i \in Nat /\ \A x \in i..(i + rpm) : x \in 1..m
  BY <1>1
<1>4. /\ \A x \in i..(i + rpm) : f[x] \in 1..n /\ f[x] \in Nat
      /\ \A x, y \in i..(i + rpm) : f[x] = f[y] => x = y
  BY <1>2, <1>3 DEF OwnStamp
<1>5. PICK x \in i..(i + rpm), y \in i..(i + rpm) : f[x] + rpm <= f[y]
  BY <1>3, <1>4, PlacesSpread
<1>6. PICK a, b : a = f[x] /\ b = f[y]
  OBVIOUS
<1>7. a \in 1..n /\ b \in 1..n /\ a + rpm \in 1..n /\ a + rpm <= b
  <2>1. a \in 1..n /\ b \in 1..n /\ a + rpm <= b
    BY <1>4, <1>5, <1>6
  <2> HIDE DEF n
  <2> QED BY <1>1, <2>1
<1>8. stamps[a] + Delay <= stamps[a + rpm] /\ stamps[a + rpm] <= stamps[b]
  BY <1>1, <1>7 DEF GInv, LInv, StampsSpaced, StampsSorted
<1>9. /\ stamps[b] <= grants[y] /\ grants[x] <= stamps[a] + Jitter
  BY <1>2, <1>3, <1>6 DEF OwnStamp
<1>10. grants[y] <= grants[i + rpm] /\ grants[i] <= grants[x]
  <2>1. x \in 1..m /\ y \in 1..m /\ i <= x /\ y <= i + rpm
    BY <1>1, <1>3
  <2> QED BY <2>1 DEF GInv, GrantsInOrder
<1>11. /\ stamps[a] \in Nat /\ stamps[b] \in Nat /\ stamps[a + rpm] \in Nat
       /\ grants[i] \in Nat /\ grants[x] \in Nat /\ grants[y] \in Nat
       /\ grants[i + rpm] \in Nat
  <2>1. \A s \in Seq(Nat) : \A k \in 1..Len(s) : s[k] \in Nat
    OBVIOUS
  <2> QED BY <1>1, <1>3, <1>7, <2>1
<1>12. stamps[a] + Delay <= grants[i + rpm]
  <2>1. stamps[a + rpm] <= grants[i + rpm]
    BY <1>8, <1>9, <1>10, <1>11
  <2>2. \A u, v, w \in Nat : u + Delay <= v /\ v <= w => u + Delay <= w
    BY TimeAssumption
  <2> QED BY <1>8, <1>11, <2>1, <2>2
<1>13. grants[i] <= stamps[a] + Jitter
  <2>1. \A u, v, w \in Nat : u <= v /\ v <= w + Jitter => u <= w + Jitter
    BY TimeAssumption
  <2> QED BY <1>9, <1>10, <1>11, <2>1
<1>14. \A u, v, w \in Nat : u + Delay <= w /\ v <= u + Jitter => v + Delay <= w + Jitter
  BY <1>1
<1> QED BY <1>11, <1>12, <1>13, <1>14

-----------------------------------------------------------------------------
(* The steps keep this. *)

LEMMA GrantInOrder ==
    ASSUME LInv, GrantsInOrder, grants' = Append(grants, now), now' = now
    PROVE  GrantsInOrder'
<1> DEFINE m == Len(grants)
<1>1. grants \in Seq(Nat) /\ now \in Nat /\ m \in Nat
  BY DEF LInv, LimiterTypeOK
<1>2. Len(grants') = m + 1 /\ grants'[m + 1] = now /\ \A i \in 1..m : grants'[i] = grants[i]
  BY <1>1, AppendProperties
<1>3. m > 0 => grants[m] <= now
  BY <1>1 DEF GrantsInOrder
<1>4. \A i, j \in 1..Len(grants') : i <= j => grants'[i] <= grants'[j]
  BY <1>1, <1>3, AppendInOrder DEF GrantsInOrder
<1>5. \A i \in 1..(m + 1) : i = m + 1 \/ i \in 1..m
  BY <1>1
<1>6. \A i \in 1..Len(grants') : grants'[i] <= now'
  BY <1>1, <1>2, <1>5 DEF GrantsInOrder
<1> QED BY <1>4, <1>6 DEF GrantsInOrder

(* Free and Due: the stamp and the grant are both the present time. *)
LEMMA GrantedGInv ==
    ASSUME GInv, NEW c \in Coro, AcquireFree(c) \/ AcquireDue(c)
    PROVE  GrantsOwnStamps' /\ GrantsInOrder' /\ NeverLate'
<1>1. /\ stamps \in Seq(Nat) /\ grants \in Seq(Nat) /\ now \in Nat
      /\ state \in [Coro -> CoroutineState] /\ LInv
  BY DEF GInv, LInv, LimiterTypeOK
<1>2. /\ state[c] = "idle" /\ state' = [state EXCEPT ![c] = "done"]
      /\ grants' = Append(grants, now) /\ stamps' = Append(stamps, now)
      /\ wake' = wake /\ now' = now
  BY DEF AcquireFree, AcquireDue, Stamp, Granted
<1>3. Sleepers' = Sleepers
  BY <1>1, <1>2 DEF Sleepers
<1>4. PICK f, P : /\ OwnStamp(stamps, grants, Sleepers, f, P)
                  /\ \A d \in Sleepers : wake[d] = stamps[P[d]]
  BY DEF GInv, GrantsOwnStamps
<1>5. PICK h : OwnStamp(stamps', grants', Sleepers, h, P)
  BY <1>1, <1>2, <1>4, MatchAtOnce
<1>6. \A d \in Sleepers : stamps'[P[d]] = stamps[P[d]]
  <2>1. \A k \in 1..Len(stamps) : stamps'[k] = stamps[k]
    BY <1>1, <1>2, AppendProperties
  <2> QED BY <1>4, <2>1 DEF OwnStamp
<1>7. GrantsOwnStamps'
  <2>1. OwnStamp(stamps', grants', Sleepers', h, P)
    BY <1>3, <1>5
  <2>2. \A d \in Sleepers' : wake'[d] = stamps'[P[d]]
    BY <1>2, <1>3, <1>4, <1>6
  <2> QED BY <2>1, <2>2 DEF GrantsOwnStamps
<1>8. NeverLate'
  BY <1>2, <1>3 DEF GInv, NeverLate
<1>9. GrantsInOrder'
  BY <1>1, <1>2, GrantInOrder DEF GInv
<1> QED BY <1>7, <1>8, <1>9

LEMMA SleepsGInv ==
    ASSUME GInv, NEW c \in Coro, AcquireSleeps(c)
    PROVE  GrantsOwnStamps' /\ GrantsInOrder' /\ NeverLate'
<1>1. /\ stamps \in Seq(Nat) /\ grants \in Seq(Nat) /\ now \in Nat /\ wake \in [Coro -> Nat]
      /\ state \in [Coro -> CoroutineState] /\ LInv /\ StampsSorted
      /\ Delay \in Nat /\ Jitter \in Nat
  BY TimeAssumption DEF GInv, LInv, LimiterTypeOK
<1>2. PICK t : t = Head(Cleared) + Delay
  OBVIOUS
<1>3. /\ state[c] = "idle" /\ state' = [state EXCEPT ![c] = "sleeping"]
      /\ grants' = grants /\ stamps' = Append(stamps, t)
      /\ wake' = [wake EXCEPT ![c] = t] /\ now' = now /\ t > now
      /\ Len(Cleared) >= rpm
  BY <1>2 DEF AcquireSleeps, Stamp
<1>4. t \in Nat
  BY <1>1, <1>2, <1>3, FullIsLatest
<1>5. Sleepers' = Sleepers \cup {c} /\ c \notin Sleepers /\ Sleepers \subseteq Coro
  BY <1>1, <1>3 DEF Sleepers
<1>6. wake'[c] = t /\ \A d \in Sleepers : wake'[d] = wake[d]
  BY <1>1, <1>3, <1>5
<1>7. PICK f, P : /\ OwnStamp(stamps, grants, Sleepers, f, P)
                  /\ \A d \in Sleepers : wake[d] = stamps[P[d]]
  BY DEF GInv, GrantsOwnStamps
<1>8. PICK R : /\ OwnStamp(stamps', grants, Sleepers', f, R)
               /\ R[c] = Len(stamps) + 1 /\ \A d \in Sleepers : R[d] = P[d]
  <2>1. stamps \in Seq(Nat) /\ stamps' = Append(stamps, t) /\ c \notin Sleepers
    BY <1>1, <1>3, <1>5
  <2>2. OwnStamp(stamps, grants, Sleepers, f, P)
    BY <1>7
  <2>3. Sleepers' = Sleepers \cup {c}
    BY <1>5
  <2>4. Reserves(stamps, grants, Sleepers, f, P, t, stamps', c, Sleepers')
    BY <1>4, <2>1, <2>2, <2>3 DEF Reserves
  <2> QED BY <2>4, MatchSleep
<1>9. /\ stamps'[Len(stamps) + 1] = t
      /\ \A k \in 1..Len(stamps) : stamps'[k] = stamps[k]
  BY <1>1, <1>3, <1>4, AppendProperties
<1>10. \A d \in Sleepers : P[d] \in 1..Len(stamps)
  BY <1>7 DEF OwnStamp
<1>11. \A d \in Sleepers \cup {c} : wake'[d] = stamps'[R[d]]
  BY <1>6, <1>7, <1>8, <1>9, <1>10
<1>12. GrantsOwnStamps'
  <2>1. OwnStamp(stamps', grants', Sleepers', f, R)
    BY <1>3, <1>8
  <2>2. \A d \in Sleepers' : wake'[d] = stamps'[R[d]]
    BY <1>5, <1>11
  <2> QED BY <2>1, <2>2 DEF GrantsOwnStamps
<1>13. NeverLate'
  <2>1. now <= t + Jitter
    BY <1>1, <1>3, <1>4
  <2> QED BY <1>3, <1>5, <1>6, <2>1 DEF GInv, NeverLate
<1>14. GrantsInOrder'
  BY <1>3 DEF GInv, GrantsInOrder
<1> QED BY <1>12, <1>13, <1>14

LEMMA WakeGInv ==
    ASSUME GInv, NEW c \in Coro, Wake(c)
    PROVE  GrantsOwnStamps' /\ GrantsInOrder' /\ NeverLate' /\ StampsSorted'
<1>1. /\ stamps \in Seq(Nat) /\ grants \in Seq(Nat) /\ now \in Nat
      /\ state \in [Coro -> CoroutineState] /\ LInv
  BY DEF GInv, LInv, LimiterTypeOK
<1>2. /\ state[c] = "sleeping" /\ state' = [state EXCEPT ![c] = "done"] /\ wake[c] <= now
      /\ grants' = Append(grants, now) /\ UNCHANGED <<now, stamps, wake>>
  BY DEF Wake
<1>3. Sleepers' = Sleepers \ {c} /\ c \in Sleepers
  BY <1>1, <1>2 DEF Sleepers
<1>4. PICK f, P : /\ OwnStamp(stamps, grants, Sleepers, f, P)
                  /\ \A d \in Sleepers : wake[d] = stamps[P[d]]
  BY DEF GInv, GrantsOwnStamps
<1>5. stamps[P[c]] <= now /\ now <= stamps[P[c]] + Jitter
  BY <1>2, <1>3, <1>4 DEF GInv, NeverLate
<1>6. \E h : OwnStamp(stamps, grants', Sleepers \ {c}, h, P)
  BY <1>1, <1>2, <1>3, <1>4, <1>5, MatchWake
<1>7. GrantsOwnStamps'
  BY <1>2, <1>3, <1>4, <1>6 DEF GrantsOwnStamps
<1>8. NeverLate' /\ StampsSorted'
  BY <1>2, <1>3 DEF GInv, NeverLate, StampsSorted
<1>9. GrantsInOrder'
  BY <1>1, <1>2, GrantInOrder DEF GInv
<1> QED BY <1>7, <1>8, <1>9

LEMMA TickGInv ==
    ASSUME GInv, Tick
    PROVE  GrantsOwnStamps' /\ GrantsInOrder' /\ NeverLate' /\ StampsSorted'
<1>1. /\ stamps \in Seq(Nat) /\ grants \in Seq(Nat) /\ now \in Nat /\ wake \in [Coro -> Nat]
      /\ Jitter \in Nat
  BY TimeAssumption DEF GInv, LInv, LimiterTypeOK
<1>2. /\ now' = now + 1 /\ UNCHANGED <<state, wake, stamps, grants>>
      /\ \A c \in Coro : state[c] = "sleeping" => now < wake[c] + Jitter
  BY DEF Tick
<1>3. Sleepers' = Sleepers /\ Sleepers \subseteq Coro
  BY <1>2 DEF Sleepers
<1>4. GrantsOwnStamps'
  BY <1>2, <1>3 DEF GInv, GrantsOwnStamps
<1>5. NeverLate'
  <2>1. \A c \in Sleepers : wake[c] + Jitter \in Nat /\ now < wake[c] + Jitter
    BY <1>1, <1>2 DEF Sleepers
  <2>2. \A x \in Nat : now < x => now + 1 <= x
    BY <1>1
  <2> QED BY <1>2, <1>3, <2>1, <2>2 DEF NeverLate
<1>6. \A x \in Nat : x <= now => x <= now + 1
  BY <1>1
<1>7. GrantsInOrder'
  <2>1. \A i \in 1..Len(grants) : grants[i] \in Nat
    BY <1>1
  <2> QED BY <1>2, <1>6, <2>1 DEF GInv, GrantsInOrder
<1>8. StampsSorted'
  <2>1. Len(stamps) > 0 => stamps[Len(stamps)] \in Nat
    BY <1>1
  <2> QED BY <1>2, <1>6, <2>1 DEF GInv, StampsSorted
<1> QED BY <1>4, <1>5, <1>7, <1>8

LEMMA InitGInv == LimiterInit => GInv
<1> SUFFICES ASSUME LimiterInit PROVE GInv
  OBVIOUS
<1>1. LInv /\ Sleepers = {}
  BY InitLInv DEF LimiterInit, Sleepers
<1>2. Len(stamps) = 0 /\ Len(grants) = 0
  BY DEF LimiterInit
<1>3. StampsSorted /\ GrantsInOrder /\ NeverLate
  BY <1>1, <1>2 DEF StampsSorted, GrantsInOrder, NeverLate
<1>4. OwnStamp(stamps, grants, Sleepers, stamps, stamps)
  BY <1>1, <1>2 DEF OwnStamp
<1>5. GrantsOwnStamps
  BY <1>1, <1>4 DEF GrantsOwnStamps
<1> QED BY <1>1, <1>3, <1>5 DEF GInv

(* At most rpm requests go through in a window, up to the lateness of the event
   loop: for every number of coroutines, rate and window, and whichever of the
   sleeping coroutines the loop wakes first (rate_limiter.py 10, 23-54). *)
THEOREM RateIsRespected == LimiterSpec => []RateRespected
<1>1. LInv /\ LInv' /\ GInv /\ [LimiterNext]_limiterVars => GInv'
  <2> SUFFICES ASSUME LInv', GInv, [LimiterNext]_limiterVars
               PROVE  GrantsOwnStamps' /\ GrantsInOrder' /\ NeverLate' /\ StampsSorted'
    BY DEF GInv
  <2>1. CASE Tick
    BY <2>1, TickGInv
  <2>2. ASSUME NEW c \in Coro, Acquire(c)
        PROVE  GrantsOwnStamps' /\ GrantsInOrder' /\ NeverLate' /\ StampsSorted'
    <3>1. StampsSorted'
      BY <2>2, AcquireSorted DEF GInv
    <3> QED BY <2>2, <3>1, GrantedGInv, SleepsGInv DEF Acquire
  <2>3. ASSUME NEW c \in Coro, Wake(c)
        PROVE  GrantsOwnStamps' /\ GrantsInOrder' /\ NeverLate' /\ StampsSorted'
    BY <2>3, WakeGInv
  <2>4. CASE UNCHANGED limiterVars
    <3>1. Sleepers' = Sleepers
      BY <2>4 DEF limiterVars, Sleepers
    <3> QED BY <2>4, <3>1 DEF limiterVars, GInv, GrantsOwnStamps, GrantsInOrder, NeverLate, StampsSorted
  <2> QED BY <2>1, <2>2, <2>3, <2>4 DEF LimiterNext
<1>2. GInv => RateRespected
  BY OwnStampsSpaceGrants
<1> QED BY <1>1, <1>2, InitGInv, LimiterInvariance, PTL DEF LimiterSpec

-----------------------------------------------------------------------------
(***************************************************************************)
(* The controller.                                                         *)
(***************************************************************************)

USE ProgramAssumption, NoneAssumption, BoundAssumption

(* Admin forgets no execution, and a success is never revised. *)
AdminForward ==
    /\ DOMAIN admin \subseteq DOMAIN admin'
    /\ \A n \in DOMAIN admin : admin[n] = "SUCCEEDED" => admin'[n] = "SUCCEEDED"

(* The initial state satisfies the invariant: no item, no execution. *)
LEMMA InitIInv == Init => IInv
  <1> SUFFICES ASSUME Init PROVE IInv
    OBVIOUS
  <1>1. TypeOK
    <2>1. entries \in [Entity -> Seq(Call)]
      BY DEF Init
    <2>2. DOMAIN admin \subseteq Name /\ admin \in [DOMAIN admin -> Phase]
      BY DEF Init
    <2>3. attempt \in 1..MaxAttempts /\ handling \in 0..3
      BY DEF Init
    <2> QED
      BY <2>1, <2>2, <2>3 DEF Init, TypeOK, OfEachCall, ItemStatus, CoroState,
           ControllerState, MainState, Verdict, CleanupState
  <1>2. EntriesOK
    BY DEF EntriesOK, Init
  <1>3. AttachedOwned /\ UpdatesOK /\ OutcomesOK
    BY DEF Init, OfEachCall, AttachedOwned, UpdatesOK, OutcomesOK
  <1>4. LoopsOK /\ CleanupOK
    BY DEF Init, LoopsOK, CleanupOK, NothingLeftRunning
  <1> QED
    BY <1>1, <1>2, <1>3, <1>4 DEF IInv

(* A name that an item owns stays its own while `entries` does not change. *)
LEMMA OwnedStable ==
  ASSUME UNCHANGED entries, AdminForward
  PROVE  \A c \in Call, n \in Name : Owned(c, n) => Owned(c, n)'
  BY DEF Owned, IsAt, AdminForward

(* Steps that leave the items and the controller thread alone. *)
LEMMA ItemsUntouched ==
  ASSUME IInv, UNCHANGED <<items, coro, ctl>>, AdminForward, TypeOK', CleanupOK'
  PROVE  IInv'
  <1>1. \A c \in Call, n \in Name :
          /\ Owned(c, n) => Owned(c, n)'
          /\ Owned(c, n) /\ admin[n] = "SUCCEEDED" => admin'[n] = "SUCCEEDED"
    BY OwnedStable DEF items, Owned, AdminForward
  <1>2. EntriesOK'
    BY DEF IInv, EntriesOK, items
  <1>3. AttachedOwned'
    BY <1>1 DEF IInv, TypeOK, AttachedOwned, items
  <1>4. UpdatesOK'
    <2>1. \A c \in Call : updates[c] # None => updates[c].wf_exec \in Name \cup {None}
      BY DEF IInv, TypeOK, Update
    <2>2. \A c \in Call : \A i : IsAt(c, i) => IsAt(c, i)'
      BY DEF IsAt, items
    <2>3. updates' = updates
      BY DEF ctl
    <2>4. \A c \in Call : updates[c] # None =>
            /\ IsAt(c, updates[c].idx)
            /\ updates[c].wf_exec # None => Owned(c, updates[c].wf_exec)
            /\ updates[c].status = "SUCCESS" =>
                 /\ updates[c].wf_exec # None
                 /\ admin[updates[c].wf_exec] = "SUCCEEDED"
      BY DEF IInv, UpdatesOK
    <2> QED
      BY <1>1, <2>1, <2>2, <2>3, <2>4 DEF UpdatesOK
  <1>5. LoopsOK'
    BY DEF IInv, LoopsOK, items, ctl
  <1>6. OutcomesOK'
    BY <1>1 DEF IInv, TypeOK, OutcomesOK, items
  <1> QED
    BY <1>2, <1>3, <1>4, <1>5, <1>6 DEF IInv

-----------------------------------------------------------------------------
(* Controller.add *)

LEMMA AddIInv ==
  ASSUME NEW c \in Call, IInv, Add(c) PROVE IInv'
  <1>1. TypeOK'
    BY DEF IInv, Add, TypeOK, CoroState, ctl, proc, clean
  <1>2. EntriesOK'
    BY DEF IInv, Add, Ready, TypeOK, EntriesOK
  <1>3. \A d \in Call, i \in Nat : IsAt(d, i) => IsAt(d, i)'
    BY DEF IInv, Add, TypeOK, IsAt
  <1>4. \A d \in Call, n \in Name : Owned(d, n) => Owned(d, n)'
    BY <1>3 DEF Add, Owned, Name
  <1>5. AttachedOwned'
    BY <1>4 DEF IInv, Add, TypeOK, AttachedOwned
  <1>6. UpdatesOK'
    BY <1>3, <1>4 DEF IInv, Add, TypeOK, UpdatesOK, Update, ctl
  <1>7. LoopsOK'
    BY DEF IInv, Add, LoopsOK, ctl
  <1>8. OutcomesOK'
    BY <1>4 DEF IInv, Add, TypeOK, OutcomesOK
  <1>9. CleanupOK'
    BY DEF IInv, Add, CleanupOK, NothingLeftRunning, proc, clean
  <1> QED
    BY <1>1, <1>2, <1>5, <1>6, <1>7, <1>8, <1>9 DEF IInv

(* add sees a terminal status: only its own coroutine moves. *)
LEMMA AddEndsIInv ==
  ASSUME NEW c \in Call, IInv, AddReturns(c) \/ AddRaises(c) PROVE IInv'
  <1>1. TypeOK'
    BY DEF IInv, AddReturns, AddRaises, TypeOK, CoroState, items, ctl, proc, clean
  <1>2. EntriesOK'
    BY DEF IInv, AddReturns, AddRaises, TypeOK, EntriesOK, items
  <1>3. AttachedOwned' /\ UpdatesOK' /\ LoopsOK'
    BY DEF IInv, AddReturns, AddRaises, AttachedOwned, UpdatesOK, LoopsOK, Owned,
           IsAt, items, ctl
  <1>4. OutcomesOK'
    BY DEF IInv, AddReturns, AddRaises, TypeOK, OutcomesOK, Owned, IsAt, items
  <1>5. CleanupOK'
    BY DEF IInv, AddReturns, AddRaises, CleanupOK, NothingLeftRunning, proc, clean
  <1> QED
    BY <1>1, <1>2, <1>3, <1>4, <1>5 DEF IInv

-----------------------------------------------------------------------------
(* The controller thread *)

LEMMA PollTopIInv ==
  ASSUME IInv, PollTop PROVE IInv'
  <1>1. CASE stop
    <2>1. UNCHANGED <<items, coro, updates, todo, cur, proc, admin, clean>> /\ pc' = "stopped"
      BY <1>1 DEF PollTop
    <2>2. TypeOK' /\ EntriesOK' /\ AttachedOwned' /\ UpdatesOK' /\ OutcomesOK' /\ CleanupOK'
      BY <2>1 DEF IInv, TypeOK, ControllerState, EntriesOK, AttachedOwned, UpdatesOK, Owned,
                  IsAt, OutcomesOK, CleanupOK, NothingLeftRunning, items, proc, clean
    <2>3. LoopsOK'
      BY <2>1 DEF IInv, LoopsOK, items
    <2> QED
      BY <2>2, <2>3 DEF IInv
  <1>2. CASE ~stop
    <2>1. /\ UNCHANGED <<items, coro, cur, proc, admin, clean>>
          /\ pc' = "reconcile"
          /\ updates' = [c \in Call |-> IF NeedsUpdate(c) THEN NewUpdate(c) ELSE None]
          /\ todo' = {c \in Call : NeedsUpdate(c)}
      BY <1>2 DEF PollTop
    <2>2. ASSUME NEW c \in Call, NeedsUpdate(c)
          PROVE  /\ NewUpdate(c) \in Update
                 /\ IsAt(c, NewUpdate(c).idx)
                 /\ NewUpdate(c).status = None
                 /\ NewUpdate(c).wf_exec = None
      <3>1. PICK i \in DOMAIN entries[EntityOf[c]] : entries[EntityOf[c]][i] = c
        BY <2>2 DEF NeedsUpdate, Added
      <3>2. IdxOf(c) \in DOMAIN entries[EntityOf[c]] /\ entries[EntityOf[c]][IdxOf(c)] = c
        BY <3>1 DEF IdxOf
      <3>3. IdxOf(c) \in Nat
        BY <3>2 DEF IInv, TypeOK
      <3> QED
        BY <3>2, <3>3 DEF NewUpdate, IsAt, Update
    <2>3. TypeOK'
      BY <2>1, <2>2 DEF IInv, TypeOK, ControllerState, items, proc, clean
    <2>4. EntriesOK' /\ AttachedOwned' /\ OutcomesOK' /\ CleanupOK'
      BY <2>1 DEF IInv, EntriesOK, AttachedOwned, Owned, IsAt, OutcomesOK, CleanupOK,
                  NothingLeftRunning, items, proc, clean
    <2>5. \A c \in Call : updates'[c] # None => NeedsUpdate(c) /\ updates'[c] = NewUpdate(c)
      BY <2>1
    <2>6. \A c \in Call : \A i : IsAt(c, i) => IsAt(c, i)'
      BY <2>1 DEF IsAt, items
    <2>7. UpdatesOK'
      <3> SUFFICES ASSUME NEW c \in Call, updates'[c] # None
                   PROVE  /\ IsAt(c, updates[c].idx)'
                          /\ updates'[c].wf_exec = None
                          /\ updates'[c].status # "SUCCESS"
        BY DEF UpdatesOK
      <3>1. /\ updates'[c] = NewUpdate(c)
            /\ IsAt(c, NewUpdate(c).idx)
            /\ NewUpdate(c).status = None
            /\ NewUpdate(c).wf_exec = None
        BY <2>2, <2>5
      <3>2. None # "SUCCESS"
        BY DEF ItemStatus
      <3>3. IsAt(c, updates[c].idx)'
        BY <3>1, <2>1 DEF IsAt, items
      <3> QED
        BY <3>1, <3>2, <3>3
    <2>8. LoopsOK'
      <3>1. \A c \in Call : NeedsUpdate(c) => NewUpdate(c) # None
        BY <2>2 DEF Update, NewUpdate, IInv, TypeOK
      <3>2. \A c \in todo' : updates'[c] # None /\ status'[c] \notin TerminalStatus
        BY <2>1, <3>1 DEF NeedsUpdate, items
      <3>3. \A c \in Call : updates'[c] # None => c \in todo' /\ status'[c] \notin TerminalStatus
        BY <2>1 DEF NeedsUpdate, items
      <3> QED
        BY <2>1, <3>2, <3>3 DEF LoopsOK
    <2> QED
      BY <2>3, <2>4, <2>7, <2>8 DEF IInv
  <1> QED
    BY <1>1, <1>2


(* What the five outcomes of reconcile_one have in common: the update of one
   item is filled in, with a name that the item owns, if any. *)
LEMMA Reconciled ==
  ASSUME NEW c \in Call, NEW st \in ItemStatus, NEW wf \in Name \cup {None},
         NEW err \in ErrorKind \cup {None},
         IInv, Reconciling(c), SetUpdate(c, st, wf, err), AdminForward,
         DOMAIN admin' \subseteq Name, admin' \in [DOMAIN admin' -> Phase],
         wf # None => Owned(c, wf)',
         st = "SUCCESS" => wf # None /\ admin'[wf] = "SUCCEEDED"
  PROVE  IInv'
  <1>1. /\ updates[c] # None
        /\ updates[c] \in Update
        /\ status[c] \notin TerminalStatus
    BY DEF IInv, TypeOK, LoopsOK, Reconciling
  <1> DEFINE up == [idx |-> updates[c].idx, status |-> st, wf_exec |-> wf, error |-> err]
  <1>2. updates' = [updates EXCEPT ![c] = up]
    BY DEF SetUpdate
  <1>3. up \in Update /\ up # None
    BY <1>1 DEF Update
  <1>4. \A d \in Call : updates'[d] = IF d = c THEN up ELSE updates[d]
    BY <1>2 DEF IInv, TypeOK
  <1>5. up.idx = updates[c].idx /\ up.status = st /\ up.wf_exec = wf
    OBVIOUS
  <1> HIDE DEF up
  <1>6. TypeOK'
    BY <1>2, <1>3 DEF IInv, TypeOK, Reconciling, AdminForward, items, proc, clean
  <1>7. \A d \in Call, n \in Name :
          /\ Owned(d, n) => Owned(d, n)'
          /\ Owned(d, n) /\ admin[n] = "SUCCEEDED" => admin'[n] = "SUCCEEDED"
    BY OwnedStable DEF Reconciling, items, Owned, AdminForward
  <1>8. EntriesOK' /\ AttachedOwned' /\ OutcomesOK'
    BY <1>7 DEF IInv, TypeOK, EntriesOK, AttachedOwned, OutcomesOK, Reconciling, items
  <1>9. UpdatesOK'
    <2>1. \A d \in Call : \A i : IsAt(d, i) => IsAt(d, i)'
      BY DEF IsAt, Reconciling, items
    <2>2. ASSUME NEW d \in Call, d # c, updates'[d] # None
          PROVE  /\ IsAt(d, updates[d].idx)'
                 /\ updates'[d].wf_exec # None => Owned(d, updates[d].wf_exec)'
                 /\ updates'[d].status = "SUCCESS" =>
                      /\ updates'[d].wf_exec # None
                      /\ admin'[updates'[d].wf_exec] = "SUCCEEDED"
      <3> DEFINE u == updates[d]
      <3>1. u \in Update /\ u # None /\ updates'[d] = u
        BY <1>4, <2>2 DEF IInv, TypeOK
      <3>2. u.wf_exec \in Name \cup {None}
        BY <3>1 DEF Update
      <3>3. /\ IsAt(d, u.idx)
            /\ u.wf_exec # None => Owned(d, u.wf_exec)
            /\ u.status = "SUCCESS" =>
                 u.wf_exec # None /\ admin[u.wf_exec] = "SUCCEEDED"
        BY <3>1 DEF IInv, UpdatesOK
      <3> QED
        BY <1>7, <2>1, <3>1, <3>2, <3>3
    <2>3. /\ IsAt(c, updates[c].idx)'
          /\ updates'[c].wf_exec # None => Owned(c, updates[c].wf_exec)'
          /\ updates'[c].status = "SUCCESS" =>
               /\ updates'[c].wf_exec # None
               /\ admin'[updates'[c].wf_exec] = "SUCCEEDED"
      BY <1>1, <1>4, <1>5, <2>1 DEF IInv, UpdatesOK
    <2> QED
      BY <2>2, <2>3 DEF UpdatesOK
  <1>10. LoopsOK'
    <2>1. todo' = todo \ {c} /\ pc' = "reconcile" /\ status' = status
      BY DEF Reconciling, items
    <2>2. st # None
      OBVIOUS
    <2>3. \A d \in todo' : updates'[d] # None /\ status'[d] \notin TerminalStatus
      BY <1>3, <1>4, <2>1 DEF IInv, TypeOK, LoopsOK
    <2>4. \A d \in Call : updates'[d] # None =>
              /\ d \in todo' \/ updates'[d].status # None
              /\ status'[d] \notin TerminalStatus
      BY <1>1, <1>3, <1>4, <1>5, <2>1, <2>2 DEF IInv, LoopsOK, Reconciling
    <2> QED
      BY <2>1, <2>3, <2>4 DEF LoopsOK
  <1>11. CleanupOK'
    BY DEF IInv, CleanupOK, NothingLeftRunning, Reconciling, Alive, proc, clean
  <1> QED
    BY <1>6, <1>8, <1>9, <1>10, <1>11 DEF IInv

(* The name that a launch uses is c's own, and creating it is a step forward. *)
LEMMA LaunchNameOwned ==
  ASSUME NEW c \in Call, NEW nm, nm = LaunchName(c),
         IInv, Reconciling(c), CreateExecution(nm)
  PROVE  /\ AdminForward
         /\ nm \in Name
         /\ DOMAIN admin' \subseteq Name
         /\ admin' \in [DOMAIN admin' -> Phase]
         /\ Owned(c, nm)'
  <1>1. updates[c] \in Update /\ updates[c] # None
    BY DEF IInv, TypeOK, LoopsOK, Reconciling
  <1>2. IsAt(c, updates[c].idx)
    BY <1>1 DEF IInv, UpdatesOK
  <1>3. /\ nm \in Name
        /\ nm.entity = EntityOf[c]
        /\ nm.input = InputOf[c]
        /\ nm.idx = updates[c].idx
    BY <1>1 DEF LaunchName, get_execution_name, Name, Update
  <1>4. admin' = [m \in DOMAIN admin \cup {nm} |-> IF m \in DOMAIN admin THEN admin[m] ELSE "QUEUED"]
    BY DEF CreateExecution
  <1>5. AdminForward /\ DOMAIN admin' = DOMAIN admin \cup {nm}
    BY <1>4 DEF AdminForward
  <1>6. DOMAIN admin' \subseteq Name /\ admin' \in [DOMAIN admin' -> Phase]
    BY <1>3, <1>4, <1>5 DEF IInv, TypeOK, Phase, LivePhase
  <1>7. IsAt(c, nm.idx)'
    BY <1>2, <1>3 DEF IsAt, Reconciling, items
  <1> QED
    BY <1>3, <1>5, <1>6, <1>7 DEF Owned

LEMMA ReconcileIInv ==
  ASSUME NEW c \in Call, IInv, Reconcile(c) PROVE IInv'
  <1>1. /\ "FAILED" \in ItemStatus
        /\ "RUNNING" \in ItemStatus
        /\ "captured" \in ErrorKind
        /\ DOMAIN admin \subseteq Name
        /\ admin \in [DOMAIN admin -> Phase]
    BY DEF IInv, TypeOK, ItemStatus, ErrorKind
  <1>2. CASE Launch(c)
    <2>1. PICK nm : nm = LaunchName(c)
      OBVIOUS
    <2>2. Reconciling(c) /\ CreateExecution(nm) /\ SetUpdate(c, "RUNNING", nm, None)
      BY <1>2, <2>1 DEF Launch
    <2> QED
      BY <1>1, <2>1, <2>2, LaunchNameOwned, Reconciled
  <1>3. CASE LaunchReplyLost(c)
    <2>1. PICK nm : nm = LaunchName(c)
      OBVIOUS
    <2>2. /\ Reconciling(c)
          /\ CreateExecution(nm)
          /\ SetUpdate(c, "FAILED", None, "captured")
      BY <1>3, <2>1 DEF LaunchReplyLost, Captured
    <2> QED
      BY <1>1, <2>1, <2>2, LaunchNameOwned, Reconciled
  <1>4. CASE LaunchRaises(c) \/ SyncRaises(c)
    <2>1. /\ Reconciling(c)
          /\ SetUpdate(c, "FAILED", None, "captured")
          /\ admin' = admin
      BY <1>4 DEF LaunchRaises, SyncRaises, Captured
    <2>2. AdminForward
      BY <2>1 DEF AdminForward
    <2> QED
      BY <1>1, <2>1, <2>2, Reconciled
  <1>5. CASE Sync(c)
    <2>1. PICK wf : wf = wfExec[c]
      OBVIOUS
    <2>2. PICK st : st = StatusOfPhase(admin[wf])
      OBVIOUS
    <2>3. /\ Reconciling(c)
          /\ SetUpdate(c, st, wf, None)
          /\ wf # None
          /\ admin' = admin
      BY <1>5, <2>1, <2>2 DEF Sync
    <2>4. AdminForward /\ wf \in Name /\ Owned(c, wf)
      BY <2>1, <2>3 DEF IInv, TypeOK, AttachedOwned, AdminForward
    <2>5. Owned(c, wf)'
      BY <2>3, <2>4, OwnedStable DEF Reconciling, items
    <2>6. st \in ItemStatus /\ (st = "SUCCESS" => admin'[wf] = "SUCCEEDED")
      BY <2>2, <2>3 DEF StatusOfPhase, ItemStatus
    <2> QED
      BY <1>1, <2>3, <2>4, <2>5, <2>6, Reconciled
  <1> QED
    BY <1>2, <1>3, <1>4, <1>5 DEF Reconcile

LEMMA ReconcileDoneIInv ==
  ASSUME IInv, ReconcileDone PROVE IInv'
  <1>1. TypeOK'
    BY DEF IInv, ReconcileDone, TypeOK, ControllerState, items, proc, clean
  <1>2. EntriesOK' /\ AttachedOwned' /\ UpdatesOK' /\ OutcomesOK' /\ CleanupOK'
    BY DEF IInv, ReconcileDone, EntriesOK, AttachedOwned, UpdatesOK, Owned, IsAt,
           OutcomesOK, CleanupOK, NothingLeftRunning, items, proc, clean
  <1>3. LoopsOK'
    BY DEF IInv, ReconcileDone, LoopsOK, items
  <1> QED
    BY <1>1, <1>2, <1>3 DEF IInv

LEMMA ApplyStatusIInv ==
  ASSUME NEW c \in Call, IInv, ApplyStatus(c) PROVE IInv'
  <1>1. /\ updates[c] \in Update
        /\ updates[c] # None
        /\ updates[c].status # None
        /\ status[c] \notin TerminalStatus
        /\ result[c] = None
        /\ error[c] = None
    BY DEF IInv, TypeOK, ApplyStatus, LoopsOK, OutcomesOK
  <1>2. updates[c].status \in ItemStatus /\ updates[c].wf_exec \in Name \cup {None}
    BY <1>1 DEF Update
  <1>3. TypeOK'
    BY <1>2 DEF IInv, ApplyStatus, TypeOK, ControllerState, proc, clean
  <1>4. \A d \in Call : \A n : Owned(d, n) => Owned(d, n)'
    BY DEF ApplyStatus, Owned, IsAt
  <1>5. EntriesOK' /\ UpdatesOK' /\ CleanupOK'
    BY DEF IInv, ApplyStatus, EntriesOK, UpdatesOK, Owned, IsAt, CleanupOK,
           NothingLeftRunning, proc, clean
  <1>6. AttachedOwned'
    <2>1. \A d \in Call : wfExec'[d] = IF d = c THEN updates[c].wf_exec ELSE wfExec[d]
      BY DEF IInv, TypeOK, ApplyStatus
    <2>2. updates[c].wf_exec # None => Owned(c, updates[c].wf_exec)
      BY <1>1 DEF IInv, UpdatesOK
    <2>3. ASSUME NEW d \in Call, NEW n, n = wfExec'[d], n # None
          PROVE  Owned(d, n)'
      BY <1>4, <2>1, <2>2, <2>3 DEF IInv, AttachedOwned
    <2> QED
      BY <2>3 DEF AttachedOwned
  <1>7. \A d \in Call : status'[d] = IF d = c THEN updates[c].status ELSE status[d]
    BY DEF IInv, TypeOK, ApplyStatus
  <1>8. LoopsOK'
    BY <1>1, <1>7 DEF IInv, TypeOK, ApplyStatus, LoopsOK
  <1>9. OutcomesOK'
    BY <1>1, <1>4, <1>7 DEF IInv, ApplyStatus, OutcomesOK
  <1> QED
    BY <1>3, <1>5, <1>6, <1>8, <1>9 DEF IInv

LEMMA ApplyOutcomeIInv ==
  ASSUME IInv, ApplyOutcome PROVE IInv'
  <1>1. /\ cur \in Call
        /\ cur \notin todo
        /\ updates[cur] \in Update
        /\ updates[cur] # None
        /\ updates[cur].status \in TerminalStatus
        /\ status[cur] = updates[cur].status
        /\ result[cur] = None
    BY DEF IInv, TypeOK, ApplyOutcome, LoopsOK
  <1>2. /\ updates[cur].wf_exec \in Name \cup {None}
        /\ updates[cur].error \in ErrorKind \cup {None}
    BY <1>1 DEF Update
  <1>3. TypeOK'
    BY <1>1, <1>2 DEF IInv, ApplyOutcome, TypeOK, ControllerState, ErrorKind, proc, clean
  <1>4. \A d \in Call : \A n : Owned(d, n) => Owned(d, n)'
    BY DEF ApplyOutcome, Owned, IsAt
  <1>5. EntriesOK' /\ AttachedOwned' /\ UpdatesOK' /\ CleanupOK'
    BY DEF IInv, ApplyOutcome, EntriesOK, AttachedOwned, UpdatesOK, Owned, IsAt,
           CleanupOK, NothingLeftRunning, proc, clean
  <1>6. LoopsOK'
    BY DEF IInv, ApplyOutcome, LoopsOK
  <1>7. OutcomesOK'
    <2>1. \A d \in Call : d # cur => result'[d] = result[d] /\ error'[d] = error[d]
      BY DEF IInv, TypeOK, ApplyOutcome
    <2>2. updates[cur].status = "SUCCESS" =>
            /\ updates[cur].wf_exec # None
            /\ Owned(cur, updates[cur].wf_exec)
            /\ admin[updates[cur].wf_exec] = "SUCCEEDED"
      BY <1>1 DEF IInv, UpdatesOK
    <2>3. result'[cur] # None => result'[cur] = updates[cur].wf_exec
                                  /\ updates[cur].status = "SUCCESS"
      BY <1>1 DEF IInv, TypeOK, ApplyOutcome
    <2>4. ASSUME NEW d \in Call, NEW n, n = result'[d], n # None
          PROVE  Owned(d, n)' /\ admin'[n] = "SUCCEEDED"
      <3>1. Owned(d, n) /\ admin[n] = "SUCCEEDED"
        BY <2>1, <2>2, <2>3, <2>4 DEF IInv, OutcomesOK
      <3> QED
        BY <1>4, <3>1 DEF ApplyOutcome
    <2>5. \A d \in Call : (result'[d] # None \/ error'[d] # None) => status'[d] \in TerminalStatus
      BY <1>1, <2>1 DEF IInv, OutcomesOK, ApplyOutcome
    <2>6. \A d \in Call : coro'[d] = "returned" => result'[d] # None
      BY <1>1, <2>1 DEF IInv, OutcomesOK, ApplyOutcome
    <2> QED
      BY <2>4, <2>5, <2>6 DEF OutcomesOK
  <1> QED
    BY <1>3, <1>5, <1>6, <1>7 DEF IInv

(* Steps of the thread that only move its program counter. *)
LEMMA RoundEndsIInv ==
  ASSUME IInv, ConversionRaises \/ ApplyDone \/ RenderDeck \/ PublishRaises PROVE IInv'
  <1>1. /\ UNCHANGED <<items, coro, todo, cur, proc, admin, clean>>
        /\ pc' \in {"dead", "render", "top"}
        /\ updates' = updates \/ (updates' = [c \in Call |-> None] /\ todo = {})
        /\ pc' \in {"render", "top"} => todo = {}
    BY DEF IInv, LoopsOK, ConversionRaises, ApplyDone, RenderDeck, PublishRaises,
           ThreadDies, OfEachCall
  <1>2. TypeOK'
    BY <1>1 DEF IInv, TypeOK, ControllerState, items, proc, clean
  <1>3. EntriesOK' /\ AttachedOwned' /\ OutcomesOK' /\ CleanupOK'
    BY <1>1 DEF IInv, EntriesOK, AttachedOwned, Owned, IsAt, OutcomesOK, CleanupOK,
                NothingLeftRunning, items, proc, clean
  <1>4. UpdatesOK'
    BY <1>1 DEF IInv, UpdatesOK, Owned, IsAt, items
  <1>5. LoopsOK'
    BY <1>1 DEF IInv, LoopsOK, items
  <1> QED
    BY <1>2, <1>3, <1>4, <1>5 DEF IInv

-----------------------------------------------------------------------------
(* The main thread, retries, the clean-up task and Admin *)

LEMMA MainIInv ==
  ASSUME IInv, Main \/ Signal \/ Kill PROVE IInv'
  <1>1. /\ UNCHANGED <<items, coro, ctl, attempt, admin, clean>>
        /\ main # "exited"
        /\ main' \in MainState
        /\ verdict' \in Verdict
        /\ stop' \in BOOLEAN
        /\ handling' \in 0..3
    <2> USE DEF IInv, TypeOK
    <2>1. CASE FunctionReturns
      BY <2>1 DEF FunctionReturns, MainState, Verdict
    <2>2. ASSUME NEW c \in Call, FunctionRaises(c) PROVE <1>1!:
      BY <2>2 DEF FunctionRaises, MainState, Verdict
    <2>3. CASE MainRenders
      BY <2>3 DEF MainRenders, MainState, Verdict
    <2>4. CASE Close \/ Join
      BY <2>4 DEF Close, Join, MainState, Verdict
    <2>5. CASE Signal
      BY <2>5 DEF Signal, Interrupted, Alive, MainState, Verdict
    <2>6. CASE Kill
      BY <2>6 DEF Kill, Alive, MainState, Verdict
    <2> QED
      BY <2>1, <2>2, <2>3, <2>4, <2>5, <2>6 DEF Main
  <1>2. TypeOK'
    BY <1>1 DEF IInv, TypeOK, items, ctl, clean
  <1>3. CleanupOK'
    BY <1>1 DEF IInv, CleanupOK, NothingLeftRunning, clean
  <1>4. AdminForward
    BY <1>1 DEF AdminForward
  <1> QED
    BY <1>1, <1>2, <1>3, <1>4, ItemsUntouched

(* A new process starts with no items; Admin is what the others left. *)
LEMMA NewAttemptIInv ==
  ASSUME IInv, NewAttempt PROVE IInv'
  <1>1. TypeOK'
    <2>1. entries' \in [Entity -> Seq(Call)]
      BY DEF NewAttempt
    <2>2. attempt' \in 1..MaxAttempts /\ handling' \in 0..3
      BY DEF NewAttempt, IInv, TypeOK
    <2> QED
      BY <2>1, <2>2 DEF NewAttempt, IInv, TypeOK, OfEachCall, ItemStatus, CoroState,
           ControllerState, MainState, Verdict, clean
  <1>2. EntriesOK'
    BY DEF NewAttempt, EntriesOK
  <1>3. AttachedOwned' /\ UpdatesOK' /\ OutcomesOK'
    BY DEF NewAttempt, OfEachCall, AttachedOwned, UpdatesOK, OutcomesOK
  <1>4. LoopsOK' /\ CleanupOK'
    BY DEF NewAttempt, IInv, LoopsOK, CleanupOK, NothingLeftRunning, clean
  <1> QED
    BY <1>1, <1>2, <1>3, <1>4 DEF IInv

LEMMA CleanupIInv ==
  ASSUME IInv, Cleanup PROVE IInv'
  <1>1. CASE CleanupStarts
    <2>1. TypeOK' /\ CleanupOK' /\ AdminForward
      BY <1>1 DEF IInv, CleanupStarts, TypeOK, CleanupState, CleanupOK, NothingLeftRunning,
                  AdminForward, items, ctl, proc
    <2> QED
      BY <1>1, <2>1, ItemsUntouched DEF CleanupStarts
  <1>2. CASE CleanupLists
    <2>1. TypeOK' /\ CleanupOK' /\ AdminForward
      BY <1>2 DEF IInv, CleanupLists, TypeOK, CleanupState, CleanupOK, NothingLeftRunning,
                  AdminForward, items, ctl, proc
    <2> QED
      BY <1>2, <2>1, ItemsUntouched DEF CleanupLists
  <1>3. ASSUME NEW n \in targets, CleanupTerminates(n)
        PROVE  IInv'
    <2>1. TypeOK' /\ CleanupOK' /\ AdminForward
      BY <1>3 DEF IInv, CleanupTerminates, TypeOK, CleanupState, CleanupOK, NothingLeftRunning,
                  AdminForward, Phase, LivePhase, EndPhase, items, ctl, proc
    <2> QED
      BY <1>3, <2>1, ItemsUntouched DEF CleanupTerminates
  <1>4. ASSUME NEW n \in targets, TerminateRaises(n)
        PROVE  IInv'
    <2>1. TypeOK' /\ CleanupOK' /\ AdminForward
      BY <1>4 DEF IInv, TerminateRaises, TypeOK, CleanupState, CleanupOK, NothingLeftRunning,
                  AdminForward, items, ctl, proc
    <2> QED
      BY <1>4, <2>1, ItemsUntouched DEF TerminateRaises
  <1> QED
    BY <1>1, <1>2, <1>3, <1>4 DEF Cleanup

LEMMA ExecutionIInv ==
  ASSUME NEW n \in DOMAIN admin, IInv, Execution(n) PROVE IInv'
  <1>1. PICK ph \in Phase : admin' = [admin EXCEPT ![n] = ph]
    BY DEF Execution, ExecutionStarts, ExecutionEnds, Phase, LivePhase
  <1>2. /\ UNCHANGED <<items, coro, ctl, proc, clean>>
        /\ admin[n] \in LivePhase
    BY DEF Execution, ExecutionStarts, ExecutionEnds, LivePhase
  <1>3. TypeOK' /\ AdminForward
    BY <1>1, <1>2 DEF IInv, TypeOK, AdminForward, LivePhase, items, ctl, proc, clean
  <1>4. CleanupOK'
    BY <1>1, <1>2 DEF IInv, TypeOK, CleanupOK, NothingLeftRunning, proc, clean
  <1> QED
    BY <1>2, <1>3, <1>4, ItemsUntouched

-----------------------------------------------------------------------------
(* Every step of the eager task, of Admin and of the clean-up task preserves
   the invariant. *)
LEMMA NextIInv == IInv /\ [Next]_vars => IInv'
  <1> SUFFICES ASSUME IInv, [Next]_vars PROVE IInv'
    OBVIOUS
  <1>1. ASSUME NEW c \in Call, Coroutine(c) PROVE IInv'
    BY <1>1, AddIInv, AddEndsIInv DEF Coroutine
  <1>2. CASE Controller
    BY <1>2, PollTopIInv, ReconcileIInv, ReconcileDoneIInv, ApplyStatusIInv,
       ApplyOutcomeIInv, RoundEndsIInv DEF Controller
  <1>3. CASE Main \/ Signal \/ Kill
    BY <1>3, MainIInv
  <1>4. CASE NewAttempt
    BY <1>4, NewAttemptIInv
  <1>5. CASE Cleanup
    BY <1>5, CleanupIInv
  <1>6. ASSUME NEW n \in DOMAIN admin, Execution(n) PROVE IInv'
    BY <1>6, ExecutionIInv
  <1>7. CASE UNCHANGED vars
    <2>1. TypeOK' /\ CleanupOK' /\ AdminForward /\ UNCHANGED <<items, coro, ctl>>
      BY <1>7 DEF vars, IInv, TypeOK, CleanupOK, NothingLeftRunning, AdminForward,
                  items, ctl, proc, clean
    <2> QED
      BY <2>1, ItemsUntouched
  <1> QED
    BY <1>1, <1>2, <1>3, <1>4, <1>5, <1>6, <1>7 DEF Next

(* The invariant holds in every reachable state. *)
THEOREM Invariance == Spec => []IInv
  BY InitIInv, NextIInv, PTL DEF Spec

(* Every variable of the controller, the eager task, Admin and the clean-up
   task keeps its type; in particular _apply_updates never meets an update
   without a status, the assertion at worker_queue.py 281. *)
THEOREM TypeCorrect == Spec => []TypeOK
  <1>1. IInv => TypeOK
    BY DEF IInv
  <1> QED
    BY <1>1, Invariance, PTL

(* No two work items ever watch the same execution. *)
THEOREM UniqueExecutions == Spec => []NoSharedExecution
  <1>1. IInv => NoSharedExecution
    <2> SUFFICES ASSUME IInv, NEW c \in Call, NEW d \in Call, wfExec[c] # None,
                        wfExec[d] = wfExec[c]
                 PROVE  c = d
      BY DEF NoSharedExecution
    <2>1. Owned(c, wfExec[c]) /\ Owned(d, wfExec[c])
      BY DEF IInv, AttachedOwned
    <2> QED
      BY <2>1 DEF Owned, IsAt
  <1> QED
    BY <1>1, Invariance, PTL

(* What add returns is the output of a succeeded execution of the entity and
   the inputs of that very call. *)
THEOREM OwnResults == Spec => []ResultIsOwn
  <1>1. IInv => ResultIsOwn
    BY DEF IInv, OutcomesOK, Owned, ResultIsOwn
  <1> QED
    BY <1>1, Invariance, PTL

(* When the clean-up task returns, no execution is live, and none comes back
   to life or is created later. *)
THEOREM CleanupIsComplete == Spec => []NothingLeftRunning
  <1>1. IInv => NothingLeftRunning
    BY DEF IInv, CleanupOK
  <1> QED
    BY <1>1, Invariance, PTL

(* A terminal status, and the outcome recorded for it, is never changed while
   the process lives: updates are gathered for non-terminal items only, and
   between gathering and applying no one else writes to them. *)
THEOREM FinalOutcomes == Spec => OutcomeIsFinal
  <1> DEFINE Final(c) == (status[c] \in TerminalStatus /\ attempt' = attempt) =>
          /\ status'[c] = status[c]
          /\ result[c] # None => result'[c] = result[c]
          /\ error[c] # None => error'[c] = error[c]
  <1>1. ASSUME IInv, [Next]_vars PROVE \A c \in Call : Final(c)
    <2> SUFFICES ASSUME NEW c \in Call PROVE Final(c)
      OBVIOUS
    <2>1. CASE UNCHANGED <<status, result, error>>
      BY <2>1
    <2>2. ASSUME NEW d \in Call, ApplyStatus(d) PROVE Final(c)
      <3>1. status[d] \notin TerminalStatus
        BY <2>2, <1>1 DEF IInv, LoopsOK, ApplyStatus
      <3> QED
        BY <2>2, <3>1, <1>1 DEF ApplyStatus, IInv, TypeOK
    <2>3. CASE ApplyOutcome
      <3>1. cur \in Call /\ result[cur] = None /\ error[cur] = None
        BY <2>3, <1>1 DEF IInv, LoopsOK, ApplyOutcome
      <3> QED
        BY <2>3, <3>1, <1>1 DEF ApplyOutcome, IInv, TypeOK
    <2>4. CASE NewAttempt
      <3>1. attempt' # attempt
        BY <2>4, <1>1 DEF NewAttempt, IInv, TypeOK
      <3> QED
        BY <3>1
    <2>5. CASE UNCHANGED vars
      BY <2>5, <2>1 DEF vars, items
    <2>6. CASE Next /\ ~NewAttempt /\ ~ApplyOutcome /\ ~(\E d \in Call : ApplyStatus(d))
      <3>1. UNCHANGED <<status, result, error>>
        <4>1. ASSUME NEW d \in Call, Coroutine(d) PROVE <3>1!:
          BY <4>1 DEF Coroutine, Add, AddReturns, AddRaises, items
        <4>2. ASSUME NEW d \in Call, Reconcile(d) PROVE <3>1!:
          BY <4>2 DEF Reconcile, Launch, LaunchReplyLost, LaunchRaises, Sync, SyncRaises,
                      Reconciling, items
        <4>3. CASE PollTop \/ ReconcileDone \/ ConversionRaises \/ ApplyDone \/ RenderDeck
                   \/ PublishRaises
          BY <4>3 DEF PollTop, ReconcileDone, ConversionRaises, ApplyDone, RenderDeck,
                      PublishRaises, items
        <4>4. CASE Main \/ Signal \/ Kill
          BY <4>4 DEF Main, FunctionReturns, FunctionRaises, MainRenders, Close, Join,
                      Signal, Kill, items
        <4>5. CASE Cleanup
          BY <4>5 DEF Cleanup, CleanupStarts, CleanupLists, CleanupTerminates,
                      TerminateRaises, items
        <4>6. ASSUME NEW n \in DOMAIN admin, Execution(n) PROVE <3>1!:
          BY <4>6 DEF Execution, ExecutionStarts, ExecutionEnds, items
        <4> QED
          BY <2>6, <4>1, <4>2, <4>3, <4>4, <4>5, <4>6 DEF Next, Controller
      <3> QED
        BY <3>1, <2>1
    <2> QED
      BY <1>1, <2>2, <2>3, <2>4, <2>5, <2>6
  <1>2. IInv /\ [Next]_vars => [\A c \in Call : Final(c)]_vars
    BY <1>1
  <1> QED
    BY <1>2, Invariance, PTL DEF Spec, OutcomeIsFinal

-----------------------------------------------------------------------------
(* No work is done twice.

   A later attempt finds the executions of an earlier one by name, and the
   name holds the position of the call among the calls of its entity. So the
   promise depends on the eager function: the calls of one entity have to be
   issued in one order, whatever the timing. Then the position of a call is
   the number of calls that come before it, in every attempt, and there are
   no more names than calls. *)

(* The calls of c's entity that are always issued before c. *)
Earlier(c) == {d \in IssuedAfter[c] : EntityOf[d] = EntityOf[c]}

(* An eager function makes finitely many calls, those of one entity in a fixed
   order. *)
OrderedCalls ==
    /\ IsFiniteSet(Call)
    /\ \A c, d \in Call : (c # d /\ EntityOf[c] = EntityOf[d]) =>
         c \in IssuedAfter[d] \/ d \in IssuedAfter[c]

(* The position of c in `entries`, in every attempt. *)
Rank(c) == Cardinality(Earlier(c)) + 1

(* A call that was made has its item, and so have the calls before it. *)
MadeInOrder ==
    \A c \in Call : coro[c] # "idle" =>
        Added(c) /\ \A d \in IssuedAfter[c] : coro[d] # "idle"

PlacedByRank == \A c \in Call : \A i \in Nat : IsAt(c, i) => i = Rank(c)

NamedByRank ==
    \A n \in DOMAIN admin : \E c \in Call : n = get_execution_name(c, Rank(c))

DInv == IInv /\ MadeInOrder /\ PlacedByRank /\ NamedByRank

(* Ranks are numbers. *)
LEMMA RankType ==
  ASSUME OrderedCalls, NEW c \in Call
  PROVE  IsFiniteSet(Earlier(c)) /\ Rank(c) \in Nat
  <1>1. Earlier(c) \in SUBSET Call
    BY DEF Earlier
  <1>2. IsFiniteSet(Earlier(c))
    BY <1>1, FS_Subset DEF OrderedCalls
  <1>3. Cardinality(Earlier(c)) \in Nat
    BY <1>2, FS_CardinalityType
  <1> QED
    BY <1>2, <1>3 DEF Rank

(* When c is added, the calls already in the list of its entity are the ones
   that are always issued before it. *)
LEMMA AddsAtRank ==
  ASSUME OrderedCalls, DInv, NEW c \in Call, Ready(c)
  PROVE  Len(entries[EntityOf[c]]) + 1 = Rank(c)
  <1> DEFINE s == entries[EntityOf[c]]
  <1>1. s \in Seq(Call) /\ Len(s) \in Nat /\ DOMAIN s = 1..Len(s)
    BY DEF DInv, IInv, TypeOK
  <1>2. \A i \in DOMAIN s : /\ s[i] \in Call
                            /\ EntityOf[s[i]] = EntityOf[c]
                            /\ coro[s[i]] # "idle"
                            /\ \A j \in DOMAIN s : s[i] = s[j] => i = j
    BY <1>1 DEF DInv, IInv, EntriesOK
  <1>3. \A i \in DOMAIN s : s[i] \in Earlier(c)
    <2> SUFFICES ASSUME NEW i \in DOMAIN s PROVE s[i] \in Earlier(c)
      OBVIOUS
    <2>1. s[i] # c /\ c \notin IssuedAfter[s[i]]
      BY <1>2 DEF DInv, MadeInOrder, Ready
    <2> QED
      BY <1>2, <2>1 DEF OrderedCalls, Earlier
  <1>4. \A d \in Earlier(c) : \E i \in DOMAIN s : s[i] = d
    BY DEF Earlier, Ready, DInv, MadeInOrder, Added
  <1> HIDE DEF s
  <1>5. s \in Bijection(1..Len(s), Earlier(c))
    <2>1. s \in [1..Len(s) -> Earlier(c)]
      BY <1>1, <1>3
    <2> QED
      BY <1>1, <1>2, <1>4, <2>1 DEF Bijection, Injection, Surjection, IsInjective
  <1>6. IsFiniteSet(1..Len(s)) /\ Cardinality(1..Len(s)) = Len(s)
    <2>1. Cardinality(1..Len(s)) = IF 1 > Len(s) THEN 0 ELSE Len(s) - 1 + 1
      BY <1>1, FS_Interval
    <2>2. IsFiniteSet(1..Len(s))
      BY <1>1, FS_Interval
    <2> QED
      BY <1>1, <2>1, <2>2
  <1>7. Cardinality(Earlier(c)) = Len(s)
    <2>1. ExistsBijection(1..Len(s), Earlier(c))
      BY <1>5 DEF ExistsBijection
    <2> QED
      BY <1>6, <2>1, FS_Bijection
  <1> QED
    BY <1>7 DEF Rank, s

LEMMA AddDInv ==
  ASSUME OrderedCalls, DInv, NEW c \in Call, Add(c)
  PROVE  MadeInOrder' /\ PlacedByRank' /\ NamedByRank'
  <1> DEFINE e == EntityOf[c]
             s == entries[e]
  <1>1. /\ Ready(c)
        /\ entries' = [entries EXCEPT ![e] = Append(s, c)]
        /\ coro' = [coro EXCEPT ![c] = "waiting"]
        /\ admin' = admin
    BY DEF Add
  <1>2. /\ e \in Entity
        /\ entries \in [Entity -> Seq(Call)]
        /\ coro \in [Call -> CoroState]
        /\ s \in Seq(Call)
    BY DEF DInv, IInv, TypeOK
  <1>3. Len(s) + 1 = Rank(c)
    BY <1>1, AddsAtRank
  <1>4. /\ \A d \in Call : EntityOf[d] # e => entries'[EntityOf[d]] = entries[EntityOf[d]]
        /\ entries'[e] = Append(s, c)
    BY <1>1, <1>2
  <1> HIDE DEF s, e
  <1>5. /\ DOMAIN Append(s, c) = 1..Len(s) + 1
        /\ DOMAIN s = 1..Len(s)
        /\ Len(s) \in Nat
        /\ \A i \in DOMAIN s : Append(s, c)[i] = s[i]
        /\ Append(s, c)[Len(s) + 1] = c
    BY <1>2
  <1>6. MadeInOrder'
    <2> SUFFICES ASSUME NEW d \in Call, coro'[d] # "idle"
                 PROVE  Added(d)' /\ \A b \in IssuedAfter[d] : coro'[b] # "idle"
      BY DEF MadeInOrder
    <2>1. \A b \in Call : coro[b] # "idle" => coro'[b] # "idle"
      BY <1>1, <1>2
    <2>2. \A b \in IssuedAfter[d] : coro[b] # "idle"
      BY <1>1, <1>2 DEF DInv, MadeInOrder, Ready
    <2>3. Added(d)'
      <3>1. CASE d = c
        BY <3>1, <1>4, <1>5 DEF Added, e
      <3>2. CASE d # c
        <4>1. Added(d)
          BY <3>2, <1>1, <1>2 DEF DInv, MadeInOrder
        <4>2. CASE EntityOf[d] = e
          <5>1. PICK i \in DOMAIN s : s[i] = d
            BY <4>1, <4>2 DEF Added, s
          <5>2. i \in DOMAIN Append(s, c) /\ Append(s, c)[i] = d
            BY <5>1, <1>5
          <5> QED
            BY <5>2, <4>2, <1>4 DEF Added
        <4>3. CASE EntityOf[d] # e
          BY <4>1, <4>3, <1>4 DEF Added
        <4> QED
          BY <4>2, <4>3
      <3> QED
        BY <3>1, <3>2
    <2> QED
      BY <2>1, <2>2, <2>3
  <1>7. PlacedByRank'
    <2> SUFFICES ASSUME NEW d \in Call, NEW i \in Nat, IsAt(d, i)' PROVE i = Rank(d)
      BY DEF PlacedByRank
    <2>1. CASE EntityOf[d] # e
      BY <2>1, <1>4 DEF IsAt, DInv, PlacedByRank
    <2>2. CASE EntityOf[d] = e
      <3>1. i \in 1..Len(s) + 1 /\ Append(s, c)[i] = d
        BY <2>2, <1>4, <1>5 DEF IsAt
      <3>2. CASE i \in DOMAIN s
        <4>1. IsAt(d, i)
          BY <2>2, <3>1, <3>2, <1>5 DEF IsAt, s
        <4> QED
          BY <4>1 DEF DInv, PlacedByRank
      <3>3. CASE i = Len(s) + 1
        BY <3>1, <3>3, <1>3, <1>5
      <3>4. i \in DOMAIN s \/ i = Len(s) + 1
        BY <3>1, <1>5
      <3> QED
        BY <3>2, <3>3, <3>4
    <2> QED
      BY <2>1, <2>2
  <1>8. NamedByRank'
    BY <1>1 DEF DInv, NamedByRank
  <1> QED
    BY <1>6, <1>7, <1>8

(* Steps that add no item, make no call and create no execution. *)
LEMMA QuietDInv ==
  ASSUME DInv, UNCHANGED entries, DOMAIN admin' = DOMAIN admin,
         \A c \in Call : coro'[c] = "idle" <=> coro[c] = "idle"
  PROVE  MadeInOrder' /\ PlacedByRank' /\ NamedByRank'
  <1>1. MadeInOrder'
    BY DEF DInv, MadeInOrder, Added
  <1>2. PlacedByRank'
    BY DEF DInv, PlacedByRank, IsAt
  <1>3. NamedByRank'
    BY DEF DInv, NamedByRank
  <1> QED
    BY <1>1, <1>2, <1>3

(* The only names that are created are those of calls at their position. *)
LEMMA LaunchDInv ==
  ASSUME DInv, NEW c \in Call, Launch(c) \/ LaunchReplyLost(c)
  PROVE  MadeInOrder' /\ PlacedByRank' /\ NamedByRank'
  <1>1. /\ Reconciling(c)
        /\ CreateExecution(LaunchName(c))
    BY DEF Launch, LaunchReplyLost
  <1>2. entries' = entries /\ coro' = coro
    BY <1>1 DEF Reconciling, items
  <1>3. updates[c] \in Update /\ updates[c] # None
    BY <1>1 DEF DInv, IInv, TypeOK, LoopsOK, Reconciling
  <1>4. IsAt(c, updates[c].idx) /\ updates[c].idx \in Nat
    BY <1>3 DEF DInv, IInv, UpdatesOK, Update
  <1>5. LaunchName(c) = get_execution_name(c, Rank(c))
    BY <1>4 DEF DInv, PlacedByRank, LaunchName
  <1>6. DOMAIN admin' = DOMAIN admin \cup {LaunchName(c)}
    BY <1>1 DEF CreateExecution
  <1>7. NamedByRank'
    BY <1>5, <1>6 DEF DInv, NamedByRank
  <1>8. MadeInOrder' /\ PlacedByRank'
    BY <1>2 DEF DInv, MadeInOrder, PlacedByRank, Added, IsAt
  <1> QED
    BY <1>7, <1>8

(* A new attempt starts over: no item, no call, the same names. *)
LEMMA NewAttemptDInv ==
  ASSUME DInv, NewAttempt
  PROVE  MadeInOrder' /\ PlacedByRank' /\ NamedByRank'
  <1>1. \A c \in Call : coro'[c] = "idle" /\ entries'[EntityOf[c]] = <<>>
    BY DEF NewAttempt, OfEachCall
  <1>2. MadeInOrder' /\ PlacedByRank'
    BY <1>1 DEF MadeInOrder, PlacedByRank, IsAt
  <1>3. NamedByRank'
    BY DEF NewAttempt, DInv, NamedByRank
  <1> QED
    BY <1>2, <1>3

LEMMA NextDInv ==
  ASSUME OrderedCalls, DInv, [Next]_vars PROVE DInv'
  <1> DEFINE Goal == MadeInOrder' /\ PlacedByRank' /\ NamedByRank'
             Quiet == /\ UNCHANGED entries
                      /\ DOMAIN admin' = DOMAIN admin
                      /\ \A c \in Call : coro'[c] = "idle" <=> coro[c] = "idle"
  <1> SUFFICES Goal
    BY NextIInv DEF DInv
  <1>1. ASSUME NEW c \in Call, Coroutine(c) PROVE Goal
    <2>1. CASE AddReturns(c) \/ AddRaises(c)
      <3>1. coro \in [Call -> CoroState]
        BY DEF DInv, IInv, TypeOK
      <3>2. Quiet
        BY <2>1, <3>1 DEF AddReturns, AddRaises, items
      <3> QED
        BY <3>2, QuietDInv
    <2> QED
      BY <1>1, <2>1, AddDInv DEF Coroutine
  <1>2. ASSUME NEW c \in Call, Reconcile(c) PROVE Goal
    <2>1. CASE LaunchRaises(c) \/ Sync(c) \/ SyncRaises(c)
      <3>1. Quiet
        BY <2>1 DEF LaunchRaises, Sync, SyncRaises, Reconciling, items
      <3> QED
        BY <3>1, QuietDInv
    <2> QED
      BY <1>2, <2>1, LaunchDInv DEF Reconcile
  <1>3. CASE NewAttempt
    BY <1>3, NewAttemptDInv
  <1>4. CASE PollTop \/ ReconcileDone \/ ApplyOutcome \/ ConversionRaises \/ ApplyDone
             \/ RenderDeck \/ PublishRaises \/ \E c \in Call : ApplyStatus(c)
    <2>1. Quiet
      BY <1>4 DEF PollTop, ReconcileDone, ApplyOutcome, ConversionRaises, ApplyDone,
                  RenderDeck, PublishRaises, ApplyStatus, items
    <2> QED
      BY <2>1, QuietDInv
  <1>5. CASE Main \/ Signal \/ Kill
    <2>1. Quiet
      BY <1>5 DEF Main, FunctionReturns, FunctionRaises, MainRenders, Close, Join,
                  Signal, Kill, items
    <2> QED
      BY <2>1, QuietDInv
  <1>6. CASE Cleanup
    <2>1. Quiet
      BY <1>6 DEF Cleanup, CleanupStarts, CleanupLists, CleanupTerminates,
                  TerminateRaises, items
    <2> QED
      BY <2>1, QuietDInv
  <1>7. ASSUME NEW n \in DOMAIN admin, Execution(n) PROVE Goal
    <2>1. Quiet
      BY <1>7 DEF Execution, ExecutionStarts, ExecutionEnds, items
    <2> QED
      BY <2>1, QuietDInv
  <1>8. CASE UNCHANGED vars
    <2>1. Quiet
      BY <1>8 DEF vars, items
    <2> QED
      BY <2>1, QuietDInv
  <1> QED
    BY <1>1, <1>2, <1>3, <1>4, <1>5, <1>6, <1>7, <1>8 DEF Next, Controller

LEMMA InitDInv == Init => DInv
  <1> SUFFICES ASSUME Init PROVE DInv
    OBVIOUS
  <1>1. \A c \in Call : coro[c] = "idle" /\ entries[EntityOf[c]] = <<>>
    BY DEF Init, OfEachCall
  <1>2. DOMAIN admin = {}
    BY DEF Init
  <1> QED
    BY <1>1, <1>2, InitIInv DEF DInv, MadeInOrder, PlacedByRank, NamedByRank, IsAt

(* Names are made of calls, so there are no more of them than calls. *)
LEMMA NamesAreFewer ==
  ASSUME OrderedCalls, NamedByRank PROVE NoDuplicateWork
  <1> SUFFICES ASSUME NEW e \in Entity, NEW v \in Input
               PROVE  Cardinality({n \in DOMAIN admin : n.entity = e /\ n.input = v})
                        <= Cardinality({c \in Call : EntityOf[c] = e /\ InputOf[c] = v})
    BY DEF NoDuplicateWork
  <1> DEFINE N == {n \in DOMAIN admin : n.entity = e /\ n.input = v}
             C == {c \in Call : EntityOf[c] = e /\ InputOf[c] = v}
             D == {c \in C : get_execution_name(c, Rank(c)) \in N}
             f == [c \in D |-> get_execution_name(c, Rank(c))]
  <1>1. /\ IsFiniteSet(C) /\ IsFiniteSet(D)
        /\ Cardinality(C) \in Nat /\ Cardinality(D) \in Nat
        /\ Cardinality(D) <= Cardinality(C)
    <2>1. C \in SUBSET Call /\ D \in SUBSET C
      OBVIOUS
    <2> HIDE DEF C, D
    <2> QED
      BY <2>1, FS_Subset, FS_CardinalityType DEF OrderedCalls
  <1>2. ASSUME NEW n \in N PROVE \E c \in D : f[c] = n
    <2>1. PICK c \in Call : n = get_execution_name(c, Rank(c))
      BY DEF NamedByRank
    <2>2. c \in D
      BY <2>1 DEF get_execution_name
    <2> QED
      BY <2>1, <2>2
  <1>3. f \in Surjection(D, N)
    BY <1>2 DEF Surjection
  <1> HIDE DEF f, D, N, C
  <1>4. Cardinality(N) <= Cardinality(D) /\ IsFiniteSet(N)
    BY <1>1, <1>3, FS_Surjection
  <1>5. Cardinality(N) \in Nat
    BY <1>4, FS_CardinalityType
  <1>6. Cardinality(N) <= Cardinality(C)
    BY <1>1, <1>4, <1>5
  <1> QED
    BY <1>6 DEF N, C

(* The attempts of an eager task together create no more executions of an
   entity on given inputs than the eager function makes such calls, when the
   calls of one entity are issued in a fixed order: get_execution_name
   (worker_queue.py 186-210) gives a call the same name in every attempt. *)
THEOREM WorkIsNotRepeated ==
  ASSUME OrderedCalls PROVE Spec => []NoDuplicateWork
  <1>1. Init => DInv
    BY InitDInv
  <1>2. DInv /\ [Next]_vars => DInv'
    BY NextDInv
  <1>3. DInv => NoDuplicateWork
    BY NamesAreFewer DEF DInv
  <1> QED
    BY <1>1, <1>2, <1>3, PTL DEF Spec
-----------------------------------------------------------------------------
(***************************************************************************)
(* The controller implements the abstract call service.                    *)
(***************************************************************************)

(* A step that keeps the executions and their successes, the coroutines and
   the results already returned is invisible to the callers. *)
LEMMA UnseenByCallers ==
  ASSUME coro' = coro, DOMAIN admin' = DOMAIN admin,
         \A c \in Call : coro[c] = "returned" => result'[c] = result[c],
         \A n \in DOMAIN admin : admin'[n] = "SUCCEEDED" <=> admin[n] = "SUCCEEDED"
  PROVE  UNCHANGED Service!vars
  <1>1. JobsBegun' = JobsBegun
    BY DEF JobsBegun
  <1>2. JobsSucceeded' = JobsSucceeded
    BY DEF JobsSucceeded
  <1>3. CallState' = CallState
    BY DEF CallState
  <1>4. AnswerOf' = AnswerOf
    BY DEF AnswerOf
  <1> QED
    BY <1>1, <1>2, <1>3, <1>4 DEF Service!vars

(* add raises, or returns without a result: the call fails. *)
LEMMA CallFails ==
  ASSUME IInv, NEW c \in Call, coro[c] = "waiting", UNCHANGED <<items, admin>>,
         \/ coro' = [coro EXCEPT ![c] = "returnedNone"]
         \/ coro' = [coro EXCEPT ![c] = "asserted"]
         \/ coro' = [coro EXCEPT ![c] = "raised"]
  PROVE  Service!Fail(c)
  <1>1. coro \in [Call -> CoroState]
    BY DEF IInv, TypeOK
  <1>2. CallState[c] = "open" /\ CallState' = [CallState EXCEPT ![c] = "failed"]
    BY <1>1 DEF CallState
  <1>3. AnswerOf' = AnswerOf
    BY <1>1 DEF AnswerOf, items
  <1>4. JobsBegun' = JobsBegun /\ JobsSucceeded' = JobsSucceeded
    BY DEF JobsBegun, JobsSucceeded
  <1> QED
    BY <1>2, <1>3, <1>4 DEF Service!Fail

(* add appends the WorkItem: the call is asked. *)
LEMMA AddAsks ==
  ASSUME IInv, NEW c \in Call, Add(c) PROVE Service!Ask(c)
  <1>1. coro \in [Call -> CoroState] /\ coro[c] = "idle"
        /\ coro' = [coro EXCEPT ![c] = "waiting"]
    BY DEF IInv, TypeOK, Add, Ready
  <1>2. CallState[c] = "new" /\ CallState' = [CallState EXCEPT ![c] = "open"]
    BY <1>1 DEF CallState
  <1>3. AnswerOf' = AnswerOf
    BY <1>1 DEF AnswerOf, Add
  <1>4. JobsBegun' = JobsBegun /\ JobsSucceeded' = JobsSucceeded
    BY DEF JobsBegun, JobsSucceeded, Add
  <1> QED
    BY <1>2, <1>3, <1>4 DEF Service!Ask

(* add returns a result: the call is answered with an execution of its own,
   since the name of another call's execution has another position. *)
LEMMA AddAnswers ==
  ASSUME IInv, NEW c \in Call, AddReturns(c), result[c] # None
  PROVE  \E j \in JobsSucceeded : Service!Answer(c, j)
  <1> DEFINE j == result[c]
  <1>1. /\ coro \in [Call -> CoroState] /\ coro[c] = "waiting"
        /\ coro' = [coro EXCEPT ![c] = "returned"]
        /\ UNCHANGED <<result, admin>>
    BY DEF IInv, TypeOK, AddReturns, items
  <1>2. Owned(c, j) /\ admin[j] = "SUCCEEDED"
    BY DEF IInv, OutcomesOK
  <1>3. j \in JobsSucceeded /\ JobsBegun[j] = WorkOfCall[c]
    BY <1>2 DEF JobsSucceeded, JobsBegun, WorkOfCall, Owned
  <1>4. ASSUME NEW d \in Call PROVE AnswerOf[d] # j
    <2>1. CASE coro[d] # "returned"
      BY <2>1 DEF AnswerOf
    <2>2. CASE coro[d] = "returned"
      <3>1. d # c /\ AnswerOf[d] = result[d] /\ Owned(d, result[d])
        BY <1>1, <2>2 DEF AnswerOf, IInv, OutcomesOK
      <3> QED
        BY <1>2, <3>1 DEF Owned, IsAt
    <2> QED
      BY <2>1, <2>2
  <1>5. CallState[c] = "open" /\ CallState' = [CallState EXCEPT ![c] = "answered"]
    BY <1>1 DEF CallState
  <1>6. AnswerOf' = [AnswerOf EXCEPT ![c] = j]
    BY <1>1 DEF AnswerOf
  <1>7. JobsBegun' = JobsBegun /\ JobsSucceeded' = JobsSucceeded
    BY <1>1 DEF JobsBegun, JobsSucceeded
  <1>8. Service!Answer(c, j)
    BY <1>3, <1>4, <1>5, <1>6, <1>7 DEF Service!Answer
  <1> QED
    BY <1>3, <1>8

(* A launch begins a job for the call whose item it was gathered from, or finds
   the execution that an earlier attempt or a lost reply left. *)
LEMMA LaunchBegins ==
  ASSUME IInv, NEW c \in Call, Launch(c) \/ LaunchReplyLost(c)
  PROVE  Service!Begin(c) \/ UNCHANGED Service!vars
  <1> DEFINE nm == LaunchName(c)
  <1>1. Reconciling(c) /\ CreateExecution(nm)
    BY DEF Launch, LaunchReplyLost
  <1>2. nm.entity = EntityOf[c] /\ nm.input = InputOf[c]
    BY DEF LaunchName, get_execution_name
  <1>3. coro[c] # "idle" /\ UNCHANGED <<coro, result>>
    <2>1. IsAt(c, updates[c].idx)
      BY <1>1 DEF IInv, LoopsOK, UpdatesOK, Reconciling
    <2>2. coro[c] # "idle"
      BY <2>1 DEF IInv, EntriesOK, IsAt
    <2> QED
      BY <1>1, <2>2 DEF Reconciling, items
  <1> HIDE DEF nm
  <1>4. admin' = [m \in DOMAIN admin \cup {nm} |->
                    IF m \in DOMAIN admin THEN admin[m] ELSE "QUEUED"]
    BY <1>1 DEF CreateExecution
  <1>5. CASE nm \in DOMAIN admin
    <2>1. DOMAIN admin \cup {nm} = DOMAIN admin
      BY <1>5
    <2>2. DOMAIN admin' = DOMAIN admin
      BY <1>4, <2>1, Zenon
    <2>3. \A n \in DOMAIN admin : admin'[n] = admin[n]
      BY <1>4
    <2> QED
      BY <1>3, <2>2, <2>3, UnseenByCallers
  <1>6. CASE nm \notin DOMAIN admin
    <2>1. DOMAIN admin' = DOMAIN admin \cup {nm} /\ admin'[nm] = "QUEUED"
          /\ \A n \in DOMAIN admin : admin'[n] = admin[n]
      BY <1>4, <1>6
    <2>2. JobsSucceeded' = JobsSucceeded
      BY <1>6, <2>1 DEF JobsSucceeded
    <2>3. JobsBegun' = [i \in DOMAIN JobsBegun \cup {nm} |->
                          IF i = nm THEN WorkOfCall[c] ELSE JobsBegun[i]]
      BY <1>2, <1>6, <2>1 DEF JobsBegun, WorkOfCall
    <2>4. nm \in DOMAIN JobsBegun' \ DOMAIN JobsBegun
      BY <1>6, <2>1 DEF JobsBegun
    <2>5. CallState[c] # "new" /\ CallState' = CallState /\ AnswerOf' = AnswerOf
      BY <1>3 DEF CallState, AnswerOf
    <2> QED
      BY <2>2, <2>3, <2>4, <2>5 DEF Service!Begin
  <1> QED
    BY <1>5, <1>6

(* An execution ends by itself: its job succeeds, or nobody can tell. *)
LEMMA EndSucceeds ==
  ASSUME IInv, NEW n \in DOMAIN admin, ExecutionEnds(n)
  PROVE  Service!Succeed(n) \/ UNCHANGED Service!vars
  <1>1. PICK ph \in EndPhases : admin' = [admin EXCEPT ![n] = ph]
    BY DEF ExecutionEnds
  <1>2. DOMAIN admin' = DOMAIN admin /\ admin[n] # "SUCCEEDED" /\ UNCHANGED <<coro, result>>
    BY <1>1 DEF ExecutionEnds, LivePhase, items
  <1>3. CASE ph = "SUCCEEDED"
    <2>1. JobsSucceeded' = JobsSucceeded \cup {n}
      BY <1>1, <1>2, <1>3 DEF JobsSucceeded
    <2>2. JobsBegun' = JobsBegun
      BY <1>2 DEF JobsBegun
    <2>3. CallState' = CallState /\ AnswerOf' = AnswerOf
      BY <1>2 DEF CallState, AnswerOf
    <2> QED
      BY <2>1, <2>2, <2>3 DEF Service!Succeed
  <1>4. CASE ph # "SUCCEEDED"
    <2>1. \A m \in DOMAIN admin : admin'[m] = "SUCCEEDED" <=> admin[m] = "SUCCEEDED"
      BY <1>1, <1>2, <1>4
    <2> QED
      BY <1>2, <2>1, UnseenByCallers
  <1> QED
    BY <1>3, <1>4

(* A new attempt makes its calls again; the executions are still there. *)
LEMMA NewAttemptRestarts ==
  ASSUME NewAttempt PROVE Service!Restart
  <1>1. CallState' = Service!NotMade /\ AnswerOf' = Service!NotAnswered
    BY DEF NewAttempt, OfEachCall, CallState, AnswerOf, Service!NotMade, Service!NotAnswered
  <1>2. JobsBegun' = JobsBegun /\ JobsSucceeded' = JobsSucceeded
    BY DEF NewAttempt, JobsBegun, JobsSucceeded
  <1> QED
    BY <1>1, <1>2 DEF Service!Restart

(* An outcome is recorded once, before the call returns, so what was returned
   never changes: the item that is being completed has no result yet. *)
LEMMA OutcomeUnseen ==
  ASSUME IInv, ApplyOutcome PROVE UNCHANGED Service!vars
  <1>1. cur \in Call /\ result[cur] = None /\ result \in [Call -> Name \cup {None}]
    BY DEF IInv, TypeOK, LoopsOK, ApplyOutcome
  <1>2. coro[cur] # "returned"
    BY <1>1 DEF IInv, OutcomesOK
  <1>3. \A c \in Call : c # cur => result'[c] = result[c]
    BY <1>1 DEF ApplyOutcome
  <1> QED
    BY <1>2, <1>3, UnseenByCallers DEF ApplyOutcome

(* Every step is a step of the service, or is not seen by the callers. *)
LEMMA StepServes ==
  ASSUME IInv, Next PROVE Service!Next \/ UNCHANGED Service!vars
  <1> DEFINE Goal == Service!Next \/ UNCHANGED Service!vars
  <1>1. ASSUME NEW c \in Call, Coroutine(c) PROVE Goal
    <2>1. CASE Add(c)
      BY <2>1, AddAsks DEF Service!Next
    <2>2. CASE AddReturns(c) /\ result[c] # None
      BY <2>2, AddAnswers DEF Service!Next
    <2>3. CASE AddReturns(c) /\ result[c] = None
      <3>1. /\ coro[c] = "waiting" /\ UNCHANGED <<items, admin>>
            /\ coro' = [coro EXCEPT ![c] = "returnedNone"]
        BY <2>3 DEF AddReturns
      <3>2. Service!Fail(c)
        BY <3>1, CallFails
      <3> QED
        BY <3>2 DEF Service!Next
    <2>4. CASE AddRaises(c)
      <3>1. /\ coro[c] = "waiting" /\ UNCHANGED <<items, admin>>
            /\ \/ coro' = [coro EXCEPT ![c] = "asserted"]
               \/ coro' = [coro EXCEPT ![c] = "raised"]
        BY <2>4 DEF AddRaises
      <3>2. Service!Fail(c)
        BY <3>1, CallFails
      <3> QED
        BY <3>2 DEF Service!Next
    <2> QED
      BY <1>1, <2>1, <2>2, <2>3, <2>4 DEF Coroutine
  <1>2. ASSUME NEW c \in Call, Reconcile(c) PROVE Goal
    <2>1. CASE Launch(c) \/ LaunchReplyLost(c)
      BY <2>1, LaunchBegins DEF Service!Next
    <2>2. CASE LaunchRaises(c) \/ Sync(c) \/ SyncRaises(c)
      <3>1. UNCHANGED <<coro, admin, result>>
        BY <2>2 DEF LaunchRaises, Sync, SyncRaises, Reconciling, items
      <3> QED
        BY <3>1, UnseenByCallers
    <2> QED
      BY <1>2, <2>1, <2>2 DEF Reconcile
  <1>3. CASE NewAttempt
    BY <1>3, NewAttemptRestarts DEF Service!Next
  <1>4. CASE ApplyOutcome
    BY <1>4, OutcomeUnseen
  <1>5. CASE PollTop \/ ReconcileDone \/ ConversionRaises \/ ApplyDone
             \/ RenderDeck \/ PublishRaises \/ \E c \in Call : ApplyStatus(c)
    <2>1. UNCHANGED <<coro, admin, result>>
      BY <1>5 DEF PollTop, ReconcileDone, ConversionRaises, ApplyDone,
                  RenderDeck, PublishRaises, ApplyStatus, items
    <2> QED
      BY <2>1, UnseenByCallers
  <1>6. CASE Main \/ Signal \/ Kill
    <2>1. UNCHANGED <<coro, admin, result>>
      BY <1>6 DEF Main, FunctionReturns, FunctionRaises, MainRenders, Close, Join,
                  Signal, Kill, items
    <2> QED
      BY <2>1, UnseenByCallers
  <1>7. CASE Cleanup
    <2>1. UNCHANGED <<coro, result>> /\ DOMAIN admin' = DOMAIN admin
          /\ \A n \in DOMAIN admin : admin'[n] = "SUCCEEDED" <=> admin[n] = "SUCCEEDED"
      BY <1>7 DEF Cleanup, CleanupStarts, CleanupLists, CleanupTerminates,
                  TerminateRaises, items, LivePhase
    <2> QED
      BY <2>1, UnseenByCallers
  <1>8. ASSUME NEW n \in DOMAIN admin, Execution(n) PROVE Goal
    <2>1. CASE ExecutionStarts(n)
      <3>1. UNCHANGED <<coro, result>> /\ DOMAIN admin' = DOMAIN admin
            /\ \A m \in DOMAIN admin : admin'[m] = "SUCCEEDED" <=> admin[m] = "SUCCEEDED"
        BY <2>1 DEF ExecutionStarts, items
      <3> QED
        BY <3>1, UnseenByCallers
    <2>2. CASE ExecutionEnds(n)
      <3>1. DOMAIN JobsBegun = DOMAIN admin
        BY DEF JobsBegun
      <3> QED
        BY <2>2, <3>1, EndSucceeds DEF Service!Next
    <2> QED
      BY <1>8, <2>1, <2>2 DEF Execution
  <1> QED
    BY <1>1, <1>2, <1>3, <1>4, <1>5, <1>6, <1>7, <1>8 DEF Next, Controller

(* The controller keeps the promise of the call service, whatever faults
   occur and however often the eager task is retried: a call that returns is
   answered once, with the output of an execution of its own that did its work
   and succeeded (worker_queue.py 224-306, 356-371, 420-431). *)
THEOREM CallsAreServed == Spec => ImplementsCallService
  <1>1. Init => Service!Init
    <2> SUFFICES ASSUME Init PROVE Service!Init
      OBVIOUS
    <2>1. JobsBegun = [j \in {} |-> None] /\ JobsSucceeded = {}
      BY DEF Init, JobsBegun, JobsSucceeded
    <2>2. CallState = Service!NotMade /\ AnswerOf = Service!NotAnswered
      BY DEF Init, OfEachCall, CallState, AnswerOf, Service!NotMade, Service!NotAnswered
    <2> QED
      BY <2>1, <2>2 DEF Service!Init
  <1>2. IInv /\ [Next]_vars => [Service!Next]_Service!vars
    <2>1. CASE UNCHANGED vars
      <3>1. UNCHANGED <<coro, admin, result>>
        BY <2>1 DEF vars, items
      <3> QED
        BY <3>1, UnseenByCallers
    <2> QED
      BY <2>1, StepServes
  <1> QED
    BY <1>1, <1>2, Invariance, PTL DEF Spec, ImplementsCallService, Service!Spec
=============================================================================
