----------------------------- MODULE RateLimiter -----------------------------
(***************************************************************************)
(* RateLimiter (flytekit/utils/rate_limiter.py): at most `rpm` requests in *)
(* any window of Delay time units (60 seconds in the code). Coroutines     *)
(* share a deque of timestamps and a semaphore with rpm permits. Between   *)
(* two awaits a coroutine is not interrupted, so acquire is two steps: up  *)
(* to the sleep, and the wake-up. Time advances in unit ticks, and the     *)
(* event loop may wake a sleeper up to Jitter units late.                  *)
(***************************************************************************)
EXTENDS Naturals, Sequences, FiniteSets

CONSTANTS
    Coro,     \* coroutines, one request each
    rpm,      \* requests allowed per window
    Delay,    \* length of the window
    Jitter,   \* how late a sleeping coroutine may be resumed
    MaxTime   \* bound on the clock

ASSUME RateAssumption == rpm \in Nat \ {0}
ASSUME CoroAssumption == IsFiniteSet(Coro)
ASSUME TimeAssumption == Delay \in Nat \ {0} /\ Jitter \in Nat /\ MaxTime \in Nat

VARIABLES
    now,      \* the clock
    queue,    \* RateLimiter.queue: timestamps, some of them in the future
    sem,      \* free permits of the semaphore
    state,    \* where each coroutine stands
    wake,     \* the time until which a sleeping coroutine sleeps
    stamps,   \* history: every timestamp ever put on the queue, in order
    grants    \* history: when acquire returned, in order

limiterVars == <<now, queue, sem, state, wake, stamps, grants>>

CoroutineState == {"idle", "sleeping", "done"}

(* Every variable has its type; in particular the semaphore is never released
   more often than it was acquired (rate_limiter.py 12-18, 24). *)
LimiterTypeOK ==
    /\ now \in Nat
    /\ queue \in Seq(Nat)
    /\ sem \in 0..rpm
    /\ state \in [Coro -> CoroutineState]
    /\ wake \in [Coro -> Nat]
    /\ stamps \in Seq(Nat)
    /\ grants \in Seq(Nat)

LimiterInit ==
    /\ now = 0
    /\ queue = <<>>
    /\ sem = rpm
    /\ state = [c \in Coro |-> "idle"]
    /\ wake = [c \in Coro |-> 0]
    /\ stamps = <<>>
    /\ grants = <<>>

-----------------------------------------------------------------------------
(* "Start by clearing out old data": timestamps are popped from the front as
   long as they are more than Delay old. *)
Expired(t) == t + Delay < now
Cleared ==
    LET keep == CHOOSE i \in 1..(Len(queue) + 1) :
                   /\ \A j \in 1..(i - 1) : Expired(queue[j])
                   /\ i = Len(queue) + 1 \/ ~Expired(queue[i])
    IN  SubSeq(queue, keep, Len(queue))

Stamp(q, t) ==
    /\ queue' = Append(q, t)
    /\ stamps' = Append(stamps, t)

Granted(c) ==
    /\ state' = [state EXCEPT ![c] = "done"]
    /\ grants' = Append(grants, now)
    /\ UNCHANGED <<sem, wake>>

(* There is room: the request goes through at once. *)
AcquireFree(c) ==
    /\ state[c] = "idle"
    /\ sem > 0
    /\ Len(Cleared) < rpm
    /\ Stamp(Cleared, now)
    /\ Granted(c)
    /\ UNCHANGED now

(* The window is full, but its oldest timestamp leaves it right now. *)
AcquireDue(c) ==
    /\ state[c] = "idle"
    /\ sem > 0
    /\ Len(Cleared) >= rpm
    /\ Head(Cleared) + Delay <= now
    /\ Stamp(Tail(Cleared), now)
    /\ Granted(c)
    /\ UNCHANGED now

AcquireSleepsWithNow(c) ==
    /\ state[c] = "idle"
    /\ sem > 0
    /\ Len(Cleared) >= rpm
    /\ Head(Cleared) + Delay > now
    /\ Stamp(Tail(Cleared), now)
    /\ state' = [state EXCEPT ![c] = "sleeping"]
    /\ wake' = [wake EXCEPT ![c] = Head(Cleared) + Delay]
    /\ sem' = sem - 1
    /\ UNCHANGED <<now, grants>>
AcquireSleepsWithoutPop(c) ==
    /\ state[c] = "idle"
    /\ sem > 0
    /\ Len(Cleared) >= rpm
    /\ Head(Cleared) + Delay > now
    /\ Stamp(Cleared, Head(Cleared) + Delay)
    /\ state' = [state EXCEPT ![c] = "sleeping"]
    /\ wake' = [wake EXCEPT ![c] = Head(Cleared) + Delay]
    /\ sem' = sem - 1
    /\ UNCHANGED <<now, grants>>
AcquireForgetsAwait(c) ==
    /\ state[c] = "idle"
    /\ sem > 0
    /\ Len(Cleared) >= rpm
    /\ Head(Cleared) + Delay > now
    /\ Stamp(Tail(Cleared), Head(Cleared) + Delay)
    /\ Granted(c)
    /\ UNCHANGED now
(* The window is full: reserve the moment at which the oldest timestamp leaves
   it, and sleep until then, holding the permit. *)
AcquireSleeps(c) ==
    /\ state[c] = "idle"
    /\ sem > 0
    /\ Len(Cleared) >= rpm
    /\ Head(Cleared) + Delay > now
    /\ Stamp(Tail(Cleared), Head(Cleared) + Delay)
    /\ state' = [state EXCEPT ![c] = "sleeping"]
    /\ wake' = [wake EXCEPT ![c] = Head(Cleared) + Delay]
    /\ sem' = sem - 1
    /\ UNCHANGED <<now, grants>>

(* The sleep is over: acquire returns and the semaphore is released. *)
Wake(c) ==
    /\ state[c] = "sleeping"
    /\ wake[c] <= now
    /\ state' = [state EXCEPT ![c] = "done"]
    /\ sem' = sem + 1
    /\ grants' = Append(grants, now)
    /\ UNCHANGED <<now, queue, wake, stamps>>

(* The loop resumes a sleeper at most Jitter units after its time. *)
Tick ==
    /\ now < MaxTime
    /\ \A c \in Coro : state[c] = "sleeping" => now < wake[c] + Jitter
    /\ now' = now + 1
    /\ UNCHANGED <<queue, sem, state, wake, stamps, grants>>

Acquire(c) == AcquireFree(c) \/ AcquireDue(c) \/ AcquireSleeps(c)

LimiterNext == Tick \/ \E c \in Coro : Acquire(c) \/ Wake(c)

LimiterSpec == LimiterInit /\ [][LimiterNext]_limiterVars

-----------------------------------------------------------------------------
(* "the invariant is: this block of code leaves the number of items in the
   queue unchanged" (rate_limiter.py 37): the queue never outgrows the window,
   however many coroutines reserve a slot at once. *)
QueueBounded == Len(queue) <= rpm

(* The promise of the class: rpm requests apart, two requests go through at
   least a window apart, up to the lateness of the event loop; with Jitter = 0
   no window ever sees more than rpm requests (rate_limiter.py 10, 23-54). *)
RateRespected ==
    \A i \in DOMAIN grants :
        i + rpm \in DOMAIN grants => grants[i] + Delay <= grants[i + rpm] + Jitter

(* The timestamps, which are the times at which requests are due, are always
   spaced that way, whatever the event loop does (rate_limiter.py 23-54). *)
StampsSpaced ==
    \A i \in DOMAIN stamps :
        i + rpm \in DOMAIN stamps => stamps[i] + Delay <= stamps[i + rpm]

(* Why the stamps stay spaced. The queue holds the latest stamps; one that has
   left it was either replaced by the stamp rpm places later, or is more than
   a window old. A permit is held by exactly the coroutines that sleep. *)
QueueIsSuffix ==
    /\ Len(queue) <= Len(stamps)
    /\ \A j \in DOMAIN queue : queue[j] = stamps[Len(stamps) - Len(queue) + j]
PoppedWhenDue ==
    \A i \in 1..(Len(stamps) - Len(queue)) :
        i + rpm <= Len(stamps) \/ stamps[i] + Delay < now
PermitsHeld == sem + Cardinality({c \in Coro : state[c] = "sleeping"}) = rpm
LInv == LimiterTypeOK /\ QueueBounded /\ StampsSpaced
        /\ QueueIsSuffix /\ PoppedWhenDue /\ PermitsHeld

=============================================================================
