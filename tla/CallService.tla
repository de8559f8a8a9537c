---------------------------- MODULE CallService ----------------------------
(***************************************************************************)
(* What an eager task promises the calls it makes.  A call is open until   *)
(* it is answered, once, with the output of a job that has succeeded and   *)
(* that does the work it asked for, or fails.  No job answers two calls,   *)
(* none is begun for work that nobody has asked for, and success is never  *)
(* taken back.  When the task starts over, its calls do, and the jobs that *)
(* have been begun are still there.                                        *)
(***************************************************************************)

CONSTANTS
    Call,
    WorkOf,     \* WorkOf[c]: the work that c asks for
    None

VARIABLES
    jobs,       \* the work of each job that has been begun
    succeeded,  \* the jobs that have succeeded
    call,       \* how each call stands
    answer      \* the job whose output it was answered with, or None

vars == <<jobs, succeeded, call, answer>>

NotMade == [c \in Call |-> "new"]
NotAnswered == [c \in Call |-> None]

Init ==
    /\ jobs = [j \in {} |-> None]
    /\ succeeded = {}
    /\ call = NotMade /\ answer = NotAnswered

Ask(c) ==
    /\ call[c] = "new"
    /\ call' = [call EXCEPT ![c] = "open"]
    /\ UNCHANGED <<jobs, succeeded, answer>>

(* A job is begun for the work of a call that has been made.               *)
Begin(c) ==
    /\ call[c] # "new"
    /\ \E j \in DOMAIN jobs' \ DOMAIN jobs :
           jobs' = [i \in DOMAIN jobs \cup {j} |-> IF i = j THEN WorkOf[c] ELSE jobs[i]]
    /\ UNCHANGED <<succeeded, call, answer>>

Succeed(j) ==
    /\ succeeded' = succeeded \cup {j}
    /\ UNCHANGED <<jobs, call, answer>>

Answer(c, j) ==
    /\ call[c] = "open"
    /\ jobs[j] = WorkOf[c]
    /\ \A d \in Call : answer[d] # j
    /\ call' = [call EXCEPT ![c] = "answered"]
    /\ answer' = [answer EXCEPT ![c] = j]
    /\ UNCHANGED <<jobs, succeeded>>

Fail(c) ==
    /\ call[c] = "open"
    /\ call' = [call EXCEPT ![c] = "failed"]
    /\ UNCHANGED <<jobs, succeeded, answer>>

Restart ==
    /\ call' = NotMade /\ answer' = NotAnswered
    /\ UNCHANGED <<jobs, succeeded>>

Next ==
    \/ \E c \in Call : Ask(c) \/ Begin(c) \/ Fail(c)
    \/ \E j \in DOMAIN jobs : Succeed(j)
    \/ \E c \in Call : \E j \in succeeded : Answer(c, j)
    \/ Restart

Spec == Init /\ [][Next]_vars

=============================================================================
