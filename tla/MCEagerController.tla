-------------------------- MODULE MCEagerController --------------------------
(* Small eager functions for TLC. *)
EXTENDS EagerController

CONSTANTS c1, c2, c3, t1, t2, x, y

(* Calls c1 and c2 run the same entity on different inputs, c3 another one. *)
CallsOfTwoEntities == [c \in Call |-> IF c = c3 THEN t2 ELSE t1]
InputsOfCalls == [c \in Call |-> IF c = c2 THEN y ELSE x]

(* Three calls of one entity, two of them with the same inputs. *)
CallsOfOneEntity == [c \in Call |-> t1]

(* c3 needs the outcome of c1. *)
ThirdAwaitsFirst == [c \in Call |-> IF c = c3 THEN {c1} ELSE {}]
NothingAwaited == [c \in Call |-> {}]

(* The eager function makes its calls in one order, whatever the timing. *)
FixedOrder == [c \in Call |-> IF c = c1 THEN {} ELSE IF c = c2 THEN {c1} ELSE {c1, c2} \cap Call]

(* Independent coroutines make the calls: the event loop decides the order. *)
OpenOrder == [c \in Call |-> {}]

=============================================================================
