---------------------------- MODULE MCCometaTask ----------------------------
(* Small instances of CometaTask for TLC. *)
EXTENDS CometaTask

CONSTANTS t1, t2, k1, u1, w1, w2

OneTask == {t1}
TwoTasks == {t1, t2}
NoWorkspace == [t \in Task |-> None]
SharedWorkspace == [t \in Task |-> k1]
SharedUser == [t \in Task |-> {u1}]
LimitTwo == [s \in Scope |-> 2]
=============================================================================
