---------------------------- MODULE MCScheduling ----------------------------
(* Small instances of Scheduling for TLC. *)
EXTENDS Scheduling, TLC

CONSTANTS t1, t2, g1

OneGroup == [t \in Task |-> g1]

(* Workers are interchangeable where no liveness is checked.                 *)
Symmetry == Permutations(Worker)
=============================================================================
