---------------------------- MODULE TaskContract ----------------------------
(***************************************************************************)
(* What Cometa promises about a delegated task, with no tables, leases or  *)
(* workers: it is accepted once, executed at most once, and settled once;  *)
(* success is only reported for an executed task, an interruption only     *)
(* when something asked for it.  Tasks are independent, so one step may    *)
(* move several of them (enforce_deadlines does).                          *)
(***************************************************************************)
CONSTANT Task

VARIABLES
  life,       \* absent, open, or settled
  verdict,    \* what a settled task was reported as
  runs,       \* the executions that were started for a task
  stopping    \* tasks something asked to stop

vars == <<life, verdict, runs, stopping>>

Executed == {"succeeded", "partial"}
Interrupted == {"cancelled", "timed_out"}
Otherwise == {"failed", "recovery_required"}

Init ==
  /\ life = [t \in Task |-> "absent"]
  /\ verdict = [t \in Task |-> "none"]
  /\ runs = [t \in Task |-> {}]
  /\ stopping = {}

Same(t) == life'[t] = life[t] /\ verdict'[t] = verdict[t]

Accept(t) ==
  /\ life[t] = "absent" /\ life'[t] = "open"
  /\ verdict'[t] = "none" /\ runs'[t] = runs[t]

(* A second execution of the same task would not be an instance of Begin. *)
Begin(t) ==
  /\ life[t] = "open" /\ runs[t] = {}
  /\ \E run \in runs'[t] : runs'[t] = {run}
  /\ Same(t)

Settle(t) ==
  /\ life[t] = "open" /\ life'[t] = "settled"
  /\ \/ verdict'[t] \in Executed /\ runs[t] # {}
     \/ verdict'[t] \in Interrupted /\ t \in stopping'
     \/ verdict'[t] \in Otherwise
  /\ runs'[t] = runs[t]

Rest(t) == Same(t) /\ runs'[t] = runs[t]

Next ==
  /\ stopping \subseteq stopping'
  /\ \A t \in Task : Accept(t) \/ Begin(t) \/ Settle(t) \/ Rest(t)

Spec == Init /\ [][Next]_vars
=============================================================================
