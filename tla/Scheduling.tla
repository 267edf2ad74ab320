----------------------------- MODULE Scheduling -----------------------------
(***************************************************************************)
(* Scheduled group tasks: the tables tasks, runs, quotas and worker_lease  *)
(* of stella_project/plugins/bot_main/scheduling/store.py, the leased      *)
(* worker that fires, claims and executes runs (runtime.py), the agent run *)
(* (agent.py) and the delivery to the group (delivery.py).  Every action   *)
(* is one transaction with the code up to the next transaction or await;   *)
(* users, the WebUI and the workers interleave between transactions.       *)
(*                                                                         *)
(* Time counts the instants a task is due at: every instant is a fire.     *)
(***************************************************************************)
EXTENDS Naturals, FiniteSets

CONSTANTS
  Task,          \* tasks that may be created
  Group,         \* scope_key values: a bot in a group
  Worker,        \* worker_id values; a restarted process keeps its own
  Horizon,       \* bound: the last instant
  MaxRevision,   \* bound: revisions of a task
  MaxFaults,     \* bound: crashes, stops and stalls of workers
  MaxManual,     \* bound: runs made by run-now
  GroupOf,       \* GroupOf[t]: the group of t
  Agents,        \* tasks of mode agent; the others are reminders
  Latest,        \* tasks whose policy coalesces missed fires to the latest
  TaskLimit,     \* limits.max_tasks_per_group
  Cap,           \* daily_group_run_cap
  None

ASSUME BoundsAssumption ==
  /\ Horizon \in Nat /\ MaxRevision \in Nat \ {0} /\ MaxFaults \in Nat
  /\ MaxManual \in Nat
  /\ TaskLimit \in Nat /\ Cap \in Nat \ {0}
ASSUME GroupAssumption == GroupOf \in [Task -> Group]

(* A run is named by its idempotency_key: task, revision, and the instant it *)
(* is scheduled for, or (run-now) the instant its request was made.          *)
Run == Task \X (1..MaxRevision) \X {"cron", "manual"} \X (0..Horizon)
ASSUME NoneAssumption == None \notin Run /\ None \notin Worker

TaskOf(r) == r[1]
RevisionOf(r) == r[2]
At(r) == r[4]
Fires == {r \in Run : r[3] = "cron"}

Executing == {"claimed", "running", "ready", "sending"}
ActiveRun == {"queued"} \cup Executing
TerminalRun == {"sent", "silent", "failed", "skipped", "cancelled",
                "delivery_unknown"}

(* Where the worker's loop is.  "delivering" is between the end of the       *)
(* generation and running -> ready.                                          *)
JobSteps == {"claimed", "waiting", "running", "checking", "thinking",
             "delivering", "ready", "sending", "accepted", "rejected",
             "unknown"}
Steps == {"down", "asleep", "recover", "list", "enqueue", "record", "claim"}
           \cup JobSteps

VARIABLES
  now,        \* the clock
  status,     \* tasks.status, or "none"
  revision,   \* tasks.revision
  lastRun,    \* tasks.last_run_utc, or created_at before the first fire
  run,        \* runs.state, or "none"
  owner,      \* runs.lease_owner of an executing run
  lapsed,     \* executing runs whose lease has expired
  used,       \* quotas.runs_used of a group today
  holder,     \* worker of the unexpired worker_lease row, or None
  step,       \* where a worker process is
  held,       \* the run a worker process has in hand, or None
  todo,       \* active tasks it still has to look at in this tick
  cursor,     \* its _cursors: the next fire of a task, 0 if it has no entry
  posts,      \* history: messages the platform accepted for a run
  faults      \* crashes, stops and stalls so far

taskVars == <<status, revision, lastRun>>
runVars == <<run, owner, lapsed>>
procVars == <<step, held, todo, cursor>>
vars == <<now, taskVars, runVars, used, holder, procVars, posts, faults>>

-----------------------------------------------------------------------------
Runnable(r) ==
  status[TaskOf(r)] = "active" /\ revision[TaskOf(r)] = RevisionOf(r)

(* The partial unique index: one active run per task.                        *)
Busy(t) == \E r \in Run : TaskOf(r) = t /\ run[r] \in ActiveRun

(* Another run of the group is executing (claim_next_run).                   *)
GroupBusySlip(r) == FALSE
GroupBusy(r) ==
  \E q \in Run \ {r} : /\ GroupOf[TaskOf(q)] = GroupOf[TaskOf(r)]
                       /\ run[q] \in Executing

(* What lease recovery makes of an executing run.                            *)
RecoveredSlip(s) == "queued"
Recovered(s) == IF s = "sending" THEN "delivery_unknown" ELSE "queued"

(* The runs lease recovery looks at.                                         *)
ExpiredSlip == {r \in lapsed : run[r] \in Executing \ {"claimed"}}
Expired == {r \in lapsed : run[r] \in Executing}

(* The conditions of transition_run.                                         *)
Owns(w, r, from) == owner[r] = w /\ run[r] \in from

Init ==
  /\ now = 0
  /\ status = [t \in Task |-> "none"]
  /\ revision = [t \in Task |-> 1]
  /\ lastRun = [t \in Task |-> 0]
  /\ run = [r \in Run |-> "none"]
  /\ owner = [r \in Run |-> None]
  /\ lapsed = {}
  /\ used = [g \in Group |-> 0]
  /\ holder = None
  /\ step = [w \in Worker |-> "down"]
  /\ held = [w \in Worker |-> None]
  /\ todo = [w \in Worker |-> {}]
  /\ cursor = [w \in Worker |-> [t \in Task |-> 0]]
  /\ posts = [r \in Run |-> 0]
  /\ faults = 0

-----------------------------------------------------------------------------
(* SchedulingService: commands of users and the WebUI.  A change that was    *)
(* prepared for an older revision is refused (StaleRevisionError).           *)

CreateTask(t) ==
  /\ status[t] = "none"
  /\ Cardinality({u \in Task : GroupOf[u] = GroupOf[t]
                     /\ status[u] \in {"active", "paused"}}) < TaskLimit
  /\ status' = [status EXCEPT ![t] = "active"]
  /\ lastRun' = [lastRun EXCEPT ![t] = now]
  /\ UNCHANGED <<now, revision, runVars, used, holder, procVars, posts, faults>>

NextRevision(t) ==
  /\ status[t] \in {"active", "paused"} /\ revision[t] < MaxRevision
  /\ revision' = [revision EXCEPT ![t] = @ + 1]
  /\ UNCHANGED <<now, lastRun, used, holder, procVars, posts, faults>>

EditTask(t) == NextRevision(t) /\ UNCHANGED <<status, runVars>>

(* Pause or resume; queued runs are swept by the next claim.                 *)
SetStatus(t) ==
  /\ NextRevision(t)
  /\ \E s \in {"active", "paused"} : status' = [status EXCEPT ![t] = s]
  /\ UNCHANGED runVars

CancelTask(t) ==
  /\ NextRevision(t)
  /\ status' = [status EXCEPT ![t] = "cancelled"]
  /\ run' = [r \in Run |-> IF TaskOf(r) = t /\ run[r] = "queued"
                           THEN "cancelled" ELSE run[r]]
  /\ UNCHANGED <<owner, lapsed>>

(* insert_run: refused for a cancelled task, a known key or a busy task.     *)
InsertableSlip(r) == status[TaskOf(r)] # "cancelled" /\ ~Busy(TaskOf(r))
Insertable(r) ==
  /\ status[TaskOf(r)] # "cancelled"
  /\ run[r] = "none" /\ ~Busy(TaskOf(r))

RunNow(t) ==
  LET r == <<t, revision[t], "manual", now>> IN
  /\ status[t] # "none" /\ Insertable(r)
  /\ Cardinality({q \in Run \ Fires : run[q] # "none"}) < MaxManual
  /\ run' = [run EXCEPT ![r] = "queued"]
  /\ UNCHANGED <<now, taskVars, owner, lapsed, used, holder, procVars, posts,
                 faults>>

-----------------------------------------------------------------------------
(* SchedulerRuntime.tick_once. *)

(* start() launches the loop; also the restart after a crash or a stop.      *)
Start(w) ==
  /\ step[w] = "down" /\ step' = [step EXCEPT ![w] = "asleep"]
  /\ UNCHANGED <<now, taskVars, runVars, used, holder, held, todo, cursor,
                 posts, faults>>

AcquireWorkerLease(w) ==
  /\ step[w] = "asleep" /\ holder \in {None, w}
  /\ holder' = w
  /\ step' = [step EXCEPT ![w] = "recover"]
  /\ UNCHANGED <<now, taskVars, runVars, used, held, todo, cursor, posts,
                 faults>>

RecoverExpiredLeases(w) ==
  /\ step[w] = "recover"
  /\ run' = [r \in Run |-> IF r \in Expired THEN Recovered(run[r]) ELSE run[r]]
  /\ owner' = [r \in Run |-> IF r \in Expired THEN None ELSE owner[r]]
  /\ lapsed' = lapsed \ Expired
  /\ step' = [step EXCEPT ![w] = "list"]
  /\ UNCHANGED <<now, taskVars, used, holder, held, todo, cursor, posts,
                 faults>>

ListActiveTasks(w) ==
  /\ step[w] = "list"
  /\ todo' = [todo EXCEPT ![w] = {t \in Task : status[t] = "active"}]
  /\ step' = [step EXCEPT ![w] = "enqueue"]
  /\ UNCHANGED <<now, taskVars, runVars, used, holder, held, cursor,
                 posts, faults>>

(* _enqueue_due_occurrences for one task.  At most one fire of the batch     *)
(* can be inserted, as the run makes the task busy: the oldest missed one,   *)
(* or the latest if the task coalesces.                                      *)
NextFire(w, t) == IF cursor[w][t] = 0 THEN lastRun[t] + 1 ELSE cursor[w][t]
Fire(w, t) == <<t, revision[t], "cron",
                IF t \in Latest THEN now ELSE NextFire(w, t)>>

EnqueueFire(w, t) ==
  LET due == NextFire(w, t) <= now
      fired == due /\ Insertable(Fire(w, t))
  IN /\ step[w] = "enqueue" /\ t \in todo[w]
     /\ todo' = [todo EXCEPT ![w] = @ \ {t}]
     /\ \/ /\ fired
           /\ run' = [run EXCEPT ![Fire(w, t)] = "queued"]
           /\ held' = [held EXCEPT ![w] = Fire(w, t)]
           /\ step' = [step EXCEPT ![w] = "record"]
           /\ UNCHANGED cursor
        \/ /\ ~fired
           /\ cursor' = [cursor EXCEPT ![w][t] = NextFire(w, t)]
           /\ UNCHANGED <<run, held, step>>
     /\ UNCHANGED <<now, taskVars, owner, lapsed, used, holder, posts,
                    faults>>

(* The cursor passes the fire and record_task_fired saves it.                *)
RecordTaskFired(w) ==
  /\ step[w] = "record"
  /\ LET t == TaskOf(held[w]) IN
       /\ cursor' = [cursor EXCEPT ![w][t] = At(held[w]) + 1]
       /\ lastRun' = [lastRun EXCEPT ![t] = At(held[w])]
  /\ step' = [step EXCEPT ![w] = "enqueue"]
  /\ held' = [held EXCEPT ![w] = None]
  /\ UNCHANGED <<now, status, revision, runVars, used, holder, todo,
                 posts, faults>>

EnqueueDone(w) ==
  /\ step[w] = "enqueue" /\ todo[w] = {}
  /\ step' = [step EXCEPT ![w] = "claim"]
  /\ UNCHANGED <<now, taskVars, runVars, used, holder, held, todo, cursor,
                 posts, faults>>

(* claim_next_run: sweep the queue, then visit the due runs in order; those  *)
(* over the quota are skipped, the first other one is claimed, unless its    *)
(* group is busy, which ends the scan.                                       *)
OverQuota(r) == used[GroupOf[TaskOf(r)]] >= Cap

Scanned(r, passed) ==
  /\ \A q \in passed : At(q) <= At(r)
  /\ \A q \in Run : run[q] = "queued" /\ Runnable(q) /\ At(q) < At(r)
                      => q \in passed

Swept(passed) ==
  [r \in Run |-> IF run[r] = "queued" /\ (~Runnable(r) \/ r \in passed)
                 THEN "skipped" ELSE run[r]]

ClaimNextRun(w) ==
  LET due == {r \in Run : run[r] = "queued" /\ Runnable(r)} IN
  /\ step[w] = "claim"
  /\ \E passed \in SUBSET {r \in due : OverQuota(r) /\ ~GroupBusy(r)} :
       \/ \E r \in due \ passed :
            /\ Scanned(r, passed) /\ ~GroupBusy(r) /\ ~OverQuota(r)
            /\ run' = [Swept(passed) EXCEPT ![r] = "claimed"]
            /\ owner' = [owner EXCEPT ![r] = w]
            /\ used' = [used EXCEPT ![GroupOf[TaskOf(r)]] = @ + 1]
            /\ held' = [held EXCEPT ![w] = r]
            /\ step' = [step EXCEPT ![w] = "claimed"]
       \/ /\ passed = due \/ \E r \in due \ passed : Scanned(r, passed)
                                                       /\ GroupBusy(r)
          /\ run' = Swept(passed)
          /\ step' = [step EXCEPT ![w] = "asleep"]
          /\ UNCHANGED <<owner, used, held>>
  /\ UNCHANGED <<now, taskVars, lapsed, holder, todo, cursor, posts,
                 faults>>

-----------------------------------------------------------------------------
(* The execution of the run in hand: _execute, agent and delivery. *)

Goto(w, from, to) == step[w] = from /\ step' = [step EXCEPT ![w] = to]
Drop(w) ==
  /\ step' = [step EXCEPT ![w] = "claim"]
  /\ held' = [held EXCEPT ![w] = None]

(* transition_run, if its conditions hold; a terminal run has no lease.      *)
Write(w, to) ==
  LET r == held[w] IN
  /\ run' = [run EXCEPT ![r] = to]
  /\ owner' = IF to \in TerminalRun THEN [owner EXCEPT ![r] = None] ELSE owner
  /\ lapsed' = IF to \in TerminalRun THEN lapsed \ {r} ELSE lapsed

(* A transition after which the worker is done with the run.                 *)
Close(w, from, to) ==
  /\ \/ Owns(w, held[w], from) /\ Write(w, to)
     \/ ~Owns(w, held[w], from) /\ UNCHANGED runVars
  /\ Drop(w)
  /\ UNCHANGED <<now, taskVars, used, holder, todo, cursor, faults>>

(* A transition the worker goes on from, or drops the run.                   *)
Advance(w, from, to, next) ==
  /\ \/ /\ Owns(w, held[w], {from}) /\ Write(w, to)
        /\ step' = [step EXCEPT ![w] = next]
        /\ UNCHANGED held
     \/ /\ ~Owns(w, held[w], {from})
        /\ step' = [step EXCEPT ![w] = "claim"]
        /\ held' = [held EXCEPT ![w] = None]
        /\ UNCHANGED runVars
  /\ UNCHANGED <<now, taskVars, used, holder, todo, cursor, posts, faults>>

Proceed(w, from, to) ==
  /\ Goto(w, from, to)
  /\ UNCHANGED <<now, taskVars, runVars, used, holder, held, todo, cursor,
                 posts, faults>>

(* The task is read again; if it moved on, the run is left to its lease.     *)
LoadTask(w) ==
  /\ step[w] = "claimed"
  /\ \/ Runnable(held[w]) /\ Proceed(w, "claimed", "waiting")
     \/ /\ ~Runnable(held[w]) /\ Drop(w)
        /\ UNCHANGED <<now, taskVars, runVars, used, holder, todo, cursor,
                       posts, faults>>

(* The lock of the group is free.                                            *)
MarkRunning(w) ==
  /\ step[w] = "waiting"
  /\ Advance(w, "claimed", "running", "running")

GateRefuses(w) ==
  /\ step[w] = "running"
  /\ Close(w, {"running"}, "skipped") /\ UNCHANGED posts

(* The gate allows it: the lease is renewed, even if it had just expired.    *)
GateAllows(w) ==
  LET r == held[w] IN
  /\ Goto(w, "running", IF TaskOf(r) \in Agents THEN "checking"
                                               ELSE "delivering")
  /\ lapsed' = IF Owns(w, r, {"running"}) THEN lapsed \ {r} ELSE lapsed
  /\ UNCHANGED <<now, taskVars, run, owner, used, holder, held, todo, cursor,
                 posts, faults>>

(* The checkpoint before each model round and each tool call.                *)
Checkpoint(w) ==
  LET ok == Owns(w, held[w], {"running"}) /\ Runnable(held[w]) IN
  /\ step[w] \in {"checking", "thinking"}
  /\ \/ ok /\ Proceed(w, "checking", "thinking")
     \/ ~ok /\ Close(w, {"running"}, "cancelled") /\ UNCHANGED posts

(* The agent has its text, or nothing to say, or fails or times out.         *)
AgentReplies(w) == Proceed(w, "thinking", "delivering")

AgentEnds(w) ==
  /\ step[w] \in {"checking", "thinking"}
  /\ \E s \in {"silent", "failed"} : Close(w, {"running"}, s)
  /\ UNCHANGED posts

(* deliver: the result is saved, then sending, then the platform is called.  *)
SaveResult(w) ==
  /\ step[w] = "delivering"
  /\ Advance(w, "running", "ready", "ready")

BeginSending(w) ==
  /\ step[w] = "ready"
  /\ Advance(w, "ready", "sending", "sending")

(* An uncertain call may or may not have posted the message.                 *)
Post(w) ==
  LET r == held[w] IN
  /\ \/ Goto(w, "sending", "accepted") /\ posts' = [posts EXCEPT ![r] = @ + 1]
     \/ Goto(w, "sending", "rejected") /\ UNCHANGED posts
     \/ /\ Goto(w, "sending", "unknown")
        /\ \E n \in 0..1 : posts' = [posts EXCEPT ![r] = @ + n]
  /\ UNCHANGED <<now, taskVars, runVars, used, holder, held, todo, cursor,
                 faults>>

OutcomeSlip == [accepted |-> "sent", rejected |-> "failed",
                unknown |-> "failed"]
Outcome == [accepted |-> "sent", rejected |-> "failed",
            unknown |-> "delivery_unknown"]

RecordOutcome(w) ==
  /\ step[w] \in DOMAIN Outcome
  /\ Close(w, {"sending"}, Outcome[step[w]]) /\ UNCHANGED posts

(* Any other exception, e.g. a locked database: only a run that is not yet   *)
(* ready is marked failed, the others are left to their lease.               *)
ExecuteRaises(w) ==
  /\ step[w] \in JobSteps \ {"sending"}
  /\ Close(w, {"claimed", "running"}, "failed") /\ UNCHANGED posts

-----------------------------------------------------------------------------
(* Faults and time. *)

Fault == faults < MaxFaults /\ faults' = faults + 1

Forget(w) ==
  /\ step' = [step EXCEPT ![w] = "down"]
  /\ held' = [held EXCEPT ![w] = None]
  /\ todo' = [todo EXCEPT ![w] = {}]
  /\ cursor' = [cursor EXCEPT ![w] = [t \in Task |-> 0]]
  /\ UNCHANGED <<now, taskVars, runVars, used, posts>>

Crash(w) ==
  /\ step[w] # "down" /\ Fault
  /\ Forget(w) /\ UNCHANGED holder

(* stop(): the loop ends between two runs or is cancelled at an await.       *)
Stop(w) ==
  /\ step[w] \in {"asleep", "claim", "waiting", "thinking", "sending"} /\ Fault
  /\ Forget(w)
  /\ holder' = IF holder = w THEN None ELSE holder

(* Leases last longer than a tick: one whose worker goes on expires only if  *)
(* the worker is slow, which counts as a fault.                              *)
LeaseExpires(r) ==
  /\ run[r] \in Executing /\ r \notin lapsed
  /\ IF held[owner[r]] = r THEN Fault ELSE UNCHANGED faults
  /\ lapsed' = lapsed \cup {r}
  /\ UNCHANGED <<now, taskVars, run, owner, used, holder, procVars, posts>>

WorkerLeaseExpires ==
  /\ holder # None
  /\ IF step[holder] # "down" THEN Fault ELSE UNCHANGED faults
  /\ holder' = None
  /\ UNCHANGED <<now, taskVars, runVars, used, procVars, posts>>

(* A new day resets the quotas.                                              *)
TimePasses ==
  /\ now < Horizon /\ now' = now + 1
  /\ used' \in {used, [g \in Group |-> 0]}
  /\ UNCHANGED <<taskVars, runVars, holder, procVars, posts, faults>>

-----------------------------------------------------------------------------
User(t) == CreateTask(t) \/ EditTask(t) \/ SetStatus(t) \/ CancelTask(t)
             \/ RunNow(t)

Tick(w) == \/ Start(w) \/ AcquireWorkerLease(w) \/ RecoverExpiredLeases(w)
           \/ ListActiveTasks(w) \/ (\E t \in Task : EnqueueFire(w, t))
           \/ RecordTaskFired(w) \/ EnqueueDone(w) \/ ClaimNextRun(w)

Execute(w) == \/ LoadTask(w) \/ MarkRunning(w) \/ GateRefuses(w)
              \/ GateAllows(w) \/ Checkpoint(w) \/ AgentReplies(w)
              \/ AgentEnds(w) \/ SaveResult(w) \/ BeginSending(w)
              \/ Post(w) \/ RecordOutcome(w) \/ ExecuteRaises(w)

Next ==
  \/ \E t \in Task : User(t)
  \/ \E w \in Worker : Tick(w) \/ Execute(w) \/ Crash(w) \/ Stop(w)
  \/ \E r \in Run : LeaseExpires(r)
  \/ WorkerLeaseExpires \/ TimePasses

Spec == Init /\ [][Next]_vars

(* Every worker that is up goes on and one that is down is started again;    *)
(* clocks reach the end of a lease.                                          *)
Fairness ==
  /\ \A w \in Worker : WF_vars(Tick(w) \/ Execute(w))
  /\ WF_vars(WorkerLeaseExpires)
  /\ \A r \in Run : WF_vars(LeaseExpires(r))

FairSpec == Spec /\ Fairness

(***************************************************************************)
(* Properties.                                                             *)
(***************************************************************************)

(* Every variable stays in the domain its column or attribute has.           *)
TypeOK ==
  /\ now \in 0..Horizon
  /\ status \in [Task -> {"none", "active", "paused", "cancelled"}]
  /\ revision \in [Task -> 1..MaxRevision]
  /\ lastRun \in [Task -> 0..Horizon]
  /\ run \in [Run -> {"none"} \cup ActiveRun \cup TerminalRun]
  /\ owner \in [Run -> Worker \cup {None}]
  /\ lapsed \subseteq Run
  /\ used \in [Group -> 0..Cap]
  /\ holder \in Worker \cup {None}
  /\ step \in [Worker -> Steps]
  /\ held \in [Worker -> Run \cup {None}]
  /\ todo \in [Worker -> SUBSET Task]
  /\ cursor \in [Worker -> [Task -> 0..(Horizon + 1)]]
  /\ posts \in [Run -> Nat]
  /\ faults \in 0..MaxFaults

(* A run's message is posted at most once, although runs are requeued after  *)
(* crashes and lost leases and executed again, by the same or another worker.*)
PostedOnce == \A r \in Run : posts[r] <= 1

(* What was posted is never reported as not posted: the run is sending, sent *)
(* or delivery_unknown; and a run that says sent was posted.                 *)
ReportIsTrue ==
  \A r \in Run :
    /\ posts[r] > 0 => run[r] \in {"sending", "sent", "delivery_unknown"}
    /\ run[r] = "sent" => posts[r] > 0

(* A group has one executing run at a time.                                  *)
GroupIsSerial ==
  \A q, r \in Run :
    run[q] \in Executing /\ run[r] \in Executing
      /\ GroupOf[TaskOf(q)] = GroupOf[TaskOf(r)] => q = r

(* A run that ended never runs again; delivery_unknown is never sent again.  *)
EndedIsFinal ==
  [][\A r \in Run : run[r] \in TerminalRun => run'[r] = run[r]]_vars

(* No task keeps its active run for ever, whatever crashes, stalls or changes *)
(* under it: the slot its next fire needs becomes free again.                 *)
SlotFrees == \A t \in Task : Busy(t) ~> ~Busy(t)

(* Editing, pausing and cancelling are fences: the task is checked again     *)
(* before sending (docs/guides/scheduling.md).                               *)
FencedBeforeSending ==
  [][\A w \in Worker : step[w] = "ready" /\ step'[w] = "sending"
                        => Runnable(held[w])]_vars

(* A fire that is due leads to a run for it or for a later one, as long as   *)
(* its task stays active (restarts are safe, docs/guides/scheduling.md).     *)
KeepsFiring ==
  \A t \in Task, n \in 1..Horizon :
    (status[t] = "active" /\ lastRun[t] < n /\ n <= now) ~>
      \/ status[t] # "active"
      \/ \E r \in Fires : TaskOf(r) = t /\ At(r) >= n /\ run[r] # "none"

-----------------------------------------------------------------------------
(* The contract of ReportContract for the message of a run.                  *)

Said(s) ==
  CASE s = "sent" -> "sent"
    [] s = "delivery_unknown" -> "unknown"
    [] s \in TerminalRun \ {"sent", "delivery_unknown"} -> "not_sent"
    [] OTHER -> "open"

Contract == INSTANCE ReportContract WITH
  Message <- Run,
  copies <- posts,
  verdict <- [r \in Run |-> Said(run[r])]

(* Claims, leases, requeues and recoveries implement the contract: a run is  *)
(* posted once, ends once, and its end is true; only an unknown end may be   *)
(* overtaken by the call of a worker that lost its lease.                    *)
ImplementsReport == Contract!Spec
=============================================================================
