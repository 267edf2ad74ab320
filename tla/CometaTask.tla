----------------------------- MODULE CometaTask -----------------------------
(***************************************************************************)
(* The durable task machine of Cometa, the package that delegates work to  *)
(* external agents: the tables tasks, attempts, workspace_leases,          *)
(* worker_leases and input_requests of src/cometa/store.py, the executor   *)
(* coroutine that drives one attempt (src/cometa/executor.py) and the      *)
(* worker process that claims and recovers tasks (src/cometa/worker.py).   *)
(*                                                                         *)
(* Every action is one database transaction, with the assignments of the   *)
(* coroutine that follow it up to its next await; the bot process, the     *)
(* workers and the agents interleave between transactions.  Clocks are     *)
(* abstracted: a lease or a deadline is live until an expiry action says   *)
(* otherwise, and the guards of those actions state when time can do it.   *)
(***************************************************************************)
EXTENDS Naturals, FiniteSets

CONSTANTS
  Task,            \* tasks that may be submitted
  Worker,          \* worker processes; each start has a fresh worker_id
  Workspace,       \* workspace_key values
  Scope,           \* quota scopes: a requester or a group
  MaxAttempts,     \* bound: attempts a task may have
  WorkspaceOf,     \* WorkspaceOf[t]: the workspace_key of t, or None
  ScopesOf,        \* ScopesOf[t]: the requester and the group t counts against
  Limit,           \* Limit[s]: limits.per_user_active or per_group_active
  MaxConcurrent,   \* config.max_concurrent of a worker
  Stallable,       \* workers that can be suspended for longer than a lease
  Crashable,       \* workers that may be killed or stopped
  Cancellable,     \* tasks whose requester may cancel
  Deadlined,       \* tasks whose deadline may pass
  Interactive,     \* tasks whose agent may ask for input
  CrashInRecovery, \* may a worker die between the two steps of recover_task?
  None

ASSUME MaxAttemptsAssumption == MaxAttempts \in Nat \ {0}
ASSUME ConfigAssumption ==
  /\ WorkspaceOf \in [Task -> Workspace \cup {None}]
  /\ ScopesOf \in [Task -> SUBSET Scope]
  /\ Limit \in [Scope -> Nat]
  /\ MaxConcurrent \in Nat
  /\ None \notin Workspace /\ None \notin Worker

Attempt == Task \X (1..MaxAttempts)
ASSUME NoneAssumption == None \notin Attempt

TaskOf(a) == a[1]
NumberOf(a) == a[2]

(* waiting_input and waiting_approval are treated alike everywhere: "waiting". *)
ActiveStates == {"queued", "starting", "running", "waiting", "cancelling",
                 "recovering"}
Terminal == {"cancelled", "succeeded", "partial", "failed", "timed_out",
             "recovery_required"}
States == {"none"} \cup ActiveStates \cup Terminal

(* "connected" is launch_phase connecting with a session_id recorded. *)
Phases == {"claimed", "preparing", "connecting", "connected", "dispatching",
           "running"}

(* Where the coroutine run_attempt of an attempt is suspended. *)
Pcs == {"none", "probe", "preparing", "opening", "opened", "dispatching",
        "handle", "stream", "input", "cancelling", "done"}

VARIABLES
  state,        \* tasks.state
  current,      \* tasks.current_attempt, 0 when empty
  attempts,     \* tasks.attempt_no
  results,      \* attempts that inserted a row into results
  final,        \* tasks with a final notification
  cancelCtl,    \* tasks with a pending or delivered cancel control
  deadlineCtl,  \* tasks a deadline:... cancel control was inserted for
  asked,        \* history: tasks whose cancellation was accepted in flight
  due,          \* tasks whose deadline_utc has passed
  outlived,     \* history: attempts whose workspace lease ran out
  owner,        \* attempts.lease_owner
  phase,        \* attempts.launch_phase
  lease,        \* attempts whose lease_until_utc is in the future
  request,      \* state of the newest input request of an attempt
  wsLease,      \* unexpired row of workspace_leases: the attempt, or None
  registrar,    \* worker of the unexpired row of worker_leases, or None
  worker,       \* life of a worker process
  pc,           \* executor coroutine of an attempt, in its worker's memory
  recovery,     \* the task recover_task is at, in a worker's memory
  turn          \* the agent's execution of an attempt

taskVars == <<state, current, attempts, results, final>>
ctlVars == <<cancelCtl, deadlineCtl, asked>>
timeVars == <<due, outlived>>
attemptVars == <<owner, phase, lease>>
leaseVars == <<wsLease, registrar>>
memVars == <<worker, recovery>>
vars == <<taskVars, ctlVars, timeVars, attemptVars, request, leaseVars, memVars,
          pc, turn>>

-----------------------------------------------------------------------------
(* State functions. *)

Idle == [attempt |-> None, seen |-> "none", step |-> "idle"]

Up(w) == worker[w] \in {"up", "stopping"}
Running(a) == owner[a] # None /\ Up(owner[a]) /\ pc[a] \notin {"none", "done"}
Active(w) == {a \in Attempt : owner[a] = w /\ Running(a)}

(* A worker is one thread: recover_task runs in it without an await.         *)
Ticking(w) == worker[w] = "up" /\ registrar = w /\ recovery[w] = Idle
Executing(a) == Running(a) /\ recovery[owner[a]] = Idle

(* Definitions named ...Slip are plausible mistakes in the code: mutation    *)
(* runs put one in place of the definition below it, and a property fails.   *)

(* finish_task's checks: the attempt is current, the task not terminal.      *)
FencelessSlip(a) == state[TaskOf(a)] \notin Terminal
OverwriteSlip(a) == current[TaskOf(a)] = NumberOf(a)
CanFinish(a) ==
  /\ current[TaskOf(a)] = NumberOf(a)
  /\ state[TaskOf(a)] \notin Terminal

(* States that a deadline interrupts; begin_recovery also takes cancelling,  *)
(* but not a task that is already recovering.                                *)
Interruptible == {"starting", "running", "waiting"}
TakeableSlip == Interruptible
Takeable == Interruptible \cup {"cancelling"}

(* launch_phase proves that no start request was sent (recover_task).        *)
BeforeDispatchSlip == {"claimed", "preparing", "connecting", "connected",
                       "dispatching"}
BeforeDispatch == {"claimed", "preparing", "connecting"}

(* _BUSY_STATES_SQL: what submit_task counts against a quota.                *)
BusyStates == ActiveStates

(* What a confirmed cancellation is reported as.                             *)
CancelVerdictSlip(t) == "timed_out"
CancelVerdict(t) == IF t \in deadlineCtl THEN "timed_out" ELSE "cancelled"

(* finish_task deletes the workspace lease of its own attempt.               *)
ReleasedLeaseSlip(a) == wsLease
ReleasedLease(a) == [k \in Workspace |-> IF wsLease[k] = a THEN None
                                         ELSE wsLease[k]]

(* The lock of the workspace is free, or held by an attempt of t itself.     *)
WorkspaceFree(t) ==
  \A k \in Workspace \cap {WorkspaceOf[t]} :
    wsLease[k] \in {None} \cup {<<t, n>> : n \in 1..MaxAttempts}

Init ==
  /\ state = [t \in Task |-> "none"]
  /\ current = [t \in Task |-> 0]
  /\ attempts = [t \in Task |-> 0]
  /\ results = {} /\ final = {}
  /\ cancelCtl = {} /\ deadlineCtl = {} /\ asked = {}
  /\ due = {} /\ outlived = {}
  /\ owner = [a \in Attempt |-> None]
  /\ phase = [a \in Attempt |-> "claimed"]
  /\ lease = {}
  /\ request = [a \in Attempt |-> "none"]
  /\ wsLease = [k \in Workspace |-> None]
  /\ registrar = None
  /\ worker = [w \in Worker |-> "off"]
  /\ pc = [a \in Attempt |-> "none"]
  /\ recovery = [w \in Worker |-> Idle]
  /\ turn = [a \in Attempt |-> "none"]

-----------------------------------------------------------------------------
(* The bot process: CometaService calls. *)

SubmitTask(t) ==
  /\ state[t] = "none"
  /\ \A s \in ScopesOf[t] :
       Cardinality({u \in Task : s \in ScopesOf[u] /\ state[u] \in BusyStates})
         < Limit[s]
  /\ state' = [state EXCEPT ![t] = "queued"]
  /\ UNCHANGED <<current, attempts, results, final, ctlVars, timeVars, attemptVars,
                 request, leaseVars, memVars, pc, turn>>

(* request_cancel on every task of T: immediate for a queued one. *)
CancelTasks(T) ==
  LET live == {t \in T : state[t] \in ActiveStates}
      queued == {t \in live : state[t] = "queued"}
  IN /\ state' = [t \in Task |-> IF t \in queued THEN "cancelled"
                                 ELSE IF t \in live THEN "cancelling"
                                 ELSE state[t]]
     /\ final' = final \cup queued
     /\ cancelCtl' = cancelCtl \cup (live \ queued)
     /\ asked' = asked \cup live
     /\ UNCHANGED <<current, attempts, results, deadlineCtl>>

RequestCancel(t) ==
  /\ t \in Cancellable
  /\ state[t] \in ActiveStates
  /\ CancelTasks({t})
  /\ UNCHANGED <<timeVars, attemptVars, request, leaseVars, memVars, pc, turn>>

RespondInput(a) ==
  /\ request[a] = "pending"
  /\ request' = [request EXCEPT ![a] = "answered"]
  /\ UNCHANGED <<taskVars, ctlVars, timeVars, attemptVars, leaseVars, memVars, pc,
                 turn>>

-----------------------------------------------------------------------------
(* Writes of src/cometa/store.py that several actions share. *)

(* finish_task: the verdict, its result row and final notification, the     *)
(* workspace lock and the open controls, or StaleLeaseError and no write.    *)
FinishTask(a, verdict) ==
  LET t == TaskOf(a) IN
  IF CanFinish(a)
  THEN /\ state' = [state EXCEPT ![t] = verdict]
       /\ results' = results \cup {a}
       /\ final' = final \cup {t}
       /\ cancelCtl' = cancelCtl \ {t}
       /\ wsLease' = ReleasedLease(a)
       /\ UNCHANGED <<current, attempts, deadlineCtl, asked>>
  ELSE UNCHANGED <<taskVars, ctlVars, wsLease>>

(* mark_recovery_required: no owner, epoch or attempt is compared. *)
MarkRecoveryRequired(t) ==
  /\ state' = IF state[t] \in Interruptible \cup {"recovering", "cancelling"}
              THEN [state EXCEPT ![t] = "recovery_required"] ELSE state
  /\ UNCHANGED <<current, attempts, results, final, ctlVars, wsLease>>

(* transition_task: CAS on current_attempt and on the state. *)
TransitionTask(a, from, to) ==
  /\ state' = IF current[TaskOf(a)] = NumberOf(a) /\ state[TaskOf(a)] \in from
              THEN [state EXCEPT ![TaskOf(a)] = to] ELSE state
  /\ UNCHANGED <<current, attempts, results, final>>

-----------------------------------------------------------------------------
(* The executor coroutine of attempt a: AttemptExecutor.run_attempt. *)

Goto(a, from, to) == Executing(a) /\ pc[a] = from /\ pc' = [pc EXCEPT ![a] = to]

UpdateLaunchPhase(a, p) ==
  /\ phase' = [phase EXCEPT ![a] = p]
  /\ UNCHANGED <<taskVars, ctlVars, timeVars, owner, lease, request, leaseVars,
                 memVars, turn>>

(* The probe answered; a task with a workspace prepares it first. *)
BeginPreparing(a) ==
  /\ WorkspaceOf[TaskOf(a)] # None
  /\ Goto(a, "probe", "preparing")
  /\ UpdateLaunchPhase(a, "preparing")

BeginConnecting(a) ==
  /\ IF WorkspaceOf[TaskOf(a)] = None THEN Goto(a, "probe", "opening")
                                      ELSE Goto(a, "preparing", "opening")
  /\ UpdateLaunchPhase(a, "connecting")

SessionOpened(a) ==
  /\ Goto(a, "opening", "opened")
  /\ UpdateLaunchPhase(a, "connected")

BeginDispatch(a) ==
  /\ Goto(a, "opened", "dispatching")
  /\ UpdateLaunchPhase(a, "dispatching")

(* start_turn returned a handle: the turn exists from now on. *)
TurnHandleSaved(a) ==
  /\ turn[a] # "none"
  /\ Goto(a, "dispatching", "handle")
  /\ UpdateLaunchPhase(a, "running")

EnterRunning(a) ==
  /\ Goto(a, "handle", "stream")
  /\ TransitionTask(a, {"starting", "recovering"}, "running")
  /\ UNCHANGED <<ctlVars, timeVars, attemptVars, request, leaseVars, memVars, turn>>

(* _fail_fast: a step of the launch raised, the stream ended in failure, or  *)
(* an await inside _consume_stream raised.                                    *)
FailFast(a) ==
  /\ Executing(a)
  /\ pc' = [pc EXCEPT ![a] = "done"]
  /\ FinishTask(a, "failed")
  /\ UNCHANGED <<timeVars, attemptVars, request, registrar, memVars, turn>>

(* An exception escapes run_attempt, e.g. a busy database under _fail_fast. *)
ExecutorRaises(a) ==
  /\ Executing(a)
  /\ pc' = [pc EXCEPT ![a] = "done"]
  /\ UNCHANGED <<taskVars, ctlVars, timeVars, attemptVars, request, leaseVars,
                 memVars, turn>>

(* The turn completed; unverified acceptance criteria make it partial. *)
StreamCompletes(a) ==
  /\ Goto(a, "stream", "done")
  /\ turn' = [turn EXCEPT ![a] = "ended"]
  /\ \E verdict \in {"succeeded", "partial"} : FinishTask(a, verdict)
  /\ UNCHANGED <<timeVars, attemptVars, request, registrar, memVars>>

(* The stream dropped and inspect knows nothing: _handle_dropped_stream. *)
StreamDrops(a) ==
  /\ Goto(a, "stream", "done")
  /\ MarkRecoveryRequired(TaskOf(a))
  /\ UNCHANGED <<timeVars, attemptVars, request, registrar, memVars, turn>>

(* _check_cancel reads cancelling and starts asking the backend to stop. *)
SeeCancel(a) ==
  /\ \/ Goto(a, "stream", "cancelling")
     \/ Goto(a, "input", "cancelling")
  /\ state[TaskOf(a)] = "cancelling"
  /\ UNCHANGED <<taskVars, ctlVars, timeVars, attemptVars, request, leaseVars,
                 memVars, turn>>

CancelConfirmed(a) ==
  /\ Goto(a, "cancelling", "done")
  /\ turn' = [turn EXCEPT ![a] = "ended"]
  /\ FinishTask(a, CancelVerdict(TaskOf(a)))
  /\ UNCHANGED <<timeVars, attemptVars, request, registrar, memVars>>

CancelUnconfirmed(a) ==
  /\ Goto(a, "cancelling", "done")
  /\ MarkRecoveryRequired(TaskOf(a))
  /\ UNCHANGED <<timeVars, attemptVars, request, registrar, memVars, turn>>

RegisterInputRequest(a) ==
  /\ TaskOf(a) \in Interactive
  /\ Goto(a, "stream", "input")
  /\ request' = [request EXCEPT ![a] = "pending"]
  /\ TransitionTask(a, Interruptible, "waiting")
  /\ UNCHANGED <<ctlVars, timeVars, attemptVars, leaseVars, memVars, turn>>

InputAccepted(a) ==
  /\ Goto(a, "input", "stream")
  /\ request[a] = "answered"
  /\ TransitionTask(a, {"waiting"}, "running")
  /\ UNCHANGED <<ctlVars, timeVars, attemptVars, request, leaseVars, memVars, turn>>

(* expire_stale_inputs on the request of a. *)
ExpireRequest(a) ==
  LET t == TaskOf(a) IN
  /\ request' = [request EXCEPT ![a] = "expired"]
  /\ state' = IF request[a] = "pending" /\ state[t] = "waiting"
              THEN [state EXCEPT ![t] = "cancelling"] ELSE state
  /\ UNCHANGED <<current, attempts, results, final>>

(* The poll loop reaches expires_at without an answer; when the expiry did *)
(* not interrupt the task the coroutine returns and leaves it as it is.    *)
InputTimesOut(a) ==
  /\ Executing(a) /\ pc[a] = "input"
  /\ request[a] \in {"pending", "expired"}
  /\ ExpireRequest(a)
  /\ pc' = [pc EXCEPT ![a] = IF state'[TaskOf(a)] = "cancelling"
                             THEN "cancelling" ELSE "done"]
  /\ UNCHANGED <<ctlVars, timeVars, attemptVars, leaseVars, memVars, turn>>

-----------------------------------------------------------------------------
(* The worker process: CometaWorker. *)

(* A worker registers when nobody holds an unexpired worker lease; a        *)
(* running one renews its own row even after it expired.                    *)
RegisterWorker(w) ==
  /\ registrar = None
  /\ worker[w] \in {"off", "up"} /\ recovery[w] = Idle
  /\ registrar' = w
  /\ worker' = [worker EXCEPT ![w] = "up"]
  /\ UNCHANGED <<taskVars, ctlVars, timeVars, attemptVars, request, wsLease,
                 recovery, pc, turn>>

ClaimTask(w, t) ==
  LET a == <<t, attempts[t] + 1>> IN
  /\ Ticking(w)
  /\ Cardinality(Active(w)) < MaxConcurrent
  /\ state[t] = "queued"
  /\ t \notin due
  /\ WorkspaceFree(t)
  /\ attempts[t] < MaxAttempts
  /\ state' = [state EXCEPT ![t] = "starting"]
  /\ current' = [current EXCEPT ![t] = attempts[t] + 1]
  /\ attempts' = [attempts EXCEPT ![t] = attempts[t] + 1]
  /\ owner' = [owner EXCEPT ![a] = w]
  /\ phase' = [phase EXCEPT ![a] = "claimed"]
  /\ lease' = lease \cup {a}
  /\ wsLease' = [k \in Workspace |-> IF k = WorkspaceOf[t] THEN a
                                     ELSE wsLease[k]]
  /\ pc' = [pc EXCEPT ![a] = "probe"]
  /\ UNCHANGED <<results, final, ctlVars, timeVars, request, registrar, memVars,
                 turn>>

EnforceDeadlines(w) ==
  LET queued == {t \in due : state[t] = "queued"}
      inFlight == {t \in due : state[t] \in Interruptible}
  IN /\ Ticking(w)
     /\ queued \cup inFlight # {}
     /\ state' = [t \in Task |-> IF t \in queued THEN "cancelled"
                                 ELSE IF t \in inFlight THEN "cancelling"
                                 ELSE state[t]]
     /\ final' = final \cup queued
     /\ deadlineCtl' = deadlineCtl \cup (inFlight \ cancelCtl)
     /\ cancelCtl' = cancelCtl \cup inFlight
     /\ UNCHANGED <<current, attempts, results, asked, timeVars, attemptVars,
                    request, leaseVars, memVars, pc, turn>>

ExpireStaleInput(w, a) ==
  /\ Ticking(w)
  /\ request[a] = "pending"
  /\ ExpireRequest(a)
  /\ UNCHANGED <<ctlVars, timeVars, attemptVars, leaseVars, memVars, pc, turn>>

(* _recover_orphans reads a task whose lease expired; from here on the      *)
(* worker decides on the state it read.                                      *)
ListOrphan(w, t) ==
  LET a == <<t, current[t]>> IN
  /\ Ticking(w)
  /\ current[t] # 0
  /\ state[t] \in ActiveStates \ {"queued"}
  /\ a \notin lease
  /\ a \notin Active(w)
  /\ recovery' = [recovery EXCEPT ![w] =
                    [attempt |-> a, seen |-> state[t], step |-> "listed"]]
  /\ UNCHANGED <<taskVars, ctlVars, timeVars, attemptVars, request, leaseVars,
                 worker, pc, turn>>

(* get_attempt: with the state read before, it decides safe_to_requeue. *)
ReadAttempt(w) ==
  LET safe == /\ recovery[w].seen = "starting"
              /\ phase[recovery[w].attempt] \in BeforeDispatch
  IN /\ worker[w] = "up" /\ recovery[w].step = "listed"
     /\ recovery' = [recovery EXCEPT ![w].step =
                       IF safe THEN "clear" ELSE "unclear"]
     /\ UNCHANGED <<taskVars, ctlVars, timeVars, attemptVars, request, leaseVars,
                    worker, pc, turn>>

(* begin_recovery: "recovering" itself is not in its WHERE clause. *)
BeginRecovery(w) ==
  LET t == TaskOf(recovery[w].attempt)
      taken == state[t] \in Takeable
      confirmed == IF recovery[w].step = "clear" THEN "safe" ELSE "unsafe"
  IN /\ worker[w] = "up" /\ recovery[w].step \in {"clear", "unclear"}
     /\ state' = [state EXCEPT ![t] = IF taken THEN "recovering" ELSE @]
     /\ recovery' = [recovery EXCEPT ![w] =
          IF taken THEN [recovery[w] EXCEPT !.step = confirmed] ELSE Idle]
     /\ UNCHANGED <<current, attempts, results, final, ctlVars, timeVars,
                    attemptVars, request, leaseVars, worker, pc, turn>>

RequeueSlip(w) ==
  LET t == TaskOf(recovery[w].attempt) IN
  /\ worker[w] = "up" /\ recovery[w].step = "safe"
  /\ state[t] = "recovering"
  /\ state' = [state EXCEPT ![t] = "queued"]
  /\ recovery' = [recovery EXCEPT ![w] = Idle]
  /\ UNCHANGED <<current, attempts, results, final, ctlVars, timeVars, attemptVars,
                 request, leaseVars, worker, pc, turn>>

RequeueTask(w) ==
  LET t == TaskOf(recovery[w].attempt) IN
  /\ worker[w] = "up" /\ recovery[w].step = "safe"
  /\ state[t] = "recovering"
  /\ state' = [state EXCEPT ![t] = "queued"]
  /\ current' = [current EXCEPT ![t] = 0]
  /\ recovery' = [recovery EXCEPT ![w] = Idle]
  /\ UNCHANGED <<attempts, results, final, ctlVars, timeVars, attemptVars, request,
                 leaseVars, worker, pc, turn>>

GiveUpRecovery(w) ==
  LET t == TaskOf(recovery[w].attempt) IN
  /\ worker[w] = "up"
  /\ \/ recovery[w].step = "unsafe"
     \/ recovery[w].step = "safe" /\ state[t] # "recovering"
  /\ MarkRecoveryRequired(t)
  /\ recovery' = [recovery EXCEPT ![w] = Idle]
  /\ UNCHANGED <<timeVars, attemptVars, request, registrar, worker, pc, turn>>

(* _graceful_stop: interrupt what is active, then leave after the grace. *)
GracefulStop(w) ==
  /\ w \in Crashable /\ worker[w] = "up" /\ recovery[w] = Idle
  /\ CancelTasks({TaskOf(a) : a \in Active(w)})
  /\ worker' = [worker EXCEPT ![w] = "stopping"]
  /\ UNCHANGED <<timeVars, attemptVars, request, leaseVars, recovery, pc, turn>>

Exit(w) ==
  /\ worker' = [worker EXCEPT ![w] = "dead"]
  /\ recovery' = [recovery EXCEPT ![w] = Idle]
  /\ pc' = [a \in Attempt |-> IF a \in Active(w) THEN "done" ELSE pc[a]]
  /\ UNCHANGED <<taskVars, ctlVars, timeVars, attemptVars, request, wsLease, turn>>

ReleaseWorker(w) ==
  /\ worker[w] = "stopping"
  /\ registrar' = IF registrar = w THEN None ELSE registrar
  /\ Exit(w)

WorkerCrash(w) ==
  /\ w \in Crashable /\ Up(w)
  /\ CrashInRecovery \/ recovery[w].step \notin {"safe", "unsafe"}
  /\ UNCHANGED registrar
  /\ Exit(w)

-----------------------------------------------------------------------------
(* Time and the agents. *)

DeadlinePasses(t) ==
  /\ t \in Deadlined \ due /\ state[t] \in ActiveStates
  /\ due' = due \cup {t}
  /\ UNCHANGED <<taskVars, ctlVars, outlived, attemptVars, request, leaseVars, memVars,
                 pc, turn>>

(* renew_lease keeps the lease of an attempt whose worker ticks in time. *)
LeaseExpires(a) ==
  /\ a \in lease
  /\ ~Running(a) \/ owner[a] \in Stallable
  /\ lease' = lease \ {a}
  /\ UNCHANGED <<taskVars, ctlVars, timeVars, owner, phase, request, leaseVars,
                 memVars, pc, turn>>

WorkerLeaseExpires ==
  /\ registrar # None
  /\ ~Up(registrar) \/ registrar \in Stallable
  /\ registrar' = None
  /\ UNCHANGED <<taskVars, ctlVars, timeVars, attemptVars, request, wsLease,
                 memVars, pc, turn>>

(* Nothing renews a workspace lease: it expires lease_seconds after the      *)
(* claim, however healthy the attempt that holds it is.                      *)
WorkspaceLeaseExpires(k) ==
  LET a == wsLease[k] IN
  /\ a # None
  /\ wsLease' = [wsLease EXCEPT ![k] = None]
  /\ outlived' = outlived \cup {a}
  /\ UNCHANGED <<taskVars, ctlVars, due, attemptVars, request, registrar,
                 memVars, pc, turn>>

(* The agent receives start_turn and begins to execute. *)
AgentStarts(a) ==
  /\ Running(a) /\ pc[a] = "dispatching" /\ turn[a] = "none"
  /\ turn' = [turn EXCEPT ![a] = "live"]
  /\ UNCHANGED <<taskVars, ctlVars, timeVars, attemptVars, request, leaseVars,
                 memVars, pc>>

(* The agent stops: its turn is over, its session closed or its process gone. *)
AgentStops(a) ==
  /\ turn[a] = "live"
  /\ turn' = [turn EXCEPT ![a] = "ended"]
  /\ UNCHANGED <<taskVars, ctlVars, timeVars, attemptVars, request, leaseVars,
                 memVars, pc>>

-----------------------------------------------------------------------------
Bot ==
  \/ \E t \in Task : SubmitTask(t) \/ RequestCancel(t)
  \/ \E a \in Attempt : RespondInput(a)

Launch(a) == \/ BeginPreparing(a) \/ BeginConnecting(a) \/ SessionOpened(a)
             \/ BeginDispatch(a) \/ TurnHandleSaved(a) \/ EnterRunning(a)

Consume(a) == \/ StreamCompletes(a) \/ StreamDrops(a) \/ SeeCancel(a)
              \/ CancelConfirmed(a) \/ CancelUnconfirmed(a)
              \/ RegisterInputRequest(a) \/ InputAccepted(a)
              \/ InputTimesOut(a)

Executor(a) == Launch(a) \/ Consume(a) \/ FailFast(a) \/ ExecutorRaises(a)

Recover(w) == \/ ReadAttempt(w) \/ BeginRecovery(w)
              \/ RequeueTask(w) \/ GiveUpRecovery(w)

WorkerStep(w) ==
  \/ RegisterWorker(w) \/ EnforceDeadlines(w) \/ Recover(w)
  \/ \E t \in Task : ClaimTask(w, t) \/ ListOrphan(w, t)
  \/ \E a \in Attempt : ExpireStaleInput(w, a)

Leave(w) == GracefulStop(w) \/ ReleaseWorker(w) \/ WorkerCrash(w)

Expiry ==
  \/ \E t \in Task : DeadlinePasses(t)
  \/ \E a \in Attempt : LeaseExpires(a)
  \/ \E k \in Workspace : WorkspaceLeaseExpires(k)
  \/ WorkerLeaseExpires

Next ==
  \/ Bot \/ Expiry
  \/ \E a \in Attempt : Executor(a) \/ AgentStarts(a) \/ AgentStops(a)
  \/ \E w \in Worker : WorkerStep(w) \/ Leave(w)

Spec == Init /\ [][Next]_vars

(* Workers tick, backends answer or raise, clocks advance; users, crashes,   *)
(* stops and exceptions are not fair.  Every pass of the loops of            *)
(* _consume_stream and _handle_input_request begins with _check_cancel, so   *)
(* a cancellation that stays is seen even if the agent keeps the loop busy.  *)
Fairness ==
  /\ \A w \in Worker :
       /\ WF_vars(RegisterWorker(w)) /\ WF_vars(EnforceDeadlines(w))
       /\ WF_vars(Recover(w)) /\ WF_vars(ReleaseWorker(w))
       /\ \A t \in Task : WF_vars(ClaimTask(w, t)) /\ WF_vars(ListOrphan(w, t))
  /\ \A a \in Attempt :
       /\ WF_vars(Launch(a) \/ Consume(a)) /\ SF_vars(SeeCancel(a))
       /\ WF_vars(AgentStarts(a)) /\ WF_vars(LeaseExpires(a))
  /\ \A t \in Task : WF_vars(DeadlinePasses(t))
  /\ WF_vars(WorkerLeaseExpires)

FairSpec == Spec /\ Fairness

(***************************************************************************)
(* Properties.                                                             *)
(***************************************************************************)

Verdicts == Terminal \ {"recovery_required"}
ByExecutor == {"succeeded", "partial", "failed", "timed_out"}

RecoveryRecord == [attempt : Attempt, seen : States,
                   step : {"listed", "clear", "unclear", "safe", "unsafe"}]

(* Every variable stays in the domain its table, column or coroutine has. *)
TypeOK ==
  /\ state \in [Task -> States]
  /\ current \in [Task -> 0..MaxAttempts]
  /\ attempts \in [Task -> 0..MaxAttempts]
  /\ results \subseteq Attempt /\ lease \subseteq Attempt
  /\ final \subseteq Task /\ cancelCtl \subseteq Task
  /\ deadlineCtl \subseteq Task /\ asked \subseteq Task /\ due \subseteq Task
  /\ outlived \subseteq Attempt
  /\ owner \in [Attempt -> Worker \cup {None}]
  /\ phase \in [Attempt -> Phases]
  /\ request \in [Attempt -> {"none", "pending", "answered", "expired"}]
  /\ wsLease \in [Workspace -> Attempt \cup {None}]
  /\ registrar \in Worker \cup {None}
  /\ worker \in [Worker -> {"off", "up", "stopping", "dead"}]
  /\ pc \in [Attempt -> Pcs]
  /\ recovery \in [Worker -> RecoveryRecord \cup {Idle}]
  /\ turn \in [Attempt -> {"none", "live", "ended"}]

(* A terminal state is never left, whatever late event, cancellation,       *)
(* recovery or stale executor still arrives (store.py: terminal states are   *)
(* not overwritten).                                                         *)
TerminalIsFinal ==
  [][\A t \in Task : state[t] \in Terminal => state'[t] = state[t]]_vars

(* A result row belongs to the attempt that is current, at most one per      *)
(* task, and only to a task with a verdict; a verdict of the executor has    *)
(* its result row, and every verdict has its final notification: finish_task *)
(* races with recovery, cancellation and a second worker for the same row.   *)
OneResult ==
  /\ \A a \in results : /\ current[TaskOf(a)] = NumberOf(a)
                        /\ state[TaskOf(a)] \in Verdicts
  /\ \A t \in Task : state[t] \in ByExecutor =>
                        \E a \in results : TaskOf(a) = t
  /\ \A t \in Task : t \in final <=> state[t] \in Verdicts

(* current_attempt is empty exactly while the task is not claimed, or is the *)
(* newest attempt: no claim or recovery ever points a task back to an older  *)
(* attempt, whose executor could then pass the fence again.                  *)
CurrentIsNewest ==
  \A t \in Task :
    /\ current[t] \in {0, attempts[t]}
    /\ state[t] \in {"none", "queued"} => current[t] = 0
    /\ state[t] \in ActiveStates \ {"queued"} => current[t] # 0

(* timed_out is only reported when the deadline passed, and cancelled only   *)
(* when somebody asked for it, the deadline passed or an input expired.      *)
InterruptionHasCause ==
  \A t \in Task :
    /\ state[t] = "timed_out" => t \in due
    /\ state[t] = "cancelled" =>
         \/ t \in asked \cup due
         \/ \E a \in Attempt : TaskOf(a) = t /\ request[a] = "expired"

(* Success is only reported for a turn the agent ended, run by the current   *)
(* attempt.                                                                  *)
SuccessWasExecuted ==
  \A t \in Task : state[t] \in {"succeeded", "partial"} =>
                     current[t] # 0 /\ turn[<<t, current[t]>>] = "ended"

(* The workspace lock is held by the newest attempt of its task, for the     *)
(* workspace of that task, and not once that attempt has written a verdict.  *)
WorkspaceLeaseOwned ==
  \A k \in Workspace : wsLease[k] # None =>
    LET a == wsLease[k] IN
    /\ WorkspaceOf[TaskOf(a)] = k
    /\ NumberOf(a) = attempts[TaskOf(a)]
    /\ a \notin results

(* "No evidence that the first stopped: no second execution": at most one    *)
(* attempt of a task ever reached the agent.                                 *)
AtMostOneExecution ==
  \A a, b \in Attempt :
    TaskOf(a) = TaskOf(b) /\ turn[a] # "none" /\ turn[b] # "none" => a = b

(* At most one task of a workspace is being executed (workspace.py: the      *)
(* database lock lets at most one writing task into a workspace).            *)
Occupies(a) == Running(a) /\ pc[a] # "probe" /\ WorkspaceOf[TaskOf(a)] # None
Share(a, b) ==
  /\ Occupies(a) /\ Occupies(b)
  /\ TaskOf(a) # TaskOf(b)
  /\ WorkspaceOf[TaskOf(a)] = WorkspaceOf[TaskOf(b)]
WorkspaceExclusive == \A a, b \in Attempt : ~Share(a, b)

(* What the lock does guarantee: two tasks are executed in one workspace     *)
(* only after the lock of one of them ran out while it was being executed    *)
(* (claim_next_task against finish_task, a crash and a requeue).             *)
SharedOnlyAfterExpiry ==
  \A a, b \in Attempt : Share(a, b) => a \in outlived \/ b \in outlived

(* Every accepted task is settled: whatever crashes, a worker that stays up  *)
(* brings it to a terminal state.                                            *)
Settles == \A t \in Task : state[t] = "queued" ~> state[t] \in Terminal

-----------------------------------------------------------------------------
(* The contract of TaskContract, read off the tables: an execution is an     *)
(* attempt whose turn reached the agent.                                     *)

Contract == INSTANCE TaskContract WITH
  life <- [t \in Task |-> CASE state[t] = "none" -> "absent"
                            [] state[t] \in ActiveStates -> "open"
                            [] OTHER -> "settled"],
  verdict <- [t \in Task |-> IF state[t] \in Terminal THEN state[t]
                                                    ELSE "none"],
  runs <- [t \in Task |-> {a \in Attempt : TaskOf(a) = t /\ turn[a] # "none"}],
  stopping <- asked \cup due
                \cup {t \in Task : \E a \in Attempt :
                        TaskOf(a) = t /\ request[a] = "expired"}

(* With no stalled worker, the tables, leases and processes implement the    *)
(* contract: accepted once, executed at most once, settled once, for a cause. *)
ImplementsContract == Contract!Spec

=============================================================================
