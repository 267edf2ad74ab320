# Stella: a TLA+ model of its durable work

Stella is a chat bot. Most of what it does is one conversation turn at a time;
some parts make promises that outlive a turn, a connection or a process, and
those are what this directory models:

* **Cometa** delegates long work to external agents. A task accepted in a chat
  is claimed by a worker process, executed by an agent, interrupted, recovered
  after crashes, and its verdict is reported.
* **Cometa's notifications** bring acknowledgement, progress, questions and the
  verdict back to the chat.
* **Scheduling** runs reminders and agent jobs of a group on a cron schedule.
* **Outbound transport** puts messages on the wire: one at a time per target,
  within the quotas of the platform, through the bot that was meant.
* **Corona**, the controller, saves configurations, applies them by restarting
  the core and goes back to the previous one when that fails.
* **Verification** asks a person about a memory candidate, once, and takes a no
  (or silence) for an answer.
* **Reply effects** watch what people say after a reply and settle what it meant,
  through a durable queue of jobs.

All but one are state machines in SQLite tables, driven by coroutines that may
stall, crash or be overtaken between two transactions; outbound transport is a
lock and queue protocol between coroutines of one event loop. That is where
tests are weak. Sections 1 to 3 describe the system, the modules and their
properties, 4 and 5 the runs, 6 the proofs, 7 what is left out, 8 the plan.

## 1. Inventory

`core/` below is short for `src/core/` and so on; `bot_main` is
`src/stella_project/plugins/bot_main`.

| Component | State it keeps | Operations | Interacts with | What makes it correct |
|---|---|---|---|---|
| Cometa store, executor, worker (`cometa/store.py`, `executor.py`, `worker.py`) | tables tasks, attempts, results, controls, input_requests, workspace_leases, worker_leases; a coroutine per attempt | submit, cancel, respond; claim, launch phases, stream, finish; deadlines, input expiry, lease renewal, recovery, graceful stop | service and chat (same database), backends (calls), notifications (rows written in the same transactions) | one final verdict with a cause; one execution; exclusive workspace; every task settles |
| Cometa notifications (`cometa/delivery.py`, `bot_main/cometa_bridge.py`) | table notifications, tasks.delivery_state; what pump and handler hold | upsert, claim, send (file, forward, text), mark, retry | store, chat platform | no row sent by two at once, no text twice, no false report |
| Cometa service, policy, presentation, configuration | none of its own | permission and quota checks, formatting | store | decisions before the store calls |
| Cometa workspaces, artifacts, supervisor, backends | worktrees, files, agent processes | git, file collection, process control | executor | files stay inside the workspace; processes end |
| Scheduling (`bot_main/scheduling/`: store, runtime, delivery, agent, service) | tables tasks, runs, quotas, worker_lease; cursors in memory | create, edit, pause, resume, cancel, run now; tick: lease, recovery, enqueue, claim, execute, deliver | language model, chat platform, the group's chat turns (a lock) | one post per run, one run of a group at a time, fenced by edits, keeps firing |
| Scheduling: cron, commands, context | none | parsing, next fire, text | runtime | next_fire is the least admissible instant, DST included |
| Transport: outbound (`core/transport/scheduler.py`, `outbound.py`, `gravitas/deadlines.py`) | lanes (a lock and a count of waiters per target), quota events per bucket, bindings of connections to bots | bind, unbind; send: enter a lane, reserve quota, put each part on the wire, retry, summarise, leave | exporters of the platforms; every sender of the bot | a target is serial, quotas hold, the result is true, the bot is exact, lanes are given back |
| Transport: ingress, adapters | deduplication windows | normalise | platforms | one event, one turn |
| Corona (`corona/`: config_store, operations, recovery, supervisor, app) | `.env`, revisions, transactions, operations, desired and applied revision; the supervisor's attempts | save, restore, import of external edits; apply, restart, core start and stop; recovery at startup | the core process (nucleus), WebUI, editors of `.env` | file and log agree after any crash; one try of recovery; an operation ends and says what is in effect |
| Nucleus (`nucleus/`) | lifecycle of the managed process, group bindings | ready, drain, bind | corona | drains before it stops |
| Verification (`mneme/verification.py`, `mneme/consolidator.py`, `mneme/memory_manager.py`, `aoede/verification/service.py`) | memory_candidates and their evidence, verification attempts, rejection tombstones, the candidate asked last | consolidate a batch, promote; pick, reserve, ask, record the receipt, settle by reply or deadline | language model, outbound transport | silence counts only against a question that was sent; a denied claim is not asked or learnt again |
| Reply effects and their worker queue (`mneme/social_worker.py`, `reply_effect_service.py`, `social_store.py`) | social_effects with their windows, evidence and contributions, social_events, social_jobs | open, record an event; tick: sweep, lease, resolve, complete, fail | chat turn (receipts), the passive listener (events) | a window is settled once and as a whole, a message is claimed once, every effect is settled |
| Mneme: extraction, retrieval, compaction | memory database | extract, rank, compact | language model | mostly model output |
| Gravitas (`gravitas/`) | pressure samples, policy snapshots | admission, hysteresis | cometa (claim policy) | no flapping, fails closed |
| Aoede: proactive speech (`aoede/`) | budget of proactive messages, episodes | score, decide | chat turn | the budget is not exceeded |
| Turn pipeline, LLM clients, social state (`core/runtime`, `core/llm`, `core/social`) | per turn | compose, call, reply | everything | mostly model output |
| Capabilities, knowledge base, plugin compatibility | registries, document index | retrieve, rank, call | turn pipeline | data |
| WebUI, dashboard, desktop, cli, installers | UI state | - | HTTP | - |

What is hard. In Cometa and Scheduling, two processes (the bot and the worker) and
several workers share tables; every await is a window in which a lease can lapse,
an edit, a cancel or a deadline can arrive, or a process can die; calls to agents
and to the platform can succeed without an answer. In the transport, a lane is
shared by coroutines that arrive, time out and are rebound in any order, and its
lock is sometimes taken by a task that runs later. In Corona a file and a database
must agree although no transaction spans them, and the process that recovers may
die as well. In Verification a coroutine decides on a candidate, waits for a model
and sends, while the tables it read are settled and rewritten. `PROJECT.json` lists
each hazard at its line with the property that watches it.

## 2. Modules

| Module | What it is |
|---|---|
| `CometaTask` | tasks, attempts, leases, executor coroutine, worker, recovery |
| `TaskContract` | what Cometa promises about a task, abstractly |
| `CometaNotify` | notification rows, pump, acknowledgement, sender |
| `Scheduling` | scheduled tasks, runs, worker loop, delivery |
| `ReportContract` | what a table of outgoing messages promises; `CometaNotify` and `Scheduling` implement it |
| `Outbound` | lanes, quotas, bindings, the parts of a send |
| `DeliveryContract` | what outbound delivery promises to callers and to a chat |
| `Corona` | configuration store, operations, recovery at startup, supervisor |
| `OperationContract` | what operations on the core promise to an operator |
| `Verification` | candidates, attempts, tombstones, the coroutine that asks |
| `QuestionContract` | what one-shot verification promises to the person who is asked |
| `SocialEffects` | windows of replies, evidence, the queue of jobs and its tick |
| `MC...` | the small instances of each for TLC |
| `...Proofs` | the theorems about each for every value of its constants; `CoronaStoreProofs` holds those about the configuration store, on top of `CoronaProofs` |

Every module is parameterised by CONSTANTS with named assumptions; the proofs use
these and nothing else, and TLC evaluates them in every run.

### CometaTask

An action is one database transaction with the assignments up to the coroutine's
next await. The tables are `state`, `current`, `attempts`, `results`, `final`,
`cancelCtl`, `deadlineCtl` (tasks and controls), `owner`, `phase`, `lease`
(attempts), `request`, `wsLease`, `registrar` (worker_leases). Memory is `worker`
(process), `pc` (coroutine of an attempt) and `recovery` (what `recover_task` read
before it writes). `turn` is the external agent. `asked` and `outlived` are history variables.

* The **launch** has one action per `update_launch_phase`, and `AgentStarts` between
  the call of `start_turn` and the return of its handle: the window that
  `dispatching` exists for.
* **Recovery** is split where the code splits it: `ListOrphan` (read of the task),
  `ReadAttempt` (read of the attempt and decision), `BeginRecovery`, then
  `RequeueTask` or `GiveUpRecovery`. The worker is one thread, so while it is in
  there its coroutines do not move (`Executing`), but the bot process does.
* A **cancellation** is `state = cancelling` plus a control row; the coroutine sees
  it at the top of its loops (`SeeCancel`), asks the backend, and reports
  `timed_out` or `cancelled` by the control rows (`CancelVerdict`).
* **Leases** are live until an expiry action. `LeaseExpires` is possible when the
  worker is gone, or is in `Stallable`: one that can be suspended for longer than
  a lease. That is not far-fetched: `_run_git` (`workspace.py`) runs in the event
  loop and may take 60 s, a lease is 30 s. The lease of a workspace is written
  once and never renewed: `WorkspaceLeaseExpires` is always possible, and `outlived`, a
  history variable, remembers under whose execution it happened.
* A worker that stops gracefully waits 20 s by default, less than a lease.

`TaskContract` has four variables (life, verdict, runs, stopping) and says: a task is
accepted once, settled once, executed at most once, cancelled or timed out only
for a cause. `ImplementsContract` is the refinement, its mapping is the `INSTANCE`
at the end of `CometaTask`.

### CometaNotify

One task and its four kinds of rows. The worker's writes (`Submit`, `Progress`,
`AskInput`, `Finish`, `Abandon`) are those of the transactions of `CometaTask`. The
pump reads a batch, then claims, renders, sends and marks one row after the other, in
the order of their creation;
the chat handler that accepted the task does the same with the acknowledgement
(`Gate...`). A long result in a group is two calls, a file (or a forward) and a text,
and the bot may go offline between them. The pump reaches this branch: `_deliver_one`
passes `claimed.payload` to the sender (`delivery.py:172`), `_FunctionSender` hands it on to the
wrapped function (`delivery.py:64-65`), and the `send` that `make_notification_sender` returns
takes it (`cometa_bridge.py:276`) and reads the reference and the length of the full text that
`finish_task` put into the final row (`store.py:1639-1640`). A platform call may be accepted, be
refused because the bot is offline, or end with an unknown outcome that was or was
not accepted. `BotCrash` forgets everything but the table.

`ReportContract` is the promise that this table shares with the runs of `Scheduling`: the
platform takes a message once at most, a row ends once at most, what the end says is true,
and only an end that says *unknown* leaves it open whether the message still arrives.
`ImplementsReport` is the refinement in both modules. Here it is about the rows that are
written once: a progress row is armed again for newer news.

### Scheduling

Time is a sequence of instants at which a task is due (0..Horizon). A worker is a
program counter over the statements of `tick_once` and `_execute`: lease,
recovery, list, enqueue one task after the other, claim, run, deliver. A crash
forgets cursors and the run in hand; a restarted worker has the same worker_id,
as `ai_gateway.py` gives it a fixed one, so it still owns its old runs. User commands
(`EditTask`, `SetStatus`, `CancelTask`, `RunNow`) happen in between. `posts` counts the
messages the platform accepted for a run; a send that times out may be
accepted late, which is counted at the call. A run that lease recovery closed as
`delivery_unknown` may still be posted by the worker that lost it; this is the one step after
an end that `ReportContract` allows.

### Outbound

One connection of a platform with several targets. Everything runs on one event
loop, so an action is the code between two suspension points and nothing else can
come in between: `Refuse` and `Arrive` are `_send` and `run` up to the first await
(deadline, binding, lane, count), `Acquire` and `WakeUp` take the lock, `GiveUp` is
the timeout of `wait_for`, `Resume` the budget check and the first `current_bot`.
`Reserve...` are the turns of the loop of `_reserve_part`, then the physical send ends
in `Accepted`, `Failed`, `RateLimited`, `Unanswered` or `WireDeadline`.

* A **lane** is the lock object with its count of waiters, named by the send that
  made it: a second lane of the same target is a second object, which is what the
  run `outbound_serial` shows. `lanes` is the dictionary, `lane` what a send holds on
  to, `fifo` the waiters inside the `asyncio.Lock`.
* A send with a **deadline** takes its lock in a task of its own
  (`gravitas/deadlines.py`), one loop iteration after it decided that the lane was
  free: the program counter `acquiring`. The constant `Burst` says whether another
  send may be called in that same iteration.
* `LeaveLane` is the finally clauses as a whole: release, uncount, drop an idle lane.
* A **caller** may be cancelled at any await (`Cancel`): `deliver` of scheduling wraps its send in
  `wait_for`, and a bot stops its tasks. The sends whose caller does so are `Impatient`.
* If the timer or the cancel arrives in the iteration in which the task of `lock_with_deadline` got
  the lock, `wait_for` raises and `acquired` is still False: `TimeoutAtGrant` and `Cancel` by way of
  `LoseLock` leave the lock held by a send that is over.
* The platform takes a part (`reached`) or not; without an answer it may have done
  either. `log` records every physical send for the quota and the bot.
* The deque of instants of a bucket is a set of **reservations**, each with its instant.
  The two agree as long as no reservation is repeated, which `ReservationsFresh` proves.

`DeliveryContract` has four variables (target, stage, what the platform took, answer). It says
that the messages of a delivery reach their target in order, none twice and none of another
delivery in between, that the caller is answered once and truly or was cancelled, and that nothing is taken
after that. `ImplementsDelivery` maps a send to `sending` from the moment its coroutine
resumes with the lane.

### Corona

The variables are the file (`env`), the rows of the control database (`revisions`,
`txns`, `desired`, `applied`, `wanted`, `conflict`, `ops`), the controller process
(`ctl`, `undone`, `decision`, `todo`) and its supervisor (`core`).

* **save and restore** log what they will do, compare, replace the file, commit:
  `SaveBegin`, `SaveCheck`, `Replace`, `SaveCommit` (`UndoBegin`, `Replace`,
  `UndoCommit`). They never suspend, so between their steps (`disk`) only `Edit` (an
  editor of the file) and `Crash` can happen.
* **Operations** have an action per phase that is written: `Accept`, `Prepare`, `Drain`,
  `Drained`, `Stopped`, `Verify`, and the way back, `Restore`, `StartPrevious`,
  `PreviousDone`. What an operation writes to the control database is a commit of its own:
  `set_applied_revision`, `set_desired_core` and the transition are separate transactions. An
  action that decides on several puts them into `todo`, and `CommitApplied`, `CommitWanted`
  and `CommitPhase` carry them out in that order; only `Crash`, and `Edit`, can come
  between them, since the coroutine does not suspend.
* **Startup** is `BootStore` (a PREPARED transaction is decided by the file, then edits
  are imported), `Decide` (`prepare_startup`, its seven outcomes), `BootRestore`,
  `BootPrevious`, `Launch`, `Finalize`.
* **Supervisor**: `CoreReady`, `CoreFails`, `BackoffEnds`, with the single attempt of
  `start_once`, which is restored to `max_attempts` once the core is ready.
* The restart scope of a change is a free choice, except where the code fixes it.

`OperationContract` knows the revision in effect and the operations, each with its target, what
was in effect before it and what it said, and nothing of files, processes and phases. It says
that operations are done one after the other, that nothing but the operation under way changes the
revision in effect, to its target or back to what was in effect before it, and that an answer is
given once and names what is in effect. A controller that stops between `set_applied_revision` of
the previous revision and `rolled_back` leaves an operation that the next start calls failed with the
old revision in effect: for that the contract allows the way back before the answer. `ImplementsOperations` maps `applied`
and `ops` to it.

### Verification

One person in one group. `candidates` and `lineage` are the rows of memory_candidates
and of their evidence, `attempts` and `tombstones` those of `verification.py`,
`asking` the locals of a coroutine of `proactive_at_user`, `recovered` the flag of the
process. `Consolidate` writes the candidates of a batch and promotes (two
transactions: the process may stop between them). A coroutine goes `Pick`, `Open`
(reservation and contract, after the nickname), `Validate` (after the turn of the
model) or `Abandon`, `Deliver`, `Mark` (by receipt), `RecordAt`. `SettleReply` and
`ResolveExpired` decide a question by a reply or by its deadline. `sent` is a history
variable: the questions that reached the group.

`QuestionContract` knows what each question is about, who saw it, how it ended and which
candidates take part in learning; coroutines, receipts and deadlines are gone. It says that one
question is open per claim and reaches the person once, that yes, no and silence count only for
a question that was seen and a withdrawn one never was, that a no stops the learning, and,
if verification is enforced, the asking too. `ImplementsQuestions` maps the attempts to it:
`RESERVED`, `PENDING_VERIFICATION` and `DELIVERY_UNKNOWN` are all open.

### SocialEffects

Instants are positions in `log`, the messages of the group: `from` is the number of
messages before the first acknowledgement of a reply, `until` that at the end of its
window. A message is its author and whether it quotes a reply, quotes something else,
addresses the bot or none of these, which is all that `Attribution` looks at. `job` is the
row of social_jobs, one per effect, since its key is unique; a row whose lease has run
out is written `expired`. `tick()` does not await, so while `tick # "idle"` no message
arrives; but `Sweep`, `Lease`, and for each job `Resolve` and `Finish` are transactions of
their own, and after each of them the process may stop (`Crash`) or the database fail
(the disjuncts with `Fault`). What an error does differs from place to place and is
modelled where it happens: `enqueue_job` swallows it (a sweep commits what it enqueued before and
after the error), `lease_due_jobs` returns the jobs it
had read, `complete_job` ends the tick, `fail_job` does not. `Lost` names the reads that
return nothing instead of an error.

### Conventions

A definition whose name ends in `Slip` is a plausible mistake in the code (a dropped
guard, a state missing from a set, a field that is not reset). It is not part of the
specification. Putting it in the place of the definition below it must break the
property that `PROJECT.json` names under "mutants"; this shows that the property
has teeth.

## 3. Properties

`CometaTask`

* `TerminalIsFinal` - a verdict is never overwritten, however late an event arrives.
* `OneResult` - results, verdicts and final notifications agree, although
  `finish_task` races with recovery, cancellation and a second worker.
* `CurrentIsNewest` - the fence never points back to an older attempt.
* `InterruptionHasCause` - `timed_out` needs a passed deadline; `cancelled` a request,
  a deadline or an expired question.
* `SuccessWasExecuted` - success only for an ended turn of the current attempt.
* `WorkspaceLeaseOwned` - the lock belongs to the newest attempt of its task, and never
  to one that wrote a verdict.
* `WorkspaceExclusive` - two tasks of a workspace are not executed together (does not hold,
  section 5). `SharedOnlyAfterExpiry`, that an expired lock is the only way to it, is proved.
* `AtMostOneExecution` - no second execution without proof that there was no first.
* `Settles` - every accepted task reaches a terminal state.
* `ImplementsContract` - all of the above as seen by the requester.

`CometaNotify`: `OneSender` (a row is in one hand), `TextOnce` (no text is
accepted twice), `ReportIsTrue` (sent means accepted), `FilesBounded` (one upload
per try at most), `NeverRearmed` (a finished row other than progress stays so),
`ImplementsReport` (the contract of a table of messages; with it `TextOnce` and
`NeverRearmed` need no run of their own, they are theorems),
`UnknownWasAsked` (unknown means that the platform was called; it does not hold,
section 5).

`Scheduling`: `PostedOnce`, `ReportIsTrue`, `GroupIsSerial`, `EndedIsFinal`, `SlotFrees`
(an abandoned run gives its slot back), `ImplementsReport` (as above; its invariant
`ReportIsTrue` is a theorem, no run repeats it); `FencedBeforeSending` and `KeepsFiring` do
not hold (section 5).

`Outbound`

* `TargetSerial` - two sends of a target are never both past the lock.
* `ResultIsTrue` - accepted, partial, failed, expired and unknown say exactly what the
  platform took, in order and nothing twice, with retries and parts that got no answer.
* `QuotaRespected` - no rolling window holds more physical sends than its limit,
  retries and other targets of the bucket included.
* `ExactBot` - a message leaves through the bot it was addressed through, whatever was
  bound while it waited.
* `LanesAreReturned` - every way out of a lane takes back the count and the place in the queue that
  it added, and a lane is only lost with a lock that was lost at its grant. `NoLockLeak`, that none is
  lost, does not hold (section 5).
* `DeadlineSendsEnd` - a send with a deadline returns, whatever happens before it.
* `ImplementsDelivery` - all of this as the caller and the chat see it (`DeliveryContract`).
* `FreshReservations` - a reservation is never repeated (proved).

`Corona`

* `DesiredIsOnDisk` - `.env` is the desired revision unless somebody edited it since or
  the conflict is on record, after a crash at any step of save, restore or recovery.
* `LogIsTrue` - a COMMITTED save really became the desired revision, an ABORTED one
  did not, and no transaction stays PREPARED.
* `AppliedWasReady` - the applied revision is one a core was ready with, so that there
  is always one to go back to.
* `RecoveryOnce` - the previous configuration is tried once per operation at most.
* `ImplementsOperations` - the verdict of an operation says what is in effect and is given
  once, and only an operation under way changes it (`OperationContract`). `EndIsTrue`, the part
  of it about verdicts, and that a core is ready after a rollback, is a theorem of its own.
* `OperationsEnd` - every operation ends, however often it is interrupted.
* `RolledBackForCause` - a rollback needs a fault (does not hold, section 5).

`Verification`

* `OneOpenQuestion` - one open question per claim, even if the process stops between
  a send and its receipt.
* `NegativeIsOff` - no later batch revives the candidate of a negative answer.
* `NoSecondQuestion` - a candidate is not asked about again after a negative answer,
  not even by a coroutine that had picked it before.
* `ImplementsQuestions` - the steps of a question are those of `QuestionContract`.
  `RejectedForCause`, the part of it that denied, unclear and unanswered need a question that
  was sent, is a theorem of its own.
* `QuestionsSettle` - an acknowledged question is decided, across restarts.
* `NoReplay`, `ReservationHeld` - do not hold (section 5).

`SocialEffects`

* `ClaimedOnce` - a message is strong evidence for one reply, in whatever order the jobs of
  overlapping windows are done, repeated or lost.
* `WholeWindow` - a settled effect has evaluated every message of its window, so neither a
  retry nor a swept or expired job settles it too early.
* `EffectsSettle` - every effect that was opened is settled, although a full queue dropped
  its job or the process stopped on the way.
* `DoneIsSettled` - a job that is done has settled its effect (proved; `EffectsSettle` would
  fail without it).
* `CountedOnce`, `SweepRestores` - do not hold (section 5).

`TypeOK` of `CometaTask`, `CometaNotify`, `Scheduling`, `Verification` and `SocialEffects` is a
theorem (`TypeCorrect`, which holds the daily cap of `Scheduling` as well); `Corona` and `Outbound`
are proved about with the part of it that their proofs need.

## 4. Runs that pass, their bounds and fairness

| Run | Instance | Why it is enough |
|---|---|---|
| `cometa_faults` | 1 task, 2 workers that crash or stop, one stalls, 2 attempts, every interruption | the hard cases are one old and one new attempt of one task; a third attempt repeats the second |
| `cometa_settle` | 1 task with a workspace, 2 workers, one crashes outside `recover_task`, every interruption | liveness, refinement, and the lock under crash and requeue; one task, since tasks only meet at locks and quotas, and the theorems are about any number |
| `notify_deliver` | 2 progress events, 2 tries, long result, crashes | two progress events show merge and re-arming; two tries show a retry and its limit |
| `scheduling_runs` | 1 agent task, 2 workers, 2 due instants, 2 revisions, 2 faults, cap 2 | a run that is abandoned and taken over, under an edit; the cap must be at least 2, or the quota hides a second execution |
| `scheduling_group` | 2 reminders of one group, 2 workers, 2 faults, run on request | two runs that contend for one group while leases lapse |
| `outbound_send` | 3 sends (two to one target, one of them with a deadline and one of two parts), a bucket for both targets, queue of 1, 1 retry, 1 rebinding, 3 instants; the callers of two sends, one with a deadline and one without, may be cancelled | a lane needs a holder, a waiter and a refusal; a bucket two targets; a part another one after it |
| `corona_operations` | 1 save, 1 edit, 2 operations of any kind, 2 faults, 2 starts of the supervisor | a save and an edit on either side of an operation; the second fault hits the recovery from the first, and either may fall between two commits |
| `verification_ask` | 2 claims, 2 source messages, 2 coroutines, 2 candidates, 2 attempts, 2 batches, 1 stop | a question in flight, a second coroutine that picked the same or the other claim, a batch that meets a settlement |
| `social_settle` | 2 replies, 2 people, 2 messages, windows capped at 1 message, queue of 1, 2 tries, 1 fault | overlapping windows, a window longer than its cap, a job dropped at the limit, one retry or one crash; `MCSocialEffects` with 3 replies, a queue of 2 and 1 message was checked as well |

`AtMostOneExecution` is checked as passing only without stalls; section 5 says how it fails with
them.
`cometa_settle` excludes a crash between the two steps of `recover_task`, and
`social_settle` a second fault, for the same reason. In `cometa_settle` only one worker may
crash, so a task is requeued at most once and the bound of two attempts is never
what keeps a task from being claimed.

Fairness, which is always that of the code's own loops and of the clock:

* Cometa: workers tick (registration, deadlines, recovery, claim), backends
  answer or raise (`Launch`, `Consume`), clocks advance (lease and deadline expiry).
  `SeeCancel` is strongly fair, because each pass of the two loops begins with
  `_check_cancel`, while an agent that keeps asking questions enables and disables
  it for ever.
* Scheduling: a tick, an execution step or a restart of some process is weakly fair,
  and so are the expiries.
* Outbound: time passes, and each coroutine that the event loop can resume is resumed.
  The platform need not answer: a deadline must end the send all the same.
* Corona: a store transaction that began goes on, an operation that the controller runs
  goes on, a controller that stopped is started, a core becomes ready or fails.
* Verification: deadlines pass and the periodic `resolve_expired` runs. Nobody has to
  answer, and coroutines may stop anywhere.
* SocialEffects: `expression_sweep_job` calls `tick` again and again, windows close, back-offs
  and leases end. Nobody has to speak.

Users, crashes, stops, exceptions and errors of the database are never fair. A bound that
stops an action for good (attempts, revisions, faults, time) can end a behaviour early,
which is why deadlock is not checked: a system with all its work ended is idle.

## 5. Where the code differs from what it says

Three runs show a disagreement as TLC's shortest behaviour:

* `cometa_workspace` (`WorkspaceExclusive`) - `workspace.py:11-12` says that a workspace has at
  most one writing task, by the lock in the database. `claim_next_task` writes the expiry of that lock
  once (`store.py:863`) and `renew_lease` renews the attempt only: a task that takes longer than
  `lease_seconds`, 30 s by default, shares its tree with the next one. Nothing crashes or stalls.
* `outbound_serial` (`TargetSerial`) - the class docstring of `core/transport/scheduler.py:40`
  says that each exact target is serialised. A send with a deadline locks its lane one loop
  iteration after it found it free. If a second send is called in that iteration it finds the
  lane free too; when the first one ends, it deletes the lane under the second, and a third
  send makes a new lane and runs beside it.
* `corona_apply` (`RolledBackForCause`) - `docs/plans/2026-10-23-corona-nucleus-engineering-plan.md:197`
  and `:200` keep the rollback for failures. A change of a controller setting restarts the
  controller in the middle of the operation; only kind restart knows how to go on, so the new
  controller rolls an apply back although nothing failed.

Others are stated as definitions without a run of their own. Each is violated by the
instance named here, with the other constants as in the passing run.

| Definition | Instance | What the code says, and what it does |
|---|---|---|
| `AtMostOneExecution` | `cometa_settle` with a worker in `Stallable` | `tests/cometa/test_recovery.py:6`: no second execution without evidence that the first stopped. The executor ignores the result of `update_launch_phase`; after a stall it starts a turn that another worker has started already |
| `Settles` | `cometa_settle` with `CrashInRecovery` = TRUE | `worker.py:10-12`: what was not stopped is settled by lease expiry and the recovery matrix. A crash between `begin_recovery` and `requeue_task` leaves `recovering`, which `begin_recovery` does not take |
| `UnknownWasAsked` | `notify_deliver` | `delivery.py:9-16` keeps `delivery_unknown` for calls whose outcome is not known. The executor's progress notifications have no target, so they are refused before any call, and end in that state |
| `NoLockLeak` | `outbound_send` | `deadlines.py:96`: the lock is released exactly once. If the timeout, or the cancellation of the caller, meets the iteration in which `acquire()` ended, `wait_for` raises, `acquired` is still False and nobody releases it: the lane of that target stays locked |
| `FencedBeforeSending` | `scheduling_runs` | `docs/guides/scheduling.md:78-79` promises a check of revision and status before sending. The last one is before the model call |
| `KeepsFiring` | `scheduling_runs` | the docstring of `record_task_fired`: `last_run_utc` is for display and not for correctness. A restarted worker rebuilds its cursor from it; a crash between `insert_run` and `record_task_fired` makes `insert_run` refuse the same fire for ever |
| `NoReplay` | `verification_ask` with `MaxCrashes` = 0 | `consolidator.py:1843-1846`: the guard keeps a denied claim from being made again from the same sources. It is called with the owner of the candidate, which is empty for a group, while the tombstone carries the person |
| `ReservationHeld` | `verification_ask` with `MaxCrashes` = 0 | `verification.py:13`: what was certainly not sent is CANCELLED. The early returns of `service.py:545-650` leave it reserved, and the claim is never asked about again |
| `NoSecondQuestion` | `verification_ask` with `Enforce` = FALSE, which is the default (`settings.py:1655`) | a claim that was denied is not asked about again. Without enforcement the candidate is not looked at again before the send |
| `CountedOnce` | `social_settle` | `reply_effect_service.py:11-12`: feedback that another effect took as direct or probable is not counted again. The contribution is computed at line 338, the claims are compared at 389, in the transaction that writes it |
| `SweepRestores`, `EffectsSettle` | `social_settle` with `MaxFaults` = 2 | `reply_effect_service.py:461`: the sweep gives an overdue effect without a job under way a new one. After two errors the job is dead; its key is unique, so `INSERT OR IGNORE` ignores the new one, and `prune_jobs`, which would delete the dead row, has no caller |
| `WholeWindow` | `social_settle` with `Lost` = {"events"} | `reply_effect_service.py:17`: missing data is recorded as insufficient. `events_since` returns no rows after an error, and `resolve_effect` records an empty window as complete |

Met while modelling, and true of the model as well:

* Cometa: `recover_task` decides on a state read before `begin_recovery`; a cancellation
  accepted in between is requeued. `mark_recovery_required` compares no attempt. A row in
  state `sending` is taken up by nobody after a crash of the bot.
* Verification: `settle_reply` looks at the latest pending attempt only and does not compare
  the deadline; a batch may strengthen a candidate with an open question; a confirmed
  candidate may be asked about again; the guard of the promotion passes no digests and
  compares numbers with strings (`memory_manager.py:489-498`, `verification.py:467`); of several
  tombstones only the latest counts.
* Corona: a core that died after it became ready is not started again when an operation
  had started it (`supervisor.py:127`); the scope of a rollback comes from the diff of the
  target; a `core_stop` that a restart answers as succeeded (`recovery.py:51-52`) has its desired
  core written in a second transaction, and a crash between the two lets the core start again;
  `needs_reconcile` is never cleared (`operations.py:146-165`); an edit of `.env` between
  the comparison and the replacement is lost.
* Reply effects: two tries in all, where the docstring of `social_worker.py` promises two
  retries; `social_asset_usage.effect_id` is never written, so `handle_effect_feedback` finds
  nothing to quarantine; an error of `complete_job` ends the tick with jobs leased.

## 6. Proofs

All theorems are about any sets, limits and bounds that satisfy the named assumptions of the
module, and with every crash, stall, fault and interruption allowed, except where an
assumption is named below. Three things stay with TLC: liveness under fairness
(`Settles`, `SlotFrees`, `DeadlineSendsEnd`, `OperationsEnd`, `QuestionsSettle`, `EffectsSettle`;
the proof system does not reason about ENABLED), what recursive or filtered data contains for
every input (induction over data), and the definitions of section 5, which are false. Every
invariant, action property and refinement that a passing run checks is a theorem, some of them
under an assumption that is named below and that the run's instance meets.

The counts below leave out `Inductive`, the theorem that the inductive invariant `IInv` of a
module holds.

**CometaTask** (10 theorems). `TypeOK` is inductive as it stands. `VerdictIsFinal`,
`FenceIsNewest` and `ResultIsUnique` are about what an action does to the rows of tasks, so
lemma `StepEffect` reduces the 37 actions to five *effects* on
`state, current, attempts, results, final`: states move within the active ones or to an end
without result, a task is submitted, a claim makes the newest attempt current, a requeue
empties the fence, a finish writes verdict, result and final notification together. Each
invariant is then shown for each effect. `SuccessIsExecuted`: what a coroutine reads from the
agent stays true until it is stored. `InterruptionsHaveCause` needs that a pending question and a
state `cancelling` have a cause (`Asking`, `StoppedForCause`). `LockIsOwned`: a lock changes hands
with the fence. Under `ASSUME Stallable = {}`, `ExecutedAtMostOnce` rests on `OneDriver`: the
coroutine that runs is that of the newest attempt, the agent only has a turn of the newest
attempt, and a recovery that decided *safe* is right about it. `WorkspaceIsExclusive`
adds `LockHeld`: who executes in a workspace holds its lock, or it ran out under him. `ContractIsKept` is the
refinement: a step of the detailed specification is a step of `TaskContract` or a stutter
(`BeginsOnce`, `SettlesOnce`, `StepOfContract`).

**CometaNotify** (7). The invariant ties what pump and handler hold to the row: whoever
holds a row owns its state `sending`, a row that can still be claimed was not accepted.
`SenderIsAlone`, `TextAtMostOnce`, `ReportsAreTrue`, `FilesAreBounded` and `DoneStaysDone` follow.
`ReportIsKept` is the refinement of `ReportContract`: lemma `CallsEffect` shows that a step either
leaves `calls` alone, and then what became of the rows is a `Report`, or adds one call for a row
in state `sending`, which is an `Accept`.

**Scheduling** (6). `IInv` is `TypeOK`, `HeldOK` (who holds a run owns it or has lost it),
`SendersOK` (who is past `ready` is alone), `PostsOK`, `PostedOnce`, `ReportIsTrue` and
`GroupIsSerial`. Steps that touch no run in hand are dealt with together; `BeginSending`, `Post`
and `RecordOutcome` are the ones that need the invariant. `ReportIsKept` is the refinement of
`ReportContract`; it needs no further invariant, only that `PostedOnce`, `ReportIsTrue` and `Kept`
hold before and after a step.

**Outbound** (7). `BotIsExact` by `Addressed` (a send that waits for the wire was compared with
the binding in the same step). `ResultTold` by `Told`, the relation between the parts a send has
behind it and what the platform took, kept by the four effects of a step (`Rests`, `GoesOn`,
`Advances`, `Ends`).

* `QuotaHolds` by `QuotaOK`: a bucket remembers every physical send that is still in the window.
  A new send is then the only one to add to a set whose size was below the limit, and older
  windows do not change.
* `ReservationsFresh` by `Recorded`: what was reserved belongs to an earlier part, or an earlier
  attempt at the part in hand.
* `LanesDoNotLeak` by `LanesOK`: who is inside has a lane and a lane that is kept has somebody
  inside (`MembersOK`), the holder of a lock is who is past the wait (`HoldersOK`), the queue of a
  lock holds who waits, each once (`QueuesOK`), and the count is the number of those who count
  (`CountsOK`). `LostOK` adds who may still hold a lock after its send is over. The invariant is stated about values of the variables, so that a lemma can be
  used for the lanes before and after a step. It holds even for lanes that are not serial.
* `TargetsAreSerial` and `DeliveryIsKept` are false without an assumption: the run
  `outbound_serial` is the counterexample. `Orderly` is that assumption and names the only gap
  there is: either no send is called in the loop iteration in which another one with a deadline
  is about to lock (`~Burst`), or no send has a deadline. `SerialOK` adds to `LanesOK` that
  whoever is in a lane is in the one of its target, that who waits is counted, and that who found
  its lane free is alone there until it has the lock. `DeliveryIsKept` then maps each step to
  `Begin`, `Take`, `Answer` or a stutter, with `Told` for the answers and `TargetSerial` for `Begin`.

**Corona** (6). `IInv` is `Typed`, `RowsOK` (operations and their revisions), `CoreOK`,
`AppliedWasReady` and `Ahead` (what is written before the previous configuration is tried).
`TriedOnce`, `AppliedWorks` and `EndsTrue` follow from it. `Inv` adds `Due`: what is
still to be committed belongs to the open operation, is a revision that a core was ready with, and ends
the operation truly once it is applied; it is what makes a crash between two commits harmless.
`OperationIsKept` is the refinement of `OperationContract`. `CallStep` says what a step may do to the
operations and to what is in effect, each action is shown to be one (`CommitCall` for the commits, `PhaseCall`, `RecoveryCall`
and `StartedCall` for the ways a row changes), and `StepContract` maps a `CallStep` to a step of
the contract.
`FileAgrees` and `LogTellsTruth` are about the store and need a second invariant on top, `StoreInv`
(`CoronaStoreProofs`): the rows of the log are well formed and only the last can be PREPARED
(`LogOK`), the step of a store procedure matches that row (`DiskOK`), the file is what the row says
before and after the replacement unless somebody edited it (`EnvOK`, and exactly so without edits,
`FileOK`), and a save that ended is known to have become the desired revision or not, later
saves and restores included (`SavesOK`). The step that matters is `Verdict`, recovery by the
content of the file: it is right because `FileOK` leaves two contents only.

**Verification** (6). `IInv` is `TypeOK`, `Known` (references are to rows that exist),
`Numbered`, `InOrder`, `Held` (a coroutine and its reservation), `Sure` (a decided attempt was
sent). `RejectionsHaveCause`, `OneQuestionAtATime` and `NegativeStaysOff` follow; `AskedOnce`
assumes `Enforce` and adds `Unsaid`: between the last check and the send nobody answers.
`QuestionIsKept` is the refinement of `QuestionContract`, enforced or not. It adds `Unseen`: the
reservation of a coroutine that has not sent its question yet did not reach the group, which is
what `Mark` needs to withdraw it. `StepQuestion` has one case per action; a sweep of
deadlines settles all it finds in one step, a batch brings no candidate that was refused.

**SocialEffects** (4). `IInv` is `TypeOK`, `Windows`, `Jobs` (a job is of an effect
that was opened, and unless it waits for the window, the window has closed), `Carried` (so has
that of every job the tick carries, and a success in hand is committed), `DoneIsSettled` and
`ClaimedOnce`. `Carried` is needed because a tick works on what it leased, while leases
expire and the database may have lost the lease. `WindowsAreWhole` adds `WholeWindow` under
`ASSUME Lost = {}`; without that it is false (section 5).

Only model-checked is liveness.

## 7. What is left out

Cometa. `take_over_expired_attempt`, `finish_control` and `release_workspace_lock` have
no caller outside tests, so no lease changes its owner or epoch, the comparison of
owner and epoch never fails, and epochs are not modelled. The claim policy of
Gravitas, the filter by backend and the order by creation time are abstracted: any
queued task may be claimed. The operations of a tick are separate actions, since
other processes run between them. Submission quotas are modelled, permission checks
are not. Retention, audit, artifacts and event paging are not.

Notifications. Backoff times, rendering, private chats and WebChat (each a single call)
are left out; so is the choice between several groups.

Scheduling. Cron is a set of due instants. The cap on missed fires in a tick and the 64
candidates of a claim are abstracted. A second exception in the handler of an
exception is not modelled, nor is cancelling a cancelled task (it raises the
revision only). Message quotas and audit are not. A terminal run keeps its lease
columns in the code, and nothing reads them; the model clears them.

Outbound. Refusals by capability, encoding and splitting are decided before a lane is
entered and are not modelled; a send has the parts it has. Send windows are deadlines.

Corona. The core ends with its controller. Only `.env` is a deployment file.
Idempotency keys and sagas are not modelled; `controller_wait` within one boot cannot be
reached.

Verification. One person in one group. Scores, quotas and cool-downs that choose a target,
candidate ids chosen by the model (`consolidator.py:1966`), and the classifier of replies are
free choices or left out; state SENDING is never written.

SocialEffects. One group and its bot. The dimensions of an evaluation are computed from the counted
messages, which are modelled, and are left out. A second evaluation version and `prune_jobs`
have no caller. A tick takes all due jobs, not twenty. Deliveries appear as their first
acknowledgement; a window starts at it and ends at any later time.

The other components of section 1 are not modelled: they are language model calls, scoring,
retrieval, user interfaces, process control and input/output, with little state that outlives a
call. What is worth modelling in them is in the plan.

## 8. Plan

What a continuation would take up, the most valuable first:

1. A composition of `CometaTask` with `CometaNotify`: a lost final notification as seen
   by the requester, and an accepted cancellation that recovery loses.
2. `nucleus` as the other side of Corona's operations: drain, ready, group bindings.
3. Pure functions against reference definitions: `scheduling/cron.py` (`next_fire`, with
   the skipped and the repeated hour), `gravitas/policy.py` (hysteresis),
   the budget of `aoede`.
4. An abstract configuration register that `Corona`'s save, restore and recovery implement, with
   the replacement of the file as the step that counts.
