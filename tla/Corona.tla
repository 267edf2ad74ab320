------------------------------- MODULE Corona -------------------------------
(***************************************************************************)
(* The controller: the configuration store (corona/config_store.py), the   *)
(* lifecycle operations (operations.py), the recovery at startup           *)
(* (recovery.py, app.py) and the supervisor of the core (supervisor.py).   *)
(*                                                                         *)
(* The file .env and the SQLite control database cannot be written in one  *)
(* transaction, so save and restore log what they are about to do.  They   *)
(* run on the event loop without suspending: while one is under way only   *)
(* an editor of the file and a crash come between its steps.  The end of   *)
(* an operation takes several transactions of its own (the applied         *)
(* revision, the desired state of the core, the phase): they too follow    *)
(* each other without suspending, and a crash may come between any two.    *)
(* The core process ends with the controller that owns it.                 *)
(***************************************************************************)
EXTENDS Naturals, Sequences

CONSTANTS
  Content,    \* contents of .env
  Broken,     \* contents no revision can be built from
  Initial,    \* the content of the first start
  Scopes,     \* restart_scope a change may have: "nucleus", "corona"
  Kinds,      \* kinds of operation that are asked for
  MaxStarts,  \* max_attempts of the supervisor
  MaxSaves,   \* bound: transactions of save
  MaxEdits,   \* bound: external edits of .env
  MaxOps,     \* bound: operations
  MaxFaults   \* bound: crashes, upgrades, drains and cores that fail

ASSUME ContentAssumption == Broken \subseteq Content /\ Initial \in Content \ Broken
ASSUME KindAssumption ==
  /\ Kinds \subseteq {"apply", "restart", "core_start", "core_stop"}
  /\ Scopes \subseteq {"nucleus", "corona"}
ASSUME BoundsAssumption ==
  /\ MaxStarts \in Nat \ {0} /\ MaxSaves \in Nat /\ MaxEdits \in Nat
  /\ MaxOps \in Nat /\ MaxFaults \in Nat

Terminal == {"succeeded", "rolled_back", "failed"}
Phase == Terminal \cup
  {"accepted", "prepared", "draining", "stopping",
   "awaiting_controller_restart", "starting", "verifying",
   "restoring_config", "starting_previous"}

VARIABLES
  env,        \* content of .env
  revisions,  \* config_revisions: content and restart scope of each
  txns,       \* config_transactions
  desired,    \* control_meta: desired_revision
  applied,    \* control_meta: applied_revision
  wanted,     \* control_meta: desired_core
  conflict,   \* control_meta: external_conflict
  ops,        \* control_operations, oldest first
  disk,       \* the step of save or restore_transaction_if_unchanged
  ctl,        \* where the controller process is
  todo,       \* what the running task commits next: applied revision, desired
              \* core, phase, in this order
  undone,     \* has the recovery dealt with .env?
  decision,   \* StartupDecision: action, revision
  core,       \* the supervisor's snapshot and attempts
  touched,    \* history: .env was edited and nobody has looked since
  edits,      \* external edits so far
  faults,     \* faults so far
  ready,      \* history: revisions a core has been ready with
  troubled    \* history: operations that met a fault

dbVars == <<revisions, txns, desired, applied, wanted, conflict>>
procVars == <<ctl, todo, undone, decision>>
history == <<touched, edits, faults, ready, troubled>>
vars == <<env, dbVars, ops, disk, procVars, core, history>>

NoDecision == [action |-> "none", rev |-> 0]
Nothing == [revs |-> {}, core |-> "", phase |-> ""]
Down == [phase |-> "stopped", rev |-> 0, left |-> 0, once |-> FALSE,
         first |-> TRUE]

Init ==
  /\ env = Initial
  /\ revisions = <<[content |-> Initial, scope |-> "nucleus"]>>
  /\ txns = <<>>
  /\ desired = 1 /\ applied = 1 /\ wanted = "running" /\ conflict = FALSE
  /\ ops = <<>>
  /\ disk = "idle"
  /\ ctl = "down" /\ todo = Nothing /\ undone = FALSE /\ decision = NoDecision
  /\ core = Down
  /\ touched = FALSE /\ edits = 0 /\ faults = 0 /\ ready = {} /\ troubled = {}

-----------------------------------------------------------------------------
(* The configuration store.                                                  *)

ContentOf(r) == revisions[r].content
Intact == env = ContentOf(desired)

(* _import_external_edits, as seen with the desired revision d.  ImportSlip  *)
(* records the revision and does not make it the desired one.                *)
ImportSlip(d) ==
  /\ desired' = d /\ conflict' = FALSE /\ touched' = FALSE
  /\ IF env = ContentOf(d) THEN UNCHANGED revisions
     ELSE revisions' = Append(revisions, [content |-> env, scope |-> "nucleus"])
Import(d) ==
  /\ IF env = ContentOf(d)
     THEN desired' = d /\ conflict' = FALSE /\ UNCHANGED revisions
     ELSE IF env \in Broken
     THEN desired' = d /\ conflict' = TRUE /\ UNCHANGED revisions
     ELSE /\ \E s \in Scopes :
               revisions' = Append(revisions, [content |-> env, scope |-> s])
          /\ desired' = Len(revisions) + 1
          /\ conflict' = FALSE
  /\ touched' = FALSE

LastTxn == txns[Len(txns)]
Mark(state) == txns' = [txns EXCEPT ![Len(txns)].state = state]

(* The loop is free: no store procedure and no row of commits is under way.  *)
Free == disk = "idle" /\ todo = Nothing

(* save up to PREPARED.  A file that does not match the desired revision is  *)
(* imported and the caller gets external_edit_conflict.                      *)
SaveBegin(c) ==
  /\ ctl = "up" /\ Free /\ c # env /\ c \notin Broken
  /\ Len(SelectSeq(txns, LAMBDA t : t.purpose = "save")) < MaxSaves
  /\ IF Intact
     THEN /\ \E s \in Scopes :
               revisions' = Append(revisions, [content |-> c, scope |-> s])
          /\ txns' = Append(txns, [state |-> "PREPARED", purpose |-> "save",
                                   expected |-> desired,
                                   rev |-> Len(revisions) + 1,
                                   before |-> env, after |-> c, of |-> 0])
          /\ disk' = "save_prepared"
          /\ UNCHANGED <<desired, conflict, touched>>
     ELSE Import(desired) /\ UNCHANGED <<txns, disk>>
  /\ UNCHANGED <<env, applied, wanted, ops, procVars, core, edits, faults, ready,
                 troubled>>

(* The sources are compared once more before the file is replaced.           *)
SaveCheck ==
  /\ disk = "save_prepared"
  /\ IF Intact THEN disk' = "save_checked" /\ UNCHANGED txns
     ELSE disk' = "idle" /\ Mark("CONFLICT")
  /\ UNCHANGED <<env, revisions, desired, applied, wanted, conflict, ops,
                 procVars, core, history>>

Replace ==
  /\ disk \in {"save_checked", "undo_prepared"}
  /\ env' = LastTxn.after
  /\ disk' = IF disk = "save_checked" THEN "save_replaced" ELSE "undo_replaced"
  /\ UNCHANGED <<dbVars, ops, procVars, core, history>>

Settle(ts) ==
  /\ disk' = "idle"
  /\ IF env = LastTxn.after
     THEN txns' = ts /\ desired' = LastTxn.rev /\ conflict' = FALSE
          /\ touched' = FALSE
     ELSE Mark("CONFLICT") /\ UNCHANGED <<desired, conflict, touched>>
  /\ UNCHANGED <<env, revisions, applied, wanted, ops, procVars, core, edits,
                 faults, ready, troubled>>

SaveCommit ==
  /\ disk = "save_replaced"
  /\ Settle([txns EXCEPT ![Len(txns)].state = "COMMITTED"])

(* restore_transaction_if_unchanged, its last transaction.                   *)
UndoCommit ==
  /\ disk = "undo_replaced"
  /\ Settle([txns EXCEPT ![Len(txns)].state = "COMMITTED",
                         ![LastTxn.of].state = "ROLLED_BACK"])

(* transaction_for_revision: the committed save of a revision.               *)
SavesOf(r) == {i \in 1..Len(txns) : /\ txns[i].rev = r
                                    /\ txns[i].state = "COMMITTED"
                                    /\ txns[i].purpose = "save"}

(* restore_transaction_if_unchanged up to PREPARED.  Nothing is restored     *)
(* under a newer desired revision; an edited file is imported instead.       *)
UndoBegin(target) ==
  \/ /\ SavesOf(target) = {} \/ desired # target
     /\ UNCHANGED <<revisions, txns, desired, conflict, touched, disk>>
  \/ \E i \in SavesOf(target) :
       /\ desired = target
       /\ IF env # txns[i].after
          THEN Import(desired) /\ UNCHANGED <<txns, disk>>
          ELSE /\ txns' = Append(txns,
                    [state |-> "PREPARED", purpose |-> "rollback",
                     expected |-> target, rev |-> txns[i].expected,
                     before |-> env, after |-> txns[i].before, of |-> i])
               /\ disk' = "undo_prepared"
               /\ UNCHANGED <<revisions, desired, conflict, touched>>

-----------------------------------------------------------------------------
(* The supervisor and the core.                                              *)

Alive == core.phase \in {"starting", "ready", "draining", "backoff"}

(* start and start_once: a running task is left alone.                       *)
StartCore(r, once) ==
  core' = IF Alive THEN core
          ELSE [phase |-> "starting", rev |-> r, once |-> once, first |-> FALSE,
                left |-> IF once THEN 0 ELSE MaxStarts - 1]

(* _ready_for.  ReadySlip only asks which revision was launched.             *)
ReadySlip(r) == core.rev = r
ReadyFor(r) == core.phase = "ready" /\ core.rev = r

Active == IF ops # <<>> /\ ops[Len(ops)].phase \notin Terminal
          THEN {Len(ops)} ELSE {}
Fault == /\ faults < MaxFaults /\ faults' = faults + 1
         /\ troubled' = troubled \cup Active

CoreReady ==
  /\ Free /\ core.phase = "starting"
  /\ core' = [core EXCEPT !.phase = "ready", !.first = TRUE]
  /\ ready' = ready \cup {core.rev}
  /\ UNCHANGED <<env, dbVars, ops, disk, procVars, touched, edits, faults,
                 troubled>>

(* A start that fails, or a core that exits unasked.  The single attempt of  *)
(* start_once is over once the core has been ready: max_attempts is restored,*)
(* and the task goes to backoff although it has no attempt left.             *)
CoreFails ==
  /\ Free /\ core.phase \in {"starting", "ready"}
  /\ Fault
  /\ core' = [core EXCEPT
       !.first = TRUE,
       !.phase = IF (core.once /\ ~core.first) \/ (~core.once /\ core.left = 0)
                 THEN "failed" ELSE "backoff"]
  /\ UNCHANGED <<env, dbVars, ops, disk, procVars, touched, edits, ready>>

BackoffEnds ==
  /\ Free /\ core.phase = "backoff"
  /\ core' = IF core.left > 0
             THEN [core EXCEPT !.phase = "starting", !.left = @ - 1]
             ELSE [core EXCEPT !.phase = "stopped"]
  /\ UNCHANGED <<env, dbVars, ops, disk, procVars, history>>

-----------------------------------------------------------------------------
(* The operations.                                                           *)

op == ops[Len(ops)]
SetPhase(p) == ops' = [ops EXCEPT ![Len(ops)].phase = p]

(* What the task commits next, with nothing in between: the revision in rs   *)
(* (one or none) as applied, then w as desired core and the phase p, unless   *)
(* they are empty.                                                           *)
Commits(rs, w, p) == todo' = [revs |-> rs, core |-> w, phase |-> p]

(* set_applied_revision.  AppliedSlip forgets it.                            *)
AppliedSlip(r) == UNCHANGED applied
SetApplied(r) == applied' = r

(* The operation task may take a step in phase p.                            *)
At(p) == /\ ctl \in {"up", "recovering"} /\ Free
         /\ ops # <<>> /\ op.phase = p

(* A step that ends the recovery run inside the start of the controller.     *)
UpAgain == ctl' = "up"

Accept(kind) ==
  /\ ctl = "up" /\ Free /\ Active = {} /\ Len(ops) < MaxOps
  /\ LET t == IF kind \in {"apply", "restart"} THEN desired ELSE applied
         s == IF kind \in {"apply", "restart"} THEN revisions[t].scope
              ELSE "nucleus"
     IN ops' = Append(ops, [kind |-> kind, phase |-> "accepted", target |-> t,
                            prev |-> applied, scope |-> s,
                            attempted |-> FALSE, started |-> FALSE, undos |-> 0])
  /\ Commits({}, CASE kind = "core_start" -> "running" [] kind = "core_stop" -> "stopped"
                  [] OTHER -> "", "")
  /\ UNCHANGED <<env, dbVars, disk, ctl, undone, decision, core, history>>

StopRun ==
  /\ At("accepted") /\ op.kind = "core_stop"
  /\ SetPhase("stopping")
  /\ UNCHANGED <<env, dbVars, disk, procVars, core, history>>

StopDone ==
  /\ At("stopping") /\ op.kind = "core_stop"
  /\ core' = Down
  /\ Commits({}, "stopped", "succeeded")
  /\ UNCHANGED <<env, dbVars, ops, disk, ctl, undone, decision, history>>

StartRun ==
  /\ At("accepted") /\ op.kind = "core_start"
  /\ SetPhase("starting")
  /\ StartCore(op.target, TRUE)
  /\ UNCHANGED <<env, dbVars, disk, procVars, history>>

StartDone ==
  /\ At("starting") /\ op.kind = "core_start" /\ core.first
  /\ IF ReadyFor(op.target)
     THEN Commits({op.target}, "running", "succeeded")
     ELSE Commits({}, "", "failed")
  /\ UNCHANGED <<env, dbVars, ops, disk, ctl, undone, decision, core, history>>

Changing == ops # <<>> /\ op.kind \in {"apply", "restart"}

(* validating and prepared; an apply of what is in effect is done.           *)
Prepare ==
  /\ At("accepted") /\ Changing
  /\ \/ SetPhase("failed") /\ UNCHANGED todo    \* validation or preflight refuses
     \/ /\ SetPhase("prepared")
        /\ IF op.kind = "apply" /\ op.target = op.prev /\ core.phase = "ready"
           THEN Commits({op.target}, "", "succeeded") ELSE UNCHANGED todo
  /\ UNCHANGED <<env, dbVars, disk, ctl, undone, decision, core, history>>

Drain ==
  /\ At("prepared")
  /\ SetPhase(IF core.phase = "ready" THEN "draining" ELSE "stopping")
  /\ UNCHANGED <<env, dbVars, disk, procVars, core, history>>

Drained ==
  /\ At("draining")
  /\ SetPhase("stopping")
  /\ core' = IF core.phase = "ready" THEN [core EXCEPT !.phase = "draining"]
             ELSE core
  /\ UNCHANGED <<env, dbVars, disk, procVars, history>>

ToRecovery ==
  ops' = [ops EXCEPT ![Len(ops)].phase = "restoring_config",
                     ![Len(ops)].attempted = TRUE,
                     ![Len(ops)].undos = @ + 1]

(* The ACK of the drain is missing: the core is stopped all the same.        *)
DrainFails ==
  /\ At("draining") /\ Fault
  /\ core' = Down
  /\ ToRecovery /\ undone' = FALSE
  /\ UNCHANGED <<env, dbVars, disk, ctl, todo, decision, touched, edits, ready>>

Stopped ==
  /\ At("stopping") /\ Changing
  /\ IF op.scope = "corona"
     THEN /\ SetPhase("awaiting_controller_restart")
          /\ core' = Down
          /\ ctl' = "leaving"
     ELSE /\ SetPhase("starting")
          /\ core' = [phase |-> "starting", rev |-> op.target, left |-> 0,
                      once |-> TRUE, first |-> FALSE]
          /\ UNCHANGED ctl
  /\ UNCHANGED <<env, dbVars, disk, todo, undone, decision, history>>

Verify ==
  /\ At("starting") /\ Changing /\ core.first /\ ctl = "up"
  /\ SetPhase("verifying")
  /\ IF ReadyFor(op.target)
     THEN Commits({op.target}, "running", "succeeded")
     ELSE Commits({}, "", "restoring_config")
  /\ UNCHANGED <<env, dbVars, disk, ctl, undone, decision, core, history>>

(* The commits that follow a decision, each a transaction of its own.        *)
CommitApplied ==
  /\ \E r \in todo.revs : SetApplied(r)
  /\ todo' = [todo EXCEPT !.revs = {}]
  /\ UNCHANGED <<env, revisions, txns, desired, wanted, conflict, ops, disk, ctl,
                 undone, decision, core, history>>

(* set_desired_core                                                          *)
CommitWanted ==
  /\ todo.revs = {} /\ todo.core # ""
  /\ wanted' = todo.core /\ todo' = [todo EXCEPT !.core = ""]
  /\ UNCHANGED <<env, revisions, txns, desired, applied, conflict, ops, disk, ctl,
                 undone, decision, core, history>>

CommitPhase ==
  /\ todo.revs = {} /\ todo.core = "" /\ todo.phase # ""
  /\ todo' = Nothing
  /\ IF todo.phase = "restoring_config" THEN ToRecovery /\ undone' = FALSE
     ELSE SetPhase(todo.phase) /\ UNCHANGED undone
  /\ UNCHANGED <<env, dbVars, disk, ctl, decision, core, history>>

(* _recover_previous                                                         *)
Restore ==
  /\ At("restoring_config") /\ ~undone
  /\ UndoBegin(op.target)
  /\ undone' = TRUE
  /\ UNCHANGED <<env, applied, wanted, ops, ctl, todo, decision, core, edits, faults,
                 ready, troubled>>

StartPrevious ==
  /\ At("restoring_config") /\ undone
  /\ SetPhase("starting_previous")
  /\ StartCore(op.prev, TRUE)
  /\ UNCHANGED <<env, dbVars, disk, procVars, history>>

PreviousDone ==
  /\ At("starting_previous") /\ core.first
  /\ IF ReadyFor(op.prev)
     THEN Commits({op.prev}, "running", "rolled_back")
     ELSE Commits({}, "stopped", "failed")
  /\ UpAgain
  /\ UNCHANGED <<env, dbVars, ops, disk, undone, decision, core, history>>

-----------------------------------------------------------------------------
(* The controller starts.                                                    *)

(* recover_pending_transactions: the file decides what became of a PREPARED  *)
(* transaction.  VerdictSlip always rolls forward.                           *)
VerdictSlip == "COMMITTED"
Verdict == IF env = LastTxn.after THEN "COMMITTED"
           ELSE IF env = LastTxn.before THEN "ABORTED" ELSE "CONFLICT"

(* initialize: a PREPARED transaction is decided by the file, then edits are *)
(* imported.                                                                 *)
BootStore ==
  /\ ctl = "down"
  /\ ctl' = "deciding"
  /\ IF txns = <<>> \/ LastTxn.state # "PREPARED"
     THEN Import(desired) /\ UNCHANGED txns
     ELSE /\ Mark(Verdict)
          /\ Import(IF Verdict = "COMMITTED" THEN LastTxn.rev ELSE desired)
  /\ UNCHANGED <<env, applied, wanted, ops, disk, todo, undone, decision, core, edits,
                 faults, ready, troubled>>

Fresh(r) == [action |-> "normal", rev |-> r]

(* prepare_startup for an operation that was under way.  `same`: the program *)
(* is the one that accepted it.  The same-boot branch (controller_wait) does *)
(* not occur: every start has a boot id of its own.  PreviousSlip does not ask *)
(* whether it has been tried already.                                        *)
PreviousSlip(same) ==
  /\ op.kind \in {"apply", "restart"} /\ op.phase # "accepted"
  /\ op.phase # "prepared" /\ op.phase # "starting_previous"
  /\ same
  /\ ~(op.kind = "restart" /\ op.scope = "corona" /\ ~op.started
       /\ op.phase = "awaiting_controller_restart")
NeedsPrevious(same) ==
  /\ op.kind \in {"apply", "restart"} /\ op.phase # "accepted"
  /\ op.phase # "prepared" /\ op.phase # "starting_previous"
  /\ ~op.attempted /\ same
  /\ ~(op.kind = "restart" /\ op.scope = "corona" /\ ~op.started
       /\ op.phase = "awaiting_controller_restart")

(* Nothing is tried again.  HopelessSlip forgets the attempt that a crash    *)
(* cut short.                                                                *)
HopelessSlip(same) == op.kind = "restart" /\ op.scope = "corona" /\ ~same
Hopeless(same) ==
  \/ op.kind = "restart" /\ op.scope = "corona" /\ ~same
  \/ op.phase = "starting_previous" \/ op.attempted

Decide(same) ==
  /\ ctl = "deciding"
  /\ IF same THEN UNCHANGED <<faults, troubled>> ELSE Fault
  /\ \/ /\ Active = {}
        /\ decision' = Fresh(applied)
        /\ ctl' = IF wanted = "running" THEN "launching" ELSE "up"
        /\ UNCHANGED <<ops, todo>>
     \/ /\ Active # {} /\ op.kind = "core_stop"
        /\ SetPhase("succeeded") /\ Commits({}, "stopped", "")
        /\ decision' = NoDecision /\ ctl' = "up"
     \/ /\ Active # {} /\ op.kind = "core_start" /\ op.started
        /\ SetPhase("failed")
        /\ decision' = NoDecision /\ ctl' = "up" /\ UNCHANGED todo
     \/ /\ Active # {} /\ op.kind = "core_start" /\ ~op.started
        /\ ops' = [ops EXCEPT ![Len(ops)].phase = "starting",
                              ![Len(ops)].started = TRUE]
        /\ decision' = [action |-> "core_start", rev |-> applied]
        /\ ctl' = "launching" /\ UNCHANGED todo
     \/ /\ Active # {} /\ op.kind \in {"apply", "restart"}
        /\ \/ op.phase \in {"accepted", "prepared"}
           \/ /\ ~(op.kind = "restart" /\ op.scope = "corona") /\ ~same
              /\ op.phase # "starting_previous" /\ ~op.attempted
        /\ SetPhase("failed")
        /\ decision' = Fresh(applied)
        /\ ctl' = IF wanted = "running" THEN "launching" ELSE "up"
        /\ UNCHANGED todo
     \/ /\ Active # {} /\ op.kind \in {"apply", "restart"}
        /\ op.phase \notin {"accepted", "prepared"}
        /\ Hopeless(same)
        /\ SetPhase("failed")
        /\ decision' = NoDecision /\ ctl' = "up" /\ UNCHANGED todo
     \/ /\ Active # {} /\ op.kind = "restart" /\ op.scope = "corona" /\ same
        /\ ~op.attempted /\ ~op.started
        /\ op.phase = "awaiting_controller_restart"
        /\ ops' = [ops EXCEPT ![Len(ops)].phase = "starting",
                              ![Len(ops)].started = TRUE]
        /\ decision' = [action |-> "controller_target", rev |-> op.target]
        /\ ctl' = "launching" /\ UNCHANGED todo
     \/ /\ Active # {} /\ NeedsPrevious(same)
        /\ ToRecovery
        /\ ctl' = "restoring" /\ UNCHANGED <<decision, todo>>
  /\ undone' = FALSE
  /\ UNCHANGED <<env, dbVars, disk, core, touched, edits, ready>>

(* _prepare_previous after its fence.                                        *)
BootRestore ==
  /\ ctl = "restoring" /\ Free /\ ~undone
  /\ UndoBegin(op.target)
  /\ undone' = TRUE
  /\ UNCHANGED <<env, applied, wanted, ops, ctl, todo, decision, core, edits, faults,
                 ready, troubled>>

BootPrevious ==
  /\ ctl = "restoring" /\ Free /\ undone
  /\ SetPhase("starting_previous")
  /\ decision' = [action |-> "core_previous", rev |-> op.prev]
  /\ ctl' = "launching"
  /\ UNCHANGED <<env, dbVars, disk, todo, undone, core, history>>

(* The lifespan of the application starts the core and waits for its first   *)
(* state.                                                                    *)
Launch ==
  /\ ctl = "launching"
  /\ StartCore(decision.rev, decision.action # "normal")
  /\ ctl' = "launched"
  /\ UNCHANGED <<env, dbVars, ops, disk, todo, undone, decision, history>>

(* finalize_startup_recovery                                                 *)
Finalize ==
  /\ ctl = "launched" /\ core.first
  /\ IF decision.action = "controller_target" /\ ~ReadyFor(decision.rev)
     THEN ToRecovery /\ undone' = FALSE /\ ctl' = "recovering" /\ UNCHANGED todo
     ELSE /\ ctl' = "up" /\ UNCHANGED <<ops, undone>>
          /\ CASE decision.action = "normal" -> UNCHANGED todo
               [] decision.action # "normal" /\ ~ReadyFor(decision.rev) ->
                    Commits({}, "stopped", "failed")
               [] decision.action = "core_previous" /\ ReadyFor(decision.rev) ->
                    Commits({decision.rev}, "", "rolled_back")
               [] decision.action \in {"controller_target", "core_start"}
                  /\ ReadyFor(decision.rev) ->
                    Commits({decision.rev}, "running", "succeeded")
  /\ UNCHANGED <<env, dbVars, disk, decision, core, history>>

-----------------------------------------------------------------------------
(* The environment.                                                          *)

Gone == /\ ctl' = "down" /\ disk' = "idle" /\ core' = Down /\ todo' = Nothing
        /\ undone' = FALSE /\ decision' = NoDecision

(* request_controller_shutdown: the process ends, its launcher starts it     *)
(* again.                                                                    *)
Leave ==
  /\ ctl = "leaving" /\ Gone
  /\ UNCHANGED <<env, dbVars, ops, history>>

Crash ==
  /\ ctl # "down" /\ Fault /\ Gone
  /\ UNCHANGED <<env, dbVars, ops, touched, edits, ready>>

Edit(c) ==
  /\ c # env /\ edits < MaxEdits
  /\ env' = c /\ edits' = edits + 1 /\ touched' = TRUE
  /\ UNCHANGED <<dbVars, ops, disk, procVars, core, faults, ready, troubled>>

Store == SaveCheck \/ Replace \/ SaveCommit \/ UndoCommit
Operation ==
  \/ StopRun \/ StopDone \/ StartRun \/ StartDone
  \/ Prepare \/ Drain \/ Drained \/ Stopped \/ Verify
  \/ CommitApplied \/ CommitWanted \/ CommitPhase
  \/ Restore \/ StartPrevious \/ PreviousDone
Boot ==
  \/ BootStore \/ Decide(TRUE) \/ BootRestore \/ BootPrevious \/ Launch
  \/ Finalize \/ Leave
CoreStep == CoreReady \/ BackoffEnds

Next ==
  \/ \E c \in Content : SaveBegin(c) \/ Edit(c)
  \/ \E k \in Kinds : Accept(k)
  \/ Store \/ Operation \/ Boot \/ CoreStep
  \/ DrainFails \/ CoreFails \/ Crash \/ Decide(FALSE)

Spec == Init /\ [][Next]_vars

(* The loop runs its tasks, a start comes to an end (readiness_timeout), and *)
(* the launcher starts the controller again.                                 *)
FairSpec ==
  /\ Spec /\ WF_vars(Store) /\ WF_vars(Operation) /\ WF_vars(Boot)
  /\ WF_vars(CoreStep)

-----------------------------------------------------------------------------
(* Properties.                                                               *)

TxnType == [state : {"PREPARED", "COMMITTED", "ABORTED", "CONFLICT",
                     "ROLLED_BACK"},
            purpose : {"save", "rollback"}, expected : Nat, rev : Nat,
            before : Content, after : Content, of : Nat]
OpType == [kind : {"apply", "restart", "core_start", "core_stop"},
           phase : Phase, target : Nat, prev : Nat,
           scope : {"nucleus", "corona"}, attempted : BOOLEAN,
           started : BOOLEAN, undos : Nat]

(* Every variable has its type, and the rows name revisions that exist.      *)
TypeOK ==
  /\ env \in Content
  /\ revisions \in Seq([content : Content, scope : {"nucleus", "corona"}])
  /\ txns \in Seq(TxnType)
  /\ desired \in 1..Len(revisions) /\ applied \in 1..Len(revisions)
  /\ wanted \in {"running", "stopped"} /\ conflict \in BOOLEAN
  /\ ops \in Seq(OpType)
  /\ disk \in {"idle", "save_prepared", "save_checked", "save_replaced",
               "undo_prepared", "undo_replaced"}
  /\ ctl \in {"down", "deciding", "restoring", "launching", "launched",
              "recovering", "up", "leaving"}
  /\ todo \in [revs : SUBSET (1..Len(revisions)), core : {"", "running", "stopped"},
               phase : Terminal \cup {"", "restoring_config"}]
  /\ undone \in BOOLEAN /\ touched \in BOOLEAN
  /\ decision.action \in {"none", "normal", "core_start", "core_previous",
                          "controller_target"}
  /\ core.phase \in {"stopped", "starting", "ready", "draining", "backoff",
                     "failed"}

(* The file and the database agree again as soon as no store procedure is    *)
(* under way, crashes between the steps of save, of restore and of the       *)
(* recovery itself included: .env is the desired revision, unless somebody   *)
(* edited it since, or the conflict is on record.                            *)
DesiredIsOnDisk ==
  ctl # "down" /\ disk = "idle" => Intact \/ conflict \/ touched

(* The log tells the truth about the file: without external edits no row is  *)
(* a conflict, and a save is COMMITTED exactly when its revision came to be  *)
(* the desired one: a later row expects it, or it is the desired revision.   *)
LogIsTrue ==
  edits = 0 /\ ctl # "down" /\ disk = "idle" =>
    \A i \in 1..Len(txns) :
      /\ txns[i].state \notin {"PREPARED", "CONFLICT"}
      /\ LET seen == \/ desired = txns[i].rev
                     \/ \E j \in (i+1)..Len(txns) :
                          /\ txns[j].expected = txns[i].rev
                          /\ txns[j].state # "ABORTED"
         IN txns[i].purpose = "save" =>
              /\ txns[i].state \in {"COMMITTED", "ROLLED_BACK"} => seen
              /\ txns[i].state = "ABORTED" => desired # txns[i].rev

(* The applied revision is one a core has really been ready with: no crash,  *)
(* failed start or recovery puts an untried revision in effect, so there is  *)
(* always one to go back to.                                                 *)
AppliedWasReady == applied = 1 \/ applied \in ready

(* The previous configuration is tried once per operation at most, whichever *)
(* process tries it ("bound any automatic recovery to one try").             *)
RecoveryOnce == \A i \in 1..Len(ops) : ops[i].undos <= 1

(* An operation that ends says what is in effect: succeeded, its target;     *)
(* rolled_back, what was applied before it; and no other operation is under  *)
(* way at the same time.                                                     *)
EndIsTrue ==
  [][\A i \in 1..Len(ops) :
       ops'[i].phase \in Terminal /\ ops[i].phase \notin Terminal =>
         /\ ops'[i].phase = "succeeded" /\ ops[i].kind # "core_stop"
              => applied' = ops[i].target
         /\ ops'[i].phase = "rolled_back"
              => applied' = ops[i].prev /\ core.phase = "ready"]_vars

(* Every operation ends, however often its steps are interrupted.            *)
OperationsEnd ==
  \A i \in 1..MaxOps :
    i \in 1..Len(ops) ~> (i \in 1..Len(ops) /\ ops[i].phase \in Terminal)

(* A change that meets no fault is not rolled back: "rolled_back" is for a   *)
(* failure (docs/plans/2026-10-23-corona-nucleus-engineering-plan.md 5.3).   *)
RolledBackForCause ==
  \A i \in 1..Len(ops) : ops[i].phase = "rolled_back" => i \in troubled

-----------------------------------------------------------------------------
(* The contract of OperationContract.                                        *)

Said(p) == IF p \in Terminal THEN p ELSE "open"
AsCall(o) == [target |-> o.target, prev |-> o.prev, stops |-> o.kind = "core_stop",
              said |-> Said(o.phase)]

Contract == INSTANCE OperationContract WITH
  First <- 1,
  effect <- applied,
  calls <- [i \in 1..Len(ops) |-> AsCall(ops[i])]

(* Phases, restarts of the controller, recoveries and crashes implement the  *)
(* contract of an operation.                                                 *)
ImplementsOperations == Contract!Spec
=============================================================================
