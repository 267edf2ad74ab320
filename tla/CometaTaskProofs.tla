-------------------------- MODULE CometaTaskProofs --------------------------
(***************************************************************************)
(* Theorems of CometaTask for every number of tasks, workers, workspaces   *)
(* and attempts, and for every choice of which of them crash or stall.     *)
(***************************************************************************)
EXTENDS CometaTask, TLAPS

(* An attempt is a task and a number. *)
LEMMA AttemptIsPair ==
  ASSUME NEW t \in Task, NEW n \in 1..MaxAttempts
  PROVE  <<t, n>> \in Attempt /\ TaskOf(<<t, n>>) = t /\ NumberOf(<<t, n>>) = n
  BY DEF Attempt, TaskOf, NumberOf

LEMMA AttemptParts ==
  ASSUME NEW a \in Attempt
  PROVE  /\ TaskOf(a) \in Task /\ NumberOf(a) \in 1..MaxAttempts
         /\ a = <<TaskOf(a), NumberOf(a)>>
  BY DEF Attempt, TaskOf, NumberOf

LEMMA TypeInit == Init => TypeOK
  BY ConfigAssumption, MaxAttemptsAssumption DEF Init, TypeOK, States, ActiveStates,
     Terminal, Phases, Pcs, RecoveryRecord, Idle

LEMMA TypeStep == TypeOK /\ [Next]_vars => TypeOK'
<1> SUFFICES ASSUME TypeOK, [Next]_vars PROVE TypeOK'
  OBVIOUS
<1> USE ConfigAssumption, MaxAttemptsAssumption, AttemptParts, AttemptIsPair
    DEF TypeOK, States, ActiveStates, Terminal, Phases, Pcs,
        taskVars, ctlVars, timeVars, attemptVars, leaseVars, memVars
<1>1. ASSUME NEW t \in Task, SubmitTask(t) PROVE TypeOK'
  BY <1>1 DEF SubmitTask, BusyStates
<1>2. ASSUME NEW t \in Task, RequestCancel(t) PROVE TypeOK'
  BY <1>2 DEF RequestCancel, CancelTasks
<1>3. ASSUME NEW a \in Attempt, RespondInput(a) PROVE TypeOK'
  BY <1>3 DEF RespondInput
<1>4. ASSUME NEW a \in Attempt, BeginPreparing(a) PROVE TypeOK'
  BY <1>4 DEF BeginPreparing, Goto, UpdateLaunchPhase
<1>5. ASSUME NEW a \in Attempt, BeginConnecting(a) PROVE TypeOK'
  BY <1>5 DEF BeginConnecting, Goto, UpdateLaunchPhase
<1>6. ASSUME NEW a \in Attempt, SessionOpened(a) PROVE TypeOK'
  BY <1>6 DEF SessionOpened, Goto, UpdateLaunchPhase
<1>7. ASSUME NEW a \in Attempt, BeginDispatch(a) PROVE TypeOK'
  BY <1>7 DEF BeginDispatch, Goto, UpdateLaunchPhase
<1>8. ASSUME NEW a \in Attempt, TurnHandleSaved(a) PROVE TypeOK'
  BY <1>8 DEF TurnHandleSaved, Goto, UpdateLaunchPhase
<1>9. ASSUME NEW a \in Attempt, EnterRunning(a) PROVE TypeOK'
  BY <1>9 DEF EnterRunning, Goto, TransitionTask, Interruptible
<1>10. ASSUME NEW a \in Attempt, FailFast(a) PROVE TypeOK'
  BY <1>10 DEF FailFast, Goto, FinishTask, ReleasedLease
<1>11. ASSUME NEW a \in Attempt, ExecutorRaises(a) PROVE TypeOK'
  BY <1>11 DEF ExecutorRaises
<1>12. ASSUME NEW a \in Attempt, StreamCompletes(a) PROVE TypeOK'
  <2>1. PICK verdict \in {"succeeded", "partial"} : FinishTask(a, verdict)
    BY <1>12 DEF StreamCompletes
  <2>2. /\ state' \in [Task -> States] /\ results' \subseteq Attempt
        /\ final' \subseteq Task /\ cancelCtl' \subseteq Task
        /\ wsLease' \in [Workspace -> Attempt \cup {None}]
        /\ UNCHANGED <<current, attempts, deadlineCtl, asked>>
    BY <2>1 DEF FinishTask, ReleasedLease
  <2> QED
    BY <1>12, <2>2 DEF StreamCompletes, Goto
<1>13. ASSUME NEW a \in Attempt, StreamDrops(a) PROVE TypeOK'
  BY <1>13 DEF StreamDrops, Goto, MarkRecoveryRequired
<1>14. ASSUME NEW a \in Attempt, SeeCancel(a) PROVE TypeOK'
  <2>1. pc' = [pc EXCEPT ![a] = "cancelling"]
    BY <1>14 DEF SeeCancel, Goto
  <2> QED
    BY <1>14, <2>1 DEF SeeCancel
<1>15. ASSUME NEW a \in Attempt, CancelConfirmed(a) PROVE TypeOK'
  BY <1>15 DEF CancelConfirmed, Goto, FinishTask, ReleasedLease, CancelVerdict
<1>16. ASSUME NEW a \in Attempt, CancelUnconfirmed(a) PROVE TypeOK'
  BY <1>16 DEF CancelUnconfirmed, Goto, MarkRecoveryRequired
<1>17. ASSUME NEW a \in Attempt, RegisterInputRequest(a) PROVE TypeOK'
  BY <1>17 DEF RegisterInputRequest, Goto, TransitionTask, Interruptible
<1>18. ASSUME NEW a \in Attempt, InputAccepted(a) PROVE TypeOK'
  BY <1>18 DEF InputAccepted, Goto, TransitionTask, Interruptible
<1>19. ASSUME NEW a \in Attempt, InputTimesOut(a) PROVE TypeOK'
  BY <1>19 DEF InputTimesOut, ExpireRequest
<1>20. ASSUME NEW w \in Worker, RegisterWorker(w) PROVE TypeOK'
  BY <1>20 DEF RegisterWorker
<1>21. ASSUME NEW w \in Worker, NEW t \in Task, ClaimTask(w, t) PROVE TypeOK'
  <2>1. attempts[t] + 1 \in 1..MaxAttempts /\ <<t, attempts[t] + 1>> \in Attempt
    BY <1>21 DEF ClaimTask
  <2>2. current' \in [Task -> 0..MaxAttempts] /\ attempts' \in [Task -> 0..MaxAttempts]
    BY <1>21, <2>1 DEF ClaimTask
  <2>3. wsLease' \in [Workspace -> Attempt \cup {None}]
    BY <1>21, <2>1 DEF ClaimTask
  <2> QED
    BY <1>21, <2>1, <2>2, <2>3 DEF ClaimTask
<1>22. ASSUME NEW w \in Worker, EnforceDeadlines(w) PROVE TypeOK'
  BY <1>22 DEF EnforceDeadlines
<1>23. ASSUME NEW w \in Worker, NEW a \in Attempt, ExpireStaleInput(w, a) PROVE TypeOK'
  BY <1>23 DEF ExpireStaleInput, ExpireRequest
<1>24. ASSUME NEW w \in Worker, NEW t \in Task, ListOrphan(w, t) PROVE TypeOK'
  BY <1>24 DEF ListOrphan, RecoveryRecord
<1>25. ASSUME NEW w \in Worker, ReadAttempt(w) PROVE TypeOK'
  <2>1. recovery[w] \in RecoveryRecord
    BY <1>25 DEF ReadAttempt, Idle
  <2>2. TaskOf(recovery[w].attempt) \in Task
    BY <2>1 DEF RecoveryRecord
  <2>3. recovery' \in [Worker -> RecoveryRecord \cup {Idle}]
    BY <1>25, <2>1 DEF ReadAttempt, RecoveryRecord
  <2>4. state' \in [Task -> States] /\ current' \in [Task -> 0..MaxAttempts]
    BY <1>25, <2>2 DEF ReadAttempt
  <2> QED
    BY <1>25, <2>3, <2>4 DEF ReadAttempt
<1>26. ASSUME NEW w \in Worker, BeginRecovery(w) PROVE TypeOK'
  <2>1. recovery[w] \in RecoveryRecord
    BY <1>26 DEF BeginRecovery, Idle
  <2>2. TaskOf(recovery[w].attempt) \in Task
    BY <2>1 DEF RecoveryRecord
  <2>3. recovery' \in [Worker -> RecoveryRecord \cup {Idle}]
    BY <1>26, <2>1 DEF BeginRecovery, RecoveryRecord
  <2>4. state' \in [Task -> States] /\ current' \in [Task -> 0..MaxAttempts]
    BY <1>26, <2>2 DEF BeginRecovery
  <2> QED
    BY <1>26, <2>3, <2>4 DEF BeginRecovery
<1>27. ASSUME NEW w \in Worker, RequeueTask(w) PROVE TypeOK'
  <2>1. recovery[w] \in RecoveryRecord
    BY <1>27 DEF RequeueTask, Idle
  <2>2. TaskOf(recovery[w].attempt) \in Task
    BY <2>1 DEF RecoveryRecord
  <2>3. recovery' \in [Worker -> RecoveryRecord \cup {Idle}]
    BY <1>27, <2>1 DEF RequeueTask, RecoveryRecord
  <2>4. state' \in [Task -> States] /\ current' \in [Task -> 0..MaxAttempts]
    BY <1>27, <2>2 DEF RequeueTask
  <2> QED
    BY <1>27, <2>3, <2>4 DEF RequeueTask
<1>28. ASSUME NEW w \in Worker, GiveUpRecovery(w) PROVE TypeOK'
  BY <1>28 DEF GiveUpRecovery, RecoveryRecord, Idle, MarkRecoveryRequired
<1>29. ASSUME NEW w \in Worker, GracefulStop(w) PROVE TypeOK'
  BY <1>29 DEF GracefulStop, CancelTasks, Active
<1>30. ASSUME NEW w \in Worker, ReleaseWorker(w) PROVE TypeOK'
  BY <1>30 DEF ReleaseWorker, Exit, RecoveryRecord, Idle
<1>31. ASSUME NEW w \in Worker, WorkerCrash(w) PROVE TypeOK'
  BY <1>31 DEF WorkerCrash, Exit, RecoveryRecord, Idle
<1>32. ASSUME NEW t \in Task, DeadlinePasses(t) PROVE TypeOK'
  BY <1>32 DEF DeadlinePasses
<1>33. ASSUME NEW a \in Attempt, LeaseExpires(a) PROVE TypeOK'
  BY <1>33 DEF LeaseExpires
<1>34. ASSUME WorkerLeaseExpires PROVE TypeOK'
  BY <1>34 DEF WorkerLeaseExpires
<1>35. ASSUME NEW k \in Workspace, WorkspaceLeaseExpires(k) PROVE TypeOK'
  BY <1>35 DEF WorkspaceLeaseExpires
<1>36. ASSUME NEW a \in Attempt, AgentStarts(a) PROVE TypeOK'
  BY <1>36 DEF AgentStarts
<1>37. ASSUME NEW a \in Attempt, AgentStops(a) PROVE TypeOK'
  BY <1>37 DEF AgentStops
<1>38. CASE UNCHANGED vars
  BY <1>38 DEF vars
<1> QED
  BY <1>1, <1>2, <1>3, <1>4, <1>5, <1>6, <1>7, <1>8, <1>9, <1>10, <1>11, <1>12,
     <1>13, <1>14, <1>15, <1>16, <1>17, <1>18, <1>19, <1>20, <1>21, <1>22, <1>23,
     <1>24, <1>25, <1>26, <1>27, <1>28, <1>29, <1>30, <1>31, <1>32, <1>33, <1>34,
     <1>35, <1>36, <1>37, <1>38
  DEF Next, Bot, Expiry, Executor, Launch, Consume, WorkerStep, Recover, Leave

(* Type correctness: no transaction of the store, step of an executor, crash *)
(* or expiry writes a value outside the domain of its column.                *)
THEOREM TypeCorrect == Spec => []TypeOK
<1>1. Init => TypeOK
  BY TypeInit
<1>2. TypeOK /\ [Next]_vars => TypeOK'
  BY TypeStep
<1> QED
  BY <1>1, <1>2, PTL DEF Spec

-----------------------------------------------------------------------------
(* What a step can do to the tables tasks and results: one of five effects.  *)

InFlight == ActiveStates \ {"queued"}

(* Somebody asked for t to be stopped, its deadline passed, or an input of   *)
(* its agent expired.                                                        *)
Causes == asked \cup due \cup {t \in Task : \E a \in Attempt :
                                      TaskOf(a) = t /\ request[a] = "expired"}

(* What an executor knows when it finishes a with a verdict.                 *)
Grounds(a, verdict) ==
  /\ verdict \in {"succeeded", "partial"} => turn'[a] = "ended"
  /\ verdict = "timed_out" => TaskOf(a) \in deadlineCtl
  /\ verdict = "cancelled" => pc[a] = "cancelling"

Submits(t) ==
  /\ state[t] = "none" /\ state' = [state EXCEPT ![t] = "queued"]
  /\ UNCHANGED <<current, attempts, results, final>>

(* Tasks stay, move on in flight, are given up, or are withdrawn unclaimed.  *)
Moves ==
  /\ \A t \in Task :
       \/ state'[t] = state[t] /\ (t \in final' <=> t \in final)
       \/ /\ state[t] \in InFlight
          /\ state'[t] \in InFlight \cup {"recovery_required"}
          /\ state'[t] = "cancelling" => state[t] = "cancelling" \/ t \in Causes'
          /\ t \in final' <=> t \in final
       \/ /\ state[t] = "queued" /\ state'[t] = "cancelled" /\ t \in final'
          /\ t \in Causes'
  /\ UNCHANGED <<current, attempts, results>>

Claims(t) ==
  /\ state[t] = "queued" /\ state' = [state EXCEPT ![t] = "starting"]
  /\ attempts[t] < MaxAttempts
  /\ attempts' = [attempts EXCEPT ![t] = attempts[t] + 1]
  /\ current' = [current EXCEPT ![t] = attempts[t] + 1]
  /\ UNCHANGED <<results, final>>

Requeues(t) ==
  /\ state[t] = "recovering" /\ state' = [state EXCEPT ![t] = "queued"]
  /\ current' = [current EXCEPT ![t] = 0]
  /\ UNCHANGED <<attempts, results, final>>

Finishes(a, verdict) ==
  /\ CanFinish(a) /\ Grounds(a, verdict)
  /\ state' = [state EXCEPT ![TaskOf(a)] = verdict]
  /\ results' = results \cup {a} /\ final' = final \cup {TaskOf(a)}
  /\ UNCHANGED <<current, attempts>>

Effect ==
  \/ Moves
  \/ \E t \in Task : Submits(t) \/ Claims(t) \/ Requeues(t)
  \/ \E a \in Attempt, verdict \in ByExecutor \cup {"cancelled"} :
       Finishes(a, verdict)

(* Rows that are not touched are Moves.                                      *)
LEMMA Rests == TypeOK /\ UNCHANGED taskVars => Moves
  BY DEF TypeOK, taskVars, Moves

LEMMA FinishEffect ==
  ASSUME TypeOK, NEW a \in Attempt,
         NEW verdict \in ByExecutor \cup {"cancelled"}, FinishTask(a, verdict),
         Grounds(a, verdict)
  PROVE  Moves \/ Finishes(a, verdict)
  BY Rests DEF FinishTask, Finishes, taskVars

(* Compare-and-set writes of one row, from states in flight.                 *)
LEMMA WriteEffect ==
  ASSUME TypeOK, NEW t \in Task, NEW s \in InFlight \cup {"recovery_required"},
         state' = state \/ (state[t] \in InFlight /\ state' = [state EXCEPT ![t] = s]),
         UNCHANGED <<current, attempts, results, final>>,
         s = "cancelling" /\ state' # state => t \in Causes'
  PROVE  Moves
  BY DEF TypeOK, Moves

LEMMA TransitionEffect ==
  ASSUME TypeOK, NEW a \in Attempt, NEW from \in SUBSET InFlight,
         NEW to \in InFlight \ {"cancelling"}, TransitionTask(a, from, to)
  PROVE  Moves
  BY AttemptParts, WriteEffect DEF TransitionTask

LEMMA GiveUpEffect ==
  ASSUME TypeOK, NEW t \in Task, MarkRecoveryRequired(t)
  PROVE  Moves
  BY WriteEffect DEF MarkRecoveryRequired, InFlight, ActiveStates, Interruptible

LEMMA CancelEffect ==
  ASSUME TypeOK, NEW T \in SUBSET Task, CancelTasks(T)
  PROVE  Moves
  BY DEF TypeOK, CancelTasks, Moves, Causes, InFlight, ActiveStates

LEMMA StepEffect == TypeOK /\ [Next]_vars => Effect
<1> SUFFICES ASSUME TypeOK, [Next]_vars PROVE Effect
  OBVIOUS
<1> USE AttemptParts
<1>1. ASSUME NEW t \in Task, SubmitTask(t) PROVE Effect
  BY <1>1 DEF SubmitTask, Effect, Submits
<1>2. ASSUME NEW t \in Task, RequestCancel(t) PROVE Effect
  BY <1>2, CancelEffect DEF RequestCancel, Effect
<1>3. ASSUME NEW a \in Attempt, Launch(a) PROVE Effect
  <2>1. CASE EnterRunning(a)
    BY <2>1, TransitionEffect
    DEF EnterRunning, Effect, InFlight, ActiveStates
  <2>2. CASE ~EnterRunning(a)
    BY <1>3, <2>2, Rests
    DEF Launch, BeginPreparing, BeginConnecting, SessionOpened, BeginDispatch,
        TurnHandleSaved, UpdateLaunchPhase, taskVars, Effect
  <2> QED
    BY <2>1, <2>2
<1>4. ASSUME NEW a \in Attempt, StreamCompletes(a) PROVE Effect
  <2>1. PICK verdict \in {"succeeded", "partial"} : FinishTask(a, verdict)
    BY <1>4 DEF StreamCompletes
  <2>2. Grounds(a, verdict)
    BY <1>4 DEF StreamCompletes, Grounds, TypeOK
  <2> QED
    BY <2>1, <2>2, FinishEffect DEF ByExecutor, Effect
<1>5. ASSUME NEW a \in Attempt, CancelConfirmed(a) PROVE Effect
  <2>1. CancelVerdict(TaskOf(a)) \in ByExecutor \cup {"cancelled"}
    BY DEF CancelVerdict, ByExecutor
  <2>2. Grounds(a, CancelVerdict(TaskOf(a)))
    BY <1>5 DEF CancelConfirmed, Goto, CancelVerdict, Grounds
  <2> QED
    BY <1>5, <2>1, <2>2, FinishEffect DEF CancelConfirmed, Effect
<1>6. ASSUME NEW a \in Attempt, FailFast(a) PROVE Effect
  BY <1>6, FinishEffect DEF FailFast, ByExecutor, Grounds, Effect
<1>7. ASSUME NEW a \in Attempt, StreamDrops(a) \/ CancelUnconfirmed(a)
      PROVE  Effect
  BY <1>7, GiveUpEffect DEF StreamDrops, CancelUnconfirmed, Effect
<1>8. ASSUME NEW a \in Attempt, RegisterInputRequest(a) \/ InputAccepted(a)
      PROVE  Effect
  BY <1>8, TransitionEffect
  DEF RegisterInputRequest, InputAccepted, Effect, InFlight, ActiveStates,
      Interruptible
<1>9. ASSUME NEW a \in Attempt, ExpireRequest(a) PROVE Effect
  <2>1. TaskOf(a) \in Causes'
    BY <1>9 DEF ExpireRequest, Causes, TypeOK
  <2> QED
    BY <1>9, <2>1, WriteEffect DEF ExpireRequest, Effect, InFlight, ActiveStates
<1>10. ASSUME NEW w \in Worker, NEW t \in Task, ClaimTask(w, t) PROVE Effect
  BY <1>10 DEF ClaimTask, Effect, Claims
<1>11. ASSUME NEW w \in Worker, EnforceDeadlines(w) PROVE Effect
  BY <1>11 DEF EnforceDeadlines, TypeOK, Effect, Moves, Causes, InFlight, ActiveStates,
               Interruptible, timeVars
<1>12. ASSUME NEW w \in Worker, RequeueTask(w) PROVE Effect
  <2>1. recovery[w] \in RecoveryRecord
    BY <1>12 DEF RequeueTask, TypeOK, Idle
  <2> QED
    BY <1>12, <2>1 DEF RequeueTask, RecoveryRecord, Effect, Requeues
<1>13. ASSUME NEW w \in Worker, BeginRecovery(w) PROVE Effect
  <2>1. recovery[w] \in RecoveryRecord
    BY <1>13 DEF BeginRecovery, TypeOK, Idle
  <2>2. TaskOf(recovery[w].attempt) \in Task
    BY <2>1 DEF RecoveryRecord
  <2>3. "recovering" \in InFlight /\ Takeable \subseteq InFlight
    BY DEF InFlight, ActiveStates, Takeable, Interruptible
  <2> QED
    BY <1>13, <2>2, <2>3, WriteEffect DEF BeginRecovery, TypeOK, Effect
<1>14. ASSUME NEW w \in Worker, GiveUpRecovery(w) PROVE Effect
  <2>1. recovery[w] \in RecoveryRecord
    BY <1>14 DEF GiveUpRecovery, TypeOK, Idle
  <2> QED
    BY <1>14, <2>1, GiveUpEffect DEF GiveUpRecovery, RecoveryRecord, Effect
<1>15. ASSUME NEW w \in Worker, GracefulStop(w) PROVE Effect
  BY <1>15, CancelEffect DEF GracefulStop, Active, Effect
<1>16. CASE UNCHANGED taskVars
  BY <1>16, Rests DEF Effect
<1>17. ASSUME NEW a \in Attempt,
              RespondInput(a) \/ ExecutorRaises(a) \/ SeeCancel(a)
                \/ LeaseExpires(a) \/ AgentStarts(a) \/ AgentStops(a)
       PROVE  UNCHANGED taskVars
  BY <1>17 DEF RespondInput, ExecutorRaises, SeeCancel, LeaseExpires,
               AgentStarts, AgentStops
<1>18. ASSUME NEW w \in Worker,
              RegisterWorker(w) \/ ReadAttempt(w) \/ ReleaseWorker(w)
                \/ WorkerCrash(w) \/ \E t \in Task : ListOrphan(w, t)
       PROVE  UNCHANGED taskVars
  BY <1>18 DEF RegisterWorker, ReadAttempt, ReleaseWorker, WorkerCrash, Exit,
               ListOrphan
<1>19. (\E t \in Task : DeadlinePasses(t)) \/ WorkerLeaseExpires
         \/ (\E k \in Workspace : WorkspaceLeaseExpires(k)) \/ UNCHANGED vars
       => UNCHANGED taskVars
  BY DEF DeadlinePasses, WorkerLeaseExpires, WorkspaceLeaseExpires, vars
<1>20. ASSUME NEW a \in Attempt, Executor(a) PROVE Effect
  BY <1>3, <1>4, <1>5, <1>6, <1>7, <1>8, <1>9, <1>16, <1>17, <1>20
  DEF Executor, Consume, InputTimesOut
<1>21. ASSUME NEW w \in Worker, WorkerStep(w) \/ Leave(w) PROVE Effect
  BY <1>9, <1>10, <1>11, <1>12, <1>13, <1>14, <1>15, <1>16, <1>18, <1>21
  DEF WorkerStep, Recover, Leave, ExpireStaleInput
<1> QED
  BY <1>1, <1>2, <1>16, <1>17, <1>19, <1>20, <1>21 DEF Next, Bot, Expiry

-----------------------------------------------------------------------------
(* The five effects respect the verdict and the fence of a task.             *)

(* A verdict, once written, is never overwritten (finish_task, request_cancel, *)
(* enforce_deadlines, begin_recovery, mark_recovery_required all check it).  *)
THEOREM VerdictIsFinal == Spec => TerminalIsFinal
<1>1. TypeOK /\ [Next]_vars =>
        [\A t \in Task : state[t] \in Terminal => state'[t] = state[t]]_vars
  <2> SUFFICES ASSUME TypeOK, Effect, NEW t \in Task, state[t] \in Terminal
               PROVE  state'[t] = state[t]
    BY StepEffect
  <2>1. CASE Moves
    BY <2>1 DEF Moves, InFlight, ActiveStates, Terminal
  <2>2. CASE \E u \in Task : Submits(u) \/ Claims(u) \/ Requeues(u)
    BY <2>2 DEF Submits, Claims, Requeues, Terminal, TypeOK
  <2>3. CASE \E a \in Attempt, verdict \in ByExecutor \cup {"cancelled"} :
               Finishes(a, verdict)
    BY <2>3 DEF Finishes, CanFinish, TypeOK
  <2> QED
    BY <2>1, <2>2, <2>3 DEF Effect
<1> QED
  BY <1>1, TypeCorrect, PTL DEF Spec, TerminalIsFinal

(* current_attempt is empty or the newest attempt of its task.               *)
LEMMA NewestStep == TypeOK /\ CurrentIsNewest /\ Effect => CurrentIsNewest'
<1> SUFFICES ASSUME TypeOK, CurrentIsNewest, Effect, NEW t \in Task
             PROVE  /\ current'[t] \in {0, attempts'[t]}
                    /\ state'[t] \in {"none", "queued"} => current'[t] = 0
                    /\ state'[t] \in ActiveStates \ {"queued"} => current'[t] # 0
  BY DEF CurrentIsNewest
<1> USE DEF TypeOK, CurrentIsNewest, ActiveStates
<1>1. CASE Moves
  BY <1>1 DEF Moves, InFlight
<1>2. CASE \E u \in Task : Submits(u) \/ Requeues(u)
  BY <1>2 DEF Submits, Requeues
<1>3. CASE \E u \in Task : Claims(u)
  BY <1>3 DEF Claims
<1>4. CASE \E a \in Attempt, verdict \in ByExecutor \cup {"cancelled"} :
             Finishes(a, verdict)
  BY <1>4, AttemptParts DEF Finishes, CanFinish, ByExecutor
<1> QED
  BY <1>1, <1>2, <1>3, <1>4 DEF Effect

(* The fence of finish_task, tasks.current_attempt, is empty while a task    *)
(* waits and otherwise names its newest attempt, so that an executor whose   *)
(* attempt was superseded by recovery can never pass it again.               *)
THEOREM FenceIsNewest == Spec => []CurrentIsNewest
<1>1. Init => CurrentIsNewest
  BY DEF Init, CurrentIsNewest, ActiveStates
<1>2. TypeOK /\ CurrentIsNewest /\ [Next]_vars => CurrentIsNewest'
  BY NewestStep, StepEffect
<1> QED
  BY <1>1, <1>2, TypeCorrect, PTL DEF Spec

LEMMA ResultStep == TypeOK /\ OneResult /\ Effect => OneResult'
<1> SUFFICES ASSUME TypeOK, OneResult, Effect PROVE OneResult'
  OBVIOUS
<1> USE AttemptParts DEF TypeOK, OneResult, Verdicts, Terminal, ByExecutor
<1>1. CASE Moves
  BY <1>1 DEF Moves, InFlight, ActiveStates
<1>2. CASE \E t \in Task : Submits(t) \/ Claims(t) \/ Requeues(t)
  BY <1>2 DEF Submits, Claims, Requeues
<1>3. ASSUME NEW a \in Attempt, NEW verdict \in ByExecutor \cup {"cancelled"},
             Finishes(a, verdict)
      PROVE  OneResult'
  BY <1>3 DEF Finishes, CanFinish
<1> QED
  BY <1>1, <1>2, <1>3 DEF Effect

(* One result row, by the current attempt, exactly for the verdicts.         *)
THEOREM ResultIsUnique == Spec => []OneResult
<1>1. Init => OneResult
  BY DEF Init, OneResult, Verdicts, Terminal, ByExecutor
<1>2. TypeOK /\ OneResult /\ [Next]_vars => OneResult'
  BY ResultStep, StepEffect
<1> QED
  BY <1>1, <1>2, TypeCorrect, PTL DEF Spec

-----------------------------------------------------------------------------
(* Success is only stored for a turn that ended.                             *)

LEMMA EndedTurnStays ==
  ASSUME TypeOK, [Next]_vars
  PROVE  \A a \in Attempt : turn[a] = "ended" => turn'[a] = "ended"
<1>1. ASSUME NEW a \in Attempt,
             StreamCompletes(a) \/ CancelConfirmed(a) \/ AgentStarts(a) \/ AgentStops(a)
      PROVE  \E s \in {"live", "ended"} :
               turn' = [turn EXCEPT ![a] = s] /\ (turn[a] = "ended" => s = "ended")
  BY <1>1 DEF StreamCompletes, CancelConfirmed, AgentStarts, AgentStops
<1>2. ASSUME NEW a \in Attempt, Executor(a), ~StreamCompletes(a), ~CancelConfirmed(a)
      PROVE  turn' = turn
  BY <1>2
  DEF Executor, Launch, Consume, BeginPreparing, BeginConnecting, SessionOpened,
      BeginDispatch,
      TurnHandleSaved, UpdateLaunchPhase, EnterRunning, FailFast, ExecutorRaises, StreamDrops,
      SeeCancel, CancelUnconfirmed, RegisterInputRequest, InputAccepted, InputTimesOut
<1>3. ASSUME NEW w \in Worker, WorkerStep(w) \/ Leave(w) PROVE turn' = turn
  BY <1>3
  DEF WorkerStep, Leave, Recover, RegisterWorker, EnforceDeadlines, ReadAttempt,
      BeginRecovery,
      RequeueTask, GiveUpRecovery, ClaimTask, ListOrphan, ExpireStaleInput, GracefulStop,
      ReleaseWorker, WorkerCrash, Exit
<1>4. Bot \/ Expiry \/ UNCHANGED vars => turn' = turn
  BY DEF Bot, Expiry, SubmitTask, RequestCancel, RespondInput, DeadlinePasses, LeaseExpires,
         WorkspaceLeaseExpires, WorkerLeaseExpires, vars
<1> QED
  BY <1>1, <1>2, <1>3, <1>4 DEF Next, TypeOK

LEMMA SuccessStep == TypeOK /\ SuccessWasExecuted /\ [Next]_vars => SuccessWasExecuted'
<1> SUFFICES ASSUME TypeOK, SuccessWasExecuted, Effect, NEW t \in Task,
                    \A a \in Attempt : turn[a] = "ended" => turn'[a] = "ended",
                    state'[t] \in {"succeeded", "partial"}
             PROVE  current'[t] # 0 /\ turn'[<<t, current'[t]>>] = "ended"
  BY StepEffect, EndedTurnStays DEF SuccessWasExecuted
<1>1. ASSUME state'[t] = state[t], current'[t] = current[t]
      PROVE  current'[t] # 0 /\ turn'[<<t, current'[t]>>] = "ended"
  <2>1. current[t] \in 1..MaxAttempts /\ turn[<<t, current[t]>>] = "ended"
    BY <1>1, MaxAttemptsAssumption DEF SuccessWasExecuted, TypeOK
  <2> QED
    BY <1>1, <2>1, AttemptIsPair
<1>2. CASE Moves
  BY <1>1, <1>2 DEF Moves, InFlight, ActiveStates
<1>3. CASE \E u \in Task : Submits(u) \/ Claims(u) \/ Requeues(u)
  BY <1>1, <1>3 DEF Submits, Claims, Requeues, TypeOK
<1>4. ASSUME NEW a \in Attempt, NEW verdict \in ByExecutor \cup {"cancelled"},
             Finishes(a, verdict)
      PROVE  current'[t] # 0 /\ turn'[<<t, current'[t]>>] = "ended"
  <2>1. CASE t = TaskOf(a)
    <3>1. current'[t] = NumberOf(a) /\ state'[t] = verdict
      BY <1>4, <2>1 DEF Finishes, CanFinish, TypeOK
    <3>2. turn'[a] = "ended"
      BY <1>4, <3>1 DEF Finishes, Grounds
    <3> QED
      BY <2>1, <3>1, <3>2, AttemptParts
  <2>2. CASE t # TaskOf(a)
    BY <1>1, <1>4, <2>2 DEF Finishes, TypeOK
  <2> QED
    BY <2>1, <2>2
<1> QED
  BY <1>2, <1>3, <1>4 DEF Effect

(* Success is only reported for a turn of the current attempt that the agent *)
(* ended, whichever executors, recoveries and cancellations race for it.     *)
THEOREM SuccessIsExecuted == Spec => []SuccessWasExecuted
<1>1. Init => SuccessWasExecuted
  BY DEF Init, SuccessWasExecuted
<1>2. TypeOK /\ SuccessWasExecuted /\ [Next]_vars => SuccessWasExecuted'
  BY SuccessStep
<1> QED
  BY <1>1, <1>2, TypeCorrect, PTL DEF Spec

-----------------------------------------------------------------------------
(* Interruptions have a cause.  The causes are asked, due and the expired    *)
(* input requests; the last are only kept because an executor that asked for *)
(* input goes on with an answer, or never asks again.                        *)

AtInput == {"input", "cancelling", "done"}
Asking ==
  \A a \in Attempt :
    /\ request[a] \in {"pending", "expired"} => pc[a] \in AtInput
    /\ NumberOf(a) > attempts[TaskOf(a)] => request[a] = "none" /\ pc[a] = "none"

Expirations == \A a \in Attempt : request[a] = "expired" => request'[a] = "expired"

(* The coroutine of a goes to p, its request becomes r.                      *)
LEMMA HandStep ==
  ASSUME TypeOK, Asking, NEW a \in Attempt, NEW p, NEW r, pc[a] # "none",
         attempts' = attempts,
         pc' = [pc EXCEPT ![a] = p], request' = [request EXCEPT ![a] = r],
         r \in {"pending", "expired"} => p \in AtInput,
         request[a] = "expired" => r = "expired"
  PROVE  Asking' /\ Expirations
  BY DEF TypeOK, Asking, Expirations

LEMMA SameHands ==
  ASSUME Asking, UNCHANGED <<pc, request, attempts>>
  PROVE  Asking' /\ Expirations
  BY DEF Asking, Expirations

LEMMA ExecutorAsking ==
  ASSUME TypeOK, Asking, NEW a \in Attempt, Executor(a)
  PROVE  Asking' /\ Expirations
<1>1. /\ pc[a] \notin {"none", "done"} /\ attempts' = attempts
      /\ request = [request EXCEPT ![a] = request[a]]
  <2>1. Executing(a)
    BY DEF Executor, Launch, Consume, BeginPreparing, BeginConnecting, SessionOpened,
           BeginDispatch, TurnHandleSaved, EnterRunning, FailFast, ExecutorRaises, StreamCompletes,
           StreamDrops, SeeCancel, CancelConfirmed, CancelUnconfirmed, RegisterInputRequest,
           InputAccepted, InputTimesOut, Goto
  <2>2. attempts' = attempts
    BY DEF Executor, Launch, Consume, BeginPreparing, BeginConnecting, SessionOpened,
           BeginDispatch, TurnHandleSaved, EnterRunning, FailFast, ExecutorRaises, StreamCompletes,
           StreamDrops, SeeCancel, CancelConfirmed, CancelUnconfirmed, RegisterInputRequest,
           InputAccepted, InputTimesOut, UpdateLaunchPhase, TransitionTask, FinishTask,
           MarkRecoveryRequired, ExpireRequest, taskVars
  <2> QED
    BY <2>1, <2>2 DEF Executing, Running, TypeOK
<1>2. CASE Launch(a)
  <2>1. PICK p : pc' = [pc EXCEPT ![a] = p] /\ pc[a] \notin AtInput
    BY <1>2 DEF Launch, BeginPreparing, BeginConnecting, SessionOpened, BeginDispatch,
                TurnHandleSaved, EnterRunning, Goto, AtInput
  <2>2. request' = request /\ request[a] \notin {"pending", "expired"}
    BY <1>2, <2>1 DEF Launch, BeginPreparing, BeginConnecting, SessionOpened, BeginDispatch,
                TurnHandleSaved, EnterRunning, UpdateLaunchPhase, Asking
  <2> QED
    BY <1>1, <2>1, <2>2, HandStep
<1>3. CASE \/ FailFast(a) \/ ExecutorRaises(a) \/ StreamCompletes(a) \/ StreamDrops(a)
           \/ SeeCancel(a) \/ CancelConfirmed(a) \/ CancelUnconfirmed(a)
  <2>1. PICK p \in AtInput : pc' = [pc EXCEPT ![a] = p]
    BY <1>3 DEF FailFast, ExecutorRaises, StreamCompletes, StreamDrops, SeeCancel,
                CancelConfirmed, CancelUnconfirmed, Goto, AtInput
  <2>2. request' = request
    BY <1>3 DEF FailFast, ExecutorRaises, StreamCompletes, StreamDrops, SeeCancel,
                CancelConfirmed, CancelUnconfirmed
  <2> QED
    BY <1>1, <2>1, <2>2, HandStep
<1>4. CASE RegisterInputRequest(a)
  <2>1. pc' = [pc EXCEPT ![a] = "input"] /\ pc[a] = "stream"
        /\ request' = [request EXCEPT ![a] = "pending"]
    BY <1>4 DEF RegisterInputRequest, Goto
  <2> QED
    BY <1>1, <2>1, HandStep DEF Asking, AtInput
<1>5. CASE InputAccepted(a)
  <2>1. pc' = [pc EXCEPT ![a] = "stream"] /\ request[a] = "answered" /\ request' = request
    BY <1>5 DEF InputAccepted, Goto
  <2> QED
    BY <1>1, <2>1, HandStep
<1>6. CASE InputTimesOut(a)
  <2>1. PICK p \in AtInput : pc' = [pc EXCEPT ![a] = p]
    BY <1>6 DEF InputTimesOut, AtInput
  <2>2. request' = [request EXCEPT ![a] = "expired"]
    BY <1>6 DEF InputTimesOut, ExpireRequest
  <2> QED
    BY <1>1, <2>1, <2>2, HandStep
<1> QED
  BY <1>2, <1>3, <1>4, <1>5, <1>6 DEF Executor, Consume

LEMMA AskingStep ==
  ASSUME TypeOK, Asking, [Next]_vars
  PROVE  Asking' /\ Expirations
<1>1. ASSUME NEW a \in Attempt, RespondInput(a) PROVE Asking' /\ Expirations
  BY <1>1 DEF RespondInput, Asking, Expirations, TypeOK, taskVars
<1>2. ASSUME NEW w \in Worker, NEW a \in Attempt, ExpireStaleInput(w, a)
      PROVE  Asking' /\ Expirations
  BY <1>2 DEF ExpireStaleInput, ExpireRequest, Asking, Expirations, TypeOK
<1>3. ASSUME NEW w \in Worker, NEW t \in Task, ClaimTask(w, t) PROVE Asking' /\ Expirations
  <2> DEFINE a == <<t, attempts[t] + 1>>
  <2>1. /\ attempts[t] < MaxAttempts /\ request' = request
        /\ attempts' = [attempts EXCEPT ![t] = attempts[t] + 1]
        /\ pc' = [pc EXCEPT ![a] = "probe"]
    BY <1>3 DEF ClaimTask
  <2>2. attempts[t] + 1 \in 1..MaxAttempts
    BY <2>1, MaxAttemptsAssumption DEF TypeOK
  <2>3. a \in Attempt /\ TaskOf(a) = t /\ NumberOf(a) = attempts[t] + 1
    BY <2>2, AttemptIsPair
  <2>4. request[a] = "none" /\ attempts[t] \in Nat
    BY <2>2, <2>3, MaxAttemptsAssumption DEF Asking, TypeOK
  <2> HIDE DEF a
  <2>5. ASSUME NEW b \in Attempt
        PROVE  /\ request[b] \in {"pending", "expired"} => pc'[b] \in AtInput
               /\ NumberOf(b) > attempts'[TaskOf(b)] => request[b] = "none" /\ pc'[b] = "none"
    <3>1. CASE b = a
      <4>1. attempts'[t] = attempts[t] + 1
        BY <2>1 DEF TypeOK
      <4> QED
        BY <3>1, <2>3, <2>4, <4>1
    <3>2. CASE b # a
      <4>1. pc'[b] = pc[b] /\ TaskOf(b) \in Task /\ NumberOf(b) \in Nat
            /\ attempts[TaskOf(b)] \in Nat
        BY <3>2, <2>1, AttemptParts, MaxAttemptsAssumption DEF TypeOK
      <4>2. attempts'[TaskOf(b)] >= attempts[TaskOf(b)]
        BY <4>1, <2>1, <2>4 DEF TypeOK
      <4>3. NumberOf(b) > attempts'[TaskOf(b)] => NumberOf(b) > attempts[TaskOf(b)]
        <5>1. attempts'[TaskOf(b)] \in Nat
          BY <4>1, <2>1, <2>4 DEF TypeOK
        <5> QED
          BY <4>1, <4>2, <5>1
      <4> QED
        BY <4>1, <4>3 DEF Asking
    <3> QED
      BY <3>1, <3>2
  <2> QED
    BY <2>1, <2>5 DEF Asking, Expirations
<1>4. ASSUME NEW w \in Worker, Exit(w) PROVE Asking' /\ Expirations
  BY <1>4 DEF Exit, Asking, Expirations, AtInput, Active, Running, taskVars, TypeOK
<1>5. ASSUME NEW w \in Worker,
             \/ RegisterWorker(w) \/ EnforceDeadlines(w) \/ Recover(w) \/ GracefulStop(w)
             \/ \E t \in Task : ListOrphan(w, t)
      PROVE  Asking' /\ Expirations
  <2>1. UNCHANGED <<pc, request, attempts>>
    BY <1>5 DEF RegisterWorker, EnforceDeadlines, Recover, ReadAttempt, BeginRecovery,
      RequeueTask, GiveUpRecovery, MarkRecoveryRequired, GracefulStop, CancelTasks, ListOrphan,
      taskVars
  <2> QED
    BY <2>1, SameHands
<1>6. CASE (\E t \in Task : SubmitTask(t) \/ RequestCancel(t)) \/ Expiry
           \/ (\E a \in Attempt : AgentStarts(a) \/ AgentStops(a)) \/ UNCHANGED vars
  <2>1. UNCHANGED <<pc, request, attempts>>
    BY <1>6 DEF SubmitTask, RequestCancel, CancelTasks, Expiry, DeadlinePasses,
       LeaseExpires,
      WorkspaceLeaseExpires, WorkerLeaseExpires, AgentStarts, AgentStops, vars, taskVars
  <2> QED
    BY <2>1, SameHands
<1> QED
  BY <1>1, <1>2, <1>3, <1>4, <1>5, <1>6, ExecutorAsking
  DEF Next, Bot, WorkerStep, Leave, ReleaseWorker, WorkerCrash

LEMMA ControlsGrow ==
  ASSUME TypeOK, [Next]_vars
  PROVE  asked \subseteq asked' /\ due \subseteq due' /\ deadlineCtl' \subseteq deadlineCtl \cup due
<1>1. ASSUME NEW T, CancelTasks(T), due' = due
      PROVE  asked \subseteq asked' /\ due \subseteq due' /\ deadlineCtl' = deadlineCtl
  BY <1>1 DEF CancelTasks
<1>2. ASSUME NEW w \in Worker, EnforceDeadlines(w)
      PROVE  asked' = asked /\ due' = due /\ deadlineCtl' \subseteq deadlineCtl \cup due
  BY <1>2 DEF EnforceDeadlines, timeVars
<1>3. ASSUME NEW t \in Task, DeadlinePasses(t)
      PROVE  asked' = asked /\ due \subseteq due' /\ deadlineCtl' = deadlineCtl
  BY <1>3 DEF DeadlinePasses, ctlVars, timeVars
<1>4. ASSUME NEW a \in Attempt, Executor(a) PROVE UNCHANGED <<asked, due, deadlineCtl>>
  BY <1>4 DEF Executor, Launch, Consume, BeginPreparing, BeginConnecting, SessionOpened,
         BeginDispatch, TurnHandleSaved, EnterRunning, FailFast, ExecutorRaises, StreamCompletes,
         StreamDrops, SeeCancel, CancelConfirmed, CancelUnconfirmed, RegisterInputRequest,
         InputAccepted, InputTimesOut, UpdateLaunchPhase, FinishTask, MarkRecoveryRequired, ctlVars, timeVars
<1>5. ASSUME NEW w \in Worker, WorkerStep(w) \/ Leave(w), ~EnforceDeadlines(w), ~GracefulStop(w)
      PROVE  UNCHANGED <<asked, due, deadlineCtl>>
  BY <1>5 DEF WorkerStep, Leave, Recover, RegisterWorker, ReadAttempt, BeginRecovery,
      RequeueTask, GiveUpRecovery, MarkRecoveryRequired, ClaimTask, ListOrphan, ExpireStaleInput,
      ReleaseWorker, WorkerCrash, Exit, ctlVars, timeVars
<1>6. ASSUME NEW a \in Attempt, RespondInput(a) \/ AgentStarts(a) \/ AgentStops(a)
      PROVE  UNCHANGED <<asked, due, deadlineCtl>>
  BY <1>6 DEF RespondInput, AgentStarts, AgentStops, ctlVars, timeVars
<1>7. ASSUME Expiry, \A t \in Task : ~DeadlinePasses(t)
      PROVE  UNCHANGED <<asked, due, deadlineCtl>>
  BY <1>7 DEF Expiry, LeaseExpires, WorkspaceLeaseExpires, WorkerLeaseExpires, ctlVars, timeVars
<1>8. ASSUME NEW t \in Task, SubmitTask(t) \/ RequestCancel(t)
      PROVE  asked \subseteq asked' /\ due \subseteq due' /\ deadlineCtl' = deadlineCtl
  BY <1>1, <1>8 DEF SubmitTask, RequestCancel, ctlVars, timeVars
<1>9. UNCHANGED vars => UNCHANGED <<asked, due, deadlineCtl>>
  BY DEF vars, ctlVars, timeVars
<1>10. ASSUME NEW w \in Worker, GracefulStop(w)
       PROVE  asked \subseteq asked' /\ due \subseteq due' /\ deadlineCtl' = deadlineCtl
  BY <1>1, <1>10 DEF GracefulStop, timeVars
<1> QED
  BY <1>2, <1>3, <1>4, <1>5, <1>6, <1>7, <1>8, <1>9, <1>10 DEF Next, Bot, Expiry

(* An executor only asks the backend to stop a task that is cancelling.      *)
LEMMA SeesCancel ==
  ASSUME TypeOK, [Next]_vars
  PROVE  \A a \in Attempt :
           pc'[a] = "cancelling" => pc[a] = "cancelling" \/ state'[TaskOf(a)] = "cancelling"
<1>1. ASSUME NEW a \in Attempt, NEW p, pc' = [pc EXCEPT ![a] = p],
             p = "cancelling" => state'[TaskOf(a)] = "cancelling"
      PROVE  \A b \in Attempt :
               pc'[b] = "cancelling" => pc[b] = "cancelling" \/ state'[TaskOf(b)] = "cancelling"
  BY <1>1 DEF TypeOK
<1>2. ASSUME NEW a \in Attempt, Executor(a)
      PROVE  \E p : /\ pc' = [pc EXCEPT ![a] = p]
                    /\ p = "cancelling" => state'[TaskOf(a)] = "cancelling"
  <2>1. CASE SeeCancel(a)
    BY <2>1 DEF SeeCancel, Goto, taskVars
  <2>2. CASE InputTimesOut(a)
    <3>1. pc' = [pc EXCEPT ![a] = IF state'[TaskOf(a)] = "cancelling"
                                  THEN "cancelling" ELSE "done"]
      BY <2>2 DEF InputTimesOut
    <3>2. CASE state'[TaskOf(a)] = "cancelling"
      BY <3>1, <3>2
    <3>3. CASE state'[TaskOf(a)] # "cancelling"
      <4>1. pc' = [pc EXCEPT ![a] = "done"] /\ "done" # "cancelling"
        BY <3>1, <3>3
      <4> QED
        BY <4>1
    <3> QED
      BY <3>2, <3>3
  <2>3. CASE ~SeeCancel(a) /\ ~InputTimesOut(a)
    <3>1. \E p \in Pcs \ {"cancelling"} : pc' = [pc EXCEPT ![a] = p]
      BY <1>2, <2>3 DEF Executor, Launch, Consume, BeginPreparing, BeginConnecting,
         SessionOpened,
        BeginDispatch, TurnHandleSaved, EnterRunning, FailFast, ExecutorRaises, StreamCompletes,
        StreamDrops, CancelConfirmed, CancelUnconfirmed, RegisterInputRequest, InputAccepted,
        Goto, Pcs
    <3> QED
      BY <3>1
  <2> QED
    BY <2>1, <2>2, <2>3
<1>3. ASSUME NEW w \in Worker, NEW t \in Task, ClaimTask(w, t)
      PROVE  \A b \in Attempt : pc'[b] = "cancelling" => pc[b] = "cancelling"
  BY <1>3 DEF ClaimTask, TypeOK
<1>4. ASSUME NEW w \in Worker, Exit(w)
      PROVE  \A b \in Attempt : pc'[b] = "cancelling" => pc[b] = "cancelling"
  BY <1>4 DEF Exit
<1>5. ASSUME NEW w \in Worker,
             \/ RegisterWorker(w) \/ EnforceDeadlines(w) \/ Recover(w) \/ GracefulStop(w)
             \/ (\E t \in Task : ListOrphan(w, t)) \/ (\E a \in Attempt : ExpireStaleInput(w, a))
      PROVE  pc' = pc
  BY <1>5 DEF RegisterWorker, EnforceDeadlines, Recover, ReadAttempt, BeginRecovery,
      RequeueTask, GiveUpRecovery, GracefulStop, ListOrphan, ExpireStaleInput
<1>6. Bot \/ Expiry \/ (\E a \in Attempt : AgentStarts(a) \/ AgentStops(a)) \/ UNCHANGED vars
        => pc' = pc
  BY DEF Bot, SubmitTask, RequestCancel, RespondInput, Expiry, DeadlinePasses, LeaseExpires,
      WorkspaceLeaseExpires, WorkerLeaseExpires, AgentStarts, AgentStops, vars
<1> QED
  BY <1>1, <1>2, <1>3, <1>4, <1>5, <1>6 DEF Next, WorkerStep, Leave, ReleaseWorker,
     WorkerCrash

(* A task that is being stopped is so for a cause.                           *)
StoppedForCause ==
  /\ deadlineCtl \subseteq due
  /\ \A t \in Task : state[t] = "cancelling" => t \in Causes
  /\ \A a \in Attempt, t \in Task : pc[a] = "cancelling" /\ TaskOf(a) = t => t \in Causes
  /\ \A t \in Task : state[t] = "timed_out" => t \in due
  /\ \A t \in Task : state[t] = "cancelled" => t \in Causes

LEMMA CauseStep ==
  ASSUME TypeOK, Asking, StoppedForCause, [Next]_vars
  PROVE  StoppedForCause'
<1>1. asked \subseteq asked' /\ due \subseteq due' /\ deadlineCtl' \subseteq deadlineCtl \cup due
  BY ControlsGrow
<1>2. Causes \subseteq Causes'
  BY <1>1, AskingStep DEF Causes, Expirations
<1>3. /\ \A t \in Task : state'[t] = "cancelling" => state[t] = "cancelling" \/ t \in Causes'
      /\ \A t \in Task : state'[t] = "timed_out" => state[t] = "timed_out" \/ t \in deadlineCtl
      /\ \A t \in Task : state'[t] = "cancelled" =>
           \/ state[t] = "cancelled" \/ t \in Causes'
           \/ \E a \in Attempt : TaskOf(a) = t /\ pc[a] = "cancelling"
  <2>1. CASE Moves
    BY <2>1 DEF Moves, InFlight, ActiveStates
  <2>2. CASE \E u \in Task : Submits(u) \/ Claims(u) \/ Requeues(u)
    BY <2>2 DEF Submits, Claims, Requeues, TypeOK
  <2>3. ASSUME NEW a \in Attempt, NEW verdict \in ByExecutor \cup {"cancelled"},
               Finishes(a, verdict)
        PROVE  /\ \A t \in Task : state'[t] = "cancelling" => state[t] = "cancelling"
               /\ \A t \in Task : state'[t] = "timed_out" =>
                    state[t] = "timed_out" \/ t \in deadlineCtl
               /\ \A t \in Task : state'[t] = "cancelled" =>
                    \/ state[t] = "cancelled"
                    \/ \E b \in Attempt : TaskOf(b) = t /\ pc[b] = "cancelling"
    <3>1. \A t \in Task : state'[t] = IF t = TaskOf(a) THEN verdict ELSE state[t]
      BY <2>3 DEF Finishes, TypeOK
    <3> QED
      BY <2>3, <3>1 DEF Finishes, Grounds, ByExecutor
  <2> QED
    BY <2>1, <2>2, <2>3, StepEffect DEF Effect
<1>4. deadlineCtl' \subseteq due' /\ deadlineCtl \subseteq due'
  BY <1>1 DEF StoppedForCause
<1>5. \A t \in Task : /\ state'[t] = "cancelling" => t \in Causes'
                      /\ state'[t] = "timed_out" => t \in due'
                      /\ state'[t] = "cancelled" => t \in Causes'
  BY <1>1, <1>2, <1>3, <1>4 DEF StoppedForCause
<1>6. \A a \in Attempt, t \in Task :
        pc'[a] = "cancelling" /\ TaskOf(a) = t => t \in Causes'
  BY <1>2, <1>5, SeesCancel DEF StoppedForCause
<1> QED
  BY <1>4, <1>5, <1>6 DEF StoppedForCause

(* timed_out means that the deadline passed; cancelled, that somebody asked, *)
(* the deadline passed or an input expired, in whatever order these arrived. *)
THEOREM InterruptionsHaveCause == Spec => []InterruptionHasCause
<1>1. Init => Asking /\ StoppedForCause
  BY DEF Init, Asking, StoppedForCause
<1>2. TypeOK /\ Asking /\ StoppedForCause /\ [Next]_vars => Asking' /\ StoppedForCause'
  BY AskingStep, CauseStep
<1>3. StoppedForCause => InterruptionHasCause
  BY DEF StoppedForCause, InterruptionHasCause, Causes
<1> QED
  BY <1>1, <1>2, <1>3, TypeCorrect, PTL DEF Spec

-----------------------------------------------------------------------------
(* The workspace lock belongs to the newest attempt of its task.             *)

LEMMA LockStep ==
  ASSUME TypeOK, OneResult, WorkspaceLeaseOwned, [Next]_vars
  PROVE  WorkspaceLeaseOwned'
<1>1. ASSUME NEW w \in Worker, NEW t \in Task, ClaimTask(w, t) PROVE WorkspaceLeaseOwned'
  <2> DEFINE a == <<t, attempts[t] + 1>>
  <2>1. /\ attempts[t] < MaxAttempts /\ results' = results /\ state[t] = "queued"
        /\ attempts' = [attempts EXCEPT ![t] = attempts[t] + 1]
        /\ wsLease' = [k \in Workspace |-> IF k = WorkspaceOf[t] THEN a ELSE wsLease[k]]
    BY <1>1 DEF ClaimTask
  <2>2. attempts[t] + 1 \in 1..MaxAttempts
    BY <2>1, MaxAttemptsAssumption DEF TypeOK
  <2>3. a \in Attempt /\ TaskOf(a) = t /\ NumberOf(a) = attempts[t] + 1
    BY <2>2, AttemptIsPair
  <2>4. a \notin results
    BY <2>1, <2>3 DEF OneResult, Verdicts, Terminal
  <2>5. attempts'[t] = attempts[t] + 1 /\ \A u \in Task \ {t} : attempts'[u] = attempts[u]
    BY <2>1 DEF TypeOK
  <2> HIDE DEF a
  <2>6. ASSUME NEW k \in Workspace, wsLease'[k] # None
        PROVE  /\ WorkspaceOf[TaskOf(wsLease'[k])] = k
               /\ NumberOf(wsLease'[k]) = attempts'[TaskOf(wsLease'[k])]
               /\ wsLease'[k] \notin results'
    <3>1. CASE k = WorkspaceOf[t]
      BY <3>1, <2>1, <2>3, <2>4, <2>5
    <3>2. CASE k # WorkspaceOf[t]
      <4>1. wsLease'[k] = wsLease[k] /\ wsLease[k] \in Attempt
        BY <3>2, <2>1, <2>6 DEF TypeOK
      <4>2. WorkspaceOf[TaskOf(wsLease[k])] = k /\ TaskOf(wsLease[k]) \in Task \ {t}
        BY <2>6, <3>2, <4>1, AttemptParts DEF WorkspaceLeaseOwned
      <4> QED
        BY <2>1, <2>5, <2>6, <4>1, <4>2 DEF WorkspaceLeaseOwned
    <3> QED
      BY <3>1, <3>2
  <2> QED
    BY <2>6 DEF WorkspaceLeaseOwned
<1>2. ASSUME attempts' = attempts, results' \subseteq results,
             \A k \in Workspace : wsLease'[k] \in {wsLease[k], None}
      PROVE  WorkspaceLeaseOwned'
  BY <1>2 DEF WorkspaceLeaseOwned
<1>3. ASSUME NEW a \in Attempt, NEW verdict, FinishTask(a, verdict) PROVE WorkspaceLeaseOwned'
  <2>1. CASE CanFinish(a)
    <3>1. /\ results' = results \cup {a} /\ attempts' = attempts
          /\ \A k \in Workspace : wsLease'[k] = IF wsLease[k] = a THEN None ELSE wsLease[k]
      BY <1>3, <2>1 DEF FinishTask, ReleasedLease
    <3> QED
      BY <3>1 DEF WorkspaceLeaseOwned
  <2>2. CASE ~CanFinish(a)
    BY <1>2, <1>3, <2>2 DEF FinishTask, taskVars
  <2> QED
    BY <2>1, <2>2
<1>4. ASSUME NEW a \in Attempt, StreamCompletes(a) \/ CancelConfirmed(a) \/ FailFast(a)
      PROVE  WorkspaceLeaseOwned'
  BY <1>3, <1>4 DEF StreamCompletes, CancelConfirmed, FailFast
<1>5. ASSUME NEW k \in Workspace, WorkspaceLeaseExpires(k) PROVE WorkspaceLeaseOwned'
  BY <1>2, <1>5 DEF WorkspaceLeaseExpires, taskVars, TypeOK
<1>6. ASSUME UNCHANGED <<attempts, results, wsLease>> PROVE WorkspaceLeaseOwned'
  BY <1>2, <1>6
<1>7. ASSUME NEW a \in Attempt, Executor(a), ~StreamCompletes(a), ~CancelConfirmed(a), ~FailFast(a)
      PROVE  UNCHANGED <<attempts, results, wsLease>>
  BY <1>7 DEF Executor, Launch, Consume, BeginPreparing, BeginConnecting, SessionOpened,
         BeginDispatch, TurnHandleSaved, EnterRunning, ExecutorRaises,
         StreamDrops, SeeCancel, CancelUnconfirmed, RegisterInputRequest, InputAccepted,
         InputTimesOut, UpdateLaunchPhase, TransitionTask, ExpireRequest, MarkRecoveryRequired,
         taskVars, leaseVars
<1>8. ASSUME NEW w \in Worker, WorkerStep(w) \/ Leave(w), \A t \in Task : ~ClaimTask(w, t)
      PROVE  UNCHANGED <<attempts, results, wsLease>>
  BY <1>8 DEF WorkerStep, Leave, Recover, RegisterWorker, EnforceDeadlines, ReadAttempt,
      BeginRecovery, RequeueTask, GiveUpRecovery, MarkRecoveryRequired, ListOrphan,
      ExpireStaleInput, ExpireRequest, GracefulStop, CancelTasks, ReleaseWorker, WorkerCrash, Exit,
      taskVars, leaseVars
<1>9. ASSUME NEW a \in Attempt, RespondInput(a) \/ AgentStarts(a) \/ AgentStops(a)
      PROVE  UNCHANGED <<attempts, results, wsLease>>
  BY <1>9 DEF RespondInput, AgentStarts, AgentStops, taskVars, leaseVars
<1>10. ASSUME NEW t \in Task, SubmitTask(t) \/ RequestCancel(t)
       PROVE  UNCHANGED <<attempts, results, wsLease>>
  BY <1>10 DEF SubmitTask, RequestCancel, CancelTasks, leaseVars
<1>11. ASSUME Expiry, \A k \in Workspace : ~WorkspaceLeaseExpires(k)
       PROVE  UNCHANGED <<attempts, results, wsLease>>
  BY <1>11 DEF Expiry, DeadlinePasses, LeaseExpires, WorkerLeaseExpires, taskVars, leaseVars
<1>12. UNCHANGED vars => UNCHANGED <<attempts, results, wsLease>>
  BY DEF vars, taskVars, leaseVars
<1> QED
  BY <1>1, <1>4, <1>5, <1>6, <1>7, <1>8, <1>9, <1>10, <1>11, <1>12 DEF Next, Bot, Expiry,
     WorkerStep

(* A lock is never held by an attempt that was superseded or has written its *)
(* verdict: late verdicts release their own lock and no other.               *)
THEOREM LockIsOwned == Spec => []WorkspaceLeaseOwned
<1>1. Init => WorkspaceLeaseOwned
  BY DEF Init, WorkspaceLeaseOwned
<1>2. TypeOK /\ OneResult /\ WorkspaceLeaseOwned /\ [Next]_vars => WorkspaceLeaseOwned'
  BY LockStep
<1> QED
  BY <1>1, <1>2, TypeCorrect, ResultIsUnique, PTL DEF Spec

-----------------------------------------------------------------------------
(* No second execution.  A worker that can be suspended for longer than a    *)
(* lease executes a task that another one took over; without such workers a  *)
(* lease that expired proves that its executor is gone.                      *)

Launching == {"probe", "preparing", "opening", "opened"}
Consuming == {"handle", "stream", "input", "cancelling"}

(* An executor that runs drives the newest attempt of a task in flight,      *)
(* under a live lease.                                                       *)
RunningIsNewest ==
  \A a \in Attempt :
    /\ owner[a] # None => worker[owner[a]] # "off"
    /\ Running(a) => /\ a \in lease /\ NumberOf(a) = attempts[TaskOf(a)]
                     /\ state[TaskOf(a)] \in InFlight

(* What reached the agent is the newest attempt, and its row says that it    *)
(* was dispatched.                                                           *)
TurnIsNewest ==
  \A a \in Attempt :
    /\ turn[a] # "none" => /\ NumberOf(a) = attempts[TaskOf(a)]
                           /\ state[TaskOf(a)] \notin {"none", "queued"}
                           /\ phase[a] \notin BeforeDispatch
    /\ pc[a] = "dispatching" => phase[a] = "dispatching"
    /\ pc[a] \in Launching => turn[a] = "none"
    /\ pc[a] \in Consuming => turn[a] # "none"

(* One worker recovers at a time, a newest attempt whose lease expired, and  *)
(* a decision to requeue it stays right.                                     *)
RecoveryIsSafe ==
  \A w \in Worker : recovery[w] # Idle =>
    /\ registrar = w /\ worker[w] = "up"
    /\ recovery[w].attempt \notin lease
    /\ NumberOf(recovery[w].attempt) = attempts[TaskOf(recovery[w].attempt)]
    /\ recovery[w].step \in {"clear", "safe"} =>
         phase[recovery[w].attempt] \in BeforeDispatch

OneDriver == RunningIsNewest /\ TurnIsNewest /\ RecoveryIsSafe

LEMMA SameAttempt ==
  ASSUME NEW a \in Attempt, NEW b \in Attempt, TaskOf(a) = TaskOf(b), NumberOf(a) = NumberOf(b)
  PROVE  a = b
  BY AttemptParts

LEMMA RecordParts ==
  ASSUME TypeOK, NEW w \in Worker, recovery[w] # Idle
  PROVE  /\ recovery[w] \in RecoveryRecord /\ recovery[w].attempt \in Attempt
         /\ TaskOf(recovery[w].attempt) \in Task
  BY AttemptParts DEF TypeOK, RecoveryRecord

(* A step of the executor of a: its coroutine goes to p, the launch phase    *)
(* becomes f and the turn u.                                                 *)
ExecutorStep(a, p, f, u) ==
  /\ Running(a) /\ UNCHANGED <<owner, worker, registrar, lease, attempts, recovery>>
  /\ pc' = [pc EXCEPT ![a] = p] /\ phase' = [phase EXCEPT ![a] = f]
  /\ turn' = [turn EXCEPT ![a] = u]
  /\ \A t \in Task \ {TaskOf(a)} : state'[t] = state[t]
  /\ state'[TaskOf(a)] \in InFlight \/ (p = "done" /\ state'[TaskOf(a)] \in Terminal)
  /\ u # "none" => f \notin BeforeDispatch
  /\ p = "dispatching" => f = "dispatching"
  /\ p \in Launching => u = "none"
  /\ p \in Consuming => u # "none"

LEMMA ExecutorStepSafe ==
  ASSUME TypeOK, OneDriver, NEW a \in Attempt, NEW p, NEW f, NEW u, ExecutorStep(a, p, f, u)
  PROVE  OneDriver'
<1>1. /\ \A b \in Attempt : IF b = a THEN pc'[b] = p /\ phase'[b] = f /\ turn'[b] = u
                             ELSE pc'[b] = pc[b] /\ phase'[b] = phase[b] /\ turn'[b] = turn[b]
      /\ \A b \in Attempt : Running(b)' =>
           IF b = a THEN p # "done" ELSE Running(b)
  BY DEF ExecutorStep, TypeOK, Running, Up
<1>2. a \in lease /\ NumberOf(a) = attempts[TaskOf(a)] /\ TaskOf(a) \in Task
  BY AttemptParts DEF ExecutorStep, OneDriver, RunningIsNewest
<1>3. \A b \in Attempt \ {a} : TaskOf(b) = TaskOf(a) => NumberOf(b) # attempts[TaskOf(a)]
  BY <1>2, SameAttempt
<1>4. RunningIsNewest'
  BY <1>1, <1>2, <1>3, AttemptParts DEF ExecutorStep, OneDriver, RunningIsNewest
<1>5. TurnIsNewest'
  <2>1. state'[TaskOf(a)] \notin {"none", "queued"}
    BY DEF ExecutorStep, InFlight, ActiveStates, Terminal
  <2> QED
    BY <1>1, <1>2, <1>3, <2>1, AttemptParts DEF ExecutorStep, OneDriver, TurnIsNewest
<1>6. RecoveryIsSafe'
  BY <1>1, <1>2, RecordParts DEF ExecutorStep, OneDriver, RecoveryIsSafe
<1> QED
  BY <1>4, <1>5, <1>6 DEF OneDriver

LEMMA Rewritten ==
  ASSUME TypeOK, NEW a \in Attempt
  PROVE  /\ pc = [pc EXCEPT ![a] = pc[a]] /\ phase = [phase EXCEPT ![a] = phase[a]]
         /\ turn = [turn EXCEPT ![a] = turn[a]]
  BY DEF TypeOK

LEMMA ExecutorSafe ==
  ASSUME TypeOK, OneDriver, NEW a \in Attempt, Executor(a)
  PROVE  OneDriver'
<1>1. /\ Running(a) /\ pc[a] \notin {"none", "done"}
  BY DEF Executor, Launch, Consume, BeginPreparing, BeginConnecting, SessionOpened,
         BeginDispatch, TurnHandleSaved, EnterRunning, FailFast, ExecutorRaises, StreamCompletes,
         StreamDrops, SeeCancel, CancelConfirmed, CancelUnconfirmed, RegisterInputRequest,
         InputAccepted, InputTimesOut, Goto, Executing, Running
<1>2. /\ state[TaskOf(a)] \in InFlight /\ TaskOf(a) \in Task
      /\ turn[a] # "none" => phase[a] \notin BeforeDispatch
      /\ pc[a] = "dispatching" => phase[a] = "dispatching"
      /\ pc[a] \in Launching => turn[a] = "none"
      /\ pc[a] \in Consuming => turn[a] # "none"
  BY <1>1, AttemptParts DEF OneDriver, RunningIsNewest, TurnIsNewest
<1>3. CASE \/ BeginPreparing(a) \/ BeginConnecting(a) \/ SessionOpened(a)
           \/ BeginDispatch(a) \/ TurnHandleSaved(a)
  <2>1. PICK p, f : /\ pc' = [pc EXCEPT ![a] = p] /\ UpdateLaunchPhase(a, f)
                    /\ \/ p \in Launching /\ turn[a] = "none"
                       \/ p = "dispatching" /\ f = "dispatching"
                       \/ p = "handle" /\ f = "running" /\ turn[a] # "none"
    BY <1>2, <1>3 DEF BeginPreparing, BeginConnecting, SessionOpened, BeginDispatch,
                      TurnHandleSaved, Goto, Launching
  <2>2. ExecutorStep(a, p, f, turn[a])
    BY <1>1, <1>2, <2>1, Rewritten
    DEF ExecutorStep, UpdateLaunchPhase, taskVars, leaseVars, memVars,
        BeforeDispatch, Launching,
        Consuming
  <2> QED
    BY <2>2, ExecutorStepSafe
<1>4. CASE \/ EnterRunning(a) \/ RegisterInputRequest(a) \/ InputAccepted(a) \/ SeeCancel(a)
           \/ InputTimesOut(a) \/ ExecutorRaises(a)
  <2>1. PICK p : /\ pc' = [pc EXCEPT ![a] = p]
                 /\ (p \in Consuming /\ pc[a] \in Consuming) \/ p = "done"
    BY <1>4 DEF EnterRunning, RegisterInputRequest, InputAccepted, SeeCancel, InputTimesOut,
                ExecutorRaises, Goto, Consuming
  <2>2. UNCHANGED <<owner, phase, worker, registrar, lease, attempts, recovery, turn>>
    BY <1>4 DEF EnterRunning, RegisterInputRequest, InputAccepted, SeeCancel, InputTimesOut,
                ExecutorRaises, TransitionTask, ExpireRequest, taskVars, attemptVars, leaseVars,
                memVars
  <2>3. state' = state \/ \E s \in InFlight : state' = [state EXCEPT ![TaskOf(a)] = s]
    BY <1>4 DEF EnterRunning, RegisterInputRequest, InputAccepted, SeeCancel, InputTimesOut,
                ExecutorRaises, TransitionTask, ExpireRequest, taskVars, InFlight, ActiveStates
  <2>4. ExecutorStep(a, p, phase[a], turn[a])
    BY <1>1, <1>2, <2>1, <2>2, <2>3, Rewritten DEF ExecutorStep, TypeOK, Consuming,
       Launching
  <2> QED
    BY <2>4, ExecutorStepSafe
<1>5. CASE FailFast(a) \/ StreamCompletes(a) \/ StreamDrops(a) \/ CancelConfirmed(a)
           \/ CancelUnconfirmed(a)
  <2>1. /\ pc' = [pc EXCEPT ![a] = "done"]
        /\ UNCHANGED <<owner, phase, worker, registrar, lease, attempts, recovery>>
    BY <1>5 DEF FailFast, StreamCompletes, StreamDrops, CancelConfirmed,
       CancelUnconfirmed, Goto,
                FinishTask, MarkRecoveryRequired, taskVars, attemptVars, memVars, leaseVars
  <2>2. turn' = turn \/ (pc[a] \in Consuming /\ turn' = [turn EXCEPT ![a] = "ended"])
    BY <1>5 DEF FailFast, StreamCompletes, StreamDrops, CancelConfirmed,
       CancelUnconfirmed, Goto,
                Consuming
  <2>3. state' = state \/ \E s \in Terminal : state' = [state EXCEPT ![TaskOf(a)] = s]
    <3>1. CASE FailFast(a)
      BY <3>1 DEF FailFast, FinishTask, Terminal, taskVars
    <3>2. CASE StreamCompletes(a)
      <4>1. PICK verdict \in {"succeeded", "partial"} : FinishTask(a, verdict)
        BY <3>2 DEF StreamCompletes
      <4> QED
        BY <4>1 DEF FinishTask, Terminal, taskVars
    <3>3. CASE CancelConfirmed(a)
      BY <3>3 DEF CancelConfirmed, FinishTask, CancelVerdict, Terminal, taskVars
    <3>4. CASE StreamDrops(a) \/ CancelUnconfirmed(a)
      BY <3>4 DEF StreamDrops, CancelUnconfirmed, MarkRecoveryRequired, Terminal
    <3> QED
      BY <1>5, <3>1, <3>2, <3>3, <3>4
  <2>4. PICK u : /\ turn' = [turn EXCEPT ![a] = u]
                 /\ u = turn[a] \/ (pc[a] \in Consuming /\ u = "ended")
    BY <2>2, Rewritten
  <2>5. ExecutorStep(a, "done", phase[a], u)
    BY <1>1, <1>2, <2>1, <2>3, <2>4, Rewritten
    DEF ExecutorStep, TypeOK, Consuming, Launching, Terminal
  <2> QED
    BY <2>5, ExecutorStepSafe
<1> QED
  BY <1>3, <1>4, <1>5 DEF Executor, Launch, Consume

LEMMA SameRunning ==
  ASSUME UNCHANGED <<owner, worker, pc>>
  PROVE  \A a \in Attempt : Running(a)' <=> Running(a)
  BY DEF Running, Up

(* What the bot, deadlines, stale inputs and clocks do.                      *)
LEMMA OutsideSafe ==
  ASSUME TypeOK, OneDriver, Stallable = {},
         \/ \E t \in Task : SubmitTask(t) \/ RequestCancel(t) \/ DeadlinePasses(t)
         \/ \E a \in Attempt : RespondInput(a) \/ LeaseExpires(a) \/ AgentStops(a)
         \/ \E k \in Workspace : WorkspaceLeaseExpires(k)
         \/ \E w \in Worker : EnforceDeadlines(w) \/ \E a \in Attempt : ExpireStaleInput(w, a)
         \/ UNCHANGED vars
  PROVE  OneDriver'
<1>1. /\ UNCHANGED <<owner, phase, attempts, pc, worker, recovery, registrar>>
      /\ lease' \subseteq lease
  BY DEF SubmitTask, RequestCancel, CancelTasks, DeadlinePasses, RespondInput, LeaseExpires,
         AgentStops, WorkspaceLeaseExpires, EnforceDeadlines, ExpireStaleInput, ExpireRequest, vars,
         taskVars, attemptVars, leaseVars, memVars
<1>2. turn' = turn \/ \E a \in Attempt : turn[a] = "live" /\ turn' = [turn EXCEPT ![a] = "ended"]
  BY DEF SubmitTask, RequestCancel, DeadlinePasses, RespondInput, LeaseExpires,
         AgentStops, WorkspaceLeaseExpires, EnforceDeadlines, ExpireStaleInput, vars
<1>3. \A a \in Attempt : a \in lease \ lease' => ~Running(a)
  BY DEF SubmitTask, RequestCancel, CancelTasks, DeadlinePasses, RespondInput, LeaseExpires,
         AgentStops, WorkspaceLeaseExpires, EnforceDeadlines, ExpireStaleInput, vars, attemptVars
<1>4. \A t \in Task :
        \/ state'[t] = state[t]
        \/ state[t] = "none" /\ state'[t] = "queued"
        \/ state[t] = "queued" /\ state'[t] = "cancelled"
        \/ state[t] \in InFlight /\ state'[t] = "cancelling"
  <2>1. ASSUME NEW t \in Task, SubmitTask(t)
        PROVE  state[t] = "none" /\ state' = [state EXCEPT ![t] = "queued"]
    BY <2>1 DEF SubmitTask
  <2>2. ASSUME NEW t \in Task, RequestCancel(t)
        PROVE  \A u \in Task : \/ state'[u] = state[u]
                               \/ state[u] = "queued" /\ state'[u] = "cancelled"
                               \/ state[u] \in InFlight /\ state'[u] = "cancelling"
    BY <2>2 DEF RequestCancel, CancelTasks, InFlight
  <2>3. ASSUME NEW w \in Worker, EnforceDeadlines(w)
        PROVE  \A u \in Task : \/ state'[u] = state[u]
                               \/ state[u] = "queued" /\ state'[u] = "cancelled"
                               \/ state[u] \in InFlight /\ state'[u] = "cancelling"
    BY <2>3 DEF EnforceDeadlines, InFlight, ActiveStates, Interruptible
  <2>4. ASSUME NEW w \in Worker, NEW a \in Attempt, ExpireStaleInput(w, a)
        PROVE  \/ state' = state
               \/ /\ TaskOf(a) \in Task /\ state[TaskOf(a)] \in InFlight
                  /\ state' = [state EXCEPT ![TaskOf(a)] = "cancelling"]
    BY <2>4, AttemptParts DEF ExpireStaleInput, ExpireRequest, InFlight, ActiveStates
  <2>5. \/ \E t \in Task : SubmitTask(t) \/ RequestCancel(t)
        \/ \E w \in Worker : EnforceDeadlines(w) \/ \E a \in Attempt : ExpireStaleInput(w, a)
        \/ state' = state
    BY DEF DeadlinePasses, RespondInput, LeaseExpires, AgentStops,
       WorkspaceLeaseExpires, vars,
           taskVars
  <2> QED
    BY <2>1, <2>2, <2>3, <2>4, <2>5 DEF TypeOK
<1>5. RecoveryIsSafe'
  BY <1>1 DEF OneDriver, RecoveryIsSafe
<1>6. RunningIsNewest'
  BY <1>1, <1>3, <1>4, SameRunning, AttemptParts
  DEF OneDriver, RunningIsNewest, InFlight, ActiveStates
<1>7. TurnIsNewest'
  <2>1. \A a \in Attempt : turn'[a] # "none" <=> turn[a] # "none"
    BY <1>2 DEF TypeOK
  <2>2. \A a \in Attempt : turn[a] = "none" <=> turn'[a] = "none"
    BY <2>1
  <2>3. \A a \in Attempt : state[TaskOf(a)] \notin {"none", "queued"} =>
          state'[TaskOf(a)] \notin {"none", "queued"}
    BY <1>4, AttemptParts
  <2> QED
    BY <1>1, <2>1, <2>2, <2>3 DEF OneDriver, TurnIsNewest
<1> QED
  BY <1>5, <1>6, <1>7 DEF OneDriver

LEMMA AgentStartsSafe ==
  ASSUME TypeOK, OneDriver, NEW a \in Attempt, AgentStarts(a)
  PROVE  OneDriver'
<1>1. /\ UNCHANGED <<owner, phase, lease, attempts, pc, worker, recovery, registrar, state>>
      /\ turn' = [turn EXCEPT ![a] = "live"] /\ Running(a) /\ pc[a] = "dispatching"
  BY DEF AgentStarts, taskVars, attemptVars, leaseVars, memVars
<1>2. /\ NumberOf(a) = attempts[TaskOf(a)] /\ state[TaskOf(a)] \notin {"none", "queued"}
      /\ phase[a] \notin BeforeDispatch
  BY <1>1 DEF OneDriver, RunningIsNewest, TurnIsNewest, InFlight, ActiveStates,
     BeforeDispatch
<1>3. TurnIsNewest'
  <2>1. \A b \in Attempt : turn'[b] = IF b = a THEN "live" ELSE turn[b]
    BY <1>1 DEF TypeOK
  <2> QED
    BY <1>1, <1>2, <2>1 DEF OneDriver, TurnIsNewest, Launching
<1>4. RunningIsNewest' /\ RecoveryIsSafe'
  BY <1>1, SameRunning DEF OneDriver, RunningIsNewest, RecoveryIsSafe
<1> QED
  BY <1>3, <1>4 DEF OneDriver

(* What recovery does to the task of an attempt whose lease expired.         *)
LEMMA RecoverySafe ==
  ASSUME TypeOK, OneDriver, CurrentIsNewest, NEW w \in Worker,
         Recover(w) \/ \E t \in Task : ListOrphan(w, t)
  PROVE  OneDriver'
<1>1. UNCHANGED <<owner, phase, lease, attempts, pc, turn, worker, registrar>>
  BY DEF Recover, ReadAttempt, BeginRecovery, RequeueTask, GiveUpRecovery,
     MarkRecoveryRequired,
         ListOrphan, taskVars, attemptVars, leaseVars
<1>2. CASE \E t \in Task : ListOrphan(w, t)
  <2>1. PICK t \in Task : ListOrphan(w, t)
    BY <1>2
  <2> DEFINE a == <<t, current[t]>>
  <2>2. /\ current[t] # 0 /\ state' = state /\ registrar = w /\ worker[w] = "up" /\ a \notin lease
        /\ recovery' = [recovery EXCEPT ![w] =
                          [attempt |-> a, seen |-> state[t], step |-> "listed"]]
    BY <2>1 DEF ListOrphan, Ticking, taskVars
  <2>3. current[t] \in 1..MaxAttempts /\ current[t] = attempts[t]
    BY <2>2, MaxAttemptsAssumption DEF TypeOK, CurrentIsNewest
  <2>4. a \in Attempt /\ TaskOf(a) = t /\ NumberOf(a) = attempts[t]
    BY <2>3, AttemptIsPair
  <2> HIDE DEF a
  <2>5. RecoveryIsSafe'
    <3>1. \A v \in Worker : recovery'[v] = IF v = w THEN [attempt |-> a, seen |-> state[t],
                                                          step |-> "listed"] ELSE recovery[v]
      BY <2>2 DEF TypeOK
    <3> QED
      BY <1>1, <2>2, <2>4, <3>1 DEF OneDriver, RecoveryIsSafe
  <2> QED
    BY <1>1, <2>2, <2>5, SameRunning DEF OneDriver, RunningIsNewest, TurnIsNewest
<1>3. CASE Recover(w)
  <2> DEFINE a == recovery[w].attempt
             t == TaskOf(a)
  <2>1. recovery[w] # Idle
    BY <1>3 DEF Recover, ReadAttempt, BeginRecovery, RequeueTask, GiveUpRecovery, Idle
  <2>2. /\ recovery[w] \in RecoveryRecord /\ a \in Attempt /\ t \in Task
        /\ a \notin lease /\ ~Running(a) /\ NumberOf(a) = attempts[t]
        /\ registrar = w /\ worker[w] = "up"
    BY <2>1, RecordParts DEF OneDriver, RecoveryIsSafe, RunningIsNewest
  <2>3. \A b \in Attempt : TaskOf(b) = t /\ NumberOf(b) = attempts[t] => b = a
    BY <2>2, SameAttempt
  <2>4. \A b \in Attempt : Running(b) => TaskOf(b) # t
    BY <2>2, <2>3 DEF OneDriver, RunningIsNewest
  <2>5. /\ \A u \in Task \ {t} : state'[u] = state[u]
        /\ \/ state' = state
           \/ state[t] \in InFlight /\ state'[t] \in {"recovering", "recovery_required"}
           \/ recovery[w].step = "safe" /\ state'[t] = "queued"
    BY <1>3, <2>2 DEF Recover, ReadAttempt, BeginRecovery, RequeueTask, GiveUpRecovery,
      MarkRecoveryRequired, TypeOK, InFlight, ActiveStates, Takeable, Interruptible, taskVars
  <2>6. RunningIsNewest'
    BY <1>1, <2>4, <2>5, SameRunning, AttemptParts DEF OneDriver, RunningIsNewest
  <2>7. TurnIsNewest'
    <3>1. recovery[w].step = "safe" => \A b \in Attempt : TaskOf(b) = t => turn[b] = "none"
      BY <2>1, <2>2, <2>3 DEF OneDriver, RecoveryIsSafe, TurnIsNewest
    <3> QED
      BY <1>1, <2>5, <3>1, AttemptParts DEF OneDriver, TurnIsNewest
  <2>8. RecoveryIsSafe'
    <3>1. /\ \A v \in Worker \ {w} : recovery'[v] = recovery[v]
          /\ \/ recovery'[w] = Idle
             \/ /\ recovery'[w].attempt = a
                /\ recovery'[w].step \in {"clear", "safe"} => phase[a] \in BeforeDispatch
      <4>1. CASE ReadAttempt(w)
        BY <2>2, <4>1 DEF ReadAttempt, TypeOK, RecoveryRecord
      <4>2. CASE BeginRecovery(w)
        <5>1. recovery[w].step \in {"clear", "safe"} => phase[a] \in BeforeDispatch
          BY <2>1 DEF OneDriver, RecoveryIsSafe
        <5>2. CASE state[t] \in Takeable
          <6>1. recovery' = [recovery EXCEPT ![w] = [recovery[w] EXCEPT !.step =
                               IF recovery[w].step = "clear" THEN "safe" ELSE "unsafe"]]
            BY <4>2, <5>2 DEF BeginRecovery
          <6> QED
            BY <2>2, <5>1, <6>1 DEF TypeOK, RecoveryRecord
        <5>3. CASE state[t] \notin Takeable
          <6>1. recovery' = [recovery EXCEPT ![w] = Idle]
            BY <4>2, <5>3 DEF BeginRecovery
          <6> QED
            BY <6>1 DEF TypeOK
        <5> QED
          BY <5>2, <5>3
      <4>3. CASE RequeueTask(w) \/ GiveUpRecovery(w)
        BY <4>3 DEF RequeueTask, GiveUpRecovery, TypeOK
      <4> QED
        BY <1>3, <4>1, <4>2, <4>3 DEF Recover
    <3> QED
      BY <1>1, <2>2, <3>1 DEF OneDriver, RecoveryIsSafe
  <2> QED
    BY <2>6, <2>7, <2>8 DEF OneDriver
<1> QED
  BY <1>2, <1>3

LEMMA ClaimSafe ==
  ASSUME TypeOK, OneDriver, NEW w \in Worker, NEW t \in Task, ClaimTask(w, t)
  PROVE  OneDriver'
<1> DEFINE a == <<t, attempts[t] + 1>>
<1>1. a \in Attempt /\ TaskOf(a) = t /\ NumberOf(a) = attempts[t] + 1
  BY MaxAttemptsAssumption, AttemptIsPair DEF ClaimTask, TypeOK
<1>2. /\ worker' = worker /\ recovery' = recovery /\ registrar' = registrar /\ turn' = turn
      /\ lease' = lease \cup {a} /\ worker[w] = "up" /\ registrar = w /\ recovery[w] = Idle
      /\ state[t] = "queued"
      /\ \A u \in Task : IF u = t THEN state'[u] = "starting" /\ attempts'[u] = attempts[u] + 1
                                  ELSE state'[u] = state[u] /\ attempts'[u] = attempts[u]
  BY DEF ClaimTask, Ticking, memVars, TypeOK
<1>3. \A b \in Attempt :
        IF b = a THEN owner'[b] = w /\ phase'[b] = "claimed" /\ pc'[b] = "probe"
                 ELSE owner'[b] = owner[b] /\ phase'[b] = phase[b] /\ pc'[b] = pc[b]
  BY <1>1 DEF ClaimTask, TypeOK
<1>4. \A b \in Attempt : TaskOf(b) = t => ~Running(b) /\ turn[b] = "none"
  BY <1>2 DEF OneDriver, RunningIsNewest, TurnIsNewest, InFlight
<1> HIDE DEF a
<1>5. \A b \in Attempt \ {a} : Running(b)' <=> Running(b)
  BY <1>2, <1>3 DEF Running, Up
<1>6. RunningIsNewest'
  <2>1. w # None /\ "starting" \in InFlight
    BY ConfigAssumption DEF InFlight, ActiveStates
  <2>2. \A b \in Attempt \ {a} : Running(b) => TaskOf(b) \in Task \ {t}
    BY <1>4, AttemptParts
  <2> QED
    BY <1>1, <1>2, <1>3, <1>5, <2>1, <2>2 DEF OneDriver, RunningIsNewest
<1>7. TurnIsNewest'
  <2>1. \A b \in Attempt : turn[b] # "none" => b # a /\ TaskOf(b) \in Task \ {t}
    BY <1>1, <1>4, AttemptParts
  <2> QED
    BY <1>1, <1>2, <1>3, <1>4, <2>1 DEF OneDriver, TurnIsNewest, Launching, Consuming
<1>8. RecoveryIsSafe'
  BY <1>2 DEF OneDriver, RecoveryIsSafe
<1> QED
  BY <1>6, <1>7, <1>8 DEF OneDriver

(* Workers that come, stop, leave and are killed; the lease of a worker that *)
(* is gone expires.                                                          *)
LEMMA LifeSafe ==
  ASSUME TypeOK, OneDriver, Stallable = {},
         \/ \E w \in Worker : RegisterWorker(w) \/ Leave(w)
         \/ WorkerLeaseExpires
  PROVE  OneDriver'
<1> USE ConfigAssumption
<1>1. ASSUME NEW w \in Worker, RegisterWorker(w) PROVE OneDriver'
  <2>1. /\ UNCHANGED <<owner, phase, lease, attempts, pc, turn, recovery, state>>
        /\ registrar = None /\ worker' = [worker EXCEPT ![w] = "up"] /\ worker[w] \in {"off", "up"}
    BY <1>1 DEF RegisterWorker, taskVars, attemptVars
  <2>2. \A v \in Worker : recovery[v] = Idle
    BY <2>1 DEF OneDriver, RecoveryIsSafe
  <2>3. \A a \in Attempt : owner[a] # None =>
          worker'[owner[a]] = worker[owner[a]] /\ worker[owner[a]] # "off"
    BY <2>1 DEF OneDriver, RunningIsNewest, TypeOK
  <2>4. \A a \in Attempt : Running(a)' <=> Running(a)
    BY <2>1, <2>3 DEF Running, Up
  <2> QED
    BY <2>1, <2>2, <2>3, <2>4 DEF OneDriver, RunningIsNewest, TurnIsNewest, RecoveryIsSafe
<1>2. ASSUME NEW w \in Worker, GracefulStop(w) PROVE OneDriver'
  <2>1. /\ UNCHANGED <<owner, phase, lease, attempts, pc, turn, recovery, registrar>>
        /\ worker' = [worker EXCEPT ![w] = "stopping"] /\ worker[w] = "up" /\ recovery[w] = Idle
    BY <1>2 DEF GracefulStop, CancelTasks, attemptVars, leaseVars
  <2>2. \A t \in Task : \/ state'[t] = state[t]
                        \/ state[t] = "queued" /\ state'[t] = "cancelled"
                        \/ state[t] \in InFlight /\ state'[t] = "cancelling"
    BY <1>2 DEF GracefulStop, CancelTasks, InFlight
  <2>3. \A v \in Worker : worker'[v] = IF v = w THEN "stopping" ELSE worker[v]
    BY <2>1 DEF TypeOK
  <2>4. \A a \in Attempt : /\ Running(a)' <=> Running(a)
                           /\ owner[a] # None => worker[owner[a]] # "off" /\ worker'[owner[a]] # "off"
    BY <2>1, <2>3 DEF Running, Up, OneDriver, RunningIsNewest, TypeOK
  <2>5. RunningIsNewest'
    BY <2>1, <2>2, <2>4, AttemptParts DEF OneDriver, RunningIsNewest, InFlight, ActiveStates
  <2>6. TurnIsNewest'
    BY <2>1, <2>2, AttemptParts DEF OneDriver, TurnIsNewest
  <2>7. RecoveryIsSafe'
    BY <2>1, <2>3 DEF OneDriver, RecoveryIsSafe
  <2> QED
    BY <2>5, <2>6, <2>7 DEF OneDriver
<1>3. ASSUME NEW w \in Worker, ReleaseWorker(w) \/ WorkerCrash(w) PROVE OneDriver'
  <2>1. /\ UNCHANGED <<owner, phase, lease, attempts, turn, state>>
        /\ Exit(w) /\ (registrar' = registrar \/ registrar = w)
    BY <1>3 DEF ReleaseWorker, WorkerCrash, Exit, taskVars, attemptVars
  <2>2. /\ \A v \in Worker : /\ worker'[v] = IF v = w THEN "dead" ELSE worker[v]
                             /\ recovery'[v] = IF v = w THEN Idle ELSE recovery[v]
        /\ \A a \in Attempt : pc'[a] \in {pc[a], "done"}
    BY <2>1 DEF Exit, TypeOK
  <2>3. \A a \in Attempt : /\ Running(a)' => Running(a)
                           /\ owner[a] # None => worker'[owner[a]] # "off"
    BY <2>1, <2>2 DEF Running, Up, OneDriver, RunningIsNewest, TypeOK
  <2>4. RunningIsNewest'
    BY <2>1, <2>3 DEF OneDriver, RunningIsNewest
  <2>5. TurnIsNewest'
    BY <2>1, <2>2 DEF OneDriver, TurnIsNewest, Launching, Consuming
  <2>6. RecoveryIsSafe'
    BY <2>1, <2>2 DEF OneDriver, RecoveryIsSafe
  <2> QED
    BY <2>4, <2>5, <2>6 DEF OneDriver
<1>4. ASSUME WorkerLeaseExpires PROVE OneDriver'
  <2>1. /\ UNCHANGED <<owner, phase, lease, attempts, pc, turn, recovery, state, worker>>
        /\ registrar \in Worker /\ ~Up(registrar)
    BY <1>4 DEF WorkerLeaseExpires, taskVars, attemptVars, memVars, TypeOK
  <2>2. \A v \in Worker : recovery[v] = Idle
    BY <2>1 DEF OneDriver, RecoveryIsSafe, Up
  <2> QED
    BY <2>1, <2>2, SameRunning DEF OneDriver, RunningIsNewest, TurnIsNewest, RecoveryIsSafe
<1> QED
  BY <1>1, <1>2, <1>3, <1>4 DEF Leave

LEMMA DriverStep ==
  ASSUME Stallable = {}, TypeOK, OneDriver, CurrentIsNewest, [Next]_vars
  PROVE  OneDriver'
<1>1. CASE UNCHANGED vars
  BY <1>1, OutsideSafe
<1>2. CASE Bot \/ Expiry
  BY <1>2, OutsideSafe, LifeSafe DEF Bot, Expiry
<1>3. ASSUME NEW a \in Attempt, Executor(a) \/ AgentStarts(a) \/ AgentStops(a)
      PROVE  OneDriver'
  BY <1>3, ExecutorSafe, AgentStartsSafe, OutsideSafe
<1>4. ASSUME NEW w \in Worker, WorkerStep(w) \/ Leave(w)
      PROVE  OneDriver'
  BY <1>4, OutsideSafe, RecoverySafe, ClaimSafe, LifeSafe DEF WorkerStep
<1> QED
  BY <1>1, <1>2, <1>3, <1>4 DEF Next

(* "No evidence that the first stopped: no second execution" holds wherever  *)
(* no worker can be suspended for longer than a lease, whichever of them     *)
(* crash or stop, and at whatever step of a launch or of a recovery.         *)
THEOREM ExecutedAtMostOnce ==
  ASSUME Stallable = {}
  PROVE  Spec => []AtMostOneExecution
<1>1. Init => OneDriver
  BY ConfigAssumption DEF Init, OneDriver, RunningIsNewest, TurnIsNewest,
     RecoveryIsSafe, Running,
     Launching, Consuming
<1>2. TypeOK /\ CurrentIsNewest /\ OneDriver /\ [Next]_vars => OneDriver'
  BY DriverStep
<1>3. OneDriver => AtMostOneExecution
  BY SameAttempt DEF OneDriver, TurnIsNewest, AtMostOneExecution
<1> QED
  BY <1>1, <1>2, <1>3, TypeCorrect, FenceIsNewest, PTL DEF Spec

-----------------------------------------------------------------------------
(* Exclusive workspaces.  Nothing renews a workspace lock: whoever drives a  *)
(* task holds its lock until the lock runs out.                              *)

Locked(a) == Running(a) /\ WorkspaceOf[TaskOf(a)] # None /\ a \notin outlived
LockHeld ==
  \A a \in Attempt : Locked(a) => wsLease[WorkspaceOf[TaskOf(a)]] = a

LEMMA LockClaim ==
  ASSUME TypeOK, OneDriver, LockHeld, NEW w \in Worker, NEW t \in Task, ClaimTask(w, t)
  PROVE  LockHeld'
<1> DEFINE a == <<t, attempts[t] + 1>>
<1>1. a \in Attempt /\ TaskOf(a) = t
  BY MaxAttemptsAssumption, AttemptIsPair DEF ClaimTask, TypeOK
<1>2. /\ \A k \in Workspace : wsLease'[k] = IF k = WorkspaceOf[t] THEN a ELSE wsLease[k]
      /\ WorkspaceFree(t) /\ state[t] = "queued" /\ worker' = worker
      /\ owner' = [owner EXCEPT ![a] = w] /\ pc' = [pc EXCEPT ![a] = "probe"]
      /\ outlived' = outlived
  BY DEF ClaimTask, memVars, timeVars
<1>3. \A b \in Attempt : Running(b) => TaskOf(b) \in Task \ {t}
  BY <1>2, AttemptParts DEF OneDriver, RunningIsNewest, InFlight
<1> HIDE DEF a
<1>4. \A b \in Attempt \ {a} : Running(b)' <=> Running(b)
  BY <1>1, <1>2 DEF Running, Up, TypeOK
<1>5. ASSUME NEW b \in Attempt \ {a}, Locked(b)
      PROVE  WorkspaceOf[TaskOf(b)] # WorkspaceOf[t] /\ WorkspaceOf[TaskOf(b)] \in Workspace
  <2>1. TaskOf(b) \in Task \ {t} /\ WorkspaceOf[TaskOf(b)] \in Workspace
    BY <1>3, <1>5, ConfigAssumption DEF Locked
  <2>2. wsLease[WorkspaceOf[TaskOf(b)]] = b
    BY <1>5 DEF LockHeld
  <2>3. b # None /\ \A n \in 1..MaxAttempts : b # <<t, n>>
    BY <2>1, NoneAssumption, AttemptIsPair
  <2> QED
    BY <1>2, <2>1, <2>2, <2>3 DEF WorkspaceFree
<1>6. WorkspaceOf[t] # None => wsLease'[WorkspaceOf[t]] = a
  BY <1>2, ConfigAssumption
<1> QED
  BY <1>1, <1>2, <1>4, <1>5, <1>6 DEF LockHeld, Locked

(* Only a claim sets the executor of a task going; apart from it a lock only *)
(* leaves an attempt that does not run any more, or runs out.                *)
LEMMA LockRests ==
  ASSUME TypeOK, LockHeld, outlived \subseteq outlived',
         \A a \in Attempt : Running(a)' => Running(a),
         \A k \in Workspace : wsLease'[k] = wsLease[k]
                              \/ \A a \in Attempt : wsLease[k] = a => ~Locked(a)'
  PROVE  LockHeld'
<1> SUFFICES ASSUME NEW a \in Attempt, Locked(a)'
             PROVE  wsLease'[WorkspaceOf[TaskOf(a)]] = a
  BY DEF LockHeld
<1>1. WorkspaceOf[TaskOf(a)] \in Workspace
  BY AttemptParts, ConfigAssumption DEF Locked
<1>2. wsLease[WorkspaceOf[TaskOf(a)]] = a
  BY DEF LockHeld, Locked
<1> QED
  BY <1>1, <1>2

LEMMA ExecutorRests ==
  ASSUME TypeOK, NEW a \in Attempt, Executor(a)
  PROVE  /\ UNCHANGED <<owner, worker, outlived>> /\ Running(a)
         /\ \E p : /\ pc' = [pc EXCEPT ![a] = p]
                   /\ wsLease' = wsLease \/ (p = "done" /\ wsLease' = ReleasedLease(a))
  BY DEF Executor, Launch, Consume, BeginPreparing, BeginConnecting, SessionOpened,
     BeginDispatch,
         TurnHandleSaved, EnterRunning, FailFast, ExecutorRaises, StreamCompletes, StreamDrops,
         SeeCancel, CancelConfirmed, CancelUnconfirmed, RegisterInputRequest, InputAccepted,
         InputTimesOut, UpdateLaunchPhase, FinishTask, MarkRecoveryRequired, Goto, Executing,
         attemptVars, leaseVars, memVars, timeVars

LEMMA LockHeldStep ==
  ASSUME Stallable = {}, TypeOK, OneDriver, LockHeld, [Next]_vars
  PROVE  LockHeld'
<1>1. ASSUME NEW a \in Attempt, Executor(a) PROVE LockHeld'
  <2>1. PICK p : /\ pc' = [pc EXCEPT ![a] = p]
                 /\ wsLease' = wsLease \/ (p = "done" /\ wsLease' = ReleasedLease(a))
    BY <1>1, ExecutorRests
  <2>2. UNCHANGED <<owner, worker, outlived>> /\ Running(a)
    BY <1>1, ExecutorRests
  <2>3. \A b \in Attempt : Running(b)' => Running(b) /\ (b = a => p # "done")
    BY <2>1, <2>2 DEF Running, Up, TypeOK
  <2>4. \A k \in Workspace : wsLease'[k] = wsLease[k]
                              \/ \A b \in Attempt : wsLease[k] = b => ~Running(b)'
    BY <2>1, <2>3 DEF ReleasedLease
  <2> QED
    BY <2>2, <2>3, <2>4, LockRests DEF Locked
<1>2. ASSUME UNCHANGED <<wsLease, outlived>>, \A a \in Attempt : Running(a)' => Running(a) PROVE LockHeld'
  BY <1>2, LockRests
<1>3. ASSUME NEW k \in Workspace, WorkspaceLeaseExpires(k) PROVE LockHeld'
  <2>1. /\ UNCHANGED <<owner, worker, pc>> /\ outlived' = outlived \cup {wsLease[k]}
        /\ wsLease' = [wsLease EXCEPT ![k] = None]
    BY <1>3 DEF WorkspaceLeaseExpires, attemptVars, memVars
  <2>2. \A a \in Attempt : wsLease[k] = a => ~Locked(a)'
    BY <2>1 DEF Locked
  <2> QED
    BY <2>1, <2>2, SameRunning, LockRests DEF TypeOK
<1>4. ASSUME NEW w \in Worker, RegisterWorker(w) PROVE LockHeld'
  <2>1. UNCHANGED <<owner, pc, wsLease, outlived>> /\ worker' = [worker EXCEPT ![w] = "up"]
        /\ worker[w] \in {"off", "up"}
    BY <1>4 DEF RegisterWorker, attemptVars, timeVars
  <2>2. \A a \in Attempt : Running(a)' => Running(a)
    BY <2>1 DEF Running, Up, OneDriver, RunningIsNewest, TypeOK
  <2> QED
    BY <1>2, <2>1, <2>2
<1>5. ASSUME NEW w \in Worker, Leave(w) PROVE LockHeld'
  <2>1. /\ UNCHANGED <<owner, wsLease, outlived>>
        /\ \A a \in Attempt : pc'[a] \in {pc[a], "done"}
        /\ worker' = [worker EXCEPT ![w] = "dead"]
           \/ (worker[w] = "up" /\ worker' = [worker EXCEPT ![w] = "stopping"])
    BY <1>5 DEF Leave, GracefulStop, ReleaseWorker, WorkerCrash, Exit, attemptVars,
       leaseVars, timeVars
  <2>2. \A a \in Attempt : Running(a)' => Running(a)
    BY <2>1 DEF Running, Up, TypeOK
  <2> QED
    BY <1>2, <2>1, <2>2
<1>6. ASSUME NEW w \in Worker,
             EnforceDeadlines(w) \/ Recover(w) \/ (\E t \in Task : ListOrphan(w, t))
               \/ (\E a \in Attempt : ExpireStaleInput(w, a))
      PROVE  UNCHANGED <<owner, pc, worker, wsLease, outlived>>
  BY <1>6 DEF EnforceDeadlines, Recover, ReadAttempt, BeginRecovery, RequeueTask,
     GiveUpRecovery,
      MarkRecoveryRequired, ListOrphan, ExpireStaleInput, attemptVars, leaseVars, memVars, timeVars
<1>7. Bot \/ (Expiry /\ \A k \in Workspace : ~WorkspaceLeaseExpires(k))
        \/ (\E a \in Attempt : AgentStarts(a) \/ AgentStops(a)) \/ UNCHANGED vars
        => UNCHANGED <<owner, pc, worker, wsLease, outlived>>
  BY DEF Bot, SubmitTask, RequestCancel, RespondInput, Expiry, DeadlinePasses, LeaseExpires,
      WorkerLeaseExpires, AgentStarts, AgentStops, vars, attemptVars, leaseVars, memVars, timeVars
<1>8. UNCHANGED <<owner, pc, worker, wsLease, outlived>> => LockHeld'
  BY <1>2, SameRunning
<1> QED
  BY <1>1, <1>3, <1>4, <1>5, <1>6, <1>7, <1>8, LockClaim DEF Next, Expiry, WorkerStep

(* Two tasks of a workspace are executed together only after the lock of one *)
(* of them has run out, where no worker stalls for longer than a lease:      *)
(* claim, verdict, crash and requeue never give a live lock away.            *)
THEOREM WorkspaceIsExclusive ==
  ASSUME Stallable = {}
  PROVE  Spec => []SharedOnlyAfterExpiry
<1>1. Init => OneDriver /\ LockHeld
  BY ConfigAssumption DEF Init, OneDriver, RunningIsNewest, TurnIsNewest,
     RecoveryIsSafe, Running,
     Launching, Consuming, LockHeld, Locked
<1>2. TypeOK /\ CurrentIsNewest /\ OneDriver /\ LockHeld /\ [Next]_vars => OneDriver' /\ LockHeld'
  BY DriverStep, LockHeldStep
<1>3. LockHeld => SharedOnlyAfterExpiry
  BY DEF LockHeld, Locked, SharedOnlyAfterExpiry, Share, Occupies
<1> QED
  BY <1>1, <1>2, <1>3, TypeCorrect, FenceIsNewest, PTL DEF Spec

-----------------------------------------------------------------------------
(* Refinement: what the requester sees of the tables is the contract.        *)

Life(t) == CASE state[t] = "none" -> "absent"
             [] state[t] \in ActiveStates -> "open"
             [] OTHER -> "settled"
Verdict(t) == IF state[t] \in Terminal THEN state[t] ELSE "none"
Runs(t) == {a \in Attempt : TaskOf(a) = t /\ turn[a] # "none"}

LEMMA LifeIs ==
  ASSUME NEW t \in Task
  PROVE  /\ state[t] = "none" => Life(t) = "absent" /\ Verdict(t) = "none"
         /\ state[t] \in ActiveStates => Life(t) = "open" /\ Verdict(t) = "none"
         /\ state[t] \in Terminal => Life(t) = "settled" /\ Verdict(t) = state[t]
  BY DEF Life, Verdict, ActiveStates, Terminal

LEMMA NextLifeIs ==
  ASSUME NEW t \in Task
  PROVE  /\ state'[t] \in ActiveStates => Life(t)' = "open" /\ Verdict(t)' = "none"
         /\ state'[t] \in Terminal => Life(t)' = "settled" /\ Verdict(t)' = state'[t]
         /\ state'[t] = state[t] => Life(t)' = Life(t) /\ Verdict(t)' = Verdict(t)
  BY DEF Life, Verdict, ActiveStates, Terminal

(* Only AgentStarts makes a turn reach the agent.                            *)
LEMMA TurnsRest ==
  ASSUME TypeOK, OneDriver, [Next]_vars, \A a \in Attempt : ~AgentStarts(a)
  PROVE  \A a \in Attempt : turn'[a] = "none" <=> turn[a] = "none"
<1>1. ASSUME NEW a \in Attempt, StreamCompletes(a) \/ CancelConfirmed(a) \/ AgentStops(a)
      PROVE  turn' = [turn EXCEPT ![a] = "ended"] /\ turn[a] # "none"
  BY <1>1 DEF StreamCompletes, CancelConfirmed, AgentStops, Goto, OneDriver,
     TurnIsNewest, Consuming
<1>2. ASSUME NEW a \in Attempt, Executor(a), ~StreamCompletes(a), ~CancelConfirmed(a)
      PROVE  turn' = turn
  BY <1>2
  DEF Executor, Launch, Consume, BeginPreparing, BeginConnecting, SessionOpened,
      BeginDispatch,
      TurnHandleSaved, UpdateLaunchPhase, EnterRunning, FailFast, ExecutorRaises, StreamDrops,
      SeeCancel, CancelUnconfirmed, RegisterInputRequest, InputAccepted, InputTimesOut
<1>3. ASSUME NEW w \in Worker, WorkerStep(w) \/ Leave(w) PROVE turn' = turn
  BY <1>3
  DEF WorkerStep, Leave, Recover, RegisterWorker, EnforceDeadlines, ReadAttempt,
      BeginRecovery,
      RequeueTask, GiveUpRecovery, ClaimTask, ListOrphan, ExpireStaleInput, GracefulStop,
      ReleaseWorker, WorkerCrash, Exit
<1>4. Bot \/ Expiry \/ UNCHANGED vars => turn' = turn
  BY DEF Bot, Expiry, SubmitTask, RequestCancel, RespondInput, DeadlinePasses, LeaseExpires,
         WorkspaceLeaseExpires, WorkerLeaseExpires, vars
<1> QED
  BY <1>1, <1>2, <1>3, <1>4 DEF Next, TypeOK

(* What happens to one task in one step.                                     *)
OneTaskStep(t) ==
  \/ /\ Life(t) = "absent" /\ Life(t)' = "open" /\ Verdict(t)' = "none" /\ Runs(t)' = Runs(t)
  \/ /\ Life(t) = "open" /\ Runs(t) = {} /\ \E run \in Runs(t)' : Runs(t)' = {run}
     /\ Life(t)' = Life(t) /\ Verdict(t)' = Verdict(t)
  \/ /\ Life(t) = "open" /\ Life(t)' = "settled" /\ Runs(t)' = Runs(t)
     /\ \/ Verdict(t)' \in {"succeeded", "partial"} /\ Runs(t) # {}
        \/ Verdict(t)' \in {"cancelled", "timed_out"} /\ t \in Causes'
        \/ Verdict(t)' \in {"failed", "recovery_required"}
  \/ /\ Life(t)' = Life(t) /\ Verdict(t)' = Verdict(t) /\ Runs(t)' = Runs(t)

LEMMA BeginsOnce ==
  ASSUME TypeOK, OneDriver, NEW a \in Attempt, AgentStarts(a), NEW t \in Task
  PROVE  OneTaskStep(t)
<1>1. /\ state' = state /\ turn' = [turn EXCEPT ![a] = "live"] /\ turn[a] = "none" /\ Running(a)
  BY DEF AgentStarts, taskVars
<1>2. /\ NumberOf(a) = attempts[TaskOf(a)] /\ state[TaskOf(a)] \in ActiveStates
      /\ \A b \in Attempt : TaskOf(b) = TaskOf(a) => turn[b] = "none"
  BY <1>1, SameAttempt DEF OneDriver, RunningIsNewest, TurnIsNewest, InFlight
<1>3. Life(t)' = Life(t) /\ Verdict(t)' = Verdict(t)
  BY <1>1, NextLifeIs
<1>4. \A b \in Attempt : turn'[b] = IF b = a THEN "live" ELSE turn[b]
  BY <1>1 DEF TypeOK
<1>5. CASE t = TaskOf(a)
  <2>1. Life(t) = "open"
    BY <1>2, <1>5, LifeIs
  <2>2. Runs(t) = {} /\ Runs(t)' = {a}
    BY <1>2, <1>4, <1>5 DEF Runs
  <2> QED
    BY <1>3, <2>1, <2>2 DEF OneTaskStep
<1>6. CASE t # TaskOf(a)
  <2>1. Runs(t)' = Runs(t)
    BY <1>4, <1>6 DEF Runs
  <2> QED
    BY <1>3, <2>1 DEF OneTaskStep
<1> QED
  BY <1>5, <1>6

LEMMA SettlesOnce ==
  ASSUME TypeOK, CurrentIsNewest, Asking, StoppedForCause, OneDriver, [Next]_vars,
         \A a \in Attempt : ~AgentStarts(a), NEW t \in Task
  PROVE  OneTaskStep(t)
<1>1. Runs(t)' = Runs(t) /\ \A a \in Attempt : turn'[a] = "none" <=> turn[a] = "none"
  BY TurnsRest DEF Runs
<1>2. CASE state'[t] = state[t]
  BY <1>1, <1>2, NextLifeIs DEF OneTaskStep
<1>3. CASE state[t] = "none" /\ state'[t] = "queued"
  BY <1>1, <1>3, LifeIs, NextLifeIs DEF OneTaskStep, ActiveStates
<1>4. CASE state[t] \in ActiveStates /\ state'[t] \in ActiveStates
  BY <1>1, <1>4, LifeIs, NextLifeIs DEF OneTaskStep
<1>5. CASE state[t] \in ActiveStates /\ state'[t] \in Terminal
  <2>1. state'[t] \in {"succeeded", "partial"} => Runs(t) # {}
    <3>1. SUFFICES ASSUME state'[t] \in {"succeeded", "partial"} PROVE Runs(t) # {}
      OBVIOUS
    <3>2. PICK a \in Attempt, verdict \in ByExecutor \cup {"cancelled"} :
            Finishes(a, verdict) /\ TaskOf(a) = t /\ verdict = state'[t]
      BY <1>5, <3>1, StepEffect
      DEF Effect, Moves, Submits, Claims, Requeues, Finishes, TypeOK, InFlight, ActiveStates
    <3>3. turn[a] # "none"
      BY <1>1, <3>1, <3>2 DEF Finishes, Grounds
    <3> QED
      BY <3>2, <3>3 DEF Runs
  <2>2. state'[t] \in {"cancelled", "timed_out"} => t \in Causes'
    BY CauseStep DEF StoppedForCause, Causes
  <2> QED
    BY <1>1, <1>5, <2>1, <2>2, LifeIs, NextLifeIs DEF OneTaskStep, Terminal
<1>6. \/ state'[t] = state[t]
      \/ state[t] = "none" /\ state'[t] = "queued"
      \/ state[t] \in ActiveStates /\ state'[t] \in ActiveStates
      \/ state[t] \in ActiveStates /\ state'[t] \in Terminal
  <2>1. CASE Moves
    BY <2>1 DEF Moves, InFlight, ActiveStates, Terminal
  <2>2. CASE \E u \in Task : Submits(u) \/ Claims(u) \/ Requeues(u)
    BY <2>2 DEF Submits, Claims, Requeues, TypeOK, ActiveStates
  <2>3. ASSUME NEW a \in Attempt, NEW verdict \in ByExecutor \cup {"cancelled"},
               Finishes(a, verdict)
        PROVE  \/ state'[t] = state[t]
               \/ state[t] \in ActiveStates /\ state'[t] \in Terminal
    <3>1. current[TaskOf(a)] # 0 /\ state[TaskOf(a)] \notin Terminal
      BY <2>3, AttemptParts, MaxAttemptsAssumption DEF Finishes, CanFinish
    <3>2. state[TaskOf(a)] \in ActiveStates
      BY <2>3, <3>1, AttemptParts DEF CurrentIsNewest, TypeOK, States
    <3> QED
      BY <2>3, <3>2 DEF Finishes, TypeOK, ByExecutor, Terminal
  <2> QED
    BY <2>1, <2>2, <2>3, StepEffect DEF Effect
<1> QED
  BY <1>2, <1>3, <1>4, <1>5, <1>6

LEMMA StepOfContract ==
  ASSUME TypeOK, CurrentIsNewest, Asking, StoppedForCause, OneDriver, [Next]_vars
  PROVE  Contract!Next
<1>1. Causes \subseteq Causes'
  BY ControlsGrow, AskingStep DEF Causes, Expirations
<1>2. ASSUME NEW t \in Task PROVE OneTaskStep(t)
  <2>1. CASE \E a \in Attempt : AgentStarts(a)
    BY <2>1, BeginsOnce
  <2>2. CASE \A a \in Attempt : ~AgentStarts(a)
    BY <2>2, SettlesOnce
  <2> QED
    BY <2>1, <2>2
<1>3. ASSUME NEW t \in Task
      PROVE  Contract!Accept(t) \/ Contract!Begin(t) \/ Contract!Settle(t) \/ Contract!Rest(t)
  BY <1>2 DEF OneTaskStep, Life, Verdict, Runs, Causes, Contract!Accept, Contract!Begin,
     Contract!Settle, Contract!Rest, Contract!Same, Contract!Executed, Contract!Interrupted,
     Contract!Otherwise
<1> QED
  BY <1>1, <1>3 DEF Contract!Next, Causes

(* With no stalled worker, the tables, leases and processes implement the    *)
(* contract: a task is accepted once, executed at most once and settled once *)
(* for a cause, whatever crashes, expires or arrives late.                   *)
THEOREM ContractIsKept ==
  ASSUME Stallable = {}
  PROVE  Spec => ImplementsContract
<1>1. Init => OneDriver /\ Asking /\ StoppedForCause
  BY ConfigAssumption DEF Init, OneDriver, RunningIsNewest, TurnIsNewest,
     RecoveryIsSafe, Running,
     Launching, Consuming, Asking, StoppedForCause
<1>2. Init => Contract!Init
  BY LifeIs DEF Init, Contract!Init, ActiveStates, Terminal
<1>3. TypeOK /\ CurrentIsNewest /\ Asking /\ StoppedForCause /\ OneDriver /\ [Next]_vars
        => Asking' /\ StoppedForCause' /\ OneDriver'
  BY AskingStep, CauseStep, DriverStep
<1>4. TypeOK /\ CurrentIsNewest /\ Asking /\ StoppedForCause /\ OneDriver /\ [Next]_vars
        => Contract!Next
  BY StepOfContract
<1> QED
  BY <1>1, <1>2, <1>3, <1>4, TypeCorrect, FenceIsNewest, PTL
  DEF Spec, ImplementsContract, Contract!Spec
=============================================================================
