--------------------------- MODULE SchedulingProofs ---------------------------
(* Theorems of Scheduling for any tasks, groups and workers, any horizon,    *)
(* quotas and number of revisions, and any number of crashes and stalls.     *)
EXTENDS Scheduling, TLAPS

-----------------------------------------------------------------------------
(* The inductive invariant.                                                  *)

(* A worker that executes a run, or records a fire, has a run in hand.       *)
HeldOK == \A w \in Worker : step[w] \in JobSteps \cup {"record"} => held[w] \in Run

(* A worker that has begun to send does so for a run of its own, which lease *)
(* recovery may have closed as uncertain in the meantime.                    *)
SendSteps == {"sending", "accepted", "rejected", "unknown"}
SendersOK ==
  /\ \A w \in Worker : step[w] \in SendSteps =>
       run[held[w]] \in {"sending", "delivery_unknown"}
  /\ \A v, w \in Worker :
       step[v] \in SendSteps /\ step[w] \in SendSteps /\ held[v] = held[w] => v = w

(* What a worker knows of the platform is so.                                *)
PostsOK ==
  \A w \in Worker :
    /\ step[w] \in {"sending", "rejected"} => posts[held[w]] = 0
    /\ step[w] = "accepted" => posts[held[w]] > 0

IInv == TypeOK /\ HeldOK /\ SendersOK /\ PostsOK /\ PostedOnce /\ ReportIsTrue
          /\ GroupIsSerial

(* A run that ended keeps its state.                                         *)
Kept == \A r \in Run : run[r] \in TerminalRun => run'[r] = run[r]

LEMMA RunParts ==
  /\ \A r \in Run : /\ TaskOf(r) \in Task /\ RevisionOf(r) \in 1..MaxRevision
                    /\ At(r) \in 0..Horizon
  /\ \A t \in Task, n \in 1..MaxRevision, k \in {"cron", "manual"}, i \in 0..Horizon :
       <<t, n, k, i>> \in Run /\ TaskOf(<<t, n, k, i>>) = t /\ At(<<t, n, k, i>>) = i
  BY DEF Run, TaskOf, RevisionOf, At

LEMMA InitInv == Init => IInv
  <1> SUFFICES ASSUME Init PROVE IInv
    OBVIOUS
  <1>1. TypeOK
    BY BoundsAssumption DEF Init, TypeOK, Steps
  <1>2. HeldOK /\ SendersOK /\ PostsOK
    BY DEF Init, HeldOK, SendersOK, PostsOK, JobSteps, SendSteps
  <1>3. PostedOnce /\ ReportIsTrue /\ GroupIsSerial
    BY DEF Init, PostedOnce, ReportIsTrue, GroupIsSerial, Executing
  <1> QED
    BY <1>1, <1>2, <1>3 DEF IInv

-----------------------------------------------------------------------------
(* Steps that send nothing: no run is begun to be sent or reported as sent,  *)
(* and no worker comes closer to the platform.                               *)

Quiet ==
  /\ posts' = posts
  /\ \A r \in Run : run'[r] # run[r] =>
       /\ run[r] \notin TerminalRun
       /\ run'[r] \notin {"sending", "sent"}
       /\ run[r] = "sending" => run'[r] = "delivery_unknown"
  /\ \A w \in Worker : step'[w] \in SendSteps => step'[w] = step[w] /\ held'[w] = held[w]

(* ... and no run is taken up.                                               *)
NoneTaken == \A r \in Run : run'[r] \in Executing => run[r] \in Executing

LEMMA NoneTakenSerial ==
  ASSUME GroupIsSerial, NoneTaken
  PROVE  GroupIsSerial'
  BY DEF GroupIsSerial, NoneTaken

LEMMA QuietInv ==
  ASSUME IInv, TypeOK', HeldOK', Quiet, GroupIsSerial'
  PROVE  IInv' /\ Kept
  <1>1. SendersOK'
    <2>1. \A w \in Worker : step'[w] \in SendSteps =>
            /\ step[w] = step'[w] /\ held'[w] = held[w] /\ held[w] \in Run
            /\ run[held[w]] \in {"sending", "delivery_unknown"}
      BY DEF IInv, Quiet, SendersOK, HeldOK, SendSteps, JobSteps
    <2>2. \A w \in Worker : step'[w] \in SendSteps =>
            run'[held[w]] \in {"sending", "delivery_unknown"}
      BY <2>1 DEF Quiet, TerminalRun
    <2> QED
      BY <2>1, <2>2 DEF SendersOK, IInv
  <1>2. PostsOK'
    BY DEF IInv, Quiet, PostsOK, SendSteps
  <1>3. PostedOnce'
    BY DEF IInv, Quiet, PostedOnce
  <1>4. ReportIsTrue'
    BY DEF IInv, Quiet, ReportIsTrue, TerminalRun
  <1>5. Kept
    BY DEF Quiet, Kept
  <1> QED
    BY <1>1, <1>2, <1>3, <1>4, <1>5 DEF IInv

-----------------------------------------------------------------------------
(* The commands of users.                                                    *)

LEMMA CommandsInv ==
  ASSUME IInv, NEW t \in Task, CreateTask(t) \/ EditTask(t) \/ SetStatus(t)
  PROVE  IInv' /\ Kept
  <1>1. UNCHANGED <<now, run, owner, lapsed, used, holder, step, held, todo, cursor, posts,
                    faults>>
    BY DEF CreateTask, EditTask, SetStatus, NextRevision, runVars, procVars
  <1>2. TypeOK'
    <2>1. CASE CreateTask(t)
      BY <1>1, <2>1 DEF CreateTask, IInv, TypeOK
    <2>2. CASE EditTask(t) \/ SetStatus(t)
      <3>1. /\ revision' = [revision EXCEPT ![t] = @ + 1] /\ revision[t] < MaxRevision
            /\ lastRun' = lastRun
            /\ status' = status \/ \E s \in {"active", "paused"} :
                                     status' = [status EXCEPT ![t] = s]
        BY <2>2 DEF EditTask, SetStatus, NextRevision
      <3>2. revision' \in [Task -> 1..MaxRevision]
        BY <3>1, BoundsAssumption DEF IInv, TypeOK
      <3>3. status' \in [Task -> {"none", "active", "paused", "cancelled"}]
        BY <3>1 DEF IInv, TypeOK
      <3> QED
        BY <1>1, <3>1, <3>2, <3>3 DEF IInv, TypeOK
    <2> QED
      BY <2>1, <2>2
  <1>3. HeldOK' /\ GroupIsSerial' /\ Quiet
    BY <1>1 DEF IInv, HeldOK, GroupIsSerial, Quiet
  <1> QED
    BY <1>2, <1>3, QuietInv

LEMMA CancelTaskInv ==
  ASSUME IInv, NEW t \in Task, CancelTask(t)
  PROVE  IInv' /\ Kept
  <1>1. /\ UNCHANGED <<now, owner, lapsed, lastRun, used, holder, step, held, todo, cursor,
                       posts, faults>>
        /\ status' = [status EXCEPT ![t] = "cancelled"]
        /\ revision' = [revision EXCEPT ![t] = @ + 1] /\ revision[t] < MaxRevision
        /\ run' = [r \in Run |-> IF TaskOf(r) = t /\ run[r] = "queued"
                                 THEN "cancelled" ELSE run[r]]
    BY DEF CancelTask, NextRevision, procVars
  <1>2. TypeOK'
    BY <1>1, BoundsAssumption DEF IInv, TypeOK, TerminalRun
  <1>3. \A r \in Run : run'[r] # run[r] => run[r] = "queued" /\ run'[r] = "cancelled"
    BY <1>1
  <1>4. HeldOK' /\ Quiet /\ NoneTaken
    BY <1>1, <1>3 DEF IInv, HeldOK, Quiet, NoneTaken, Executing, TerminalRun
  <1> QED
    BY <1>2, <1>4, QuietInv, NoneTakenSerial DEF IInv

(* A run is added to the queue.                                              *)
LEMMA QueuedInv ==
  ASSUME IInv, NEW r \in Run, run[r] = "none", run' = [run EXCEPT ![r] = "queued"],
         TypeOK', HeldOK', posts' = posts,
         \A w \in Worker : step'[w] \in SendSteps => step'[w] = step[w] /\ held'[w] = held[w]
  PROVE  IInv' /\ Kept
  <1>1. \A q \in Run : run'[q] # run[q] => run[q] = "none" /\ run'[q] = "queued"
    BY DEF IInv, TypeOK
  <1>2. Quiet /\ NoneTaken
    BY <1>1 DEF Quiet, NoneTaken, Executing, TerminalRun
  <1> QED
    BY <1>2, QuietInv, NoneTakenSerial DEF IInv

LEMMA RunNowInv ==
  ASSUME IInv, NEW t \in Task, RunNow(t)
  PROVE  IInv' /\ Kept
  <1> DEFINE r == <<t, revision[t], "manual", now>>
  <1>1. r \in Run
    BY RunParts DEF IInv, TypeOK
  <1>2. /\ run[r] = "none" /\ run' = [run EXCEPT ![r] = "queued"]
        /\ UNCHANGED <<now, status, revision, lastRun, owner, lapsed, used, holder, step,
                       held, todo, cursor, posts, faults>>
    BY DEF RunNow, Insertable, taskVars, procVars
  <1> HIDE DEF r
  <1>3. TypeOK'
    BY <1>1, <1>2 DEF IInv, TypeOK, ActiveRun
  <1>4. HeldOK'
    BY <1>2 DEF IInv, HeldOK
  <1> QED
    BY <1>1, <1>2, <1>3, <1>4, QueuedInv

-----------------------------------------------------------------------------
(* The tick of a worker.                                                     *)

(* Worker w goes to s, which is not a step of sending, and has r in hand.    *)
Moves(w, s, r) ==
  /\ step' = [step EXCEPT ![w] = s] /\ held' = [held EXCEPT ![w] = r]
  /\ s \in Steps \ SendSteps
  /\ r \in Run \cup {None} /\ (s \in JobSteps \cup {"record"} => r \in Run)

LEMMA MovesOK ==
  ASSUME IInv, NEW w \in Worker, NEW s, NEW r, Moves(w, s, r)
  PROVE  /\ step' \in [Worker -> Steps] /\ held' \in [Worker -> Run \cup {None}]
         /\ HeldOK'
         /\ \A v \in Worker :
              step'[v] \in SendSteps => step'[v] = step[v] /\ held'[v] = held[v]
  <1>1. step' \in [Worker -> Steps] /\ held' \in [Worker -> Run \cup {None}]
    BY DEF Moves, IInv, TypeOK
  <1>2. \A v \in Worker : IF v = w THEN step'[v] = s /\ held'[v] = r
                                   ELSE step'[v] = step[v] /\ held'[v] = held[v]
    BY DEF Moves, IInv, TypeOK
  <1>3. HeldOK'
    BY <1>2 DEF Moves, IInv, HeldOK
  <1> QED
    BY <1>1, <1>2, <1>3 DEF Moves

(* Nothing happens to the runs.                                              *)
LEMMA RestInv ==
  ASSUME IInv, TypeOK', HeldOK', UNCHANGED <<run, posts>>,
         \A v \in Worker :
           step'[v] \in SendSteps => step'[v] = step[v] /\ held'[v] = held[v]
  PROVE  IInv' /\ Kept
  <1>1. Quiet /\ GroupIsSerial'
    BY DEF IInv, Quiet, GroupIsSerial
  <1> QED
    BY <1>1, QuietInv

LEMMA StepOnly ==
  ASSUME IInv, NEW w \in Worker, NEW s, NEW r, Moves(w, s, r),
         UNCHANGED <<now, status, revision, run, used, posts>>,
         lastRun' \in [Task -> 0..Horizon], owner' \in [Run -> Worker \cup {None}],
         lapsed' \subseteq Run, faults' \in 0..MaxFaults,
         holder' \in Worker \cup {None}, todo' \in [Worker -> SUBSET Task],
         cursor' \in [Worker -> [Task -> 0..(Horizon + 1)]]
  PROVE  IInv' /\ Kept
  <1>1. TypeOK' /\ HeldOK'
    BY MovesOK DEF IInv, TypeOK
  <1> QED
    BY <1>1, MovesOK, RestInv

LEMMA SameHeld ==
  ASSUME IInv, NEW w \in Worker
  PROVE  /\ held = [held EXCEPT ![w] = held[w]] /\ held[w] \in Run \cup {None}
         /\ (step[w] \in JobSteps \cup {"record"} => held[w] \in Run)
  BY DEF IInv, TypeOK, HeldOK

LEMMA StartInv ==
  ASSUME IInv, NEW w \in Worker,
         Start(w) \/ AcquireWorkerLease(w) \/ ListActiveTasks(w) \/ EnqueueDone(w)
  PROVE  IInv' /\ Kept
  <1>1. /\ UNCHANGED <<now, status, revision, lastRun, run, owner, lapsed, used, held,
                       cursor, posts, faults>>
        /\ holder' \in {holder, w}
        /\ todo' = todo \/ todo' = [todo EXCEPT ![w] = {t \in Task : status[t] = "active"}]
        /\ \E s \in {"asleep", "recover", "enqueue", "claim"} :
             step' = [step EXCEPT ![w] = s]
    BY DEF Start, AcquireWorkerLease, ListActiveTasks, EnqueueDone, taskVars, runVars
  <1>2. PICK s \in {"asleep", "recover", "enqueue", "claim"} : step' = [step EXCEPT ![w] = s]
    BY <1>1
  <1>3. Moves(w, s, held[w])
    BY <1>1, <1>2, SameHeld DEF Moves, Steps, SendSteps, JobSteps
  <1>4. todo' \in [Worker -> SUBSET Task]
    BY <1>1 DEF IInv, TypeOK
  <1> QED
    BY <1>1, <1>3, <1>4, StepOnly DEF IInv, TypeOK

LEMMA RecoverInv ==
  ASSUME IInv, NEW w \in Worker, RecoverExpiredLeases(w)
  PROVE  IInv' /\ Kept
  <1>1. /\ UNCHANGED <<now, status, revision, lastRun, used, holder, held, todo, cursor,
                       posts, faults>>
        /\ run' = [r \in Run |-> IF r \in Expired THEN Recovered(run[r]) ELSE run[r]]
        /\ owner' = [r \in Run |-> IF r \in Expired THEN None ELSE owner[r]]
        /\ lapsed' = lapsed \ Expired
        /\ step' = [step EXCEPT ![w] = "list"]
    BY DEF RecoverExpiredLeases, taskVars
  <1>2. Moves(w, "list", held[w])
    BY <1>1, SameHeld DEF Moves, Steps, SendSteps, JobSteps
  <1>3. \A r \in Run : run'[r] # run[r] =>
          /\ run[r] \in Executing
          /\ run'[r] = IF run[r] = "sending" THEN "delivery_unknown" ELSE "queued"
    BY <1>1 DEF Expired, Recovered
  <1>4. TypeOK'
    <2>1. run' \in [Run -> {"none"} \cup ActiveRun \cup TerminalRun]
      BY <1>1, <1>3 DEF IInv, TypeOK, ActiveRun, TerminalRun
    <2>2. owner' \in [Run -> Worker \cup {None}] /\ lapsed' \subseteq Run
      BY <1>1 DEF IInv, TypeOK
    <2> QED
      BY <1>1, <1>2, <2>1, <2>2, MovesOK DEF IInv, TypeOK
  <1>5. Quiet /\ NoneTaken
    BY <1>1, <1>2, <1>3, MovesOK DEF Quiet, NoneTaken, Executing, TerminalRun
  <1> QED
    BY <1>2, <1>4, <1>5, QuietInv, NoneTakenSerial, MovesOK DEF IInv

LEMMA EnqueueFireInv ==
  ASSUME IInv, NEW w \in Worker, NEW t \in Task, EnqueueFire(w, t)
  PROVE  IInv' /\ Kept
  <1>1. /\ UNCHANGED <<now, status, revision, lastRun, owner, lapsed, used, holder, posts,
                       faults>>
        /\ step[w] = "enqueue" /\ todo' = [todo EXCEPT ![w] = @ \ {t}]
        /\ todo' \in [Worker -> SUBSET Task]
    BY DEF EnqueueFire, taskVars, IInv, TypeOK
  <1>2. NextFire(w, t) \in Nat /\ NextFire(w, t) <= Horizon + 1 /\ now \in 0..Horizon
        /\ Horizon \in Nat
    BY BoundsAssumption DEF IInv, TypeOK, NextFire
  <1>3. CASE NextFire(w, t) <= now /\ Insertable(Fire(w, t))
    <2> DEFINE r == Fire(w, t)
    <2>1. r \in Run
      <3>1. (IF t \in Latest THEN now ELSE NextFire(w, t)) \in 0..Horizon
        BY <1>2, <1>3
      <3> QED
        BY <3>1, RunParts DEF Fire, IInv, TypeOK
    <2>2. /\ run[r] = "none" /\ run' = [run EXCEPT ![r] = "queued"]
          /\ held' = [held EXCEPT ![w] = r] /\ step' = [step EXCEPT ![w] = "record"]
          /\ UNCHANGED cursor
      BY <1>3 DEF EnqueueFire, Insertable
    <2> HIDE DEF r
    <2>3. Moves(w, "record", r)
      BY <2>1, <2>2 DEF Moves, Steps, SendSteps
    <2>4. TypeOK'
      BY <1>1, <2>1, <2>2, <2>3, MovesOK DEF IInv, TypeOK, ActiveRun
    <2> QED
      BY <1>1, <2>1, <2>2, <2>3, <2>4, QueuedInv, MovesOK
  <1>4. CASE ~(NextFire(w, t) <= now /\ Insertable(Fire(w, t)))
    <2>1. /\ cursor' = [cursor EXCEPT ![w][t] = NextFire(w, t)]
          /\ UNCHANGED <<run, held, step>>
      BY <1>4 DEF EnqueueFire
    <2>2. cursor' \in [Worker -> [Task -> 0..(Horizon + 1)]]
      <3>1. NextFire(w, t) \in 0..(Horizon + 1)
        BY <1>2
      <3> QED
        BY <2>1, <3>1 DEF IInv, TypeOK
    <2>3. TypeOK' /\ HeldOK'
      BY <1>1, <2>1, <2>2 DEF IInv, TypeOK, HeldOK
    <2> QED
      BY <1>1, <2>1, <2>3, RestInv
  <1> QED
    BY <1>3, <1>4

LEMMA RecordTaskFiredInv ==
  ASSUME IInv, NEW w \in Worker, RecordTaskFired(w)
  PROVE  IInv' /\ Kept
  <1>1. held[w] \in Run /\ TaskOf(held[w]) \in Task /\ At(held[w]) \in 0..Horizon
        /\ Horizon \in Nat /\ step[w] = "record"
    BY RunParts, BoundsAssumption DEF RecordTaskFired, IInv, HeldOK
  <1>2. /\ UNCHANGED <<now, status, revision, run, owner, lapsed, used, holder, todo, posts,
                       faults>>
        /\ cursor' = [cursor EXCEPT ![w][TaskOf(held[w])] = At(held[w]) + 1]
        /\ lastRun' = [lastRun EXCEPT ![TaskOf(held[w])] = At(held[w])]
        /\ step' = [step EXCEPT ![w] = "enqueue"] /\ held' = [held EXCEPT ![w] = None]
    BY DEF RecordTaskFired, runVars
  <1>3. Moves(w, "enqueue", None)
    BY <1>2 DEF Moves, Steps, SendSteps, JobSteps
  <1>4. lastRun' \in [Task -> 0..Horizon]
    BY <1>1, <1>2 DEF IInv, TypeOK
  <1>5. cursor' \in [Worker -> [Task -> 0..(Horizon + 1)]]
    <2>1. At(held[w]) + 1 \in 0..(Horizon + 1)
      BY <1>1
    <2> QED
      BY <1>1, <1>2, <2>1 DEF IInv, TypeOK
  <1> QED
    BY <1>2, <1>3, <1>4, <1>5, StepOnly DEF IInv, TypeOK

LEMMA ClaimNextRunInv ==
  ASSUME IInv, NEW w \in Worker, ClaimNextRun(w)
  PROVE  IInv' /\ Kept
  <1>1. UNCHANGED <<now, status, revision, lastRun, lapsed, holder, todo, cursor, posts,
                    faults>>
    BY DEF ClaimNextRun, taskVars
  <1>2. ASSUME NEW passed,
               \/ \E r \in Run :
                    /\ run[r] = "queued" /\ ~GroupBusy(r) /\ ~OverQuota(r)
                    /\ run' = [Swept(passed) EXCEPT ![r] = "claimed"]
                    /\ owner' = [owner EXCEPT ![r] = w]
                    /\ used' = [used EXCEPT ![GroupOf[TaskOf(r)]] = @ + 1]
                    /\ held' = [held EXCEPT ![w] = r]
                    /\ step' = [step EXCEPT ![w] = "claimed"]
               \/ /\ run' = Swept(passed) /\ step' = [step EXCEPT ![w] = "asleep"]
                  /\ UNCHANGED <<owner, used, held>>
        PROVE  IInv' /\ Kept
    <2>1. /\ Swept(passed) \in [Run -> {"none"} \cup ActiveRun \cup TerminalRun]
          /\ \A q \in Run : \/ Swept(passed)[q] = run[q]
                            \/ run[q] = "queued" /\ Swept(passed)[q] = "skipped"
      BY DEF Swept, IInv, TypeOK, TerminalRun
    <2>2. CASE /\ run' = Swept(passed) /\ step' = [step EXCEPT ![w] = "asleep"]
               /\ UNCHANGED <<owner, used, held>>
      <3>1. Moves(w, "asleep", held[w])
        BY <2>2, SameHeld DEF Moves, Steps, SendSteps, JobSteps
      <3>2. TypeOK'
        BY <1>1, <2>1, <2>2, <3>1, MovesOK DEF IInv, TypeOK
      <3>3. Quiet /\ NoneTaken
        BY <1>1, <2>1, <2>2, <3>1, MovesOK DEF Quiet, NoneTaken, Executing, TerminalRun
      <3> QED
        BY <3>1, <3>2, <3>3, MovesOK, QuietInv, NoneTakenSerial DEF IInv
    <2>3. ASSUME NEW r \in Run,
                 /\ run[r] = "queued" /\ ~GroupBusy(r) /\ ~OverQuota(r)
                 /\ run' = [Swept(passed) EXCEPT ![r] = "claimed"]
                 /\ owner' = [owner EXCEPT ![r] = w]
                 /\ used' = [used EXCEPT ![GroupOf[TaskOf(r)]] = @ + 1]
                 /\ held' = [held EXCEPT ![w] = r]
                 /\ step' = [step EXCEPT ![w] = "claimed"]
          PROVE  IInv' /\ Kept
      <3>1. Moves(w, "claimed", r)
        BY <2>3 DEF Moves, Steps, JobSteps, SendSteps
      <3>2. \A q \in Run : IF q = r THEN run'[q] = "claimed" ELSE run'[q] = Swept(passed)[q]
        BY <2>1, <2>3
      <3>3. TypeOK'
        <4>1. run' \in [Run -> {"none"} \cup ActiveRun \cup TerminalRun]
          BY <2>1, <2>3 DEF ActiveRun, Executing
        <4>2. used' \in [Group -> 0..Cap]
          <5>1. GroupOf[TaskOf(r)] \in Group
            BY RunParts, GroupAssumption
          <5>2. used[GroupOf[TaskOf(r)]] < Cap /\ Cap \in Nat
            BY <2>3, <5>1, BoundsAssumption DEF OverQuota, IInv, TypeOK
          <5> QED
            BY <2>3, <5>1, <5>2 DEF IInv, TypeOK
        <4>3. owner' \in [Run -> Worker \cup {None}]
          BY <2>3 DEF IInv, TypeOK
        <4> QED
          BY <1>1, <3>1, <4>1, <4>2, <4>3, MovesOK DEF IInv, TypeOK
      <3>4. Quiet
        BY <1>1, <2>1, <2>3, <3>1, <3>2, MovesOK DEF Quiet, TerminalRun
      <3>5. GroupIsSerial'
        <4>1. \A q \in Run : run'[q] \in Executing =>
                \/ q = r
                \/ run[q] \in Executing /\ GroupOf[TaskOf(q)] # GroupOf[TaskOf(r)]
          <5>1. \A q \in Run \ {r} :
                  run[q] \in Executing => GroupOf[TaskOf(q)] # GroupOf[TaskOf(r)]
            BY <2>3 DEF GroupBusy
          <5>2. \A q \in Run \ {r} : run'[q] \in Executing => run[q] \in Executing
            BY <2>1, <3>2 DEF Executing
          <5> QED
            BY <5>1, <5>2
        <4> QED
          BY <4>1 DEF GroupIsSerial, IInv
      <3> QED
        BY <3>1, <3>3, <3>4, <3>5, MovesOK, QuietInv
    <2> QED
      BY <1>2, <2>2, <2>3
  <1> QED
    BY <1>2 DEF ClaimNextRun

-----------------------------------------------------------------------------
(* The execution of a run.                                                   *)

(* A write to the run in hand that is before its sending.                    *)
LEMMA EarlyWriteInv ==
  ASSUME IInv, NEW w \in Worker, NEW s, NEW h, Moves(w, s, h), held[w] \in Run,
         NEW to \in {"running", "ready", "skipped", "cancelled", "silent", "failed"},
         run[held[w]] \in {"claimed", "running"}, Write(w, to),
         UNCHANGED <<now, status, revision, lastRun, used, holder, todo, cursor, posts,
                     faults>>
  PROVE  IInv' /\ Kept
  <1> DEFINE r == held[w]
  <1>1. run' = [run EXCEPT ![r] = to]
    BY DEF Write
  <1>2. \A q \in Run : run'[q] = IF q = r THEN to ELSE run[q]
    BY <1>1 DEF IInv, TypeOK
  <1>3. TypeOK'
    <2>1. run' \in [Run -> {"none"} \cup ActiveRun \cup TerminalRun]
      BY <1>1 DEF IInv, TypeOK, ActiveRun, Executing, TerminalRun
    <2>2. owner' = [owner EXCEPT ![r] = None] \/ owner' = owner
      BY DEF Write
    <2>3. owner' \in [Run -> Worker \cup {None}]
      BY <2>2 DEF IInv, TypeOK
    <2>4. lapsed' \subseteq Run
      BY DEF Write, IInv, TypeOK
    <2> QED
      BY <2>1, <2>3, <2>4, MovesOK DEF IInv, TypeOK
  <1>4. Quiet
    BY <1>2, MovesOK DEF Quiet, TerminalRun
  <1>5. NoneTaken
    BY <1>2 DEF NoneTaken, Executing
  <1> QED
    BY <1>3, <1>4, <1>5, QuietInv, NoneTakenSerial, MovesOK DEF IInv

LEMMA DropMoves ==
  ASSUME NEW w \in Worker, Drop(w)
  PROVE  Moves(w, "claim", None)
  BY DEF Drop, Moves, Steps, SendSteps, JobSteps

LEMMA CloseInv ==
  ASSUME IInv, NEW w \in Worker, step[w] \in JobSteps,
         NEW from \in SUBSET {"claimed", "running"},
         NEW to \in {"skipped", "cancelled", "silent", "failed"},
         Close(w, from, to), posts' = posts
  PROVE  IInv' /\ Kept
  <1>1. /\ Moves(w, "claim", None) /\ held[w] \in Run
        /\ UNCHANGED <<now, status, revision, lastRun, used, holder, todo, cursor, posts,
                       faults>>
    BY DropMoves, SameHeld DEF Close, taskVars
  <1>2. CASE Owns(w, held[w], from) /\ Write(w, to)
    BY <1>1, <1>2, EarlyWriteInv DEF Owns
  <1>3. CASE UNCHANGED runVars
    BY <1>1, <1>3, StepOnly DEF IInv, TypeOK, runVars
  <1> QED
    BY <1>2, <1>3 DEF Close

LEMMA AdvanceLost ==
  ASSUME IInv, NEW w \in Worker, NEW from, NEW to, NEW next,
         Advance(w, from, to, next), ~Owns(w, held[w], {from})
  PROVE  IInv' /\ Kept
  <1>1. /\ Drop(w)
        /\ UNCHANGED <<now, status, revision, lastRun, run, owner, lapsed, used, holder,
                       todo, cursor, posts, faults>>
    BY DEF Advance, Drop, taskVars, runVars
  <1> QED
    BY <1>1, DropMoves, StepOnly DEF IInv, TypeOK

LEMMA AdvanceInv ==
  ASSUME IInv, NEW w \in Worker, MarkRunning(w) \/ SaveResult(w)
  PROVE  IInv' /\ Kept
  <1>1. PICK from \in {"claimed", "running"}, to \in {"running", "ready"} :
          Advance(w, from, to, to)
    BY DEF MarkRunning, SaveResult
  <1>2. held[w] \in Run
    BY SameHeld DEF MarkRunning, SaveResult, JobSteps
  <1>3. CASE Owns(w, held[w], {from})
    <2>1. /\ Write(w, to) /\ step' = [step EXCEPT ![w] = to] /\ held' = held
          /\ UNCHANGED <<now, status, revision, lastRun, used, holder, todo, cursor, posts,
                         faults>>
      BY <1>1, <1>3 DEF Advance, taskVars
    <2>2. Moves(w, to, held[w])
      BY <1>2, <2>1, SameHeld DEF Moves, Steps, SendSteps, JobSteps
    <2> QED
      BY <1>2, <1>3, <2>1, <2>2, EarlyWriteInv DEF Owns
  <1> QED
    BY <1>1, <1>3, AdvanceLost

LEMMA ProceedInv ==
  ASSUME IInv, NEW w \in Worker, step[w] \in JobSteps, NEW from,
         NEW to \in JobSteps \ SendSteps, Proceed(w, from, to)
  PROVE  IInv' /\ Kept
  <1>1. /\ step' = [step EXCEPT ![w] = to]
        /\ UNCHANGED <<now, status, revision, lastRun, run, owner, lapsed, used, holder,
                       held, todo, cursor, posts, faults>>
    BY DEF Proceed, Goto, taskVars, runVars
  <1>2. Moves(w, to, held[w])
    BY <1>1, SameHeld DEF Moves, Steps
  <1> QED
    BY <1>1, <1>2, StepOnly DEF IInv, TypeOK

LEMMA LoadTaskInv ==
  ASSUME IInv, NEW w \in Worker, LoadTask(w)
  PROVE  IInv' /\ Kept
  <1>1. step[w] = "claimed"
    BY DEF LoadTask
  <1>2. CASE Proceed(w, "claimed", "waiting")
    BY <1>1, <1>2, ProceedInv DEF JobSteps, SendSteps
  <1>3. CASE /\ Drop(w)
             /\ UNCHANGED <<now, taskVars, runVars, used, holder, todo, cursor, posts, faults>>
    BY <1>3, DropMoves, StepOnly DEF IInv, TypeOK, taskVars, runVars
  <1> QED
    BY <1>2, <1>3 DEF LoadTask

LEMMA GateInv ==
  ASSUME IInv, NEW w \in Worker, GateRefuses(w) \/ GateAllows(w)
  PROVE  IInv' /\ Kept
  <1>1. CASE GateRefuses(w)
    BY <1>1, CloseInv DEF GateRefuses, JobSteps
  <1>2. CASE GateAllows(w)
    <2>1. /\ \E s \in {"checking", "delivering"} : step' = [step EXCEPT ![w] = s]
          /\ step[w] = "running" /\ lapsed' \subseteq lapsed
          /\ UNCHANGED <<now, status, revision, lastRun, run, owner, used, holder, held,
                         todo, cursor, posts, faults>>
      BY <1>2 DEF GateAllows, Goto, taskVars
    <2>2. PICK s \in {"checking", "delivering"} : step' = [step EXCEPT ![w] = s]
      BY <2>1
    <2>3. Moves(w, s, held[w])
      BY <2>1, <2>2, SameHeld DEF Moves, Steps, SendSteps, JobSteps
    <2> QED
      BY <2>1, <2>3, StepOnly DEF IInv, TypeOK
  <1> QED
    BY <1>1, <1>2

LEMMA AgentInv ==
  ASSUME IInv, NEW w \in Worker, Checkpoint(w) \/ AgentReplies(w) \/ AgentEnds(w)
  PROVE  IInv' /\ Kept
  <1>1. step[w] \in JobSteps
    BY DEF Checkpoint, AgentReplies, AgentEnds, Proceed, Goto, JobSteps
  <1>2. CASE Proceed(w, "checking", "thinking") \/ Proceed(w, "thinking", "delivering")
    BY <1>1, <1>2, ProceedInv DEF JobSteps, SendSteps
  <1>3. CASE Close(w, {"running"}, "cancelled") /\ UNCHANGED posts
    BY <1>1, <1>3, CloseInv
  <1>4. CASE AgentEnds(w)
    <2>1. PICK s \in {"silent", "failed"} : Close(w, {"running"}, s)
      BY <1>4 DEF AgentEnds
    <2> QED
      BY <1>1, <1>4, <2>1, CloseInv DEF AgentEnds
  <1> QED
    BY <1>2, <1>3, <1>4 DEF Checkpoint, AgentReplies

LEMMA ExecuteRaisesInv ==
  ASSUME IInv, NEW w \in Worker, ExecuteRaises(w)
  PROVE  IInv' /\ Kept
  BY CloseInv DEF ExecuteRaises

(* A run leaves ready for sending once: nothing was posted for it, and no    *)
(* other worker is sending it.                                               *)
LEMMA BeginSendingInv ==
  ASSUME IInv, NEW w \in Worker, BeginSending(w)
  PROVE  IInv' /\ Kept
  <1> DEFINE r == held[w]
  <1>1. step[w] = "ready" /\ r \in Run
    BY SameHeld DEF BeginSending, JobSteps
  <1>2. CASE ~Owns(w, held[w], {"ready"})
    BY <1>2, AdvanceLost DEF BeginSending
  <1>3. CASE Owns(w, held[w], {"ready"})
    <2>1. /\ run[r] = "ready" /\ run' = [run EXCEPT ![r] = "sending"]
          /\ step' = [step EXCEPT ![w] = "sending"] /\ held' = held
          /\ UNCHANGED <<now, status, revision, lastRun, owner, lapsed, used, holder, todo,
                         cursor, posts, faults>>
      BY <1>3 DEF BeginSending, Advance, Owns, Write, TerminalRun, taskVars
    <2>2. posts[r] = 0 /\ \A v \in Worker : step[v] \in SendSteps => held[v] # r
      BY <1>1, <2>1 DEF IInv, TypeOK, ReportIsTrue, SendersOK
    <2>3. /\ \A q \in Run : run'[q] = IF q = r THEN "sending" ELSE run[q]
          /\ \A v \in Worker : step'[v] = IF v = w THEN "sending" ELSE step[v]
      BY <2>1 DEF IInv, TypeOK
    <2>4. TypeOK' /\ HeldOK'
      BY <1>1, <2>1, <2>3 DEF IInv, TypeOK, HeldOK, ActiveRun, Executing, Steps, JobSteps
    <2>5. SendersOK'
      BY <1>1, <2>1, <2>2, <2>3 DEF IInv, SendersOK, HeldOK, SendSteps, JobSteps
    <2>6. PostsOK' /\ PostedOnce' /\ ReportIsTrue'
      BY <1>1, <2>1, <2>2, <2>3 DEF IInv, PostsOK, PostedOnce, ReportIsTrue
    <2>7. NoneTaken /\ Kept
      BY <2>1, <2>3 DEF NoneTaken, Kept, Executing, TerminalRun
    <2> QED
      BY <2>4, <2>5, <2>6, <2>7, NoneTakenSerial DEF IInv
  <1> QED
    BY <1>2, <1>3

LEMMA PostInv ==
  ASSUME IInv, NEW w \in Worker, Post(w)
  PROVE  IInv' /\ Kept
  <1> DEFINE r == held[w]
  <1>1. PICK s \in {"accepted", "rejected", "unknown"}, n \in 0..1 :
          /\ step[w] = "sending" /\ step' = [step EXCEPT ![w] = s]
          /\ posts' = [posts EXCEPT ![r] = @ + n]
          /\ (s = "accepted" => n = 1) /\ (s = "rejected" => n = 0)
    <2>1. r \in Run /\ posts \in [Run -> Nat]
      BY SameHeld DEF Post, Goto, IInv, TypeOK, JobSteps
    <2>2. posts = [posts EXCEPT ![r] = @ + 0]
      BY <2>1
    <2>3. CASE Goto(w, "sending", "accepted") /\ posts' = [posts EXCEPT ![r] = @ + 1]
      BY <2>3 DEF Goto
    <2>4. CASE Goto(w, "sending", "rejected") /\ UNCHANGED posts
      BY <2>2, <2>4 DEF Goto
    <2>5. CASE /\ Goto(w, "sending", "unknown")
               /\ \E n \in 0..1 : posts' = [posts EXCEPT ![r] = @ + n]
      BY <2>5 DEF Goto
    <2> QED
      BY <2>3, <2>4, <2>5 DEF Post
  <1>2. UNCHANGED <<now, status, revision, lastRun, run, owner, lapsed, used, holder, held,
                    todo, cursor, faults>>
    BY DEF Post, taskVars, runVars
  <1>3. /\ r \in Run /\ posts[r] = 0 /\ run[r] \in {"sending", "delivery_unknown"}
        /\ \A v \in Worker \ {w} : step[v] \in SendSteps => held[v] # r
    BY <1>1, SameHeld DEF IInv, PostsOK, SendersOK, SendSteps, JobSteps
  <1>4. /\ \A q \in Run : posts'[q] = IF q = r THEN n ELSE posts[q]
        /\ \A v \in Worker : step'[v] = IF v = w THEN s ELSE step[v]
    BY <1>1, <1>3 DEF IInv, TypeOK
  <1>5. TypeOK'
    <2>1. posts' \in [Run -> Nat]
      BY <1>1, <1>3 DEF IInv, TypeOK
    <2>2. step' \in [Worker -> Steps]
      BY <1>1 DEF IInv, TypeOK, Steps, JobSteps
    <2> QED
      BY <1>2, <2>1, <2>2 DEF IInv, TypeOK
  <1>6. HeldOK' /\ SendersOK'
    BY <1>1, <1>2, <1>3, <1>4 DEF IInv, HeldOK, SendersOK, SendSteps, JobSteps
  <1>7. PostsOK'
    <2> SUFFICES ASSUME NEW v \in Worker
                 PROVE  /\ step'[v] \in {"sending", "rejected"} => posts'[held[v]] = 0
                        /\ step'[v] = "accepted" => posts'[held[v]] > 0
      BY <1>2 DEF PostsOK
    <2>1. CASE v = w
      BY <2>1, <1>1, <1>3, <1>4
    <2>2. CASE v # w
      <3>1. step'[v] \in {"sending", "rejected", "accepted"} =>
              step[v] = step'[v] /\ held[v] \in Run /\ held[v] # r
        BY <2>2, <1>3, <1>4 DEF IInv, HeldOK, SendSteps, JobSteps
      <3> QED
        BY <3>1, <1>4 DEF IInv, PostsOK
    <2> QED
      BY <2>1, <2>2
  <1>8. PostedOnce' /\ ReportIsTrue'
    BY <1>1, <1>2, <1>3, <1>4 DEF IInv, PostedOnce, ReportIsTrue, TypeOK
  <1>9. GroupIsSerial' /\ Kept
    BY <1>2 DEF IInv, GroupIsSerial, Kept
  <1> QED
    BY <1>5, <1>6, <1>7, <1>8, <1>9 DEF IInv

LEMMA RecordOutcomeInv ==
  ASSUME IInv, NEW w \in Worker, RecordOutcome(w)
  PROVE  IInv' /\ Kept
  <1> DEFINE r == held[w]
             to == Outcome[step[w]]
  <1>1. /\ step[w] \in {"accepted", "rejected", "unknown"} /\ r \in Run
        /\ to \in {"sent", "failed", "delivery_unknown"}
        /\ to = "sent" => step[w] = "accepted"
        /\ to = "failed" => step[w] = "rejected"
    BY SameHeld DEF RecordOutcome, Outcome, JobSteps
  <1>2. /\ Moves(w, "claim", None)
        /\ UNCHANGED <<now, status, revision, lastRun, used, holder, todo, cursor, posts,
                       faults>>
    BY DropMoves DEF RecordOutcome, Close, taskVars
  <1>3. CASE UNCHANGED runVars
    BY <1>2, <1>3, StepOnly DEF IInv, TypeOK, runVars
  <1>4. CASE Owns(w, r, {"sending"}) /\ Write(w, to)
    <2> HIDE DEF to
    <2>1. run[r] = "sending" /\ run' = [run EXCEPT ![r] = to]
      BY <1>4 DEF Owns, Write
    <2>2. \A q \in Run : run'[q] = IF q = r THEN to ELSE run[q]
      BY <2>1 DEF IInv, TypeOK
    <2>3. \A v \in Worker : IF v = w THEN step'[v] \notin SendSteps
                                     ELSE step'[v] = step[v] /\ held'[v] = held[v]
      BY <1>2 DEF Moves, SendSteps, IInv, TypeOK
    <2>4. \A v \in Worker \ {w} : step[v] \in SendSteps => held[v] \in Run /\ held[v] # r
      BY <1>1 DEF IInv, SendersOK, HeldOK, SendSteps, JobSteps
    <2>5. TypeOK'
      <3>1. run' \in [Run -> {"none"} \cup ActiveRun \cup TerminalRun]
        BY <1>1, <2>1 DEF IInv, TypeOK, TerminalRun
      <3>2. owner' = [owner EXCEPT ![r] = None] \/ owner' = owner
        BY <1>4 DEF Write
      <3>3. owner' \in [Run -> Worker \cup {None}]
        BY <3>2 DEF IInv, TypeOK
      <3>4. lapsed' \subseteq Run
        BY <1>4 DEF Write, IInv, TypeOK
      <3> QED
        BY <1>2, <3>1, <3>3, <3>4, MovesOK DEF IInv, TypeOK
    <2>6. SendersOK'
      BY <2>2, <2>3, <2>4 DEF IInv, SendersOK
    <2>7. PostsOK'
      BY <1>2, <2>3 DEF IInv, PostsOK, SendSteps
    <2>8. PostedOnce' /\ ReportIsTrue'
      <3>1. (to = "sent" => posts[r] > 0) /\ (to = "failed" => posts[r] = 0)
        BY <1>1 DEF IInv, PostsOK
      <3> QED
        BY <1>1, <1>2, <2>2, <3>1 DEF IInv, PostedOnce, ReportIsTrue
    <2>9. NoneTaken /\ Kept
      BY <1>1, <2>1, <2>2 DEF NoneTaken, Kept, Executing, TerminalRun
    <2> QED
      BY <1>2, <2>5, <2>6, <2>7, <2>8, <2>9, MovesOK, NoneTakenSerial DEF IInv
  <1> QED
    BY <1>3, <1>4 DEF RecordOutcome, Close

-----------------------------------------------------------------------------
(* Faults and time.                                                          *)

LEMMA ForgetInv ==
  ASSUME IInv, NEW w \in Worker, Forget(w), Fault, holder' = holder \/ holder' = None
  PROVE  IInv' /\ Kept
  <1>1. /\ step' = [step EXCEPT ![w] = "down"] /\ held' = [held EXCEPT ![w] = None]
        /\ todo' = [todo EXCEPT ![w] = {}]
        /\ cursor' = [cursor EXCEPT ![w] = [t \in Task |-> 0]]
        /\ UNCHANGED <<now, status, revision, lastRun, run, owner, lapsed, used, posts>>
    BY DEF Forget, taskVars, runVars
  <1>2. Moves(w, "down", None)
    BY <1>1 DEF Moves, Steps, SendSteps, JobSteps
  <1>3. faults' \in 0..MaxFaults
    BY BoundsAssumption DEF Fault, IInv, TypeOK
  <1>4. cursor' \in [Worker -> [Task -> 0..(Horizon + 1)]] /\ todo' \in [Worker -> SUBSET Task]
    <2>1. [t \in Task |-> 0] \in [Task -> 0..(Horizon + 1)]
      BY BoundsAssumption
    <2> QED
      BY <1>1, <2>1 DEF IInv, TypeOK
  <1> QED
    BY <1>1, <1>2, <1>3, <1>4, StepOnly DEF IInv, TypeOK

LEMMA LeasesInv ==
  ASSUME IInv, (\E r \in Run : LeaseExpires(r)) \/ WorkerLeaseExpires \/ TimePasses
  PROVE  IInv' /\ Kept
  <1>1. /\ UNCHANGED <<status, revision, lastRun, run, owner, step, held, todo, cursor, posts>>
    BY DEF LeaseExpires, WorkerLeaseExpires, TimePasses, taskVars, runVars, procVars
  <1>2. faults' \in 0..MaxFaults
    BY BoundsAssumption DEF LeaseExpires, WorkerLeaseExpires, TimePasses, Fault,
       IInv, TypeOK
  <1>3. lapsed' \subseteq Run
    BY DEF LeaseExpires, WorkerLeaseExpires, TimePasses, runVars, IInv, TypeOK
  <1>4. holder' \in Worker \cup {None}
    BY DEF LeaseExpires, WorkerLeaseExpires, TimePasses, IInv, TypeOK
  <1>5. now' \in 0..Horizon
    BY BoundsAssumption DEF LeaseExpires, WorkerLeaseExpires, TimePasses, IInv, TypeOK
  <1>6. used' \in [Group -> 0..Cap]
    <2>1. [g \in Group |-> 0] \in [Group -> 0..Cap]
      BY BoundsAssumption
    <2> QED
      BY <2>1 DEF LeaseExpires, WorkerLeaseExpires, TimePasses, IInv, TypeOK
  <1>7. TypeOK' /\ HeldOK'
    BY <1>1, <1>2, <1>3, <1>4, <1>5, <1>6 DEF IInv, TypeOK, HeldOK
  <1> QED
    BY <1>1, <1>7, RestInv

LEMMA StepInv ==
  ASSUME IInv, [Next]_vars
  PROVE  IInv' /\ Kept
  <1>1. ASSUME NEW t \in Task, User(t) PROVE IInv' /\ Kept
    BY <1>1, CommandsInv, CancelTaskInv, RunNowInv DEF User
  <1>2. ASSUME NEW w \in Worker, Tick(w) PROVE IInv' /\ Kept
    BY <1>2, StartInv, RecoverInv, EnqueueFireInv, RecordTaskFiredInv,
       ClaimNextRunInv DEF Tick
  <1>3. ASSUME NEW w \in Worker, Execute(w) PROVE IInv' /\ Kept
    BY <1>3, LoadTaskInv, AdvanceInv, GateInv, AgentInv, BeginSendingInv, PostInv,
       RecordOutcomeInv, ExecuteRaisesInv DEF Execute
  <1>4. ASSUME NEW w \in Worker, Crash(w) \/ Stop(w) PROVE IInv' /\ Kept
    BY <1>4, ForgetInv DEF Crash, Stop
  <1>5. CASE UNCHANGED vars
    <2>1. TypeOK' /\ HeldOK' /\ UNCHANGED <<run, posts, step, held>>
      BY <1>5 DEF vars, taskVars, runVars, procVars, IInv, TypeOK, HeldOK
    <2> QED
      BY <2>1, RestInv
  <1> QED
    BY <1>1, <1>2, <1>3, <1>4, <1>5, LeasesInv DEF Next

-----------------------------------------------------------------------------
(* The invariant holds throughout, and each property follows from it.        *)
THEOREM Inductive == Spec => []IInv
  <1>1. Init => IInv
    BY InitInv
  <1>2. IInv /\ [Next]_vars => IInv'
    BY StepInv
  <1> QED
    BY <1>1, <1>2, PTL DEF Spec

(* The tables and the workers keep values of their types.                    *)
THEOREM TypeCorrect == Spec => []TypeOK
  <1>1. IInv => TypeOK
    BY DEF IInv
  <1> QED
    BY <1>1, Inductive, PTL

(* However often a run is requeued and executed again, by whichever worker,  *)
(* its message is posted at most once.                                       *)
THEOREM PostedAtMostOnce == Spec => []PostedOnce
  <1>1. IInv => PostedOnce
    BY DEF IInv
  <1> QED
    BY <1>1, Inductive, PTL

(* A run that says sent was posted; one that says it was not posted was not. *)
THEOREM ReportsAreTrue == Spec => []ReportIsTrue
  <1>1. IInv => ReportIsTrue
    BY DEF IInv
  <1> QED
    BY <1>1, Inductive, PTL

(* A group has one executing run at a time, with any number of workers.      *)
THEOREM GroupsAreSerial == Spec => []GroupIsSerial
  <1>1. IInv => GroupIsSerial
    BY DEF IInv
  <1> QED
    BY <1>1, Inductive, PTL

(* A run that ended never runs again, whatever a worker that lost it does.   *)
THEOREM EndedStays == Spec => EndedIsFinal
  <1>1. IInv /\ [Next]_vars => [\A r \in Run : run[r] \in TerminalRun => run'[r] = run[r]]_vars
    BY StepInv DEF Kept
  <1> QED
    BY <1>1, Inductive, PTL DEF Spec, EndedIsFinal

-----------------------------------------------------------------------------
(* The refinement: a step that calls the platform with success accepts the   *)
(* message of the run in hand, any other one reports or changes nothing.     *)

OnlyPosts(r) == posts' = [posts EXCEPT ![r] = @ + 1] /\ run' = run

LEMMA PostsEffect ==
  ASSUME IInv, [Next]_vars
  PROVE  posts' = posts \/ \E r \in Run : OnlyPosts(r)
  <1>1. ASSUME NEW w \in Worker, Post(w)
        PROVE  posts' = posts \/ \E r \in Run : OnlyPosts(r)
    <2>1. step[w] = "sending" /\ held[w] \in Run /\ run' = run
      BY <1>1 DEF Post, Goto, runVars, IInv, HeldOK, JobSteps
    <2>2. PICK n \in 0..1 : posts' = [posts EXCEPT ![held[w]] = @ + n]
      BY <1>1, <2>1 DEF Post, IInv, TypeOK
    <2>3. CASE n = 0
      BY <2>1, <2>2, <2>3 DEF IInv, TypeOK
    <2>4. CASE n = 1
      <3>1. OnlyPosts(held[w])
        BY <2>1, <2>2, <2>4 DEF OnlyPosts
      <3> QED
        BY <2>1, <3>1
    <2> QED
      BY <2>3, <2>4
  <1>2. ASSUME NEW w \in Worker, Execute(w), ~Post(w) PROVE posts' = posts
    BY <1>2 DEF Execute, LoadTask, Proceed, MarkRunning, Advance, GateRefuses,
       GateAllows, Checkpoint, AgentReplies, AgentEnds, SaveResult, BeginSending,
       RecordOutcome, ExecuteRaises
  <1>3. ASSUME NEW w \in Worker, Tick(w) \/ Crash(w) \/ Stop(w) PROVE posts' = posts
    BY <1>3 DEF Tick, Start, AcquireWorkerLease, RecoverExpiredLeases,
       ListActiveTasks, EnqueueFire, RecordTaskFired, EnqueueDone, ClaimNextRun,
       Crash, Stop, Forget
  <1>4. ASSUME NEW t \in Task, User(t) PROVE posts' = posts
    BY <1>4 DEF User, CreateTask, EditTask, SetStatus, CancelTask, RunNow,
       NextRevision
  <1>5. CASE (\E r \in Run : LeaseExpires(r)) \/ WorkerLeaseExpires \/ TimePasses
    BY <1>5 DEF LeaseExpires, WorkerLeaseExpires, TimePasses
  <1>6. CASE UNCHANGED vars
    BY <1>6 DEF vars
  <1> QED
    BY <1>1, <1>2, <1>3, <1>4, <1>5, <1>6 DEF Next

LEMMA SaidEnds ==
  \A s \in {"none"} \cup ActiveRun \cup TerminalRun :
    /\ Said(s) \in {"open", "sent", "not_sent", "unknown"}
    /\ s \in TerminalRun \/ Said(s) = "open"
    /\ Said(s) = "sent" => s = "sent"
    /\ s \in {"sending", "sent", "delivery_unknown"} => Said(s) # "not_sent"
  BY DEF Said, TerminalRun, ActiveRun

LEMMA ReportStep ==
  ASSUME IInv, IInv', Kept, posts' = posts
  PROVE  Contract!Report
  <1>1. [r \in Run |-> Said(run'[r])] \in [Run -> Contract!Verdict]
    BY SaidEnds DEF Contract!Verdict, IInv, TypeOK
  <1>2. ASSUME NEW r \in Run
        PROVE  \/ Said(run'[r]) = Said(run[r])
               \/ /\ Said(run[r]) = "open"
                  /\ Said(run'[r]) = "sent" => posts[r] = 1
                  /\ Said(run'[r]) = "not_sent" => posts[r] = 0
    <2>1. posts[r] \in Nat /\ posts[r] <= 1
      BY DEF IInv, TypeOK, PostedOnce
    <2>2. /\ posts[r] > 0 => run'[r] \in {"sending", "sent", "delivery_unknown"}
          /\ run'[r] = "sent" => posts[r] > 0
      BY DEF IInv, ReportIsTrue
    <2>3. run[r] \in TerminalRun \/ Said(run[r]) = "open"
      BY SaidEnds DEF IInv, TypeOK
    <2>4. CASE run[r] \in TerminalRun
      BY <2>4 DEF Kept
    <2>5. CASE Said(run[r]) = "open"
      <3>1. run'[r] \in {"none"} \cup ActiveRun \cup TerminalRun
        BY DEF IInv, TypeOK
      <3>2. Said(run'[r]) = "sent" => posts[r] = 1
        <4>1. Said(run'[r]) = "sent" => run'[r] = "sent"
          BY <3>1, SaidEnds
        <4> QED
          BY <2>1, <2>2, <4>1
      <3>3. Said(run'[r]) = "not_sent" => posts[r] = 0
        <4>1. posts[r] > 0 => Said(run'[r]) # "not_sent"
          BY <2>2, <3>1, SaidEnds
        <4> QED
          BY <2>1, <4>1
      <3> QED
        BY <2>5, <3>2, <3>3
    <2> QED
      BY <2>3, <2>4, <2>5
  <1> QED
    BY <1>1, <1>2 DEF Contract!Report

LEMMA AcceptStep ==
  ASSUME IInv, IInv', NEW r \in Run, OnlyPosts(r)
  PROVE  Contract!Accept(r)
  <1>1. posts \in [Run -> Nat] /\ posts'[r] <= 1 /\ posts'[r] = posts[r] + 1
    BY DEF IInv, TypeOK, PostedOnce, OnlyPosts
  <1>2. posts[r] = 0 /\ posts' = [posts EXCEPT ![r] = 1]
    <2>1. posts[r] = 0
      BY <1>1
    <2> QED
      BY <2>1 DEF OnlyPosts
  <1>3. run[r] \in {"sending", "sent", "delivery_unknown"} /\ run[r] # "sent"
    BY <1>1, <1>2 DEF IInv, ReportIsTrue, OnlyPosts
  <1>4. Said(run[r]) \in {"open", "unknown"}
    BY <1>3 DEF Said, TerminalRun
  <1>5. [q \in Run |-> Said(run'[q])] = [q \in Run |-> Said(run[q])]
    BY DEF OnlyPosts
  <1> QED
    BY <1>2, <1>4, <1>5 DEF Contract!Accept

(* Workers that claim, requeue, lose leases and crash keep the contract of   *)
(* ReportContract for the message of every run.                              *)
THEOREM ReportIsKept == Spec => ImplementsReport
  <1>1. Init => Contract!Init
    BY DEF Init, Contract!Init, Said, TerminalRun
  <1>2. IInv /\ IInv' /\ [Next]_vars => [Contract!Next]_(Contract!vars)
    <2> SUFFICES ASSUME IInv, IInv', [Next]_vars PROVE Contract!Next
      OBVIOUS
    <2>1. Kept
      BY StepInv
    <2> QED
      BY <2>1, PostsEffect, ReportStep, AcceptStep DEF Contract!Next
  <1> QED
    BY <1>1, <1>2, Inductive, PTL DEF Spec, ImplementsReport, Contract!Spec
=============================================================================
