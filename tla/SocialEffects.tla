---------------------------- MODULE SocialEffects ---------------------------
(***************************************************************************)
(* The effects of the bot's replies: a reply that was acknowledged opens a  *)
(* window (mneme/reply_effect_service.py), the messages of the group in the *)
(* window become evidence for it, and a durable queue of jobs               *)
(* (mneme/social_worker.py) settles the window once it has closed.          *)
(*                                                                          *)
(* One process.  tick() runs on its event loop without an await, so while a *)
(* tick is under way no message arrives and no reply goes out; but it is a  *)
(* sequence of transactions, and the process may stop, or the database fail,*)
(* between any two.  A message is its author and what it refers to.  A      *)
(* second evaluation version has no caller and is left out.                 *)
(***************************************************************************)
EXTENDS Integers, Sequences, FiniteSets

CONSTANTS
  None,
  Effect,        \* replies, each with its social_effects row and its job
  User,          \* people of the group
  Target,        \* Target[e]: target_user_id, or None for the whole group
  QueueLimit,    \* QUEUE_LIMIT
  MaxAttempts,   \* MAX_ATTEMPTS
  MaxFollowUps,  \* MAX_FOLLOW_UP_EVENTS
  Lost,          \* reads that may fail unnoticed: "events", "receipts"
  MaxLog,        \* bound: messages of the group
  MaxFaults      \* bound: stops of the process and database errors

ASSUME EffectsAssumption ==
  /\ Target \in [Effect -> User \cup {None}]
  /\ None \notin User \cup Effect
  /\ Lost \subseteq {"events", "receipts"}
ASSUME NumbersAssumption ==
  /\ QueueLimit \in Nat /\ MaxAttempts \in Nat \ {0} /\ MaxFollowUps \in Nat
  /\ MaxLog \in Nat /\ MaxFaults \in Nat

VARIABLES
  log,       \* social_events: messages in the order they were received
  status,    \* social_effects.status; without a row "none", "acked" or "lost"
  from,      \* messages received before first_ack_at_utc
  until,     \* messages received up to window_end_utc, once that has passed
  evidence,  \* social_effect_evidence: the attribution of a message, or "none"
  counted,   \* the messages in the aggregate contribution of an effect
  job,       \* social_jobs; a job whose lease has run out is "expired"
  tick,      \* where tick() is
  batch,     \* the jobs that run_due_jobs has yet to do
  hand,      \* the job in hand and what its handler returned
  faults

tables == <<log, status, from, until, evidence, counted>>
memory == <<tick, batch, hand>>
vars == <<tables, job, memory, faults>>

Saying == {"plain", "mention", "elsewhere"} \cup Effect
Open == -1                    \* until, of a window that has not closed
NoJob == [status |-> "none", attempts |-> 0, notBefore |-> "past"]
Fresh(notBefore) ==
  [status |-> "pending", attempts |-> 0, notBefore |-> notBefore]
Live == {"pending", "running", "expired"}
EmptyHand == [job |-> None, attempts |-> 0, result |-> "none"]
Unread == [i \in 1..MaxLog |-> "none"]

Init ==
  /\ log = <<>>
  /\ status = [e \in Effect |-> "none"]
  /\ from = [e \in Effect |-> 0]
  /\ until = [e \in Effect |-> Open]
  /\ evidence = [e \in Effect |-> Unread]
  /\ counted = [e \in Effect |-> {}]
  /\ job = [e \in Effect |-> NoJob]
  /\ tick = "idle" /\ batch = {} /\ hand = EmptyHand
  /\ faults = 0

Fault == faults < MaxFaults /\ faults' = faults + 1
NoFault == UNCHANGED faults

-----------------------------------------------------------------------------
(* The conversation, between two ticks.                                      *)

(* The passive listener records a message: a quotation of a reply, or of     *)
(* something else, an address to the bot, or neither.                        *)
Receive(u, s) ==
  /\ tick = "idle" /\ Len(log) < MaxLog
  /\ s \in Effect => status[s] # "none"
  /\ log' = Append(log, [user |-> u, says |-> s])
  /\ UNCHANGED <<status, from, until, evidence, counted, job, memory, faults>>

(* The first segment of a reply is acknowledged.                             *)
Acknowledge(e) ==
  /\ tick = "idle" /\ status[e] = "none"
  /\ status' = [status EXCEPT ![e] = "acked"]
  /\ from' = [from EXCEPT ![e] = Len(log)]
  /\ UNCHANGED <<log, until, evidence, counted, job, memory, faults>>

Depth == Cardinality({e \in Effect : job[e].status \in Live})

(* enqueue_job: nothing beyond the limit, and nothing under a dedupe_key     *)
(* that exists, whatever became of that job.                                 *)
Enqueued(e, notBefore) ==
  IF Depth >= QueueLimit \/ job[e].status # "none" THEN job
  ELSE [job EXCEPT ![e] = Fresh(notBefore)]

(* open_effect: the row and its job in one transaction.  A full queue or an  *)
(* error of enqueue_job loses the job only, any other error the effect.      *)
OpenEffect(e) ==
  /\ tick = "idle" /\ status[e] = "acked"
  /\ \/ /\ status' = [status EXCEPT ![e] = "observing"]
        /\ job' = Enqueued(e, "window") /\ NoFault
     \/ /\ \E s \in {"observing", "lost"} : status' = [status EXCEPT ![e] = s]
        /\ UNCHANGED job /\ Fault
  /\ UNCHANGED <<log, from, until, evidence, counted, memory>>

-----------------------------------------------------------------------------
(* Time.                                                                     *)

WindowCloses(e) ==
  /\ status[e] = "observing" /\ until[e] = Open
  /\ until' = [until EXCEPT ![e] = Len(log)]
  /\ UNCHANGED <<log, status, from, evidence, counted, job, memory, faults>>

BackoffPasses(e) ==
  /\ job[e].status = "pending" /\ job[e].notBefore = "backoff"
  /\ job' = [job EXCEPT ![e].notBefore = "past"]
  /\ UNCHANGED <<tables, memory, faults>>

LeaseExpires(e) ==
  /\ job[e].status = "running"
  /\ job' = [job EXCEPT ![e].status = "expired"]
  /\ UNCHANGED <<tables, memory, faults>>

-----------------------------------------------------------------------------
(* tick: sweep, lease, then one job after the other.                         *)

(* The effects that sweep_due_effects finds: observed for too long, with no  *)
(* job that is going to settle them.  MissingSlip asks for a job that failed.*)
MissingSlip == {e \in Effect : status[e] = "observing" /\ until[e] # Open
                              /\ job[e].status = "dead"}
Missing == {e \in Effect :
  /\ status[e] = "observing" /\ until[e] # Open
  /\ job[e].status \notin Live}

(* sweep_due_effects enqueues one after the other, to be done at once, as    *)
(* far as the queue has room.  enqueue_job swallows an error, so the jobs    *)
(* before and after it are committed.                                        *)
Unqueued == {e \in Missing : job[e].status = "none"}
Filled(S) == [e \in Effect |-> IF e \in S THEN Fresh("past") ELSE job[e]]
Fits(S) == Cardinality(S) <= QueueLimit - Depth
Swept == {S \in SUBSET Unqueued :
            Fits(S) /\ (S = Unqueued \/ Cardinality(S) = QueueLimit - Depth)}
PartlySwept == {S \in SUBSET Unqueued : S = {} \/ Fits(S)}

Sweep ==
  /\ tick = "idle"
  /\ tick' = "swept"
  /\ \/ NoFault /\ \E S \in Swept : job' = Filled(S)
     \/ Fault /\ \E S \in PartlySwept : job' = Filled(S)
  /\ UNCHANGED <<tables, batch, hand>>

(* The jobs lease_due_jobs selects.  DueSlip does not look at not_before_utc.*)
DueSlip(e) == job[e].status \in {"pending", "expired"}
Due(e) ==
  \/ /\ job[e].status = "pending"
     /\ \/ job[e].notBefore = "past"
        \/ job[e].notBefore = "window" /\ until[e] # Open
  \/ job[e].status = "expired"

Exhausted(e) == job[e].attempts >= MaxAttempts
Taken(S) == {[job |-> e, attempts |-> job[e].attempts + 1] : e \in S}

(* One transaction.  When it fails its rows stay as they were, but the jobs  *)
(* read so far are returned, and done without a lease.                       *)
Lease ==
  LET due == {e \in Effect : Due(e)}
      jobs == {e \in due : ~Exhausted(e)}
  IN /\ tick = "swept"
     /\ \E S \in SUBSET jobs :
          /\ batch' = Taken(S)
          /\ tick' = IF S = {} THEN "idle" ELSE "running"
          /\ \/ /\ S = jobs /\ NoFault
                /\ job' = [e \in Effect |->
                     IF e \in jobs
                     THEN [status |-> "running", attempts |-> job[e].attempts + 1,
                           notBefore |-> job[e].notBefore]
                     ELSE IF e \in due THEN [job[e] EXCEPT !.status = "dead"]
                     ELSE job[e]]
             \/ due # {} /\ Fault /\ UNCHANGED job
     /\ UNCHANGED <<tables, hand>>

-----------------------------------------------------------------------------
(* resolve_effect.                                                           *)

(* events_since: the messages of the window, up to the cap; none, when the   *)
(* read fails.                                                               *)
Window(e, lost) ==
  IF lost = "events" THEN {}
  ELSE {i \in 1..Len(log) : i > from[e] /\ i <= from[e] + MaxFollowUps
                            /\ (until[e] = Open \/ i <= until[e])}

(* attribute_events.                                                         *)
Attribution(e, i, lost) ==
  LET m == log[i] IN
  IF m.says = e /\ lost # "receipts" THEN "direct"
  ELSE IF m.says = "elsewhere" \/ m.says \in Effect THEN "ambiguous"
  ELSE IF m.says = "mention" THEN "probable"
  ELSE IF \A j \in Window(e, lost) : j <= i => log[j].user = Target[e]
       THEN "weak" ELSE "ambiguous"

Strong == {"direct", "probable"}
Counted == Strong \cup {"weak"}

(* _claim_conflicts: a message that another effect has claimed.              *)
ClaimedSlip(e, i) == FALSE
Claimed(e, i) == \E f \in Effect \ {e} : evidence[f][i] \in Strong

(* What the settlement of e writes: the contribution is computed before the  *)
(* claims are compared.                                                      *)
Settled(e, lost) ==
  LET W == Window(e, lost)
      Attr(i) == Attribution(e, i, lost)
  IN /\ status' = [status EXCEPT ![e] = "resolved"]
     /\ evidence' = [evidence EXCEPT ![e] = [i \in 1..MaxLog |->
          IF i \notin W THEN "none"
          ELSE IF Attr(i) \in Strong /\ Claimed(e, i) THEN "ambiguous"
          ELSE Attr(i)]]
     /\ counted' = [counted EXCEPT ![e] = {i \in W : Attr(i) \in Counted}]
     /\ UNCHANGED <<log, from, until>>

InHand(b, result) ==
  /\ hand' = [job |-> b.job, attempts |-> b.attempts, result |-> result]
  /\ batch' = batch \ {b}
  /\ UNCHANGED <<job, tick>>

(* _handle_resolve_effect: only an error of the database is tried again.  A  *)
(* settled effect is left as it is.                                          *)
Resolve(b) ==
  /\ tick = "running" /\ hand = EmptyHand
  /\ \/ /\ status[b.job] = "observing"
        /\ \E lost \in Lost \cup {"nothing"} : Settled(b.job, lost)
        /\ InHand(b, "ok") /\ NoFault
     \/ /\ status[b.job] # "observing"
        /\ UNCHANGED tables
        /\ InHand(b, "ok") /\ NoFault
     \/ UNCHANGED tables /\ InHand(b, "error") /\ Fault

(* complete_job and fail_job.                                                *)
Finished ==
  IF hand.result = "ok"
  THEN [job[hand.job] EXCEPT !.status = "done"]
  ELSE [status |-> IF hand.attempts < MaxAttempts THEN "pending" ELSE "dead",
        attempts |-> job[hand.job].attempts, notBefore |-> "backoff"]

(* An error of complete_job ends the tick, one of fail_job does not.         *)
Finish ==
  /\ tick = "running" /\ hand # EmptyHand
  /\ hand' = EmptyHand
  /\ \/ /\ job' = [job EXCEPT ![hand.job] = Finished]
        /\ tick' = IF batch = {} THEN "idle" ELSE "running"
        /\ UNCHANGED batch /\ NoFault
     \/ /\ Fault /\ UNCHANGED job
        /\ batch' = IF hand.result = "ok" THEN {} ELSE batch
        /\ tick' = IF batch' = {} THEN "idle" ELSE "running"
  /\ UNCHANGED tables

(* The process stops and starts again with its tables; nobody opens the      *)
(* effect of a reply that was acknowledged just before.                      *)
Crash ==
  /\ Fault
  /\ tick' = "idle" /\ batch' = {} /\ hand' = EmptyHand
  /\ status' = [e \in Effect |-> IF status[e] = "acked" THEN "lost"
                                 ELSE status[e]]
  /\ UNCHANGED <<log, from, until, evidence, counted, job>>

-----------------------------------------------------------------------------
Tick == Sweep \/ Lease \/ (\E b \in batch : Resolve(b)) \/ Finish

Next ==
  \/ \E u \in User, s \in Saying : Receive(u, s)
  \/ \E e \in Effect : Acknowledge(e) \/ OpenEffect(e)
  \/ \E e \in Effect : WindowCloses(e) \/ BackoffPasses(e) \/ LeaseExpires(e)
  \/ Tick \/ Crash

Spec == Init /\ [][Next]_vars

(* expression_sweep_job comes again and again, and time passes.              *)
FairSpec ==
  /\ Spec /\ WF_vars(Tick)
  /\ \A e \in Effect : /\ WF_vars(WindowCloses(e)) /\ WF_vars(BackoffPasses(e))
                       /\ WF_vars(LeaseExpires(e))

-----------------------------------------------------------------------------
(* Properties.                                                               *)

JobRow == [status : Live \cup {"none", "done", "dead"}, attempts : Nat,
           notBefore : {"past", "window", "backoff"}]

(* Tables and memory keep values of their types.                             *)
TypeOK ==
  /\ log \in Seq([user : User, says : Saying]) /\ Len(log) <= MaxLog
  /\ status \in [Effect -> {"none", "acked", "lost", "observing", "resolved"}]
  /\ from \in [Effect -> 0..MaxLog]
  /\ until \in [Effect -> 0..MaxLog \cup {Open}]
  /\ evidence \in [Effect -> [1..MaxLog -> Counted \cup {"ambiguous", "none"}]]
  /\ counted \in [Effect -> SUBSET (1..MaxLog)]
  /\ job \in [Effect -> JobRow]
  /\ tick \in {"idle", "swept", "running"}
  /\ batch \subseteq [job : Effect, attempts : Nat]
  /\ hand \in [job : Effect \cup {None}, attempts : Nat,
               result : {"none", "ok", "error"}]
  /\ faults \in 0..MaxFaults

(* A message is strong evidence for one effect only, in whatever order the   *)
(* jobs of overlapping windows are done, repeated or lost.                   *)
ClaimedOnce ==
  \A e, f \in Effect, i \in 1..MaxLog :
    evidence[e][i] \in Strong /\ evidence[f][i] \in Strong => e = f

(* A settled effect has looked at its whole window: no retry, no job that    *)
(* was enqueued late or leased twice settles it before the window has        *)
(* closed, so that no message of the window comes too late.                  *)
WholeWindow ==
  \A e \in Effect : status[e] = "resolved" =>
    /\ until[e] # Open
    /\ \A i \in 1..MaxLog :
         evidence[e][i] # "none" <=>
           i > from[e] /\ i <= until[e] /\ i <= from[e] + MaxFollowUps

(* A job that is done has settled its effect, also if the process stopped or *)
(* the database failed between the two.                                      *)
DoneIsSettled ==
  \A e \in Effect : job[e].status = "done" => status[e] = "resolved"

(* An effect that was opened is settled in the end, although the queue was   *)
(* full when it was opened or the process stopped on the way.                *)
EffectsSettle ==
  \A e \in Effect : status[e] = "observing" ~> status[e] = "resolved"

(* What is counted for an effect is its evidence: "a feedback that another   *)
(* effect has claimed must not be counted again"                             *)
(* (reply_effect_service.py:11).                                             *)
CountedOnce ==
  \A e \in Effect : \A i \in counted[e] : evidence[e][i] \in Counted

(* An effect that is overdue and has no job under way gets one by the sweep, *)
(* unless the queue is full (sweep_due_effects).                             *)
SweepRestores ==
  [][tick = "idle" /\ tick' = "swept" /\ faults' = faults /\ Depth < QueueLimit =>
       \A e \in Missing : Depth' >= QueueLimit
                          \/ job'[e].status \in Live]_vars

=============================================================================
