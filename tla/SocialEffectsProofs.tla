------------------------- MODULE SocialEffectsProofs -------------------------
(* Theorems of SocialEffects for any replies, people and bounds, and any     *)
(* number of crashes and database errors.                                    *)
EXTENDS SocialEffects, TLAPS

-----------------------------------------------------------------------------
(* The invariant.                                                            *)

Windows ==
  \A e \in Effect : from[e] <= Len(log) /\ until[e] <= Len(log)

Observed(e) == status[e] \in {"observing", "resolved"}
Closed(e) == Observed(e) /\ until[e] # Open

(* A job is of an effect that was opened; unless it still waits for the      *)
(* window, the window has closed.                                            *)
Jobs ==
  \A e \in Effect : job[e].status # "none" =>
    /\ Observed(e)
    /\ \/ job[e].status = "pending" /\ job[e].notBefore = "window"
       \/ Closed(e)

(* What the tick carries is due, and a success in hand has been committed.   *)
Carried ==
  /\ \A b \in batch : Closed(b.job)
  /\ hand # EmptyHand =>
       /\ hand.job \in Effect /\ Closed(hand.job)
       /\ hand.result = "ok" => status[hand.job] = "resolved"

IInv == TypeOK /\ Windows /\ Jobs /\ Carried /\ DoneIsSettled /\ ClaimedOnce

(* A window that closed stays closed, and a settled effect settled.          *)
Forward ==
  \A e \in Effect : /\ Observed(e) => Observed(e)'
                    /\ until[e] # Open => until'[e] = until[e]
                    /\ status[e] = "resolved" => status'[e] = "resolved"

Attributions == Counted \cup {"ambiguous", "none"}

LEMMA InitInv == Init => IInv
  <1> SUFFICES ASSUME Init PROVE IInv
    OBVIOUS
  <1> USE EffectsAssumption, NumbersAssumption
  <1>1. TypeOK
    <2>1. Unread \in [1..MaxLog -> Attributions]
      BY DEF Unread, Attributions
    <2>2. NoJob \in JobRow
      BY DEF NoJob, JobRow, Live
    <2>3. EmptyHand \in [job : Effect \cup {None}, attempts : Nat,
                         result : {"none", "ok", "error"}]
      BY DEF EmptyHand
    <2> QED
      BY <2>1, <2>2, <2>3 DEF Init, TypeOK, Attributions, Open
  <1>2. Windows
    BY DEF Init, Windows, Open
  <1>3. Jobs /\ DoneIsSettled
    BY DEF Init, Jobs, DoneIsSettled, NoJob
  <1>4. Carried
    BY DEF Init, Carried
  <1>5. ClaimedOnce
    BY DEF Init, ClaimedOnce, Unread, Strong
  <1> QED
    BY <1>1, <1>2, <1>3, <1>4, <1>5 DEF IInv

-----------------------------------------------------------------------------
(* Steps that leave evidence and memory alone.                               *)

LEMMA CarriedStays ==
  ASSUME IInv, Forward, UNCHANGED <<batch, hand>>
  PROVE  Carried'
  <1>1. \A b \in batch : b.job \in Effect
    BY DEF IInv, TypeOK
  <1> QED
    BY <1>1 DEF IInv, Carried, Forward, Closed, Observed

LEMMA JobsStay ==
  ASSUME IInv, Forward, UNCHANGED job
  PROVE  Jobs' /\ DoneIsSettled'
  BY DEF IInv, Jobs, DoneIsSettled, Forward, Closed, Observed

LEMMA EvidenceStays ==
  ASSUME IInv, UNCHANGED evidence
  PROVE  ClaimedOnce'
  BY DEF IInv, ClaimedOnce

(* The changes of a job's row.                                               *)
LEMMA StatusChanges ==
  ASSUME NEW r \in JobRow, NEW s \in Live \cup {"done", "dead"}
  PROVE  /\ [r EXCEPT !.status = s] \in JobRow
         /\ [r EXCEPT !.status = s].status = s
  <1>1. /\ r.attempts \in Nat /\ r.notBefore \in {"past", "window", "backoff"}
        /\ [r EXCEPT !.status = s] =
           [status |-> s, attempts |-> r.attempts, notBefore |-> r.notBefore]
    BY DEF JobRow
  <1> QED
    BY <1>1 DEF JobRow

LEMMA WaitEnds ==
  ASSUME NEW r \in JobRow
  PROVE  /\ [r EXCEPT !.notBefore = "past"] \in JobRow
         /\ [r EXCEPT !.notBefore = "past"].status = r.status
  <1>1. /\ r.status \in Live \cup {"none", "done", "dead"} /\ r.attempts \in Nat
        /\ [r EXCEPT !.notBefore = "past"] =
           [status |-> r.status, attempts |-> r.attempts, notBefore |-> "past"]
    BY DEF JobRow
  <1> QED
    BY <1>1 DEF JobRow

LEMMA ReceiveInv ==
  ASSUME IInv, NEW u \in User, NEW s \in Saying, Receive(u, s)
  PROVE  IInv'
  <1> USE NumbersAssumption
  <1>1. TypeOK' /\ Len(log') = Len(log) + 1
    <2>1. [user |-> u, says |-> s] \in [user : User, says : Saying]
      OBVIOUS
    <2> QED
      BY <2>1 DEF IInv, TypeOK, Receive, memory
  <1>2. Forward
    BY DEF Receive, Forward, Observed
  <1>3. Windows'
    BY <1>1 DEF IInv, TypeOK, Windows, Receive, Open
  <1> QED
    BY <1>1, <1>2, <1>3, CarriedStays, JobsStay, EvidenceStays
       DEF Receive, memory, IInv

LEMMA AcknowledgeInv ==
  ASSUME IInv, NEW e \in Effect, Acknowledge(e)
  PROVE  IInv'
  <1> USE NumbersAssumption
  <1>1. TypeOK'
    BY DEF IInv, TypeOK, Acknowledge, memory
  <1>2. Forward
    BY DEF IInv, TypeOK, Acknowledge, Forward, Observed
  <1>3. Windows'
    BY DEF IInv, TypeOK, Windows, Acknowledge
  <1> QED
    BY <1>1, <1>2, <1>3, CarriedStays, JobsStay, EvidenceStays
       DEF Acknowledge, memory, IInv

LEMMA OpenInv ==
  ASSUME IInv, NEW e \in Effect, OpenEffect(e)
  PROVE  IInv'
  <1> USE NumbersAssumption
  <1>1. TypeOK'
    <2>1. Fresh("window") \in JobRow
      BY DEF JobRow, Fresh, Live
    <2>2. job' \in [Effect -> JobRow]
      BY <2>1 DEF IInv, TypeOK, OpenEffect, Enqueued
    <2>3. status' \in [Effect -> {"none", "acked", "lost", "observing", "resolved"}]
      BY DEF IInv, TypeOK, OpenEffect
    <2>4. faults' \in 0..MaxFaults
      BY DEF IInv, TypeOK, OpenEffect, Fault, NoFault
    <2> QED
      BY <2>2, <2>3, <2>4 DEF IInv, TypeOK, OpenEffect, memory
  <1>2. Forward
    BY DEF IInv, TypeOK, OpenEffect, Forward, Observed
  <1>3. Windows'
    BY DEF IInv, Windows, OpenEffect
  <1>4. Jobs' /\ DoneIsSettled'
    <2>1. CASE job' = job
      BY <2>1, <1>2, JobsStay
    <2>2. CASE job' = Enqueued(e, "window") /\ job' # job
      <3>1. /\ job' = [job EXCEPT ![e] = Fresh("window")]
            /\ job[e].status = "none"
        BY <2>2 DEF Enqueued
      <3>2. status'[e] = "observing"
        <4>1. CASE status' = [status EXCEPT ![e] = "observing"]
          BY <4>1 DEF IInv, TypeOK
        <4>2. CASE UNCHANGED job
          BY <4>2, <2>2
        <4> QED
          BY <4>1, <4>2 DEF OpenEffect
      <3> QED
        BY <3>1, <3>2, <1>2
           DEF IInv, TypeOK, Jobs, DoneIsSettled, Forward, Closed, Observed, Fresh
    <2> QED
      BY <2>1, <2>2 DEF OpenEffect
  <1> QED
    BY <1>1, <1>2, <1>3, <1>4, CarriedStays, EvidenceStays DEF OpenEffect, memory, IInv

LEMMA TimeInv ==
  ASSUME IInv, NEW e \in Effect,
         WindowCloses(e) \/ BackoffPasses(e) \/ LeaseExpires(e)
  PROVE  IInv'
  <1> USE NumbersAssumption
  <1>1. CASE WindowCloses(e)
    <2>1. TypeOK' /\ Windows'
      BY <1>1 DEF IInv, TypeOK, Windows, WindowCloses, memory
    <2>2. Forward
      BY <1>1 DEF IInv, TypeOK, WindowCloses, Forward, Observed
    <2> QED
      BY <1>1, <2>1, <2>2, CarriedStays, JobsStay, EvidenceStays
         DEF WindowCloses, memory, IInv
  <1>2. CASE BackoffPasses(e) \/ LeaseExpires(e)
    <2>1. /\ UNCHANGED <<tables, memory, faults>>
          /\ \/ job' = [job EXCEPT ![e].notBefore = "past"] /\ job[e].notBefore = "backoff"
             \/ job' = [job EXCEPT ![e].status = "expired"] /\ job[e].status = "running"
      BY <1>2 DEF BackoffPasses, LeaseExpires
    <2>5. \A f \in Effect :
            /\ job'[f] \in JobRow
            /\ \/ job'[f] = job[f]
               \/ /\ job'[f].status = job[f].status
                  /\ job[f].notBefore = "backoff"
               \/ job'[f].status = "expired" /\ job[f].status = "running"
      <3> TAKE f \in Effect
      <3>1. job[f] \in JobRow
        BY DEF IInv, TypeOK
      <3>2. CASE f # e
        BY <2>1, <3>1, <3>2 DEF IInv, TypeOK
      <3>3. CASE f = e /\ job' = [job EXCEPT ![e].notBefore = "past"]
                 /\ job[e].notBefore = "backoff"
        <4>1. job'[e] = [job[e] EXCEPT !.notBefore = "past"]
          BY <3>3 DEF IInv, TypeOK
        <4> QED
          BY <3>1, <3>3, <4>1, WaitEnds
      <3>4. CASE f = e /\ job' = [job EXCEPT ![e].status = "expired"]
                 /\ job[e].status = "running"
        <4>1. job'[e] = [job[e] EXCEPT !.status = "expired"]
          BY <3>4 DEF IInv, TypeOK
        <4>2. job[e] \in JobRow
          BY DEF IInv, TypeOK
        <4>3. job'[e] \in JobRow /\ job'[e].status = "expired"
          BY <4>1, <4>2, StatusChanges DEF Live
        <4> QED
          BY <3>4, <4>3
      <3> QED
        BY <2>1, <3>2, <3>3, <3>4
    <2>2. TypeOK'
      <3>1. job' \in [Effect -> JobRow]
        BY <2>1, <2>5 DEF IInv, TypeOK
      <3> QED
        BY <2>1, <3>1 DEF IInv, TypeOK, tables, memory
    <2>3. Forward
      BY <2>1 DEF tables, Forward, Observed
    <2>4. Jobs' /\ DoneIsSettled'
      BY <2>1, <2>5 DEF IInv, Jobs, DoneIsSettled, Closed, Observed, tables
    <2> QED
      BY <2>1, <2>2, <2>3, <2>4, CarriedStays, EvidenceStays
         DEF tables, memory, IInv, Windows
  <1> QED
    BY <1>1, <1>2

-----------------------------------------------------------------------------
(* The tick.                                                                 *)

LEMMA SweepInv ==
  ASSUME IInv, Sweep
  PROVE  IInv'
  <1> USE NumbersAssumption
  <1> DEFINE Overdue == {e \in Effect : status[e] = "observing" /\ until[e] # Open}
  <1>1. \E S \in SUBSET Overdue : job' = Filled(S)
    <2>1. PICK S \in SUBSET Unqueued : job' = Filled(S)
      BY DEF Sweep, Swept, PartlySwept
    <2>2. S \in SUBSET Overdue
      BY <2>1 DEF Unqueued, Missing
    <2> QED
      BY <2>1, <2>2
  <1>2. PICK S \in SUBSET Overdue : job' = Filled(S)
    BY <1>1
  <1>3. \A e \in S : status[e] = "observing" /\ until[e] # Open
    BY <1>2
  <1>4. TypeOK'
    <2>1. Fresh("past") \in JobRow
      BY DEF JobRow, Fresh, Live
    <2>2. job' \in [Effect -> JobRow]
      BY <1>2, <2>1 DEF IInv, TypeOK, Filled
    <2>3. faults' \in 0..MaxFaults /\ tick' \in {"idle", "swept", "running"}
      BY DEF IInv, TypeOK, Sweep, Fault, NoFault
    <2> QED
      BY <2>2, <2>3 DEF IInv, TypeOK, Sweep, tables
  <1>5. Forward
    BY DEF Sweep, tables, Forward, Observed
  <1>6. Jobs' /\ DoneIsSettled'
    <2>1. \A e \in Effect : IF e \in S THEN job'[e] = Fresh("past")
                             ELSE job'[e] = job[e]
      BY <1>2 DEF Filled
    <2> QED
      BY <2>1, <1>3
         DEF IInv, Jobs, DoneIsSettled, Closed, Observed, Sweep, tables, Fresh
  <1> QED
    BY <1>4, <1>5, <1>6, CarriedStays, EvidenceStays DEF Sweep, tables, IInv, Windows

(* A job that is due is of a window that has closed.                         *)
LEMMA DueIsClosed ==
  ASSUME IInv, NEW e \in Effect, Due(e)
  PROVE  Closed(e)
  BY DEF IInv, Jobs, Due, Closed, Observed

LEMMA LeaseInv ==
  ASSUME IInv, Lease
  PROVE  IInv'
  <1> USE NumbersAssumption
  <1> DEFINE due == {e \in Effect : Due(e)}
  <1> DEFINE jobs == {e \in due : ~Exhausted(e)}
  <1> DEFINE Run(e) == [status |-> "running", attempts |-> job[e].attempts + 1,
                       notBefore |-> job[e].notBefore]
  <1> DEFINE Leased == [e \in Effect |->
                 IF e \in jobs THEN Run(e)
                 ELSE IF e \in due THEN [job[e] EXCEPT !.status = "dead"]
                 ELSE job[e]]
  <1>1. PICK S \in SUBSET jobs :
          /\ batch' = Taken(S)
          /\ tick' = IF S = {} THEN "idle" ELSE "running"
          /\ job' = Leased \/ job' = job
          /\ NoFault \/ Fault
    BY DEF Lease
  <1>2. \A e \in Effect :
          /\ job'[e] \in JobRow
          /\ \/ job'[e] = job[e]
             \/ Due(e) /\ job'[e].status \in {"running", "dead"}
    <2> TAKE e \in Effect
    <2>1. job[e] \in JobRow
      BY DEF IInv, TypeOK
    <2>2. CASE job' = job
      BY <2>1, <2>2
    <2>3. CASE job' = Leased
      <3>1. job'[e] = IF e \in jobs THEN Run(e)
                      ELSE IF e \in due THEN [job[e] EXCEPT !.status = "dead"]
                      ELSE job[e]
        BY <2>3
      <3>2. Run(e) \in JobRow /\ Run(e).status = "running"
        BY <2>1 DEF JobRow, Live
      <3>3. /\ [job[e] EXCEPT !.status = "dead"] \in JobRow
            /\ [job[e] EXCEPT !.status = "dead"].status = "dead"
        BY <2>1, StatusChanges
      <3>4. e \in jobs => Due(e)
        OBVIOUS
      <3>5. e \in due => Due(e)
        OBVIOUS
      <3> HIDE DEF Run, jobs, due, Leased
      <3> QED
        BY <2>1, <3>1, <3>2, <3>3, <3>4, <3>5
    <2> QED
      BY <1>1, <2>2, <2>3
  <1>3. TypeOK'
    <2>1. job' \in [Effect -> JobRow]
      <3>1. \/ job' = Leased
            \/ job' = job /\ job \in [Effect -> JobRow]
        BY <1>1 DEF IInv, TypeOK
      <3>2. job' = [e \in Effect |-> job'[e]]
        BY <3>1
      <3> QED
        BY <1>2, <3>2
    <2>2. batch' \subseteq [job : Effect, attempts : Nat]
      <3>1. \A e \in S : e \in Effect /\ job[e].attempts + 1 \in Nat
        BY DEF IInv, TypeOK, JobRow
      <3>2. \A e \in S : [job |-> e, attempts |-> job[e].attempts + 1]
                         \in [job : Effect, attempts : Nat]
        BY <3>1
      <3> QED
        BY <1>1, <3>2 DEF Taken
    <2>3. faults' \in 0..MaxFaults
      <3> HIDE DEF due, jobs, Run, Leased
      <3> QED
        BY <1>1 DEF IInv, TypeOK, Fault, NoFault
    <2>4. tick' \in {"idle", "swept", "running"}
      BY <1>1
    <2> QED
      BY <2>1, <2>2, <2>3, <2>4 DEF IInv, TypeOK, Lease, tables
  <1>4. Jobs' /\ DoneIsSettled'
    BY <1>2, DueIsClosed DEF IInv, Jobs, DoneIsSettled, Closed, Observed, Lease, tables
  <1>5. Carried'
    <2>1. \A b \in batch' : Closed(b.job)
      <3> TAKE b \in batch'
      <3>1. PICK e \in S : b = [job |-> e, attempts |-> job[e].attempts + 1]
        BY <1>1 DEF Taken
      <3>2. b.job = e /\ e \in Effect /\ Due(e)
        BY <3>1
      <3> QED
        BY <3>2, DueIsClosed
    <2> QED
      BY <2>1 DEF IInv, Carried, Closed, Observed, Lease, tables
  <1> QED
    BY <1>3, <1>4, <1>5, EvidenceStays DEF Lease, tables, IInv, Windows

(* The evidence a settlement writes.                                         *)
LEMMA AttributionType ==
  ASSUME NEW e \in Effect, NEW i, NEW lost
  PROVE  Attribution(e, i, lost) \in Counted \cup {"ambiguous"}
  BY DEF Attribution, Counted, Strong

LEMMA SettledStep ==
  ASSUME IInv, NEW e \in Effect, NEW lost, Settled(e, lost)
  PROVE  /\ status' = [status EXCEPT ![e] = "resolved"]
         /\ evidence' \in [Effect -> [1..MaxLog -> Counted \cup {"ambiguous", "none"}]]
         /\ counted' \in [Effect -> SUBSET (1..MaxLog)]
         /\ UNCHANGED <<log, from, until>>
         /\ \A f \in Effect \ {e} : evidence'[f] = evidence[f]
         /\ \A i \in 1..MaxLog : evidence'[e][i] \in Strong =>
              \A f \in Effect \ {e} : evidence[f][i] \notin Strong
         /\ \A i \in 1..MaxLog : evidence'[e][i] # "none" <=> i \in Window(e, lost)
  <1> USE NumbersAssumption
  <1> DEFINE W == Window(e, lost)
  <1> DEFINE Attr(i) == Attribution(e, i, lost)
  <1> DEFINE row == [i \in 1..MaxLog |->
          IF i \notin W THEN "none"
          ELSE IF Attr(i) \in Strong /\ Claimed(e, i) THEN "ambiguous"
          ELSE Attr(i)]
  <1>1. /\ evidence' = [evidence EXCEPT ![e] = row]
        /\ counted' = [counted EXCEPT ![e] = {i \in W : Attr(i) \in Counted}]
        /\ status' = [status EXCEPT ![e] = "resolved"]
        /\ UNCHANGED <<log, from, until>>
    BY DEF Settled
  <1>2. W \subseteq 1..MaxLog
    BY DEF Window, IInv, TypeOK
  <1>3. \A i : Attr(i) \in Counted \cup {"ambiguous"}
    BY AttributionType
  <1>4. "none" \notin Counted \cup {"ambiguous"} /\ "ambiguous" \notin Strong
        /\ "none" \notin Strong
    BY DEF Counted, Strong
  <1> HIDE DEF W, Attr
  <1>5. row \in [1..MaxLog -> Counted \cup {"ambiguous", "none"}]
    BY <1>3
  <1>6. \A i \in 1..MaxLog : row[i] # "none" <=> i \in W
    BY <1>3, <1>4
  <1>7. \A i \in 1..MaxLog : row[i] \in Strong => ~Claimed(e, i)
    BY <1>3, <1>4
  <1> HIDE DEF row
  <1>8. /\ evidence'[e] = row
        /\ \A f \in Effect \ {e} : evidence'[f] = evidence[f]
        /\ evidence' \in [Effect -> [1..MaxLog -> Counted \cup {"ambiguous", "none"}]]
    BY <1>1, <1>5 DEF IInv, TypeOK
  <1>9. counted' \in [Effect -> SUBSET (1..MaxLog)]
    BY <1>1, <1>2 DEF IInv, TypeOK
  <1> QED
    BY <1>1, <1>6, <1>7, <1>8, <1>9 DEF W, Claimed

LEMMA ResolveInv ==
  ASSUME IInv, NEW b \in batch, Resolve(b)
  PROVE  IInv'
  <1> USE NumbersAssumption
  <1>1. b.job \in Effect /\ b.attempts \in Nat /\ Closed(b.job)
    BY DEF IInv, TypeOK, Carried
  <1>2. PICK result \in {"ok", "error"} :
          /\ hand' = [job |-> b.job, attempts |-> b.attempts, result |-> result]
          /\ batch' = batch \ {b}
          /\ UNCHANGED <<job, tick>>
          /\ NoFault \/ Fault
          /\ \/ UNCHANGED tables /\ (result = "ok" => status[b.job] # "observing")
             \/ \E lost \in Lost \cup {"nothing"} : Settled(b.job, lost)
    BY DEF Resolve, InHand
  <1>3. /\ status' \in [Effect -> {"none", "acked", "lost", "observing", "resolved"}]
        /\ evidence' \in [Effect -> [1..MaxLog -> Counted \cup {"ambiguous", "none"}]]
        /\ counted' \in [Effect -> SUBSET (1..MaxLog)]
        /\ UNCHANGED <<log, from, until>>
        /\ Forward
        /\ result = "ok" => status'[b.job] = "resolved"
        /\ ClaimedOnce'
    <2>1. CASE UNCHANGED tables /\ (result = "ok" => status[b.job] # "observing")
      BY <2>1, <1>1 DEF IInv, TypeOK, tables, Forward, Closed, Observed, ClaimedOnce
    <2>2. ASSUME NEW lost \in Lost \cup {"nothing"}, Settled(b.job, lost)
          PROVE  <1>3!1 /\ <1>3!2 /\ <1>3!3 /\ <1>3!4 /\ <1>3!5 /\ <1>3!6 /\ <1>3!7
      <3>1. /\ status' = [status EXCEPT ![b.job] = "resolved"]
            /\ UNCHANGED <<log, from, until>>
            /\ <1>3!2 /\ <1>3!3
        BY <2>2, <1>1, SettledStep
      <3>2. Forward
        BY <3>1, <1>1 DEF IInv, TypeOK, Forward, Observed
      <3>3. ClaimedOnce'
        BY <2>2, <1>1, SettledStep DEF IInv, ClaimedOnce
      <3> QED
        BY <3>1, <3>2, <3>3, <1>1 DEF IInv, TypeOK
    <2> QED
      BY <1>2, <2>1, <2>2
  <1>4. TypeOK'
    <2>1. hand' \in [job : Effect \cup {None}, attempts : Nat,
                     result : {"none", "ok", "error"}]
      BY <1>1, <1>2
    <2>2. faults' \in 0..MaxFaults
      BY <1>2 DEF IInv, TypeOK, Fault, NoFault
    <2> QED
      BY <1>2, <1>3, <2>1, <2>2 DEF IInv, TypeOK
  <1>5. Jobs' /\ DoneIsSettled'
    BY <1>2, <1>3, JobsStay
  <1>6. Carried'
    <2>1. \A c \in batch : c.job \in Effect
      BY DEF IInv, TypeOK
    <2>2. hand'.job = b.job /\ hand'.result = result
      BY <1>2
    <2> QED
      BY <1>1, <1>2, <1>3, <2>1, <2>2 DEF IInv, Carried, Forward, Closed, Observed
  <1> QED
    BY <1>3, <1>4, <1>5, <1>6 DEF IInv, Windows

LEMMA FinishInv ==
  ASSUME IInv, Finish
  PROVE  IInv'
  <1> USE NumbersAssumption
  <1>1. /\ hand.job \in Effect /\ Closed(hand.job)
        /\ hand.result = "ok" => status[hand.job] = "resolved"
    BY DEF IInv, Carried, Finish
  <1>2. /\ Finished \in JobRow
        /\ Finished.status = "done" => hand.result = "ok"
        /\ Finished.status \in {"done", "pending", "dead"}
        /\ Finished.status = "pending" => Finished.notBefore = "backoff"
    <2>1. job[hand.job] \in JobRow
      BY <1>1 DEF IInv, TypeOK
    <2>2. CASE hand.result = "ok"
      BY <2>1, <2>2, StatusChanges DEF Finished
    <2>3. CASE hand.result # "ok"
      <3>1. \E s \in {"pending", "dead"} :
              Finished = [status |-> s, attempts |-> job[hand.job].attempts,
                          notBefore |-> "backoff"]
        BY <2>3 DEF Finished
      <3> QED
        BY <2>1, <3>1 DEF JobRow, Live
    <2> QED
      BY <2>2, <2>3
  <1>3. job' = [job EXCEPT ![hand.job] = Finished] \/ job' = job
    BY DEF Finish
  <1>4. batch' \subseteq batch /\ hand' = EmptyHand /\ UNCHANGED tables
    BY DEF Finish
  <1>5. TypeOK'
    <2>1. job' \in [Effect -> JobRow]
      BY <1>2, <1>3 DEF IInv, TypeOK
    <2>2. EmptyHand \in [job : Effect \cup {None}, attempts : Nat,
                         result : {"none", "ok", "error"}]
      BY DEF EmptyHand
    <2>3. faults' \in 0..MaxFaults /\ tick' \in {"idle", "swept", "running"}
      BY DEF IInv, TypeOK, Finish, Fault, NoFault
    <2> QED
      BY <2>1, <2>2, <2>3, <1>4 DEF IInv, TypeOK, tables
  <1>6. Jobs' /\ DoneIsSettled'
    <2>1. CASE job' = job
      BY <2>1, <1>4 DEF IInv, Jobs, DoneIsSettled, Closed, Observed, tables
    <2>2. CASE job' = [job EXCEPT ![hand.job] = Finished]
      <3>1. job'[hand.job] = Finished /\ \A e \in Effect \ {hand.job} : job'[e] = job[e]
        BY <2>2, <1>1 DEF IInv, TypeOK
      <3> QED
        BY <3>1, <1>1, <1>2, <1>4 DEF IInv, Jobs, DoneIsSettled, Closed, Observed, tables
    <2> QED
      BY <1>3, <2>1, <2>2
  <1>7. Carried'
    BY <1>4 DEF IInv, Carried, Closed, Observed, tables
  <1> QED
    BY <1>4, <1>5, <1>6, <1>7, EvidenceStays DEF tables, IInv, Windows

LEMMA CrashInv ==
  ASSUME IInv, Crash
  PROVE  IInv'
  <1> USE NumbersAssumption
  <1>1. TypeOK'
    <2>1. EmptyHand \in [job : Effect \cup {None}, attempts : Nat,
                         result : {"none", "ok", "error"}]
      BY DEF EmptyHand
    <2>2. status' \in [Effect -> {"none", "acked", "lost", "observing", "resolved"}]
      BY DEF IInv, TypeOK, Crash
    <2> QED
      BY <2>1, <2>2 DEF IInv, TypeOK, Crash, Fault
  <1>2. Forward
    BY DEF IInv, TypeOK, Crash, Forward, Observed
  <1>3. Carried'
    BY DEF Crash, Carried
  <1> QED
    BY <1>1, <1>2, <1>3, JobsStay, EvidenceStays DEF Crash, IInv, Windows

-----------------------------------------------------------------------------
LEMMA StepInv == IInv /\ [Next]_vars => IInv'
  <1> SUFFICES ASSUME IInv, [Next]_vars PROVE IInv'
    OBVIOUS
  <1>1. ASSUME NEW u \in User, NEW s \in Saying, Receive(u, s) PROVE IInv'
    BY <1>1, ReceiveInv
  <1>2. ASSUME NEW e \in Effect, Acknowledge(e) \/ OpenEffect(e) PROVE IInv'
    BY <1>2, AcknowledgeInv, OpenInv
  <1>3. ASSUME NEW e \in Effect,
               WindowCloses(e) \/ BackoffPasses(e) \/ LeaseExpires(e)
        PROVE IInv'
    BY <1>3, TimeInv
  <1>4. CASE Tick
    <2>1. ASSUME NEW b \in batch, Resolve(b) PROVE IInv'
      BY <2>1, ResolveInv
    <2> QED
      BY <1>4, <2>1, SweepInv, LeaseInv, FinishInv DEF Tick
  <1>5. CASE Crash
    BY <1>5, CrashInv
  <1>6. CASE UNCHANGED vars
    <2>1. TypeOK'
      BY <1>6 DEF IInv, TypeOK, vars, tables, memory
    <2>2. Forward
      BY <1>6 DEF Forward, Observed, vars, tables
    <2> QED
      BY <1>6, <2>1, <2>2, CarriedStays, JobsStay, EvidenceStays
         DEF IInv, Windows, vars, tables, memory
  <1> QED
    BY <1>1, <1>2, <1>3, <1>4, <1>5, <1>6 DEF Next

(* The invariant holds throughout, and each property follows from it.        *)
THEOREM Inductive == Spec => []IInv
  <1>1. Init => IInv
    BY InitInv
  <1>2. IInv /\ [Next]_vars => IInv'
    BY StepInv
  <1> QED
    BY <1>1, <1>2, PTL DEF Spec

(* Tables and memory keep values of their types.                             *)
THEOREM TypeCorrect == Spec => []TypeOK
  <1>1. IInv => TypeOK
    BY DEF IInv
  <1> QED
    BY <1>1, Inductive, PTL

(* A message is strong evidence for one effect only.                         *)
THEOREM ClaimsAreUnique == Spec => []ClaimedOnce
  <1>1. IInv => ClaimedOnce
    BY DEF IInv
  <1> QED
    BY <1>1, Inductive, PTL

(* A job that is done has settled its effect.                                *)
THEOREM DoneIsTrue == Spec => []DoneIsSettled
  <1>1. IInv => DoneIsSettled
    BY DEF IInv
  <1> QED
    BY <1>1, Inductive, PTL

-----------------------------------------------------------------------------
(* Where reads do not fail unnoticed, a settlement has its whole window.     *)

LEMMA WholeStep ==
  ASSUME Lost = {}, IInv, WholeWindow, [Next]_vars
  PROVE  WholeWindow'
  <1> USE NumbersAssumption
  <1>1. ASSUME NEW b \in batch, Resolve(b) PROVE WholeWindow'
    <2>1. b.job \in Effect /\ until[b.job] # Open
      BY DEF IInv, TypeOK, Carried, Closed
    <2>2. CASE UNCHANGED tables
      BY <2>2 DEF WholeWindow, tables
    <2>3. CASE Settled(b.job, "nothing")
      <3>1. /\ status' = [status EXCEPT ![b.job] = "resolved"]
            /\ UNCHANGED <<log, from, until>>
            /\ \A f \in Effect \ {b.job} : evidence'[f] = evidence[f]
            /\ \A i \in 1..MaxLog :
                 evidence'[b.job][i] # "none" <=> i \in Window(b.job, "nothing")
        BY <2>1, <2>3, SettledStep
      <3>2. \A i \in 1..MaxLog :
              i \in Window(b.job, "nothing") <=>
                i > from[b.job] /\ i <= until[b.job] /\ i <= from[b.job] + MaxFollowUps
        <4>1. /\ until[b.job] <= Len(log) /\ Len(log) \in Nat
              /\ until[b.job] \in Int /\ from[b.job] \in Nat
          BY <2>1 DEF IInv, TypeOK, Windows, Open
        <4> QED
          BY <2>1, <4>1 DEF Window
      <3>3. \A f \in Effect : /\ f = b.job => status'[f] = "resolved"
                              /\ f # b.job => status'[f] = status[f]
        BY <3>1 DEF IInv, TypeOK
      <3> QED
        BY <2>1, <3>1, <3>2, <3>3 DEF WholeWindow
    <2> QED
      BY <1>1, <2>2, <2>3 DEF Resolve
  <1>2. ASSUME /\ UNCHANGED <<evidence>>
               /\ \A e \in Effect : status'[e] = "resolved" =>
                    /\ status[e] = "resolved"
                    /\ from'[e] = from[e] /\ until'[e] = until[e]
        PROVE  WholeWindow'
    BY <1>2 DEF WholeWindow
  <1>3. ASSUME NEW u \in User, NEW s \in Saying, Receive(u, s) PROVE WholeWindow'
    BY <1>2, <1>3 DEF Receive
  <1>4. ASSUME NEW e \in Effect, Acknowledge(e) \/ OpenEffect(e) PROVE WholeWindow'
    BY <1>2, <1>4 DEF Acknowledge, OpenEffect, IInv, TypeOK
  <1>5. ASSUME NEW e \in Effect,
               WindowCloses(e) \/ BackoffPasses(e) \/ LeaseExpires(e)
        PROVE WholeWindow'
    BY <1>2, <1>5 DEF WindowCloses, BackoffPasses, LeaseExpires, tables, IInv, TypeOK
  <1>6. CASE Sweep \/ Lease \/ Finish \/ Crash \/ UNCHANGED vars
    BY <1>2, <1>6 DEF Sweep, Lease, Finish, Crash, vars, tables
  <1> QED
    BY <1>1, <1>3, <1>4, <1>5, <1>6 DEF Next, Tick

(* Where reads do not fail unnoticed, a settled effect has looked at its     *)
(* whole window, for any retries, errors and crashes.                        *)
THEOREM WindowsAreWhole ==
  ASSUME Lost = {}
  PROVE  Spec => []WholeWindow
  <1>1. Init => WholeWindow
    BY DEF Init, WholeWindow
  <1>2. IInv /\ WholeWindow /\ [Next]_vars => WholeWindow'
    BY WholeStep
  <1> QED
    BY <1>1, <1>2, Inductive, PTL DEF Spec

=============================================================================
