---------------------------- MODULE OutboundProofs ----------------------------
(* Theorems of Outbound for every set of sends, targets, handles and         *)
(* buckets, and every quota and deadline.  Results, bots, quotas and the     *)
(* return of lanes need no serial target; that a target is serial, and that  *)
(* deliveries keep their contract, holds where sends are orderly (Orderly).  *)
EXTENDS Outbound, FiniteSetTheorems, SequenceTheorems, TLAPS

-----------------------------------------------------------------------------
(* The bot of a physical message.                                            *)

Binds == [handle : Handle \cup {None}, generation : Nat]

(* A send that still sees the generation it was called under sees its bot.   *)
Addressed ==
  /\ generation \in Nat
  /\ pc \in [Send -> Steps]
  /\ seen \in [Send -> Binds]
  /\ \A s \in Send : seen[s].generation <= generation
  /\ \A s \in Send : seen[s].handle # None /\ seen[s].generation = generation
                       => bound = seen[s].handle
  /\ \A e \in log : e.send \in Send /\ pc[e.send] # "new"
  /\ ExactBot

(* A step of a send: all of Next but the environment.                        *)
SendStep(s) == Refuse(s) \/ Arrive(s) \/ Scheduler(s) \/ Exporter(s) \/ Cancel(s)

(* A send only leaves "new" when it is refused or arrives.                   *)
PcStep(s) ==
  \E p \in Steps \ {"new"} : pc' = [pc EXCEPT ![s] = p]

LEMMA SchedulerPc ==
  ASSUME NEW s \in Send, SendStep(s)
  PROVE  PcStep(s) \/ pc' = pc
  <1>1. CASE Refuse(s)
    BY <1>1 DEF Refuse, PcStep, Steps
  <1>2. CASE Arrive(s)
    BY <1>2 DEF Arrive, Lock, PcStep, Steps
  <1>3. CASE Acquire(s) \/ WakeUp(s) \/ GiveUp(s) \/ Resume(s)
    BY <1>3 DEF Acquire, WakeUp, GiveUp, Resume, Lock, End, PcStep, Steps
  <1>4. CASE ReserveRefused(s) \/ ReserveLater(s) \/ Reserve(s) \/ WireDeadline(s)
    BY <1>4 DEF ReserveRefused, ReserveLater, Reserve, WireDeadline, NotAdmitted,
                NoAnswer, StopAt, End, PcStep, Steps
  <1>5. CASE Exporter(s)
    BY <1>5 DEF Exporter, Accepted, Failed, RateLimited, Unanswered, NotAdmitted,
                NoAnswer, StopAt, End, PcStep, Steps
  <1>6. CASE TimeoutAtGrant(s) \/ Cancel(s)
    BY <1>6 DEF TimeoutAtGrant, Cancel, LoseLock, CancelAwait, End, PcStep, Steps
  <1> QED
    BY <1>1, <1>2, <1>3, <1>4, <1>5, <1>6 DEF SendStep, Scheduler

(* Only Reserve sends, only Arrive resolves a binding.                       *)
LEMMA SchedulerLog ==
  ASSUME NEW s \in Send, SendStep(s)
  PROVE  /\ bound' = bound /\ generation' = generation
         /\ log' = log \/ Reserve(s)
         /\ seen' = seen \/ Arrive(s)
  BY DEF SendStep, Refuse, Arrive, Scheduler, Exporter, Cancel, Acquire, WakeUp,
         GiveUp, TimeoutAtGrant, Resume, ReserveRefused, ReserveLater, Reserve,
         WireDeadline, NoAnswer, Accepted, Failed, RateLimited, Unanswered,
         CancelAwait, LoseLock, bindVars, call

LEMMA ArriveAddressed ==
  ASSUME Addressed, bound \in Handle \cup {None}, NEW s \in Send, Arrive(s)
  PROVE  Addressed'
  <1>1. /\ bound' = bound /\ generation' = generation /\ log' = log
        /\ seen' = [seen EXCEPT ![s] = Binding] /\ pc[s] = "new"
    BY DEF Arrive, bindVars
  <1>2. pc' \in [Send -> Steps] /\ \A r \in Send : pc[r] # "new" => pc'[r] # "new"
    BY SchedulerPc DEF SendStep, PcStep, Addressed, Steps
  <1>3. Binding \in Binds /\ Binding.generation <= generation
        /\ (Binding.handle # None => Binding.handle = bound)
    BY DEF Binding, Binds, Addressed
  <1>4. seen' \in [Send -> Binds] /\ seen'[s] = Binding
        /\ \A r \in Send : r # s => seen'[r] = seen[r]
    BY <1>1, <1>3 DEF Addressed
  <1>5. \A e \in log : e.send # s
    BY <1>1 DEF Addressed
  <1>6. ExactBot'
    BY <1>1, <1>4, <1>5 DEF Addressed, ExactBot
  <1> QED
    BY <1>1, <1>2, <1>3, <1>4, <1>6 DEF Addressed

LEMMA ReserveAddressed ==
  ASSUME Addressed, NEW s \in Send, Reserve(s)
  PROVE  Addressed'
  <1>1. bound' = bound /\ generation' = generation /\ seen' = seen
    BY DEF Reserve, bindVars, call
  <1>2. pc' \in [Send -> Steps] /\ \A r \in Send : pc[r] # "new" => pc'[r] # "new"
    BY SchedulerPc DEF SendStep, PcStep, Addressed, Steps, Scheduler
  <1>3. CASE log' = log
    BY <1>1, <1>2, <1>3 DEF Addressed, ExactBot
  <1>4. ASSUME NEW e, e.send = s, e.handle = CurrentBot(s), CurrentBot(s) # None,
               log' = log \cup {e}
        PROVE  Addressed'
    <2>1. e.handle = IF Explicit[s] # None THEN Explicit[s] ELSE seen[s].handle
      BY <1>4 DEF CurrentBot, Addressed
    <2>2. ExactBot'
      BY <1>1, <1>4, <2>1 DEF Addressed, ExactBot
    <2>3. pc[s] # "new"
      BY DEF Reserve
    <2> QED
      BY <1>1, <1>2, <1>4, <2>2, <2>3 DEF Addressed
  <1>5. CurrentBot(s) = None => log' = log
    BY DEF Reserve
  <1> DEFINE sends == Reservation(s)
  <1>6. CurrentBot(s) # None => log' = log \cup {sends}
    BY DEF Reserve
  <1>7. sends.send = s /\ sends.handle = CurrentBot(s)
    BY DEF Reservation
  <1> HIDE DEF sends
  <1>8. CASE CurrentBot(s) = None
    BY <1>3, <1>5, <1>8
  <1>9. CASE CurrentBot(s) # None
    BY <1>4, <1>6, <1>7, <1>9
  <1> QED
    BY <1>8, <1>9

LEMMA BindAddressed ==
  ASSUME Addressed, generation' = generation + 1,
         pc' = pc, seen' = seen, log' = log
  PROVE  Addressed'
  <1>1. \A s \in Send : seen[s].generation \in Nat
    BY DEF Addressed, Binds
  <1>2. \A s \in Send : seen[s].generation <= generation + 1
                         /\ seen[s].generation # generation + 1
    BY <1>1 DEF Addressed
  <1>3. generation + 1 \in Nat
    BY DEF Addressed
  <1>4. ExactBot'
    BY DEF Addressed, ExactBot
  <1> QED
    BY <1>2, <1>3, <1>4 DEF Addressed

LEMMA RestAddressed ==
  ASSUME Addressed, NEW s \in Send, PcStep(s) \/ pc' = pc,
         bound' = bound, generation' = generation, seen' = seen, log' = log
  PROVE  Addressed'
  <1>1. pc' \in [Send -> Steps] /\ \A r \in Send : pc[r] # "new" => pc'[r] # "new"
    BY DEF PcStep, Addressed, Steps
  <1> QED
    BY <1>1 DEF Addressed, ExactBot

BoundOK == bound \in Handle \cup {None}

(* Whatever is bound, unbound and retried, each physical message leaves      *)
(* through the bot its send was addressed through.                           *)
THEOREM BotIsExact == Spec => []ExactBot
  <1>1. Init => Addressed /\ BoundOK
    BY NoneAssumption DEF Init, Addressed, BoundOK, Binds, Steps, ExactBot
  <1>2. ASSUME Addressed /\ BoundOK, [Next]_vars PROVE Addressed' /\ BoundOK'
    <2>1. ASSUME NEW s \in Send, SendStep(s)
          PROVE  Addressed' /\ BoundOK'
      BY <1>2, <2>1, SchedulerPc, SchedulerLog, ArriveAddressed,
         ReserveAddressed, RestAddressed DEF BoundOK
    <2>2. ASSUME NEW h \in Handle, Bind(h) PROVE Addressed' /\ BoundOK'
      BY <1>2, <2>2, BindAddressed DEF Bind, BoundOK, call
    <2>3. CASE Unbind
      BY <1>2, <2>3, BindAddressed DEF Unbind, BoundOK, call
    <2>4. CASE Tick \/ UNCHANGED vars
      BY <1>2, <2>4 DEF Tick, vars, bindVars, call, Addressed, BoundOK, ExactBot
    <2> QED
      BY <1>2, <2>1, <2>2, <2>3, <2>4 DEF Next, SendStep
  <1>3. Addressed => ExactBot
    BY DEF Addressed
  <1> QED
    BY <1>1, <1>2, <1>3, PTL DEF Spec

-----------------------------------------------------------------------------
(* The result of a delivery.                                                 *)

Sure(rs) == Cardinality({i \in 1..Len(rs) : rs[i] = "accepted"})
Doubt(rs) == Cardinality({i \in 1..Len(rs) : rs[i] = "unknown"})

(* What ResultIsTrue says of one send: results rs of its parts, the parts    *)
(* the platform took, the status and the number of parts.                    *)
Truth(rs, took, status, total) ==
  LET n == Len(took)
  IN /\ took = [i \in 1..n |-> i]
     /\ status = "accepted" => n = total
     /\ status \in {"failed", "expired"} => n = 0
     /\ status = "partial" => n > 0
     /\ n >= Sure(rs) /\ n <= Sure(rs) + Doubt(rs)

(* What is true of a send that was cancelled: of the part in hand nobody was *)
(* told.                                                                     *)
Broken(rs, took) ==
  LET n == Len(took)
  IN /\ took = [i \in 1..n |-> i]
     /\ n >= Sure(rs) /\ n <= Sure(rs) + Doubt(rs) + 1

(* A send that goes on has been told of every part so far.                   *)
Clean(rs, took) ==
  /\ rs \in Seq(PartStatus) /\ took \in Seq(Nat)
  /\ \A i \in 1..Len(rs) : rs[i] = "accepted"
  /\ took = [i \in 1..Len(rs) |-> i]

Before == {"new", "acquiring", "waiting", "granted"}

Told ==
  /\ pc \in [Send -> Steps]
  /\ result \in [Send -> Status \cup {None}]
  /\ parts \in [Send -> Seq(PartStatus)]
  /\ reached \in [Send -> Seq(Nat)]
  /\ \A s \in Send : pc[s] # "done" =>
       /\ Clean(parts[s], reached[s]) /\ Len(parts[s]) < Parts[s]
       /\ result[s] = None
  /\ \A s \in Send : pc[s] \in Before => parts[s] = <<>>
  /\ \A s \in Send : \/ Truth(parts[s], reached[s], result[s], Parts[s])
                     \/ Cancelled(s) /\ Broken(parts[s], reached[s])

LEMMA CleanCounts ==
  ASSUME NEW rs, NEW took, Clean(rs, took)
  PROVE  Sure(rs) = Len(rs) /\ Doubt(rs) = 0 /\ Len(took) = Len(rs)
  <1>1. Len(rs) \in Nat
    BY DEF Clean
  <1>2. {i \in 1..Len(rs) : rs[i] = "accepted"} = 1..Len(rs)
    BY DEF Clean
  <1>3. {i \in 1..Len(rs) : rs[i] = "unknown"} = {}
    BY DEF Clean
  <1>4. Cardinality(1..Len(rs)) = Len(rs)
    BY <1>1, FS_Interval
  <1>5. Len(took) = Len(rs)
    BY <1>1 DEF Clean
  <1> QED
    BY <1>2, <1>3, <1>4, <1>5, FS_EmptySet DEF Sure, Doubt

(* One more result after parts that were all accepted.                       *)
LEMMA LastCounts ==
  ASSUME NEW rs, NEW took, Clean(rs, took), NEW status \in PartStatus
  PROVE  /\ Sure(Append(rs, status)) =
              IF status = "accepted" THEN Len(rs) + 1 ELSE Len(rs)
         /\ Doubt(Append(rs, status)) = IF status = "unknown" THEN 1 ELSE 0
  <1> DEFINE n == Len(rs)
             all == Append(rs, status)
  <1>1. n \in Nat /\ Len(all) = n + 1 /\ all[n + 1] = status
        /\ \A i \in 1..n : all[i] = "accepted"
    BY DEF Clean
  <1> HIDE DEF n, all
  <1>2. CASE status = "accepted"
    <2>1. {i \in 1..Len(all) : all[i] = "accepted"} = 1..(n + 1)
      BY <1>1, <1>2
    <2>2. {i \in 1..Len(all) : all[i] = "unknown"} = {}
      BY <1>1, <1>2
    <2>3. Cardinality(1..(n + 1)) = n + 1
      BY <1>1, FS_Interval
    <2> QED
      BY <1>2, <2>1, <2>2, <2>3, FS_EmptySet DEF Sure, Doubt, n, all
  <1>3. CASE status # "accepted"
    <2>1. {i \in 1..Len(all) : all[i] = "accepted"} = 1..n
      BY <1>1, <1>3
    <2>2. {i \in 1..Len(all) : all[i] = "unknown"} =
            IF status = "unknown" THEN {n + 1} ELSE {}
      BY <1>1
    <2>3. Cardinality(1..n) = n
      BY <1>1, FS_Interval
    <2> QED
      BY <1>3, <2>1, <2>2, <2>3, FS_EmptySet, FS_Singleton DEF Sure, Doubt, n, all
  <1> QED
    BY <1>2, <1>3

-----------------------------------------------------------------------------
(* The status that ends a delivery says what the platform took.              *)

LEMMA CleanTruth ==
  ASSUME NEW rs, NEW took, Clean(rs, took), NEW total
  PROVE  Truth(rs, took, None, total)
  <1>1. None \notin {"accepted", "failed", "expired", "partial"}
    BY NoneAssumption DEF Status, PartStatus
  <1>2. Len(rs) \in Nat
    BY DEF Clean
  <1> QED
    BY CleanCounts, <1>1, <1>2 DEF Truth, Clean

(* The status computed from the results of all parts before and one more.    *)
LEMMA SummaryTruth ==
  ASSUME NEW s \in Send, NEW rs, NEW took, Clean(rs, took), Len(rs) < Parts[s],
         NEW status \in PartStatus,
         NEW last, \/ last = took /\ status # "accepted"
                   \/ last = Append(took, Len(rs) + 1) /\ status # "failed",
         status = "accepted" => Len(rs) + 1 = Parts[s]
  PROVE  /\ Truth(Append(rs, status), last, Summary(s, Append(rs, status)), Parts[s])
         /\ Summary(s, Append(rs, status)) \in Status
  <1> DEFINE n == Len(rs)
             all == Append(rs, status)
  <1>1. /\ n \in Nat /\ Len(all) = n + 1 /\ all[n + 1] = status
        /\ \A i \in 1..n : all[i] = "accepted"
        /\ all # <<>>
    BY DEF Clean
  <1>2. /\ Sure(all) = IF status = "accepted" THEN n + 1 ELSE n
        /\ Doubt(all) = IF status = "unknown" THEN 1 ELSE 0
    BY LastCounts
  <1>3. Len(took) = n
    BY CleanCounts
  <1>4. /\ last = [i \in 1..Len(last) |-> i]
        /\ \/ Len(last) = n /\ status # "accepted"
           \/ Len(last) = n + 1 /\ status # "failed"
    <2>1. CASE last = took /\ status # "accepted"
      BY <1>3, <2>1 DEF Clean
    <2>2. CASE last = Append(took, n + 1) /\ status # "failed"
      <3>1. took \in Seq(Nat) /\ took = [i \in 1..n |-> i]
        BY DEF Clean
      <3>2. Append(took, n + 1) = [i \in 1..(n + 1) |-> i]
        BY <1>1, <3>1
      <3>3. took \in Seq(Nat) => Len(Append(took, n + 1)) = Len(took) + 1
        BY <1>1
      <3>4. Len(last) = n + 1
        BY <1>3, <2>2, <3>1, <3>3
      <3> QED
        BY <2>2, <3>2, <3>4
    <2> QED
      BY <2>1, <2>2
  <1>5. Summary(s, all) =
          IF status = "accepted" THEN "accepted"
          ELSE IF n > 0 THEN "partial" ELSE status
    <2>1. CASE status = "accepted"
      BY <1>1, <2>1 DEF Summary
    <2>2. CASE status # "accepted" /\ n > 0
      BY <1>1, <2>2 DEF Summary
    <2>3. CASE status # "accepted" /\ n = 0
      BY <1>1, <2>3 DEF Summary
    <2> QED
      BY <1>1, <2>1, <2>2, <2>3
  <1> HIDE DEF all, n
  <1>6. Len(last) >= Sure(all) /\ Len(last) <= Sure(all) + Doubt(all)
    <2>1. CASE Len(last) = n /\ status # "accepted"
      <3>1. Sure(all) = n /\ Doubt(all) \in {0, 1}
        BY <1>2, <2>1
      <3> QED
        BY <1>1, <2>1, <3>1
    <2>2. CASE Len(last) = n + 1 /\ status = "accepted"
      <3>1. Sure(all) = n + 1 /\ Doubt(all) = 0
        BY <1>2, <2>2
      <3> QED
        BY <1>1, <2>2, <3>1
    <2>3. CASE Len(last) = n + 1 /\ status = "unknown"
      <3>1. Sure(all) = n /\ Doubt(all) = 1
        BY <1>2, <2>3
      <3> QED
        BY <1>1, <2>3, <3>1
    <2> QED
      BY <1>4, <2>1, <2>2, <2>3 DEF PartStatus
  <1>7. Summary(s, all) \in Status
    BY <1>5 DEF Status, PartStatus
  <1>8. Truth(all, last, Summary(s, all), Parts[s])
    <2> DEFINE said == Summary(s, all)
    <2>1. said = "accepted" => Len(last) = Parts[s]
      <3>1. said = "accepted" => status = "accepted"
        BY <1>5 DEF PartStatus
      <3>2. status = "accepted" => Len(last) = n + 1
        BY <1>4
      <3> QED
        BY <3>1, <3>2 DEF n
    <2>2. said \in {"failed", "expired"} => Len(last) = 0
      <3>1. said \in {"failed", "expired"} => n = 0 /\ status = "failed"
        BY <1>1, <1>5 DEF PartStatus
      <3> QED
        BY <1>4, <3>1
    <2>3. said = "partial" => Len(last) > 0
      <3>1. said = "partial" => n > 0
        BY <1>1, <1>5 DEF PartStatus
      <3>2. Len(last) = n \/ Len(last) = n + 1
        BY <1>4
      <3>3. n \in Nat
        BY <1>1
      <3> QED
        BY <3>1, <3>2, <3>3
    <2> HIDE DEF said
    <2>4. Truth(all, last, said, Parts[s])
      BY <1>4, <1>6, <2>1, <2>2, <2>3 DEF Truth
    <2> QED
      BY <2>4 DEF said
  <1> QED
    BY <1>7, <1>8 DEF all

(* Nothing has been taken before the lane is held.                           *)
LEMMA NothingTruth ==
  ASSUME NEW took, Clean(<<>>, took), NEW status \in {"failed", "expired"}, NEW total
  PROVE  Truth(<<>>, took, status, total)
  <1>1. Sure(<<>>) = 0 /\ Doubt(<<>>) = 0 /\ Len(took) = 0
    BY CleanCounts
  <1> QED
    BY <1>1 DEF Truth, Clean

(* Some parts, but not all.                                                  *)
LEMMA PartialTruth ==
  ASSUME NEW s \in Send, NEW rs, NEW took, Clean(rs, took),
         Len(rs) < Parts[s], rs # <<>>
  PROVE  Summary(s, rs) = "partial" /\ Truth(rs, took, "partial", Parts[s])
  <1>1. Len(rs) \in Nat /\ Len(rs) > 0
    BY DEF Clean
  <1>2. Summary(s, rs) = "partial"
    BY <1>1 DEF Summary, Clean
  <1>3. Sure(rs) = Len(rs) /\ Doubt(rs) = 0 /\ Len(took) = Len(rs)
    BY CleanCounts
  <1> QED
    BY <1>1, <1>2, <1>3 DEF Truth, Clean

-----------------------------------------------------------------------------
(* What a step does to the progress of a send: one of five effects.          *)

Rests == UNCHANGED <<pc, parts, reached, result>>

GoesOn(s) ==
  /\ pc[s] # "done"
  /\ \E p \in Steps \ {"new", "done"} :
       pc' = [pc EXCEPT ![s] = p] /\ (p \in Before => pc[s] \in Before)
  /\ UNCHANGED <<parts, reached, result>>

Advances(s) ==
  /\ pc[s] = "wire" /\ pc' = [pc EXCEPT ![s] = "reserving"]
  /\ Len(parts[s]) + 1 # Parts[s]
  /\ parts' = [parts EXCEPT ![s] = Append(parts[s], "accepted")]
  /\ reached' = [reached EXCEPT ![s] = Append(reached[s], Len(parts[s]) + 1)]
  /\ result' = result

Ends(s) ==
  \E rs \in Seq(PartStatus), took \in Seq(Nat), status \in Status :
    /\ pc' = [pc EXCEPT ![s] = "done"]
    /\ parts' = [parts EXCEPT ![s] = rs]
    /\ reached' = [reached EXCEPT ![s] = took]
    /\ result' = [result EXCEPT ![s] = status]
    /\ Truth(rs, took, status, Parts[s])

Quits(s) ==
  /\ pc[s] # "done" /\ pc' = [pc EXCEPT ![s] = "done"]
  /\ UNCHANGED <<parts, result>>
  /\ \E took \in Seq(Nat) :
       /\ reached' = [reached EXCEPT ![s] = took]
       /\ Broken(parts[s], took)

LEMMA EndsTold ==
  ASSUME Told, NEW s \in Send, Ends(s)
  PROVE  Told'
  <1>1. PICK rs \in Seq(PartStatus), took \in Seq(Nat), status \in Status :
          /\ pc' = [pc EXCEPT ![s] = "done"]
          /\ parts' = [parts EXCEPT ![s] = rs]
          /\ reached' = [reached EXCEPT ![s] = took]
          /\ result' = [result EXCEPT ![s] = status]
          /\ Truth(rs, took, status, Parts[s])
    BY DEF Ends
  <1>2. /\ pc'[s] = "done" /\ parts'[s] = rs /\ reached'[s] = took
        /\ result'[s] = status
        /\ \A r \in Send : r # s =>
             /\ pc'[r] = pc[r] /\ parts'[r] = parts[r]
             /\ reached'[r] = reached[r] /\ result'[r] = result[r]
    BY <1>1 DEF Told
  <1>3. pc' \in [Send -> Steps] /\ parts' \in [Send -> Seq(PartStatus)]
        /\ reached' \in [Send -> Seq(Nat)] /\ result' \in [Send -> Status \cup {None}]
    BY <1>1 DEF Told, Steps
  <1> QED
    BY <1>1, <1>2, <1>3 DEF Told, Before, Cancelled

LEMMA QuitsTold ==
  ASSUME Told, NEW s \in Send, Quits(s)
  PROVE  Told'
  <1>1. PICK took \in Seq(Nat) :
          reached' = [reached EXCEPT ![s] = took] /\ Broken(parts[s], took)
    BY DEF Quits
  <1>2. /\ pc[s] # "done" /\ pc' = [pc EXCEPT ![s] = "done"]
        /\ parts' = parts /\ result' = result
    BY DEF Quits
  <1>3. /\ pc'[s] = "done" /\ reached'[s] = took /\ result'[s] = None
        /\ \A r \in Send : r # s => pc'[r] = pc[r] /\ reached'[r] = reached[r]
    BY <1>1, <1>2 DEF Told
  <1>4. pc' \in [Send -> Steps] /\ reached' \in [Send -> Seq(Nat)]
    BY <1>1, <1>2 DEF Told, Steps
  <1> QED
    BY <1>1, <1>2, <1>3, <1>4 DEF Told, Before, Cancelled

LEMMA GoesOnTold ==
  ASSUME Told, NEW s \in Send, GoesOn(s)
  PROVE  Told'
  <1>1. PICK p \in Steps \ {"new", "done"} :
          pc' = [pc EXCEPT ![s] = p] /\ (p \in Before => pc[s] \in Before)
    BY DEF GoesOn
  <1>2. /\ pc'[s] = p /\ \A r \in Send : r # s => pc'[r] = pc[r]
        /\ pc' \in [Send -> Steps]
    BY <1>1 DEF Told
  <1>3. parts' = parts /\ reached' = reached /\ result' = result /\ pc[s] # "done"
    BY DEF GoesOn
  <1> QED
    BY <1>1, <1>2, <1>3 DEF Told, Cancelled

LEMMA CleanGrows ==
  ASSUME NEW rs, NEW took, Clean(rs, took)
  PROVE  Clean(Append(rs, "accepted"), Append(took, Len(rs) + 1))
  <1> DEFINE n == Len(rs)
             all == Append(rs, "accepted")
  <1>1. /\ n \in Nat /\ Len(all) = n + 1 /\ all[n + 1] = "accepted"
        /\ \A i \in 1..n : all[i] = "accepted"
        /\ all \in Seq(PartStatus)
    BY DEF Clean, PartStatus
  <1>2. took \in Seq(Nat) /\ took = [i \in 1..n |-> i] /\ n + 1 \in Nat
    BY <1>1 DEF Clean
  <1> HIDE DEF n, all
  <1>3. Append(took, n + 1) = [i \in 1..(n + 1) |-> i]
    BY <1>1, <1>2
  <1>4. Append(took, n + 1) \in Seq(Nat)
    BY <1>2
  <1>5. \A i \in 1..(n + 1) : all[i] = "accepted"
    BY <1>1
  <1>6. Clean(all, Append(took, n + 1))
    BY <1>1, <1>3, <1>4, <1>5 DEF Clean
  <1> QED
    BY <1>6 DEF all, n

LEMMA AdvancesTold ==
  ASSUME Told, NEW s \in Send, Advances(s)
  PROVE  Told'
  <1> DEFINE rs == Append(parts[s], "accepted")
             took == Append(reached[s], Len(parts[s]) + 1)
  <1>1. /\ Clean(parts[s], reached[s]) /\ Len(parts[s]) < Parts[s]
        /\ result[s] = None
    BY DEF Told, Advances
  <1>2. Clean(rs, took)
    BY <1>1, CleanGrows
  <1>3. Len(rs) < Parts[s]
    <2>1. Len(parts[s]) \in Nat /\ Len(rs) = Len(parts[s]) + 1
      BY <1>1 DEF Clean
    <2>2. Parts[s] \in Nat
      BY SendsAssumption
    <2> QED
      BY <1>1, <2>1, <2>2 DEF Advances
  <1>4. Truth(rs, took, None, Parts[s])
    BY <1>2, CleanTruth
  <1> HIDE DEF rs, took
  <1>5. rs \in Seq(PartStatus) /\ took \in Seq(Nat)
    BY <1>2 DEF Clean
  <1>6. /\ pc' = [pc EXCEPT ![s] = "reserving"] /\ parts' = [parts EXCEPT ![s] = rs]
        /\ reached' = [reached EXCEPT ![s] = took] /\ result' = result
    BY DEF Advances, rs, took
  <1>7. /\ pc'[s] = "reserving" /\ parts'[s] = rs /\ reached'[s] = took
        /\ \A r \in Send : r # s =>
             pc'[r] = pc[r] /\ parts'[r] = parts[r] /\ reached'[r] = reached[r]
    BY <1>6 DEF Told
  <1>8. pc' \in [Send -> Steps] /\ parts' \in [Send -> Seq(PartStatus)]
        /\ reached' \in [Send -> Seq(Nat)]
    BY <1>5, <1>6 DEF Told, Steps
  <1> QED
    BY <1>1, <1>2, <1>3, <1>4, <1>6, <1>7, <1>8 DEF Told, Before, Cancelled

LEMMA RestsTold ==
  ASSUME Told, Rests
  PROVE  Told'
  BY DEF Told, Rests, Cancelled

-----------------------------------------------------------------------------
(* The actions have one of the five effects.                                 *)

(* The delivery ends with what is known and one status more.                 *)
LEMMA StopEnds ==
  ASSUME Told, NEW s \in Send, pc[s] # "done", NEW status \in PartStatus,
         StopAt(s, status),
         status = "accepted" => Part(s) = Parts[s],
         \/ reached' = reached /\ status # "accepted"
         \/ Taken(s) /\ status # "failed"
  PROVE  Ends(s)
  <1> DEFINE rs == Append(parts[s], status)
             last == IF reached' = reached THEN reached[s]
                     ELSE Append(reached[s], Len(parts[s]) + 1)
  <1>1. /\ Clean(parts[s], reached[s]) /\ Len(parts[s]) < Parts[s]
        /\ reached[s] \in Seq(Nat) /\ Len(parts[s]) \in Nat
    BY DEF Told, Clean
  <1>2. /\ pc' = [pc EXCEPT ![s] = "done"]
        /\ parts' = [parts EXCEPT ![s] = rs]
        /\ result' = [result EXCEPT ![s] = Summary(s, rs)]
    BY DEF StopAt, End
  <1>3. rs \in Seq(PartStatus)
    BY <1>1 DEF Clean
  <1>4. ASSUME NEW took \in Seq(Nat), reached' = [reached EXCEPT ![s] = took],
               Truth(rs, took, Summary(s, rs), Parts[s]), Summary(s, rs) \in Status
        PROVE  Ends(s)
    BY <1>2, <1>3, <1>4 DEF Ends
  <1>5. CASE reached' = reached /\ status # "accepted"
    <2>1. reached' = [reached EXCEPT ![s] = reached[s]]
      BY <1>5 DEF Told
    <2> QED
      BY <1>1, <1>4, <1>5, <2>1, SummaryTruth
  <1>6. CASE Taken(s) /\ status # "failed"
    <2>1. /\ reached' = [reached EXCEPT ![s] = Append(reached[s], Len(parts[s]) + 1)]
          /\ Append(reached[s], Len(parts[s]) + 1) \in Seq(Nat)
      BY <1>1, <1>6 DEF Taken, Part
    <2>2. status = "accepted" => Len(parts[s]) + 1 = Parts[s]
      BY DEF Part
    <2> QED
      BY <1>1, <1>4, <1>6, <2>1, <2>2, SummaryTruth
  <1> QED
    BY <1>5, <1>6

(* The scheduler refuses to go on.                                           *)
LEMMA NotAdmittedEnds ==
  ASSUME Told, NEW s \in Send, pc[s] # "done", NEW status \in {"failed", "expired"},
         NotAdmitted(s, status), reached' = reached
  PROVE  Ends(s)
  <1>1. /\ Clean(parts[s], reached[s]) /\ Len(parts[s]) < Parts[s]
        /\ reached[s] \in Seq(Nat) /\ parts[s] \in Seq(PartStatus)
        /\ reached' = [reached EXCEPT ![s] = reached[s]]
    BY DEF Told
  <1>2. ASSUME NEW rs \in Seq(PartStatus), NEW said \in Status,
               parts' = [parts EXCEPT ![s] = rs], End(s, said),
               Truth(rs, reached[s], said, Parts[s])
        PROVE  Ends(s)
    BY <1>1, <1>2 DEF Ends, End
  <1>3. CASE attempts[s] > 0
    <2> DEFINE rs == Append(parts[s], "failed")
    <2>1. parts' = [parts EXCEPT ![s] = rs] /\ rs \in Seq(PartStatus) /\ rs # <<>>
      <3>1. "failed" \in PartStatus
        BY DEF PartStatus
      <3>2. rs \in Seq(PartStatus) /\ rs # <<>>
        BY <1>1, <3>1
      <3>3. parts' = [parts EXCEPT ![s] = rs]
        BY <1>3 DEF NotAdmitted
      <3> QED
        BY <3>2, <3>3
    <2>2. End(s, Summary(s, rs))
      BY <1>3, <2>1 DEF NotAdmitted
    <2>3. Truth(rs, reached[s], Summary(s, rs), Parts[s]) /\ Summary(s, rs) \in Status
      BY <1>1, SummaryTruth DEF PartStatus
    <2> HIDE DEF rs
    <2> QED
      BY <1>2, <2>1, <2>2, <2>3
  <1>4. CASE ~(attempts[s] > 0) /\ parts[s] = <<>>
    <2>1. parts' = [parts EXCEPT ![s] = parts[s]] /\ End(s, status)
      BY <1>4 DEF NotAdmitted
    <2>2. Truth(parts[s], reached[s], status, Parts[s])
      BY <1>1, <1>4, NothingTruth
    <2> QED
      BY <1>1, <1>2, <2>1, <2>2 DEF Status, PartStatus
  <1>5. CASE ~(attempts[s] > 0) /\ parts[s] # <<>>
    <2>1. parts' = [parts EXCEPT ![s] = parts[s]] /\ End(s, Summary(s, parts[s]))
      BY <1>5 DEF NotAdmitted
    <2>2. Summary(s, parts[s]) = "partial"
          /\ Truth(parts[s], reached[s], "partial", Parts[s])
      BY <1>1, <1>5, PartialTruth
    <2>3. "partial" \in Status
      BY DEF Status
    <2> QED
      BY <1>1, <1>2, <2>1, <2>2, <2>3
  <1> QED
    BY <1>3, <1>4, <1>5

(* The delivery ends before the lane is held.                                *)
LEMMA BeforeEnds ==
  ASSUME Told, NEW s \in Send, pc[s] \in Before, NEW status \in {"failed", "expired"},
         pc' = [pc EXCEPT ![s] = "done"], result' = [result EXCEPT ![s] = status],
         parts' = parts, reached' = reached
  PROVE  Ends(s)
  <1>1. /\ parts[s] = <<>> /\ parts[s] \in Seq(PartStatus) /\ reached[s] \in Seq(Nat)
        /\ Clean(parts[s], reached[s])
        /\ parts' = [parts EXCEPT ![s] = parts[s]]
        /\ reached' = [reached EXCEPT ![s] = reached[s]]
    BY DEF Told, Before
  <1>2. Truth(parts[s], reached[s], status, Parts[s])
    BY <1>1, NothingTruth
  <1>3. status \in Status
    BY DEF Status, PartStatus
  <1> QED
    BY <1>1, <1>2, <1>3 DEF Ends

LEMMA LaneEffect ==
  ASSUME Told, NEW s \in Send,
         \/ Refuse(s) \/ Arrive(s) \/ Acquire(s) \/ WakeUp(s) \/ GiveUp(s)
         \/ TimeoutAtGrant(s) \/ Resume(s)
  PROVE  GoesOn(s) \/ Ends(s)
  <1>1. CASE Refuse(s)
    <2>1. PICK status \in {"failed", "expired"} : result' = [result EXCEPT ![s] = status]
      BY <1>1 DEF Refuse
    <2> QED
      BY <1>1, <2>1, BeforeEnds DEF Refuse, Before, progress
  <1>2. CASE Arrive(s)
    BY <1>2 DEF Arrive, Lock, GoesOn, progress, Steps, Before
  <1>3. CASE Acquire(s) \/ WakeUp(s)
    BY <1>3 DEF Acquire, WakeUp, Lock, GoesOn, progress, Steps, Before
  <1>4. CASE GiveUp(s)
    BY <1>4, BeforeEnds DEF GiveUp, End, Before, progress
  <1>5. CASE Resume(s)
    <2>1. pc[s] = "granted" /\ parts' = parts /\ reached' = reached
      BY <1>5 DEF Resume, progress
    <2>2. CASE End(s, "expired") \/ End(s, "failed")
      BY <2>1, <2>2, BeforeEnds DEF End, Before
    <2>3. CASE pc' = [pc EXCEPT ![s] = "reserving"] /\ result' = result
      BY <2>1, <2>3 DEF GoesOn, Steps, Before
    <2> QED
      BY <1>5, <2>2, <2>3 DEF Resume
  <1>6. CASE TimeoutAtGrant(s)
    BY <1>6, BeforeEnds DEF TimeoutAtGrant, LoseLock, Before, progress
  <1> QED
    BY <1>1, <1>2, <1>3, <1>4, <1>5, <1>6

(* The parts before the one in hand were all accepted.                       *)
LEMMA CleanBreaks ==
  ASSUME NEW rs, NEW took, Clean(rs, took)
  PROVE  Broken(rs, took) /\ Broken(rs, Append(took, Len(rs) + 1))
  <1> DEFINE n == Len(rs)
             more == Append(took, n + 1)
  <1>1. n \in Nat /\ took \in Seq(Nat) /\ took = [i \in 1..n |-> i]
    BY DEF Clean
  <1>2. Sure(rs) = n /\ Doubt(rs) = 0 /\ Len(took) = n
    BY CleanCounts
  <1>3. n + 1 \in Nat
    BY <1>1
  <1> HIDE DEF n
  <1>4. more = [i \in 1..(n + 1) |-> i]
    BY <1>1, <1>2, <1>3
  <1>5. Len(more) = n + 1
    BY <1>1, <1>2, <1>3
  <1> HIDE DEF more
  <1>6. Broken(rs, took)
    BY <1>1, <1>2 DEF Broken
  <1>7. Broken(rs, more)
    BY <1>1, <1>2, <1>4, <1>5 DEF Broken
  <1> QED
    BY <1>6, <1>7 DEF more, n

LEMMA CancelEffect ==
  ASSUME Told, NEW s \in Send, Cancel(s)
  PROVE  Quits(s)
  <1>1. /\ pc[s] # "done" /\ pc' = [pc EXCEPT ![s] = "done"]
        /\ parts' = parts /\ result' = [result EXCEPT ![s] = None]
        /\ reached' = reached \/ Taken(s)
    BY DEF Cancel, CancelAwait, LoseLock, End, progress
  <1>2. /\ Clean(parts[s], reached[s]) /\ result[s] = None
        /\ result \in [Send -> Status \cup {None}]
        /\ reached \in [Send -> Seq(Nat)]
    BY <1>1 DEF Told
  <1>3. result' = result
    BY <1>1, <1>2
  <1>4. Len(parts[s]) + 1 \in Nat /\ reached[s] \in Seq(Nat)
    BY <1>2 DEF Clean
  <1>5. CASE reached' = reached
    <2>1. reached' = [reached EXCEPT ![s] = reached[s]]
      BY <1>2, <1>5
    <2> QED
      BY <1>1, <1>2, <1>3, <1>4, <2>1, CleanBreaks DEF Quits
  <1>6. CASE Taken(s)
    <2>1. /\ reached' = [reached EXCEPT ![s] = Append(reached[s], Len(parts[s]) + 1)]
          /\ Append(reached[s], Len(parts[s]) + 1) \in Seq(Nat)
      BY <1>4, <1>6 DEF Taken, Part
    <2> QED
      BY <1>1, <1>2, <1>3, <2>1, CleanBreaks DEF Quits
  <1> QED
    BY <1>1, <1>5, <1>6

Passes(s, p) == pc' = [pc EXCEPT ![s] = p] /\ UNCHANGED <<parts, result>>

LEMMA PassesOn ==
  ASSUME NEW s \in Send, NEW p \in {"reserving", "wire"}, pc[s] # "done",
         Passes(s, p), reached' = reached
  PROVE  GoesOn(s)
  <1>1. p \in Steps \ {"new", "done"} /\ p \notin Before
    BY DEF Steps, Before
  <1>2. pc' = [pc EXCEPT ![s] = p] /\ UNCHANGED <<parts, reached, result>>
    BY DEF Passes
  <1> QED
    BY <1>1, <1>2, Zenon DEF GoesOn

LEMMA PartEffect ==
  ASSUME Told, NEW s \in Send,
         \/ ReserveRefused(s) \/ ReserveLater(s) \/ Reserve(s) \/ WireDeadline(s)
         \/ Exporter(s)
  PROVE  GoesOn(s) \/ Ends(s) \/ Advances(s) \/ Rests
  <1>1. CASE ReserveRefused(s)
    <2>1. pc[s] # "done" /\ reached' = reached
      BY <1>1 DEF ReserveRefused
    <2>2. NotAdmitted(s, "expired") \/ NotAdmitted(s, "failed")
      BY <1>1 DEF ReserveRefused
    <2> QED
      BY <2>1, <2>2, NotAdmittedEnds
  <1>2. CASE ReserveLater(s)
    BY <1>2 DEF ReserveLater, Rests
  <1>3. CASE Reserve(s)
    <2>1. pc[s] = "reserving" /\ reached' = reached
      BY <1>3 DEF Reserve
    <2>2. CASE StopAt(s, "failed")
      BY <2>1, <2>2, StopEnds DEF PartStatus
    <2>3. CASE Passes(s, "wire")
      <3>1. pc[s] # "done"
        BY <2>1
      <3> QED
        BY <2>1, <2>3, <3>1, PassesOn
    <2>4. CurrentBot(s) = None => StopAt(s, "failed")
      BY <1>3 DEF Reserve
    <2>5. CurrentBot(s) # None => Passes(s, "wire")
      BY <1>3 DEF Reserve, Passes
    <2> QED
      BY <2>2, <2>3, <2>4, <2>5
  <1>4. CASE Accepted(s)
    <2>1. pc[s] = "wire" /\ Taken(s)
      BY <1>4 DEF Accepted
    <2>2. CASE Part(s) = Parts[s]
      <3>1. pc[s] # "done" /\ "accepted" \in PartStatus /\ "accepted" # "failed"
        BY <2>1 DEF PartStatus
      <3>2. StopAt(s, "accepted")
        BY <1>4, <2>2 DEF Accepted
      <3> QED
        BY <2>1, <2>2, <3>1, <3>2, StopEnds
    <2>3. CASE Part(s) # Parts[s]
      BY <1>4, <2>1, <2>3 DEF Accepted, Advances, Taken, Part
    <2> QED
      BY <2>2, <2>3
  <1>5. CASE Failed(s)
    BY <1>5, StopEnds DEF Failed, PartStatus
  <1>6. CASE RateLimited(s)
    <2>1. pc[s] = "wire" /\ reached' = reached
      BY <1>6 DEF RateLimited
    <2>2. CASE NotAdmitted(s, "failed")
      BY <2>1, <2>2, NotAdmittedEnds
    <2>3. CASE Passes(s, "reserving")
      <3>1. pc[s] # "done"
        BY <2>1
      <3> QED
        BY <2>1, <2>3, <3>1, PassesOn
    <2>4. NotAdmitted(s, "failed") \/ Passes(s, "reserving")
      BY <1>6 DEF RateLimited, Passes
    <2> QED
      BY <2>2, <2>3, <2>4
  <1>7. CASE Unanswered(s) \/ WireDeadline(s)
    <2>1. pc[s] = "wire" /\ StopAt(s, "unknown") /\ (Taken(s) \/ reached' = reached)
      BY <1>7 DEF Unanswered, WireDeadline, NoAnswer
    <2>2. pc[s] # "done" /\ "unknown" \in PartStatus
          /\ "unknown" # "accepted" /\ "unknown" # "failed"
      BY <2>1 DEF PartStatus
    <2>3. CASE Taken(s)
      BY <2>1, <2>2, <2>3, StopEnds
    <2>4. CASE reached' = reached
      BY <2>1, <2>2, <2>4, StopEnds
    <2> QED
      BY <2>1, <2>3, <2>4
  <1> QED
    BY <1>1, <1>2, <1>3, <1>4, <1>5, <1>6, <1>7 DEF Exporter

LEMMA StepEffect ==
  ASSUME Told, NEW s \in Send, SendStep(s)
  PROVE  GoesOn(s) \/ Ends(s) \/ Advances(s) \/ Quits(s) \/ Rests
  BY LaneEffect, PartEffect, CancelEffect DEF SendStep, Scheduler

LEMMA ToldAlways == Spec => []Told
  <1>1. Init => Told
    <2> SUFFICES ASSUME Init PROVE Told
      OBVIOUS
    <2>1. \A s \in Send : /\ pc[s] = "new" /\ parts[s] = <<>>
                          /\ reached[s] = <<>> /\ result[s] = None
      BY DEF Init
    <2>2. \A s \in Send : Parts[s] \in Nat /\ 0 < Parts[s]
      BY SendsAssumption
    <2>3. Clean(<<>>, <<>>)
      BY DEF Clean
    <2>4. \A s \in Send : Truth(<<>>, <<>>, None, Parts[s])
      BY <2>3, CleanTruth
    <2>5. /\ pc \in [Send -> Steps] /\ result \in [Send -> Status \cup {None}]
          /\ parts \in [Send -> Seq(PartStatus)] /\ reached \in [Send -> Seq(Nat)]
      BY DEF Init, Steps
    <2> QED
      BY <2>1, <2>2, <2>3, <2>4, <2>5 DEF Told
  <1>2. ASSUME Told, [Next]_vars PROVE Told'
    <2>1. ASSUME NEW s \in Send, SendStep(s)
          PROVE  Told'
      BY <1>2, <2>1, StepEffect, GoesOnTold, EndsTold, AdvancesTold, QuitsTold,
         RestsTold
    <2>2. CASE (\E h \in Handle : Bind(h)) \/ Unbind \/ Tick \/ UNCHANGED vars
      <3>1. Rests
        BY <2>2 DEF Bind, Unbind, Tick, vars, progress, Rests
      <3> QED
        BY <1>2, <3>1, RestsTold
    <2> QED
      BY <1>2, <2>1, <2>2 DEF Next, SendStep
  <1> QED
    BY <1>1, <1>2, PTL DEF Spec

(* The result of every delivery tells what the platform took.                *)
THEOREM ResultTold == Spec => []ResultIsTrue
  <1>1. ASSUME Told, NEW s \in Send
        PROVE  LET n == Len(reached[s])
               IN /\ reached[s] = [i \in 1..n |-> i]
                  /\ result[s] = "accepted" => n = Parts[s]
                  /\ result[s] \in {"failed", "expired"} => n = 0
                  /\ result[s] = "partial" => n > 0
                  /\ n >= Sure(parts[s])
                  /\ n <= Sure(parts[s]) + Doubt(parts[s])
                            + (IF Cancelled(s) THEN 1 ELSE 0)
    <2>1. Len(reached[s]) \in Nat /\ Sure(parts[s]) \in Nat /\ Doubt(parts[s]) \in Nat
      <3>1. parts[s] \in Seq(PartStatus) /\ reached[s] \in Seq(Nat)
        BY <1>1 DEF Told
      <3>2. IsFiniteSet(1..Len(parts[s]))
        BY <3>1, FS_Interval
      <3> QED
        BY <3>1, <3>2, FS_Subset, FS_CardinalityType DEF Sure, Doubt
    <2>2. CASE Truth(parts[s], reached[s], result[s], Parts[s])
      BY <2>1, <2>2 DEF Truth
    <2>3. CASE Cancelled(s) /\ Broken(parts[s], reached[s])
      <3>1. result[s] \notin {"accepted", "failed", "expired", "partial"}
        BY <2>3, NoneAssumption DEF Cancelled, Status, PartStatus
      <3> QED
        BY <2>3, <3>1 DEF Broken
    <2> QED
      BY <1>1, <2>2, <2>3 DEF Told
  <1>2. Told => ResultIsTrue
    BY <1>1 DEF Sure, Doubt, ResultIsTrue
  <1> QED
    BY <1>2, ToldAlways, PTL

-----------------------------------------------------------------------------
(* The quotas.                                                               *)

(* The physical sends of a bucket b in the window that ends at t.            *)
InWindow(sent, b, t) ==
  {e \in sent : /\ b \in BucketsFor[TargetOf[e.send]]
               /\ e.at <= t /\ e.at > t - WindowOf[b]}

(* A bucket remembers every send that is still in the window of now.         *)
QuotaOK ==
  /\ now \in Nat
  /\ \A e \in log : e.at \in 0..now
  /\ \A b \in Bucket : IsFiniteSet(events[b])
  /\ \A b \in Bucket : \A e \in log :
       b \in BucketsFor[TargetOf[e.send]] /\ e.at > now - WindowOf[b]
         => e \in events[b]
  /\ QuotaRespected

(* What a step leaves of the memory of the buckets.                          *)
Remembers ==
  \/ events' = events
  \/ events' = [b \in Bucket |-> Pruned(b)]

LEMMA RemembersQuota ==
  ASSUME QuotaOK, Remembers, now' = now, log' = log, TargetOf' = TargetOf
  PROVE  QuotaOK'
  <1>1. ASSUME NEW b \in Bucket
        PROVE  /\ IsFiniteSet(events'[b])
               /\ \A e \in events[b] : e.at > now - WindowOf[b] => e \in events'[b]
    <2>1. IsFiniteSet(events[b])
      BY DEF QuotaOK
    <2>2. IsFiniteSet(Pruned(b))
      BY <2>1, FS_Subset DEF Pruned
    <2> QED
      BY <2>1, <2>2 DEF Remembers, Pruned
  <1>2. QuotaRespected'
    BY DEF QuotaOK, QuotaRespected
  <1> QED
    BY <1>1, <1>2 DEF QuotaOK

LEMMA ReserveQuota ==
  ASSUME QuotaOK, NEW s \in Send, Reserve(s)
  PROVE  QuotaOK'
  <1> DEFINE new == Reservation(s)
  <1>1. new.send = s /\ new.at = now
    BY DEF Reservation
  <1>2. /\ now' = now /\ TargetOf' = TargetOf /\ now \in Nat
        /\ log' = log \/ log' = log \cup {new}
    BY DEF Reserve, call, QuotaOK
  <1>3. \A b \in Bucket :
          events'[b] = IF b \in BucketsFor[TargetOf[s]]
                       THEN Pruned(b) \cup {new} ELSE Pruned(b)
    BY DEF Reserve, Charged
  <1>4. \A b \in BucketsFor[TargetOf[s]] : b \in Bucket =>
          ~(Cardinality(Pruned(b)) >= LimitOf[b])
    BY DEF Reserve, Blocking
  <1> HIDE DEF new
  <1>5. ASSUME NEW b \in Bucket
        PROVE  /\ IsFiniteSet(Pruned(b)) /\ IsFiniteSet(events'[b])
               /\ Cardinality(Pruned(b)) \in Nat
               /\ Cardinality(Pruned(b) \cup {new}) <= Cardinality(Pruned(b)) + 1
               /\ IsFiniteSet(Pruned(b) \cup {new})
               /\ LimitOf[b] \in Nat /\ WindowOf[b] \in Nat \ {0}
    <2>1. IsFiniteSet(Pruned(b))
      BY FS_Subset DEF Pruned, QuotaOK
    <2>2. Cardinality(Pruned(b)) \in Nat
      BY <2>1, FS_CardinalityType
    <2>3. /\ Cardinality(Pruned(b) \cup {new}) <= Cardinality(Pruned(b)) + 1
          /\ IsFiniteSet(Pruned(b) \cup {new})
      BY <2>1, <2>2, FS_AddElement
    <2> QED
      BY <1>3, <2>1, <2>2, <2>3, BucketsAssumption
  <1>6. \A e \in log' : e.at \in 0..now
    BY <1>1, <1>2 DEF QuotaOK
  <1>7. ASSUME NEW b \in Bucket, NEW e \in log',
               b \in BucketsFor[TargetOf[e.send]], e.at > now - WindowOf[b]
        PROVE  e \in events'[b]
    <2>1. CASE e = new
      BY <1>1, <1>3, <1>7, <2>1
    <2>2. CASE e \in log
      <3>1. e \in Pruned(b)
        BY <1>7, <2>2 DEF Pruned, QuotaOK
      <3> QED
        BY <1>3, <3>1
    <2> QED
      BY <1>2, <2>1, <2>2
  <1>8. ASSUME NEW b \in Bucket, NEW t \in 0..MaxTime
        PROVE  Cardinality(InWindow(log', b, t)) <= LimitOf[b]
    <2>1. Cardinality(InWindow(log, b, t)) <= LimitOf[b]
      BY DEF QuotaOK, QuotaRespected, InWindow
    <2>2. t \in Nat
      BY NumbersAssumption
    <2>3. CASE t < now \/ b \notin BucketsFor[TargetOf[s]]
      <3>1. InWindow(log', b, t) = InWindow(log, b, t)
        BY <1>1, <1>2, <2>2, <2>3 DEF InWindow
      <3> QED
        BY <2>1, <3>1
    <2>4. CASE t >= now /\ b \in BucketsFor[TargetOf[s]]
      <3>1. InWindow(log', b, t) \subseteq events'[b]
        <4>1. SUFFICES ASSUME NEW e \in InWindow(log', b, t) PROVE e \in events'[b]
          OBVIOUS
        <4>2. e \in log' /\ b \in BucketsFor[TargetOf[e.send]] /\ e.at > t - WindowOf[b]
          BY <4>1 DEF InWindow
        <4>3. e.at > now - WindowOf[b]
          <5>1. e.at \in 0..now /\ WindowOf[b] \in Nat
            BY <1>5, <1>6, <4>2
          <5>2. t >= now /\ e.at > t - WindowOf[b]
            BY <2>4, <4>2
          <5> QED
            BY <1>2, <2>2, <5>1, <5>2
        <4> QED
          BY <1>7, <4>2, <4>3
      <3>2. events'[b] = Pruned(b) \cup {new}
        BY <1>3, <2>4
      <3>3. Cardinality(InWindow(log', b, t)) <= Cardinality(events'[b])
        BY <1>5, <3>1, FS_Subset
      <3>4. IsFiniteSet(InWindow(log', b, t))
        BY <1>5, <3>1, FS_Subset
      <3>5. Cardinality(InWindow(log', b, t)) \in Nat /\ Cardinality(events'[b]) \in Nat
        BY <1>5, <3>4, FS_CardinalityType
      <3> QED
        BY <1>4, <1>5, <2>4, <3>2, <3>3, <3>5
    <2> QED
      BY <1>2, <2>2, <2>3, <2>4
  <1>9. QuotaRespected'
    BY <1>2, <1>8 DEF QuotaRespected, InWindow
  <1> QED
    BY <1>2, <1>5, <1>6, <1>7, <1>9 DEF QuotaOK

LEMMA TickQuota ==
  ASSUME QuotaOK, Tick
  PROVE  QuotaOK'
  <1>1. /\ now' = now + 1 /\ now \in Nat /\ log' = log
        /\ events' = events /\ TargetOf' = TargetOf
    BY DEF Tick, call, QuotaOK
  <1>2. ASSUME NEW b \in Bucket, NEW e \in log,
               b \in BucketsFor[TargetOf[e.send]], e.at > now' - WindowOf[b]
        PROVE  e \in events[b]
    <2>1. WindowOf[b] \in Int /\ e.at \in Int
      BY <1>1, BucketsAssumption DEF QuotaOK
    <2>2. e.at > now - WindowOf[b]
      BY <1>1, <1>2, <2>1
    <2> QED
      BY <1>2, <2>2 DEF QuotaOK
  <1>3. QuotaRespected'
    BY <1>1 DEF QuotaOK, QuotaRespected
  <1>4. now' \in Nat /\ \A e \in log : e.at \in 0..now'
    BY <1>1 DEF QuotaOK
  <1> QED
    BY <1>1, <1>2, <1>3, <1>4 DEF QuotaOK

(* What a step of a send does to the buckets.                                *)
LEMMA QuotaEffect ==
  ASSUME NEW s \in Send, SendStep(s)
  PROVE  /\ now' = now /\ TargetOf' = TargetOf
         /\ Reserve(s) \/ (log' = log /\ Remembers)
  BY DEF SendStep, Refuse, Arrive, Scheduler, Exporter, Cancel, Acquire, WakeUp,
         GiveUp, TimeoutAtGrant, Resume, ReserveRefused, ReserveLater, Reserve,
         WireDeadline, NoAnswer, Accepted, Failed, RateLimited, Unanswered,
         CancelAwait, LoseLock, call, Remembers

(* No window of a bucket ever holds more physical sends than its limit,      *)
(* whichever targets and connections share the bucket.                       *)
THEOREM QuotaHolds == Spec => []QuotaRespected
  <1>1. Init => QuotaOK
    <2> SUFFICES ASSUME Init PROVE QuotaOK
      OBVIOUS
    <2>1. now = 0 /\ log = {} /\ \A b \in Bucket : events[b] = {}
      BY DEF Init
    <2>2. ASSUME NEW b \in Bucket, NEW t \in 0..MaxTime
          PROVE  Cardinality(InWindow({}, b, t)) <= LimitOf[b]
      <3>1. InWindow({}, b, t) = {}
        BY DEF InWindow
      <3>2. LimitOf[b] \in Nat
        BY BucketsAssumption
      <3> QED
        BY <3>1, <3>2, FS_EmptySet
    <2>3. QuotaRespected
      BY <2>1, <2>2 DEF QuotaRespected, InWindow
    <2> QED
      BY <2>1, <2>3, FS_EmptySet DEF QuotaOK
  <1>2. ASSUME QuotaOK, [Next]_vars PROVE QuotaOK'
    <2>1. ASSUME NEW s \in Send, SendStep(s)
          PROVE  QuotaOK'
      BY <1>2, <2>1, QuotaEffect, ReserveQuota, RemembersQuota
    <2>2. CASE Tick
      BY <1>2, <2>2, TickQuota
    <2>3. CASE (\E h \in Handle : Bind(h)) \/ Unbind \/ UNCHANGED vars
      <3>1. UNCHANGED <<now, log, TargetOf, events>>
        BY <2>3 DEF Bind, Unbind, vars, call
      <3> QED
        BY <1>2, <3>1, RemembersQuota DEF Remembers
    <2> QED
      BY <1>2, <2>1, <2>2, <2>3 DEF Next, SendStep
  <1>3. QuotaOK => QuotaRespected
    BY DEF QuotaOK
  <1> QED
    BY <1>1, <1>2, <1>3, PTL DEF Spec

-----------------------------------------------------------------------------
(* A physical send is counted once: what log and the buckets hold as sets    *)
(* of reservations is what the code holds as sequences of instants.          *)

Reserved == log \cup UNION {events[b] : b \in Bucket}

(* What is reserved is for an earlier part, or for an earlier attempt at the *)
(* part in hand, of a send that has been called.                             *)
Spent(e, p, rs, n) ==
  /\ p # "new"
  /\ p # "done" => \/ e.part <= Len(rs)
                   \/ e.part = Len(rs) + 1 /\ e.attempt <= n

Recorded ==
  /\ attempts \in [Send -> Nat]
  /\ \A e \in Reserved :
       /\ e.send \in Send /\ e.part \in Nat /\ e.attempt \in Nat
       /\ Spent(e, pc[e.send], parts[e.send], attempts[e.send])

(* What a step does to the attempts of a send.                               *)
Tries(s) ==
  \/ pc[s] = "new" /\ attempts' = attempts
  \/ pc' = [pc EXCEPT ![s] = "done"] /\ attempts' = attempts
  \/ UNCHANGED <<parts, attempts>>
  \/ Advances(s) /\ attempts' = [attempts EXCEPT ![s] = 0]

(* Every reservation is one that the log and the buckets do not hold yet.    *)
FreshReservations ==
  [][\A s \in Send : Reserve(s) => Reservation(s) \notin Reserved]_vars

LEMMA TriesEffect ==
  ASSUME NEW s \in Send, SendStep(s)
  PROVE  Tries(s) \/ Reserve(s)
  <1>1. CASE Refuse(s) \/ Arrive(s) \/ Acquire(s) \/ WakeUp(s) \/ GiveUp(s) \/ Resume(s)
    BY <1>1 DEF Refuse, Arrive, Acquire, WakeUp, GiveUp, Resume, progress, Tries
  <1>2. CASE ReserveRefused(s) \/ ReserveLater(s) \/ WireDeadline(s)
    BY <1>2 DEF ReserveRefused, ReserveLater, WireDeadline, NotAdmitted, NoAnswer,
                StopAt, End, Tries
  <1>3. CASE Failed(s) \/ RateLimited(s) \/ Unanswered(s)
    BY <1>3 DEF Failed, RateLimited, Unanswered, NotAdmitted, NoAnswer, StopAt,
                End, Tries
  <1>4. CASE Accepted(s)
    <2>1. CASE Part(s) = Parts[s]
      BY <1>4, <2>1 DEF Accepted, StopAt, End, Tries
    <2>2. CASE Part(s) # Parts[s]
      BY <1>4, <2>2 DEF Accepted, Advances, Tries, Taken, Part
    <2> QED
      BY <2>1, <2>2
  <1>5. CASE TimeoutAtGrant(s) \/ Cancel(s)
    BY <1>5 DEF TimeoutAtGrant, Cancel, LoseLock, CancelAwait, End, progress, Tries
  <1> QED
    BY <1>1, <1>2, <1>3, <1>4, <1>5 DEF SendStep, Scheduler, Exporter

LEMMA NotOver ==
  ASSUME NEW s \in Send, SendStep(s)
  PROVE  pc[s] # "done"
  BY DEF SendStep, Refuse, Arrive, Scheduler, Exporter, Cancel, Acquire, WakeUp,
         GiveUp, TimeoutAtGrant, Resume, ReserveRefused, ReserveLater, Reserve,
         WireDeadline, Accepted, Failed, RateLimited, Unanswered, CancelAwait,
         LoseLock

LEMMA RememberedOnly ==
  ASSUME log' = log, Remembers
  PROVE  Reserved' \subseteq Reserved
  BY DEF Remembers, Reserved, Pruned

(* Where a send is after a step.                                             *)
LEMMA StaysCalled ==
  ASSUME Told, NEW s \in Send, PcStep(s) \/ pc' = pc
  PROVE  /\ \A r \in Send : pc[r] # "new" => pc'[r] # "new"
         /\ \A r \in Send : r # s => pc'[r] = pc[r]
         /\ pc[s] = "done" /\ pc' = pc => pc'[s] = "done"
  BY DEF PcStep, Told, Steps

LEMMA TriesRecorded ==
  ASSUME Told, Recorded, NEW s \in Send, PcStep(s) \/ pc' = pc, Tries(s),
         pc'[s] = pc[s] \/ pc[s] # "done",
         \A r \in Send : r # s => parts'[r] = parts[r],
         Reserved' \subseteq Reserved
  PROVE  Recorded'
  <1>1. attempts' \in [Send -> Nat] /\ \A r \in Send : r # s => attempts'[r] = attempts[r]
    BY DEF Recorded, Tries
  <1>2. ASSUME NEW e \in Reserved
        PROVE  Spent(e, pc'[e.send], parts'[e.send], attempts'[e.send])
    <2>1. /\ e.send \in Send /\ e.part \in Nat /\ e.attempt \in Nat
          /\ Spent(e, pc[e.send], parts[e.send], attempts[e.send])
      BY DEF Recorded
    <2>2. CASE e.send # s
      BY <1>1, <2>1, <2>2, StaysCalled
    <2>3. CASE e.send = s
      <3>1. pc[s] # "new" /\ pc'[s] # "new"
        BY <2>1, <2>3, StaysCalled DEF Spent
      <3>2. CASE pc' = [pc EXCEPT ![s] = "done"]
        BY <2>3, <3>1, <3>2 DEF Spent, Told
      <3>3. CASE UNCHANGED <<parts, attempts>>
        BY <2>1, <2>3, <3>1, <3>3 DEF Spent
      <3>4. CASE Advances(s) /\ attempts' = [attempts EXCEPT ![s] = 0]
        <4>1. parts[s] \in Seq(PartStatus) /\ pc[s] # "done"
          BY <3>4 DEF Told, Advances
        <4>2. parts'[s] = Append(parts[s], "accepted")
          BY <3>4 DEF Advances, Told
        <4>3. Len(parts'[s]) = Len(parts[s]) + 1 /\ Len(parts[s]) \in Nat
          BY <4>1, <4>2 DEF PartStatus
        <4>4. e.part <= Len(parts[s]) \/ e.part = Len(parts[s]) + 1
          BY <2>1, <2>3, <4>1 DEF Spent
        <4>5. e.part <= Len(parts'[s])
          BY <2>1, <4>3, <4>4
        <4> QED
          BY <2>3, <3>1, <4>5 DEF Spent
      <3> QED
        BY <3>1, <3>2, <3>3, <3>4 DEF Tries
    <2> QED
      BY <2>2, <2>3
  <1> QED
    BY <1>1, <1>2 DEF Recorded

LEMMA ReserveRecorded ==
  ASSUME Told, Recorded, NEW s \in Send, Reserve(s)
  PROVE  Recorded' /\ Reservation(s) \notin Reserved
  <1> DEFINE new == Reservation(s)
  <1>1. /\ new.send = s /\ new.part = Len(parts[s]) + 1
        /\ new.attempt = attempts[s] + 1
    BY DEF Reservation
  <1>2. Reserved' \subseteq Reserved \cup {new}
    BY DEF Reserve, Charged, Pruned, Reserved
  <1> HIDE DEF new
  <1>3. pc[s] = "reserving" /\ attempts[s] \in Nat /\ Len(parts[s]) \in Nat
    BY DEF Reserve, Recorded, Told
  <1>4. \A r \in Send : /\ r # s => /\ pc'[r] = pc[r] /\ parts'[r] = parts[r]
                                     /\ attempts'[r] = attempts[r]
    BY DEF Reserve, StopAt, End, Told, Recorded
  <1>5. attempts' \in [Send -> Nat]
    BY <1>3 DEF Reserve, StopAt, Recorded
  <1>6. \/ pc'[s] = "done"
        \/ pc'[s] = "wire" /\ parts'[s] = parts[s] /\ attempts'[s] = attempts[s] + 1
    BY DEF Reserve, StopAt, End, Told, Recorded
  <1>7. new \notin Reserved
    <2>1. SUFFICES ASSUME new \in Reserved PROVE FALSE
      OBVIOUS
    <2>2. Spent(new, pc[s], parts[s], attempts[s])
      BY <1>1, <2>1 DEF Recorded
    <2>3. \/ new.part <= Len(parts[s])
          \/ new.part = Len(parts[s]) + 1 /\ new.attempt <= attempts[s]
      BY <1>3, <2>2 DEF Spent
    <2> QED
      BY <1>1, <1>3, <2>3
  <1>8. Spent(new, pc'[s], parts'[s], attempts'[s])
    BY <1>1, <1>3, <1>6 DEF Spent
  <1>9. ASSUME NEW e \in Reserved
        PROVE  Spent(e, pc'[e.send], parts'[e.send], attempts'[e.send])
    <2>1. /\ e.send \in Send /\ e.part \in Nat /\ e.attempt \in Nat
          /\ Spent(e, pc[e.send], parts[e.send], attempts[e.send])
      BY DEF Recorded
    <2>2. CASE e.send # s
      BY <1>4, <2>1, <2>2
    <2>3. CASE e.send = s
      BY <1>3, <1>6, <2>1, <2>3 DEF Spent
    <2> QED
      BY <2>2, <2>3
  <1>10. new.part \in Nat /\ new.attempt \in Nat
    BY <1>1, <1>3
  <1> QED
    BY <1>1, <1>2, <1>5, <1>7, <1>8, <1>9, <1>10 DEF Recorded, new

(* No two physical sends, and no two charges of a bucket, are of the same    *)
(* attempt at the same part of a send.                                       *)
THEOREM ReservationsFresh == Spec => FreshReservations
  <1>1. Init => Recorded
    BY DEF Init, Recorded, Reserved
  <1>2. ASSUME Told, Recorded, [Next]_vars
        PROVE  /\ Recorded'
               /\ \A s \in Send : Reserve(s) => Reservation(s) \notin Reserved
    <2>1. ASSUME NEW s \in Send, SendStep(s)
          PROVE  Recorded'
      <3>1. CASE Reserve(s)
        BY <1>2, <3>1, ReserveRecorded
      <3>2. CASE ~Reserve(s)
        <4>1. Tries(s) /\ (PcStep(s) \/ pc' = pc) /\ log' = log /\ Remembers
          BY <2>1, <3>2, TriesEffect, SchedulerPc, QuotaEffect
        <4>2. GoesOn(s) \/ Ends(s) \/ Advances(s) \/ Quits(s) \/ Rests
          BY <1>2, <2>1, StepEffect
        <4>3. \A r \in Send : r # s => parts'[r] = parts[r]
          BY <1>2, <4>2 DEF GoesOn, Ends, Advances, Quits, Rests, Told
        <4>4. pc'[s] = pc[s] \/ pc[s] # "done"
          BY <2>1, NotOver
        <4> QED
          BY <1>2, <4>1, <4>3, <4>4, RememberedOnly, TriesRecorded
      <3> QED
        BY <3>1, <3>2
    <2>2. ASSUME (\E h \in Handle : Bind(h)) \/ Unbind \/ Tick \/ UNCHANGED vars
          PROVE  Recorded'
      <3>1. UNCHANGED <<pc, parts, attempts, log, events>>
        BY <2>2 DEF Bind, Unbind, Tick, vars, progress
      <3> QED
        BY <1>2, <3>1 DEF Recorded, Reserved
    <2>3. \A s \in Send : Reserve(s) => Reservation(s) \notin Reserved
      BY <1>2, ReserveRecorded
    <2> QED
      BY <1>2, <2>1, <2>2, <2>3 DEF Next, SendStep
  <1> QED
    BY <1>1, <1>2, ToldAlways, PTL DEF Spec, FreshReservations

-----------------------------------------------------------------------------
(* The lanes, given what the variables pc, lanes, holder, fifo, waiters,     *)
(* lane and counted hold (p, ls, h, f, w, ln and c).                         *)

Inside == Steps \ {"new", "done"}

Counted(l, ln, c) == {s \in Send : ln[s] = l /\ c[s]}

LaneTypes(p, ls, h, f, ln, c) ==
  /\ p \in [Send -> Steps]
  /\ ls \in [Target -> Send \cup {None}]
  /\ h \in [Send -> Send \cup {None}]
  /\ f \in [Send -> Seq(Send)]
  /\ ln \in [Send -> Send \cup {None}]
  /\ c \in [Send -> BOOLEAN]

(* A send is in a lane from its arrival to its end, and no lane in use is    *)
(* one that a send will create.                                              *)
MembersOK(p, ln) ==
  /\ \A s \in Send : ln[s] # None <=> p[s] \in Inside
  /\ \A s \in Send : ln[s] # None => p[ln[s]] # "new"

(* A lane that is kept has somebody in it or is locked, and is not one that  *)
(* a send will create.                                                       *)
KeptOK(p, ls, h, ln) ==
  \A t \in Target : ls[t] # None =>
    /\ h[ls[t]] # None \/ \E s \in Send : ln[s] = ls[t]
    /\ p[ls[t]] # "new"

(* The holder of a lane's lock is the send that is past the wait for it, or  *)
(* one that is over and has lost it.                                         *)
HoldersOK(p, h, ln) ==
  /\ \A l \in Send : h[l] # None =>
       \/ ln[h[l]] = l /\ p[h[l]] \in Holding
       \/ p[h[l]] = "done"
  /\ \A s \in Send : p[s] \in Holding => h[ln[s]] = s

(* The queue of a lane holds those who wait in it, each of them once.        *)
QueuesOK(p, f, ln) ==
  /\ \A l \in Send : \A i \in 1..Len(f[l]) :
       p[f[l][i]] = "waiting" /\ ln[f[l][i]] = l
  /\ \A l \in Send : \A i, j \in 1..Len(f[l]) : f[l][i] = f[l][j] => i = j
  /\ \A s \in Send : p[s] = "waiting" =>
       \E i \in 1..Len(f[ln[s]]) : f[ln[s]][i] = s

(* lane.waiters is the number of the sends that count in the lane.           *)
CountsOK(p, w, ln, c) ==
  /\ w \in [Send -> Nat]
  /\ \A s \in Send : c[s] => p[s] \in {"acquiring", "waiting", "granted"}
  /\ \A l \in Send : /\ IsFiniteSet(Counted(l, ln, c))
                     /\ w[l] = Cardinality(Counted(l, ln, c))

AllOK(p, ls, h, f, w, ln, c) ==
  /\ LaneTypes(p, ls, h, f, ln, c)
  /\ MembersOK(p, ln)
  /\ KeptOK(p, ls, h, ln)
  /\ HoldersOK(p, h, ln)
  /\ QueuesOK(p, f, ln)
  /\ CountsOK(p, w, ln, c)

LanesOK == AllOK(pc, lanes, holder, fifo, waiters, lane, counted)

LEMMA LaneFacts ==
  ASSUME NEW p, NEW ls, NEW h, NEW f, NEW w, NEW ln, NEW c,
         AllOK(p, ls, h, f, w, ln, c)
  PROVE  /\ \A r \in Send : p[r] \in Inside => ln[r] \in Send
         /\ \A k \in Send : \A i \in 1..Len(f[k]) :
              f[k][i] \in Send /\ p[f[k][i]] = "waiting" /\ ln[f[k][i]] = k
         /\ \A k \in Send : h[k] # None =>
              /\ h[k] \in Send
              /\ \/ ln[h[k]] = k /\ p[h[k]] \in Holding
                 \/ p[h[k]] = "done"
         /\ \A t \in Target : ls[t] # None =>
              /\ ls[t] \in Send /\ p[ls[t]] # "new"
              /\ h[ls[t]] # None \/ \E r \in Send : ln[r] = ls[t]
         /\ \A r \in Send : p[r] \in Holding => ln[r] \in Send /\ h[ln[r]] = r
         /\ \A r \in Send : p[r] = "waiting" =>
              ln[r] \in Send /\ \E i \in 1..Len(f[ln[r]]) : f[ln[r]][i] = r
  <1>1. \A r \in Send : p[r] \in Inside => ln[r] \in Send
    BY DEF AllOK, LaneTypes, MembersOK
  <1>2. /\ \A k \in Send : f[k] \in Seq(Send) /\ h[k] \in Send \cup {None}
        /\ \A t \in Target : ls[t] \in Send \cup {None}
    BY DEF AllOK, LaneTypes
  <1>3. \A k \in Send : \A i \in 1..Len(f[k]) : f[k][i] \in Send
    BY <1>2
  <1>4. Holding \subseteq Inside /\ "waiting" \in Inside
    BY DEF Holding, Inside, Steps
  <1> QED
    BY <1>1, <1>2, <1>3, <1>4 DEF AllOK, KeptOK, HoldersOK, QueuesOK

-----------------------------------------------------------------------------
(* Taking the lock.                                                          *)

LEMMA GrantOK ==
  ASSUME NEW p, NEW ls, NEW h, NEW f, NEW w, NEW ln, NEW c,
         AllOK(p, ls, h, f, w, ln, c),
         NEW s \in Send, p[s] = "acquiring", h[ln[s]] = None
  PROVE  AllOK([p EXCEPT ![s] = "granted"], ls, [h EXCEPT ![ln[s]] = s], f, w,
               ln, c)
  <1> DEFINE l == ln[s]
             p2 == [p EXCEPT ![s] = "granted"]
             h2 == [h EXCEPT ![l] = s]
  <1>1. LaneTypes(p, ls, h, f, ln, c) /\ l \in Send
    BY NoneAssumption DEF AllOK, LaneTypes, MembersOK, Inside, Steps
  <1>2. LaneTypes(p2, ls, h2, f, ln, c)
    BY <1>1 DEF LaneTypes, Steps
  <1>3. /\ p2[s] = "granted" /\ \A r \in Send : r # s => p2[r] = p[r]
        /\ h2[l] = s /\ \A r \in Send : r # l => h2[r] = h[r]
    BY <1>1 DEF LaneTypes
  <1> HIDE DEF p2, h2
  <1>4. MembersOK(p2, ln) /\ KeptOK(p2, ls, h2, ln)
    <2>1. MembersOK(p2, ln)
      BY <1>1, <1>3 DEF AllOK, LaneTypes, MembersOK, Inside, Steps
    <2>2. KeptOK(p2, ls, h2, ln)
      BY <1>3, LaneFacts, NoneAssumption DEF KeptOK
    <2> QED
      BY <2>1, <2>2
  <1>5. HoldersOK(p2, h2, ln)
    <2>1. ASSUME NEW k \in Send, h2[k] # None
          PROVE  \/ ln[h2[k]] = k /\ p2[h2[k]] \in Holding
                 \/ p2[h2[k]] = "done"
      <3>1. CASE k = l
        BY <1>3, <3>1 DEF Holding
      <3>2. CASE k # l
        BY <1>3, <2>1, <3>2, LaneFacts DEF Holding
      <3> QED
        BY <3>1, <3>2
    <2>2. ASSUME NEW r \in Send, p2[r] \in Holding
          PROVE  h2[ln[r]] = r
      BY <1>1, <1>3, <2>2, LaneFacts, NoneAssumption
    <2> QED
      BY <2>1, <2>2 DEF HoldersOK
  <1>6. QueuesOK(p2, f, ln)
    <2>1. \A k \in Send : \A i \in 1..Len(f[k]) :
            p2[f[k][i]] = "waiting" /\ ln[f[k][i]] = k
      BY <1>3, LaneFacts
    <2>2. \A r \in Send : p2[r] = "waiting" => p[r] = "waiting"
      BY <1>3
    <2> QED
      BY <2>1, <2>2 DEF AllOK, QueuesOK
  <1>7. CountsOK(p2, w, ln, c)
    BY <1>1, <1>3 DEF AllOK, LaneTypes, CountsOK
  <1>8. AllOK(p2, ls, h2, f, w, ln, c)
    BY <1>2, <1>4, <1>5, <1>6, <1>7 DEF AllOK
  <1> QED
    BY <1>8 DEF p2, h2

LEMMA QueueOK ==
  ASSUME NEW p, NEW ls, NEW h, NEW f, NEW w, NEW ln, NEW c,
         AllOK(p, ls, h, f, w, ln, c),
         NEW s \in Send, p[s] = "acquiring"
  PROVE  AllOK([p EXCEPT ![s] = "waiting"], ls, h,
               [f EXCEPT ![ln[s]] = Append(f[ln[s]], s)], w, ln, c)
  <1> DEFINE l == ln[s]
             q == Append(f[l], s)
             p2 == [p EXCEPT ![s] = "waiting"]
             f2 == [f EXCEPT ![l] = q]
  <1>1. LaneTypes(p, ls, h, f, ln, c) /\ l \in Send
    BY NoneAssumption DEF AllOK, LaneTypes, MembersOK, Inside, Steps
  <1>2. /\ q \in Seq(Send) /\ Len(q) = Len(f[l]) + 1 /\ Len(f[l]) \in Nat
        /\ q[Len(f[l]) + 1] = s
        /\ \A i \in 1..Len(f[l]) : q[i] = f[l][i]
    BY <1>1 DEF LaneTypes
  <1> HIDE DEF q
  <1>3. LaneTypes(p2, ls, h, f2, ln, c)
    BY <1>1, <1>2 DEF LaneTypes, Steps
  <1>4. /\ p2[s] = "waiting" /\ \A r \in Send : r # s => p2[r] = p[r]
        /\ f2[l] = q /\ \A r \in Send : r # l => f2[r] = f[r]
    BY <1>1 DEF LaneTypes
  <1> HIDE DEF p2, f2
  <1>5. MembersOK(p2, ln) /\ KeptOK(p2, ls, h, ln)
    <2>1. MembersOK(p2, ln)
      BY <1>1, <1>4 DEF AllOK, LaneTypes, MembersOK, Inside, Steps
    <2>2. KeptOK(p2, ls, h, ln)
      BY <1>4, LaneFacts DEF KeptOK
    <2> QED
      BY <2>1, <2>2
  <1>6. HoldersOK(p2, h, ln)
    <2>1. \A r \in Send : p2[r] \in Holding => p[r] \in Holding
      BY <1>4 DEF Holding
    <2>2. ASSUME NEW k \in Send, h[k] # None
          PROVE  \/ ln[h[k]] = k /\ p2[h[k]] \in Holding
                 \/ p2[h[k]] = "done"
      BY <1>4, <2>2, LaneFacts DEF Holding
    <2> QED
      BY <2>1, <2>2 DEF AllOK, HoldersOK
  <1>7. QueuesOK(p2, f2, ln)
    <2>1. \A k \in Send : \A i \in 1..Len(f[k]) : f[k][i] \in Send /\ f[k][i] # s
      BY LaneFacts
    <2>2. ASSUME NEW k \in Send, NEW i \in 1..Len(f2[k])
          PROVE  p2[f2[k][i]] = "waiting" /\ ln[f2[k][i]] = k
      <3>1. CASE k # l
        BY <1>4, <2>1, <2>2, <3>1 DEF AllOK, QueuesOK
      <3>2. CASE k = l /\ i = Len(f[l]) + 1
        BY <1>2, <1>4, <3>2
      <3>3. CASE k = l /\ i \in 1..Len(f[l])
        BY <1>2, <1>4, <2>1, <3>3 DEF AllOK, QueuesOK
      <3> QED
        BY <1>2, <1>4, <2>2, <3>1, <3>2, <3>3
    <2>3. ASSUME NEW k \in Send, NEW i \in 1..Len(f2[k]), NEW j \in 1..Len(f2[k]),
                 f2[k][i] = f2[k][j]
          PROVE  i = j
      <3>1. CASE k # l
        BY <1>4, <2>3, <3>1 DEF AllOK, QueuesOK
      <3>2. CASE k = l
        <4>1. \A n \in 1..Len(f[l]) : q[n] # s
          BY <1>1, <1>2, <2>1
        <4>2. i \in 1..(Len(f[l]) + 1) /\ j \in 1..(Len(f[l]) + 1) /\ q[i] = q[j]
          BY <1>2, <1>4, <2>3, <3>2
        <4>3. CASE i \in 1..Len(f[l]) /\ j \in 1..Len(f[l])
          <5>1. f[l][i] = f[l][j]
            BY <1>2, <4>2, <4>3
          <5> QED
            BY <1>1, <4>3, <5>1 DEF AllOK, QueuesOK
        <4>4. CASE i = Len(f[l]) + 1 \/ j = Len(f[l]) + 1
          BY <1>2, <4>1, <4>2, <4>4
        <4> QED
          BY <1>2, <4>2, <4>3, <4>4
      <3> QED
        BY <3>1, <3>2
    <2>4. ASSUME NEW r \in Send, p2[r] = "waiting"
          PROVE  \E i \in 1..Len(f2[ln[r]]) : f2[ln[r]][i] = r
      <3>1. CASE r = s
        BY <1>2, <1>4, <3>1
      <3>2. CASE r # s
        <4>1. PICK i \in 1..Len(f[ln[r]]) : f[ln[r]][i] = r
          BY <1>4, <2>4, <3>2 DEF AllOK, QueuesOK
        <4>2. ln[r] \in Send
          BY <1>1, <1>4, <2>4, <3>2 DEF AllOK, LaneTypes, MembersOK, Inside, Steps
        <4>3. CASE ln[r] # l
          BY <1>4, <4>1, <4>2, <4>3
        <4>4. CASE ln[r] = l
          <5>1. i \in 1..Len(q) /\ q[i] = r
            BY <1>2, <4>1, <4>4
          <5> QED
            BY <1>4, <4>4, <5>1
        <4> QED
          BY <4>3, <4>4
      <3> QED
        BY <3>1, <3>2
    <2> QED
      BY <2>2, <2>3, <2>4 DEF QueuesOK
  <1>8. CountsOK(p2, w, ln, c)
    BY <1>1, <1>4 DEF AllOK, LaneTypes, CountsOK
  <1>9. AllOK(p2, ls, h, f2, w, ln, c)
    BY <1>3, <1>5, <1>6, <1>7, <1>8 DEF AllOK
  <1> QED
    BY <1>9 DEF p2, f2, q

-----------------------------------------------------------------------------
(* Leaving the queue and the count.                                          *)

(* The queue after a removal: the others, in their order.                    *)
LEMMA WithoutFacts ==
  ASSUME NEW q \in Seq(Send), NEW x,
         \A i, j \in 1..Len(q) : q[i] = q[j] => i = j
  PROVE  /\ Without(q, x) \in Seq(Send)
         /\ \A i \in 1..Len(Without(q, x)) :
              /\ Without(q, x)[i] # x
              /\ \E j \in 1..Len(q) : Without(q, x)[i] = q[j]
         /\ \A i, j \in 1..Len(Without(q, x)) :
              Without(q, x)[i] = Without(q, x)[j] => i = j
         /\ \A j \in 1..Len(q) : q[j] # x =>
              \E i \in 1..Len(Without(q, x)) : Without(q, x)[i] = q[j]
  <1> DEFINE n == Len(q)
             k == CHOOSE i \in 1..n : q[i] = x
             v == [i \in 1..(n - 1) |-> IF i < k THEN q[i] ELSE q[i + 1]]
  <1>1. n \in Nat /\ \A i \in 1..n : q[i] \in Send
    OBVIOUS
  <1>2. CASE \E i \in 1..n : q[i] = x
    <2>1. k \in 1..n /\ q[k] = x
      BY <1>2
    <2>2. Without(q, x) = v
      BY <1>2 DEF Without
    <2> HIDE DEF k
    <2>3. \A i \in 1..(n - 1) : v[i] = IF i < k THEN q[i] ELSE q[i + 1]
      OBVIOUS
    <2>4. \A i \in 1..(n - 1) : v[i] \in Send
      BY <1>1, <2>1, <2>3
    <2>5. v \in Seq(Send) /\ Len(v) = n - 1
      <3>1. n - 1 \in Nat
        BY <1>1, <2>1
      <3>2. v \in [1..(n - 1) -> Send]
        BY <2>4
      <3> QED
        BY <3>1, <3>2, SeqDef
    <2> HIDE DEF v
    <2>6. ASSUME NEW i \in 1..(n - 1)
          PROVE  \E j \in 1..n : j # k /\ v[i] = q[j] /\ j = (IF i < k THEN i ELSE i + 1)
      BY <1>1, <2>1, <2>3
    <2>7. \A i \in 1..(n - 1) : v[i] # x /\ \E j \in 1..n : v[i] = q[j]
      BY <2>1, <2>6
    <2>8. ASSUME NEW i \in 1..(n - 1), NEW j \in 1..(n - 1), v[i] = v[j]
          PROVE  i = j
      <3>1. PICK a \in 1..n : v[i] = q[a] /\ a = (IF i < k THEN i ELSE i + 1)
        BY <2>6
      <3>2. PICK b \in 1..n : v[j] = q[b] /\ b = (IF j < k THEN j ELSE j + 1)
        BY <2>6
      <3>3. a = b
        BY <2>8, <3>1, <3>2
      <3> QED
        BY <1>1, <2>1, <3>1, <3>2, <3>3
    <2>9. ASSUME NEW j \in 1..n, q[j] # x
          PROVE  \E i \in 1..(n - 1) : v[i] = q[j]
      <3>1. CASE j < k
        BY <1>1, <2>1, <2>3, <3>1
      <3>2. CASE j > k
        <4>1. j - 1 \in 1..(n - 1) /\ ~(j - 1 < k) /\ (j - 1) + 1 = j
          BY <1>1, <2>1, <3>2
        <4>2. v[j - 1] = q[j]
          BY <2>3, <4>1
        <4> QED
          BY <4>1, <4>2
      <3> QED
        BY <1>1, <2>1, <2>9, <3>1, <3>2
    <2> QED
      BY <2>2, <2>5, <2>7, <2>8, <2>9
  <1>3. CASE ~\E i \in 1..n : q[i] = x
    BY <1>1, <1>3 DEF Without
  <1> QED
    BY <1>2, <1>3

(* A send that is no longer counted.                                         *)
LEMMA UncountOK ==
  ASSUME CountsOK(pc, waiters, lane, counted), counted \in [Send -> BOOLEAN],
         NEW s \in Send, lane[s] \in Send,
         \A r \in Send : r # s => lane'[r] = lane[r],
         waiters' = [waiters EXCEPT ![lane[s]] = waiters[lane[s]] - Count(s)],
         counted' = [counted EXCEPT ![s] = FALSE]
  PROVE  /\ waiters' \in [Send -> Nat]
         /\ \A k \in Send : /\ IsFiniteSet(Counted(k, lane', counted'))
                            /\ waiters'[k] = Cardinality(Counted(k, lane', counted'))
  <1> DEFINE l == lane[s]
  <1>1. waiters \in [Send -> Nat] /\ \A k \in Send : IsFiniteSet(Counted(k, lane, counted))
        /\ waiters[k] = Cardinality(Counted(k, lane, counted))
    BY DEF CountsOK
  <1>2. counted'[s] = FALSE /\ \A r \in Send : r # s => counted'[r] = counted[r]
    OBVIOUS
  <1>3. \A k \in Send : k # l => waiters'[k] = waiters[k]
    BY <1>1
  <1>4. /\ waiters'[l] = waiters[l] - (IF counted[s] THEN 1 ELSE 0)
        /\ waiters' = [k \in Send |-> waiters'[k]]
    BY <1>1 DEF Count
  <1>5. \A k \in Send : k # l => Counted(k, lane', counted') = Counted(k, lane, counted)
    BY <1>2 DEF Counted
  <1>6. Counted(l, lane', counted') = Counted(l, lane, counted) \ {s}
    BY <1>2 DEF Counted
  <1>7. s \in Counted(l, lane, counted) <=> counted[s]
    BY DEF Counted
  <1>8. /\ IsFiniteSet(Counted(l, lane', counted'))
        /\ waiters'[l] = Cardinality(Counted(l, lane', counted'))
        /\ waiters'[l] \in Nat
    <2>1. /\ IsFiniteSet(Counted(l, lane, counted) \ {s})
          /\ Cardinality(Counted(l, lane, counted) \ {s}) =
               IF s \in Counted(l, lane, counted)
               THEN Cardinality(Counted(l, lane, counted)) - 1
               ELSE Cardinality(Counted(l, lane, counted))
      BY <1>1, FS_RemoveElement
    <2>2. Cardinality(Counted(l, lane, counted) \ {s}) \in Nat /\ waiters[l] \in Nat
      BY <1>1, <2>1, FS_CardinalityType
    <2>3. waiters'[l] = Cardinality(Counted(l, lane, counted) \ {s})
      <3>1. waiters[l] = Cardinality(Counted(l, lane, counted))
        BY <1>1
      <3>2. CASE counted[s]
        BY <1>4, <1>7, <2>1, <3>1, <3>2
      <3>3. CASE ~counted[s]
        BY <1>4, <1>7, <2>1, <2>2, <3>1, <3>3
      <3> QED
        BY <3>2, <3>3
    <2> QED
      BY <1>6, <2>1, <2>2, <2>3
  <1>9. \A k \in Send : waiters'[k] \in Nat
    BY <1>1, <1>3, <1>8
  <1> HIDE DEF l
  <1>10. waiters' \in [Send -> Nat]
    BY <1>4, <1>9
  <1>11. \A k \in Send : /\ IsFiniteSet(Counted(k, lane', counted'))
                         /\ waiters'[k] = Cardinality(Counted(k, lane', counted'))
    BY <1>1, <1>3, <1>5, <1>8
  <1> QED
    BY <1>10, <1>11

-----------------------------------------------------------------------------
(* The steps of a send in its lane.                                          *)

LEMMA WakeUpLanes ==
  ASSUME LanesOK, NEW s \in Send, WakeUp(s)
  PROVE  LanesOK'
  <1> DEFINE l == lane[s]
             q == Tail(fifo[l])
             n == Len(fifo[l])
  <1>1. /\ pc[s] = "waiting" /\ holder[l] = None /\ Head(fifo[l]) = s
        /\ holder' = [holder EXCEPT ![l] = s] /\ fifo' = [fifo EXCEPT ![l] = q]
        /\ pc' = [pc EXCEPT ![s] = "granted"]
        /\ UNCHANGED <<lanes, waiters, lane, counted>>
    BY DEF WakeUp
  <1>2. /\ LaneTypes(pc, lanes, holder, fifo, lane, counted) /\ l \in Send
        /\ \E i \in 1..n : fifo[l][i] = s
        /\ \A i, j \in 1..n : fifo[l][i] = fifo[l][j] => i = j
    <2>1. LaneTypes(pc, lanes, holder, fifo, lane, counted) /\ QueuesOK(pc, fifo, lane)
      BY DEF LanesOK, AllOK
    <2>2. l \in Send /\ \E i \in 1..n : fifo[l][i] = s
      BY <1>1, LaneFacts DEF LanesOK
    <2> QED
      BY <2>1, <2>2 DEF QueuesOK
  <1>3. /\ fifo[l] \in Seq(Send) /\ n \in Nat /\ n > 0 /\ fifo[l][1] = s
        /\ q \in Seq(Send) /\ Len(q) = n - 1
        /\ \A i \in 1..(n - 1) : q[i] = fifo[l][i + 1]
    <2>1. fifo[l] \in Seq(Send)
      BY <1>2 DEF LaneTypes
    <2>2. fifo[l] # <<>>
      BY <1>2, <2>1
    <2> QED
      BY <1>1, <2>1, <2>2
  <1> HIDE DEF q
  <1>4. LaneTypes(pc', lanes', holder', fifo', lane', counted')
    BY <1>1, <1>2, <1>3 DEF LaneTypes, Steps
  <1>5. /\ pc'[s] = "granted" /\ \A r \in Send : r # s => pc'[r] = pc[r]
        /\ holder'[l] = s /\ \A r \in Send : r # l => holder'[r] = holder[r]
        /\ fifo'[l] = q /\ \A r \in Send : r # l => fifo'[r] = fifo[r]
    BY <1>1, <1>2 DEF LaneTypes
  <1>6. MembersOK(pc', lane') /\ KeptOK(pc', lanes', holder', lane')
    <2>1. MembersOK(pc', lane')
      BY <1>1, <1>2, <1>5 DEF LanesOK, AllOK, LaneTypes, MembersOK, Inside, Steps
    <2>2. KeptOK(pc', lanes', holder', lane')
      BY <1>1, <1>5, LaneFacts, NoneAssumption DEF LanesOK, KeptOK
    <2> QED
      BY <2>1, <2>2
  <1>7. HoldersOK(pc', holder', lane')
    <2>1. ASSUME NEW k \in Send, holder'[k] # None
          PROVE  \/ lane[holder'[k]] = k /\ pc'[holder'[k]] \in Holding
                 \/ pc'[holder'[k]] = "done"
      <3>1. CASE k = l
        BY <1>5, <3>1 DEF Holding
      <3>2. CASE k # l
        BY <1>1, <1>5, <2>1, <3>2, LaneFacts DEF Holding, LanesOK
      <3> QED
        BY <3>1, <3>2
    <2>2. ASSUME NEW r \in Send, pc'[r] \in Holding
          PROVE  holder'[lane[r]] = r
      BY <1>1, <1>2, <1>5, <2>2, LaneFacts, NoneAssumption DEF LanesOK
    <2> QED
      BY <1>1, <2>1, <2>2 DEF HoldersOK
  <1>8. QueuesOK(pc', fifo', lane')
    <2>1. \A k \in Send : \A i \in 1..Len(fifo[k]) :
            fifo[k][i] \in Send /\ pc[fifo[k][i]] = "waiting" /\ lane[fifo[k][i]] = k
      BY LaneFacts DEF LanesOK
    <2>2. \A i \in 1..(n - 1) :
            q[i] \in Send /\ q[i] # s /\ pc[q[i]] = "waiting" /\ lane[q[i]] = l
      <3> TAKE i \in 1..(n - 1)
      <3>1. i + 1 \in 1..n /\ i + 1 # 1 /\ 1 \in 1..n
        BY <1>3
      <3>2. q[i] = fifo[l][i + 1] /\ fifo[l][i + 1] # fifo[l][1]
        BY <1>2, <1>3, <3>1
      <3> QED
        BY <1>2, <1>3, <2>1, <3>1, <3>2
    <2>3. ASSUME NEW k \in Send, NEW i \in 1..Len(fifo'[k])
          PROVE  pc'[fifo'[k][i]] = "waiting" /\ lane[fifo'[k][i]] = k
      <3>1. CASE k = l
        BY <1>3, <1>5, <2>2, <2>3, <3>1
      <3>2. CASE k # l
        <4>1. fifo'[k] = fifo[k]
          BY <1>5, <3>2
        <4>2. fifo[k][i] # s
          BY <2>1, <2>3, <3>2, <4>1
        <4> QED
          BY <1>5, <2>1, <2>3, <4>1, <4>2
      <3> QED
        BY <3>1, <3>2
    <2>4. ASSUME NEW k \in Send, NEW i \in 1..Len(fifo'[k]), NEW j \in 1..Len(fifo'[k]),
                 fifo'[k][i] = fifo'[k][j]
          PROVE  i = j
      <3>1. CASE k = l
        <4>1. i \in 1..(n - 1) /\ j \in 1..(n - 1) /\ q[i] = q[j]
          BY <1>3, <1>5, <2>4, <3>1
        <4>2. fifo[l][i + 1] = fifo[l][j + 1] /\ i + 1 \in 1..n /\ j + 1 \in 1..n
          BY <1>3, <4>1
        <4>3. i + 1 = j + 1
          BY <1>2, <4>2
        <4> QED
          BY <4>1, <4>3
      <3>2. CASE k # l
        BY <1>5, <2>4, <3>2 DEF LanesOK, AllOK, QueuesOK
      <3> QED
        BY <3>1, <3>2
    <2>5. ASSUME NEW r \in Send, pc'[r] = "waiting"
          PROVE  \E i \in 1..Len(fifo'[lane[r]]) : fifo'[lane[r]][i] = r
      <3>1. r # s /\ pc[r] = "waiting"
        BY <1>5, <2>5
      <3>2. PICK i \in 1..Len(fifo[lane[r]]) : fifo[lane[r]][i] = r
        BY <3>1, LaneFacts DEF LanesOK
      <3>3. lane[r] \in Send
        BY <3>1, LaneFacts DEF LanesOK
      <3>4. CASE lane[r] # l
        BY <1>5, <3>2, <3>3, <3>4
      <3>5. CASE lane[r] = l
        <4>1. i \in 1..n /\ i # 1
          BY <1>3, <3>1, <3>2, <3>5
        <4>2. i - 1 \in 1..(n - 1) /\ (i - 1) + 1 = i
          BY <1>3, <4>1
        <4>3. q[i - 1] = r
          BY <1>3, <3>2, <3>5, <4>2
        <4> QED
          BY <1>3, <1>5, <3>5, <4>2, <4>3
      <3> QED
        BY <3>4, <3>5
    <2> QED
      BY <1>1, <2>3, <2>4, <2>5 DEF QueuesOK
  <1>9. CountsOK(pc', waiters', lane', counted')
    BY <1>1, <1>2, <1>5 DEF LanesOK, AllOK, LaneTypes, CountsOK
  <1> QED
    BY <1>4, <1>6, <1>7, <1>8, <1>9 DEF LanesOK, AllOK

(* A step that only moves a send between two parts, or refuses a new one.    *)
LEMMA PassLanes ==
  ASSUME LanesOK, NEW s \in Send, NEW q \in Steps,
         \/ pc[s] \in {"reserving", "wire"} /\ q \in {"reserving", "wire"}
         \/ pc[s] = "new" /\ q = "done",
         pc' = [pc EXCEPT ![s] = q], UNCHANGED laneVars
  PROVE  LanesOK'
  <1>1. /\ pc'[s] = q /\ \A r \in Send : r # s => pc'[r] = pc[r]
        /\ pc' \in [Send -> Steps]
    BY DEF LanesOK, AllOK, LaneTypes
  <1>2. UNCHANGED <<lanes, holder, fifo, waiters, lane, counted>>
    BY DEF laneVars
  <1>3. \A r \in Send : /\ pc'[r] \in Inside <=> pc[r] \in Inside
                        /\ pc'[r] \in Holding <=> pc[r] \in Holding
                        /\ pc'[r] = "waiting" <=> pc[r] = "waiting"
                        /\ pc'[r] = "new" => pc[r] = "new"
                        /\ pc[r] = "done" => pc'[r] = "done"
                        /\ pc[r] \in {"acquiring", "waiting", "granted"} =>
                             pc'[r] = pc[r]
    BY <1>1 DEF Inside, Steps, Holding
  <1>4. LaneTypes(pc', lanes', holder', fifo', lane', counted')
    BY <1>1, <1>2 DEF LanesOK, AllOK, LaneTypes
  <1>5. \A r \in Send : lane[r] # None => lane[r] \in Send
    BY DEF LanesOK, AllOK, LaneTypes
  <1>6. MembersOK(pc', lane') /\ KeptOK(pc', lanes', holder', lane')
    BY <1>2, <1>3, <1>5, LaneFacts DEF LanesOK, AllOK, MembersOK, KeptOK
  <1>7. HoldersOK(pc', holder', lane')
    BY <1>2, <1>3, LaneFacts DEF LanesOK, AllOK, HoldersOK
  <1>8. QueuesOK(pc', fifo', lane')
    <2>1. \A k \in Send : \A i \in 1..Len(fifo[k]) :
            pc'[fifo[k][i]] = "waiting" /\ lane[fifo[k][i]] = k
      BY <1>3, LaneFacts DEF LanesOK
    <2> QED
      BY <1>2, <1>3, <2>1 DEF LanesOK, AllOK, QueuesOK
  <1>9. CountsOK(pc', waiters', lane', counted')
    BY <1>2, <1>3 DEF LanesOK, AllOK, CountsOK
  <1> QED
    BY <1>4, <1>6, <1>7, <1>8, <1>9 DEF LanesOK, AllOK

LEMMA EndLanes ==
  ASSUME LanesOK, NEW s \in Send, pc[s] \in Inside, LeaveLane(s),
         pc' = [pc EXCEPT ![s] = "done"]
  PROVE  LanesOK'
  <1> DEFINE l == lane[s]
             h == IF holder[l] = s THEN None ELSE holder[l]
             w == waiters[l] - Count(s)
             q == Without(fifo[l], s)
  <1>1. /\ holder' = [holder EXCEPT ![l] = h] /\ fifo' = [fifo EXCEPT ![l] = q]
        /\ waiters' = [waiters EXCEPT ![l] = w]
        /\ counted' = [counted EXCEPT ![s] = FALSE]
        /\ lane' = [lane EXCEPT ![s] = None]
        /\ lanes' = [t \in Target |-> IF Idle(h, w) /\ lanes[t] = l
                                      THEN None ELSE lanes[t]]
    BY DEF LeaveLane
  <1>2. /\ LaneTypes(pc, lanes, holder, fifo, lane, counted) /\ l \in Send
        /\ l # None
    BY LaneFacts, NoneAssumption DEF LanesOK, AllOK
  <1>3. /\ fifo[l] \in Seq(Send)
        /\ \A i, j \in 1..Len(fifo[l]) : fifo[l][i] = fifo[l][j] => i = j
    BY <1>2 DEF LanesOK, AllOK, LaneTypes, QueuesOK
  <1>4. /\ q \in Seq(Send)
        /\ \A i \in 1..Len(q) : q[i] # s /\ \E j \in 1..Len(fifo[l]) : q[i] = fifo[l][j]
        /\ \A i, j \in 1..Len(q) : q[i] = q[j] => i = j
        /\ \A j \in 1..Len(fifo[l]) : fifo[l][j] # s =>
             \E i \in 1..Len(q) : q[i] = fifo[l][j]
    BY <1>3, WithoutFacts
  <1>5. /\ w = waiters[l] - (IF counted[s] THEN 1 ELSE 0)
        /\ h \in Send \cup {None}
        /\ Idle(h, w) <=> (h = None /\ w = 0)
        /\ h # None => h = holder[l] /\ holder[l] # s
        /\ holder[l] # s => h = holder[l]
    BY <1>2 DEF Count, Idle, LaneTypes
  <1> HIDE DEF q, w, h
  <1>6. LaneTypes(pc', lanes', holder', fifo', lane', counted')
    BY <1>1, <1>2, <1>4, <1>5 DEF LaneTypes, Steps
  <1>7. /\ pc'[s] = "done" /\ \A r \in Send : r # s => pc'[r] = pc[r]
        /\ lane'[s] = None /\ \A r \in Send : r # s => lane'[r] = lane[r]
        /\ holder'[l] = h /\ \A k \in Send : k # l => holder'[k] = holder[k]
        /\ fifo'[l] = q /\ \A k \in Send : k # l => fifo'[k] = fifo[k]
    BY <1>1, <1>2 DEF LaneTypes
  <1>8. counted'[s] = FALSE /\ \A r \in Send : r # s => counted'[r] = counted[r]
    BY <1>1, <1>2 DEF LaneTypes
  <1>9. /\ waiters' \in [Send -> Nat]
        /\ \A k \in Send : /\ IsFiniteSet(Counted(k, lane', counted'))
                           /\ waiters'[k] = Cardinality(Counted(k, lane', counted'))
    <2>1. CountsOK(pc, waiters, lane, counted) /\ counted \in [Send -> BOOLEAN]
      BY <1>2 DEF LanesOK, AllOK, LaneTypes
    <2>2. waiters' = [waiters EXCEPT ![lane[s]] = waiters[lane[s]] - Count(s)]
      BY <1>1 DEF w
    <2> QED
      BY <1>1, <1>2, <1>7, <2>1, <2>2, UncountOK
  <1>10. waiters'[l] = w
    BY <1>1, <1>2 DEF LanesOK, AllOK, CountsOK
  <1>11. MembersOK(pc', lane') /\ KeptOK(pc', lanes', holder', lane')
    <2>1. ASSUME NEW r \in Send
          PROVE  /\ lane'[r] # None <=> pc'[r] \in Inside
                 /\ lane'[r] # None => pc'[lane'[r]] # "new"
      <3>1. lane[r] # None => lane[r] \in Send
        BY <1>2 DEF LaneTypes
      <3>2. /\ lane[r] # None <=> pc[r] \in Inside
            /\ lane[r] # None => pc[lane[r]] # "new"
        BY DEF LanesOK, AllOK, MembersOK
      <3> QED
        BY <1>7, <3>1, <3>2 DEF Inside
    <2>2. ASSUME NEW t \in Target, lanes'[t] # None
          PROVE  /\ holder'[lanes'[t]] # None \/ \E r \in Send : lane'[r] = lanes'[t]
                 /\ pc'[lanes'[t]] # "new"
      <3>1. lanes'[t] = lanes[t] /\ ~(Idle(h, w) /\ lanes[t] = l)
        BY <1>1, <2>2
      <3>2. /\ lanes[t] \in Send /\ pc'[lanes'[t]] # "new"
            /\ holder[lanes[t]] # None \/ \E r \in Send : lane[r] = lanes[t]
        BY <1>7, <2>2, <3>1, LaneFacts DEF LanesOK
      <3>3. CASE lanes[t] # l
        BY <1>7, <3>1, <3>2, <3>3
      <3>4. CASE lanes[t] = l /\ h # None
        BY <1>7, <3>1, <3>2, <3>4
      <3>5. CASE lanes[t] = l /\ w # 0
        <4>1. Counted(l, lane', counted') # {}
          BY <1>2, <1>9, <1>10, <3>5, FS_EmptySet
        <4>2. PICK x \in Send : lane'[x] = l
          BY <4>1 DEF Counted
        <4> QED
          BY <3>1, <3>2, <3>5, <4>2
      <3> QED
        BY <1>5, <3>1, <3>3, <3>4, <3>5
    <2> QED
      BY <2>1, <2>2 DEF MembersOK, KeptOK
  <1>12. HoldersOK(pc', holder', lane')
    <2>1. ASSUME NEW k \in Send, holder'[k] # None
          PROVE  \/ lane'[holder'[k]] = k /\ pc'[holder'[k]] \in Holding
                 \/ pc'[holder'[k]] = "done"
      <3>1. holder'[k] = holder[k] /\ holder[k] # None
        BY <1>5, <1>7, <2>1
      <3>2. /\ holder[k] \in Send
            /\ \/ lane[holder[k]] = k /\ pc[holder[k]] \in Holding
               \/ pc[holder[k]] = "done"
        BY <3>1, LaneFacts DEF LanesOK
      <3>3. holder[k] # s
        BY <1>5, <1>7, <2>1, <3>2 DEF Inside
      <3> QED
        BY <1>7, <3>1, <3>2, <3>3
    <2>2. ASSUME NEW r \in Send, pc'[r] \in Holding
          PROVE  holder'[lane'[r]] = r
      <3>1. r # s /\ pc[r] \in Holding
        BY <1>7, <2>2 DEF Holding
      <3>2. lane[r] \in Send /\ holder[lane[r]] = r
        BY <3>1, LaneFacts DEF LanesOK
      <3> QED
        BY <1>5, <1>7, <3>1, <3>2
    <2> QED
      BY <2>1, <2>2 DEF HoldersOK
  <1>13. QueuesOK(pc', fifo', lane')
    <2>1. \A k \in Send : \A i \in 1..Len(fifo[k]) :
            fifo[k][i] \in Send /\ pc[fifo[k][i]] = "waiting" /\ lane[fifo[k][i]] = k
      BY LaneFacts DEF LanesOK
    <2>2. ASSUME NEW k \in Send, NEW i \in 1..Len(fifo'[k])
          PROVE  pc'[fifo'[k][i]] = "waiting" /\ lane'[fifo'[k][i]] = k
      <3>1. PICK j \in 1..Len(fifo[k]) : fifo'[k][i] = fifo[k][j]
        BY <1>4, <1>7, <2>2
      <3>2. fifo[k][j] # s
        BY <1>4, <1>7, <2>1, <2>2, <3>1
      <3> QED
        BY <1>7, <2>1, <3>1, <3>2
    <2>3. ASSUME NEW k \in Send, NEW i \in 1..Len(fifo'[k]), NEW j \in 1..Len(fifo'[k]),
                 fifo'[k][i] = fifo'[k][j]
          PROVE  i = j
      BY <1>4, <1>7, <2>3 DEF LanesOK, AllOK, QueuesOK
    <2>4. ASSUME NEW r \in Send, pc'[r] = "waiting"
          PROVE  \E i \in 1..Len(fifo'[lane'[r]]) : fifo'[lane'[r]][i] = r
      <3>1. r # s /\ pc[r] = "waiting"
        BY <1>7, <2>4
      <3>2. PICK i \in 1..Len(fifo[lane[r]]) : fifo[lane[r]][i] = r
        BY <3>1, LaneFacts DEF LanesOK
      <3>3. lane[r] \in Send /\ lane'[r] = lane[r]
        BY <1>7, <3>1, LaneFacts DEF LanesOK
      <3>4. CASE lane[r] # l
        BY <1>7, <3>2, <3>3, <3>4
      <3>5. CASE lane[r] = l
        BY <1>4, <1>7, <3>1, <3>2, <3>3, <3>5
      <3> QED
        BY <3>4, <3>5
    <2> QED
      BY <2>2, <2>3, <2>4 DEF QueuesOK
  <1>14. CountsOK(pc', waiters', lane', counted')
    <2>1. \A r \in Send : counted'[r] => pc'[r] \in {"acquiring", "waiting", "granted"}
      BY <1>7, <1>8 DEF LanesOK, AllOK, CountsOK
    <2> QED
      BY <1>9, <2>1 DEF CountsOK
  <1> QED
    BY <1>6, <1>11, <1>12, <1>13, <1>14 DEF LanesOK, AllOK

(* A send that resumes with the lock is no longer counted.                   *)
LEMMA ResumeLanes ==
  ASSUME LanesOK, NEW s \in Send, pc[s] = "granted",
         pc' = [pc EXCEPT ![s] = "reserving"],
         waiters' = [waiters EXCEPT ![lane[s]] = @ - Count(s)],
         counted' = [counted EXCEPT ![s] = FALSE],
         UNCHANGED <<lanes, holder, fifo, lane>>
  PROVE  LanesOK'
  <1>1. /\ LaneTypes(pc, lanes, holder, fifo, lane, counted) /\ lane[s] \in Send
    BY LaneFacts DEF LanesOK, AllOK, Holding
  <1>2. /\ pc'[s] = "reserving" /\ \A r \in Send : r # s => pc'[r] = pc[r]
        /\ counted'[s] = FALSE /\ \A r \in Send : r # s => counted'[r] = counted[r]
    BY <1>1 DEF LaneTypes
  <1>3. \A r \in Send : /\ pc'[r] \in Inside <=> pc[r] \in Inside
                        /\ pc'[r] \in Holding <=> pc[r] \in Holding
                        /\ pc'[r] = "waiting" <=> pc[r] = "waiting"
                        /\ pc'[r] = "new" => pc[r] = "new"
                        /\ pc[r] = "done" => pc'[r] = "done"
    BY <1>2 DEF Inside, Steps, Holding
  <1>4. LaneTypes(pc', lanes', holder', fifo', lane', counted')
    BY <1>1 DEF LaneTypes, Steps
  <1>5. \A r \in Send : lane[r] # None => lane[r] \in Send
    BY <1>1 DEF LaneTypes
  <1>6. MembersOK(pc', lane') /\ KeptOK(pc', lanes', holder', lane')
    BY <1>3, <1>5, LaneFacts DEF LanesOK, AllOK, MembersOK, KeptOK
  <1>7. HoldersOK(pc', holder', lane')
    BY <1>3, LaneFacts DEF LanesOK, AllOK, HoldersOK
  <1>8. QueuesOK(pc', fifo', lane')
    <2>1. \A k \in Send : \A i \in 1..Len(fifo[k]) :
            pc'[fifo[k][i]] = "waiting" /\ lane[fifo[k][i]] = k
      BY <1>3, LaneFacts DEF LanesOK
    <2> QED
      BY <1>3, <2>1 DEF LanesOK, AllOK, QueuesOK
  <1>9. CountsOK(pc', waiters', lane', counted')
    <2>1. CountsOK(pc, waiters, lane, counted) /\ counted \in [Send -> BOOLEAN]
      BY <1>1 DEF LanesOK, AllOK, LaneTypes
    <2>3. \A r \in Send : counted'[r] => pc'[r] \in {"acquiring", "waiting", "granted"}
      BY <1>2, <2>1 DEF CountsOK
    <2>4. /\ waiters' \in [Send -> Nat]
          /\ \A k \in Send : /\ IsFiniteSet(Counted(k, lane', counted'))
                             /\ waiters'[k] = Cardinality(Counted(k, lane', counted'))
      BY <1>1, <2>1, UncountOK
    <2> QED
      BY <2>3, <2>4 DEF CountsOK
  <1> QED
    BY <1>4, <1>6, <1>7, <1>8, <1>9 DEF LanesOK, AllOK

(* A send that leaves without the lock that it holds.                        *)
LEMMA LoseLanes ==
  ASSUME LanesOK, NEW s \in Send, NEW status, LoseLock(s, status)
  PROVE  LanesOK'
  <1> DEFINE l == lane[s]
  <1>1. /\ pc[s] = "granted" /\ pc' = [pc EXCEPT ![s] = "done"]
        /\ waiters' = [waiters EXCEPT ![l] = waiters[l] - Count(s)]
        /\ counted' = [counted EXCEPT ![s] = FALSE]
        /\ lane' = [lane EXCEPT ![s] = None]
        /\ UNCHANGED <<lanes, holder, fifo>>
    BY DEF LoseLock
  <1>2. /\ LaneTypes(pc, lanes, holder, fifo, lane, counted) /\ l \in Send
        /\ holder[l] = s
    BY <1>1, LaneFacts DEF LanesOK, AllOK, Holding
  <1>3. /\ pc'[s] = "done" /\ \A r \in Send : r # s => pc'[r] = pc[r]
        /\ lane'[s] = None /\ \A r \in Send : r # s => lane'[r] = lane[r]
        /\ counted'[s] = FALSE /\ \A r \in Send : r # s => counted'[r] = counted[r]
    BY <1>1, <1>2 DEF LaneTypes
  <1>4. LaneTypes(pc', lanes', holder', fifo', lane', counted')
    BY <1>1, <1>2 DEF LaneTypes, Steps
  <1>5. MembersOK(pc', lane')
    <2> SUFFICES ASSUME NEW r \in Send
                 PROVE  /\ lane'[r] # None <=> pc'[r] \in Inside
                        /\ lane'[r] # None => pc'[lane'[r]] # "new"
      BY DEF MembersOK
    <2>1. lane[r] # None => lane[r] \in Send
      BY <1>2 DEF LaneTypes
    <2>2. /\ lane[r] # None <=> pc[r] \in Inside
          /\ lane[r] # None => pc[lane[r]] # "new"
      BY DEF LanesOK, AllOK, MembersOK
    <2> QED
      BY <1>3, <2>1, <2>2 DEF Inside
  <1>6. KeptOK(pc', lanes', holder', lane')
    BY <1>1, <1>2, <1>3, LaneFacts, NoneAssumption DEF LanesOK, KeptOK
  <1>7. HoldersOK(pc', holder', lane')
    <2>1. ASSUME NEW k \in Send, holder[k] # None
          PROVE  \/ lane'[holder[k]] = k /\ pc'[holder[k]] \in Holding
                 \/ pc'[holder[k]] = "done"
      BY <1>3, <2>1, LaneFacts DEF LanesOK
    <2>2. ASSUME NEW r \in Send, pc'[r] \in Holding
          PROVE  holder[lane'[r]] = r
      <3>1. r # s /\ pc[r] \in Holding
        BY <1>3, <2>2 DEF Holding
      <3> QED
        BY <1>3, <3>1, LaneFacts DEF LanesOK
    <2> QED
      BY <1>1, <2>1, <2>2 DEF HoldersOK
  <1>8. QueuesOK(pc', fifo', lane')
    <2>1. \A k \in Send : \A i \in 1..Len(fifo[k]) :
            /\ fifo[k][i] \in Send /\ pc[fifo[k][i]] = "waiting"
            /\ lane[fifo[k][i]] = k /\ fifo[k][i] # s
      BY <1>1, LaneFacts DEF LanesOK
    <2>2. \A k \in Send : \A i \in 1..Len(fifo[k]) :
            pc'[fifo[k][i]] = "waiting" /\ lane'[fifo[k][i]] = k
      BY <1>3, <2>1
    <2>3. \A r \in Send : pc'[r] = "waiting" => pc[r] = "waiting" /\ lane'[r] = lane[r]
      BY <1>3
    <2> QED
      BY <1>1, <2>2, <2>3 DEF LanesOK, AllOK, QueuesOK
  <1>9. CountsOK(pc', waiters', lane', counted')
    <2>1. CountsOK(pc, waiters, lane, counted) /\ counted \in [Send -> BOOLEAN]
      BY <1>2 DEF LanesOK, AllOK, LaneTypes
    <2>2. \A r \in Send : counted'[r] => pc'[r] \in {"acquiring", "waiting", "granted"}
      BY <1>3, <2>1 DEF CountsOK
    <2>3. /\ waiters' \in [Send -> Nat]
          /\ \A k \in Send : /\ IsFiniteSet(Counted(k, lane', counted'))
                             /\ waiters'[k] = Cardinality(Counted(k, lane', counted'))
      BY <1>1, <1>2, <1>3, <2>1, UncountOK
    <2> QED
      BY <2>2, <2>3 DEF CountsOK
  <1> QED
    BY <1>4, <1>5, <1>6, <1>7, <1>8, <1>9 DEF LanesOK, AllOK

-----------------------------------------------------------------------------
(* The arrival in a lane.                                                    *)

(* A lane that is chosen is the one of the target or a new one, no other     *)
(* lane enters the dictionary, and only an idle one leaves it.               *)
LEMMA ChoiceFacts ==
  ASSUME LanesOK, NEW s \in Send, TargetOf[s] \in Target, NEW c \in LaneChoices(s)
  PROVE  /\ c[1] \in Send
         /\ c[2] \in [Target -> Send \cup {None}]
         /\ c[2][TargetOf[s]] = c[1]
         /\ \A u \in Target : c[2][u] \in {None, lanes[u], c[1]}
         /\ c[1] = s \/ (c[1] = lanes[TargetOf[s]] /\ c[2] = lanes)
         /\ \A u \in Target : lanes[u] # None /\ c[2][u] # lanes[u] => Free(lanes[u])
  <1>1. lanes \in [Target -> Send \cup {None}]
    BY DEF LanesOK, AllOK, LaneTypes
  <1>2. CASE c = <<lanes[TargetOf[s]], lanes>> /\ lanes[TargetOf[s]] # None
    BY <1>1, <1>2
  <1>3. CASE /\ c = <<s, [lanes EXCEPT ![TargetOf[s]] = s]>>
             /\ lanes[TargetOf[s]] = None
    BY <1>1, <1>3
  <1>4. ASSUME NEW u \in Target, lanes[TargetOf[s]] = None, Free(lanes[u]),
               c = <<s, [lanes EXCEPT ![u] = None, ![TargetOf[s]] = s]>>
        PROVE  /\ c[1] = s /\ c[2] \in [Target -> Send \cup {None}]
               /\ c[2][TargetOf[s]] = s
               /\ \A v \in Target : c[2][v] \in {None, lanes[v], s}
               /\ \A v \in Target :
                    lanes[v] # None /\ c[2][v] # lanes[v] => Free(lanes[v])
    BY <1>1, <1>4
  <1> QED
    BY <1>2, <1>3, <1>4 DEF LaneChoices

(* A send in the lane it has chosen, before it asks for the lock.            *)
LEMMA EnterLanes ==
  ASSUME LanesOK, NEW s \in Send, pc[s] = "new", TargetOf[s] \in Target,
         NEW c \in LaneChoices(s), NEW yes \in BOOLEAN
  PROVE  AllOK([pc EXCEPT ![s] = "acquiring"], c[2], holder, fifo,
               [waiters EXCEPT ![c[1]] = waiters[c[1]] + (IF yes THEN 1 ELSE 0)],
               [lane EXCEPT ![s] = c[1]], [counted EXCEPT ![s] = yes])
  <1> DEFINE l == c[1]
             p2 == [pc EXCEPT ![s] = "acquiring"]
             w2 == [waiters EXCEPT ![l] = waiters[l] + (IF yes THEN 1 ELSE 0)]
             n2 == [lane EXCEPT ![s] = l]
             c2 == [counted EXCEPT ![s] = yes]
  <1>1. /\ LaneTypes(pc, lanes, holder, fifo, lane, counted)
        /\ MembersOK(pc, lane) /\ CountsOK(pc, waiters, lane, counted)
    BY DEF LanesOK, AllOK
  <1>2. /\ l \in Send /\ c[2] \in [Target -> Send \cup {None}] /\ l # None
        /\ \A u \in Target : c[2][u] \in {None, lanes[u], l}
        /\ l = s \/ (l = lanes[TargetOf[s]] /\ c[2] = lanes)
    BY ChoiceFacts, NoneAssumption
  <1>3. LaneTypes(p2, c[2], holder, fifo, n2, c2)
    BY <1>1, <1>2 DEF LaneTypes, Steps
  <1>4. /\ p2[s] = "acquiring" /\ \A r \in Send : r # s => p2[r] = pc[r]
        /\ n2[s] = l /\ \A r \in Send : r # s => n2[r] = lane[r]
        /\ c2[s] = yes /\ \A r \in Send : r # s => c2[r] = counted[r]
    BY <1>1 DEF LaneTypes
  <1>5. lane[s] = None /\ ~counted[s] /\ p2[l] # "new"
    <2>1. lane[s] = None /\ ~counted[s]
      BY <1>1, <1>2, <1>4 DEF MembersOK, CountsOK, Inside
    <2>2. l = s \/ (l \in Send /\ pc[l] # "new")
      BY <1>2, LaneFacts DEF LanesOK
    <2> QED
      BY <1>4, <2>1, <2>2
  <1>6. w2[l] = waiters[l] + (IF yes THEN 1 ELSE 0) /\ waiters \in [Send -> Nat]
        /\ \A k \in Send : k # l => w2[k] = waiters[k]
    BY <1>1, <1>2 DEF CountsOK
  <1>7. w2 \in [Send -> Nat]
    BY <1>2, <1>6
  <1> HIDE DEF l, p2, w2, n2, c2
  <1>8. MembersOK(p2, n2) /\ KeptOK(p2, c[2], holder, n2)
    <2>1. ASSUME NEW r \in Send
          PROVE  /\ n2[r] # None <=> p2[r] \in Inside
                 /\ n2[r] # None => p2[n2[r]] # "new"
      <3>1. CASE r = s
        BY <1>2, <1>4, <1>5, <3>1 DEF Inside, Steps
      <3>2. CASE r # s
        <4>1. lane[r] # None => lane[r] \in Send
          BY <1>1 DEF LaneTypes
        <4>2. /\ lane[r] # None <=> pc[r] \in Inside
              /\ lane[r] # None => pc[lane[r]] # "new"
          BY <1>1 DEF MembersOK
        <4> QED
          BY <1>4, <3>2, <4>1, <4>2
      <3> QED
        BY <3>1, <3>2
    <2>2. ASSUME NEW t \in Target, c[2][t] # None
          PROVE  /\ holder[c[2][t]] # None \/ \E r \in Send : n2[r] = c[2][t]
                 /\ p2[c[2][t]] # "new"
      <3>1. CASE c[2][t] = l
        BY <1>4, <1>5, <3>1
      <3>2. CASE c[2][t] = lanes[t]
        <4>1. /\ holder[lanes[t]] # None \/ \E r \in Send : lane[r] = lanes[t]
              /\ lanes[t] \in Send /\ pc[lanes[t]] # "new"
          BY <2>2, <3>2, LaneFacts DEF LanesOK
        <4> QED
          BY <1>4, <1>5, <2>2, <3>2, <4>1
      <3> QED
        BY <1>2, <2>2, <3>1, <3>2
    <2> QED
      BY <2>1, <2>2 DEF MembersOK, KeptOK
  <1>9. HoldersOK(p2, holder, n2)
    <2>1. ASSUME NEW k \in Send, holder[k] # None
          PROVE  \/ n2[holder[k]] = k /\ p2[holder[k]] \in Holding
                 \/ p2[holder[k]] = "done"
      <3>1. holder[k] # s
        BY <2>1, LaneFacts DEF LanesOK, Holding
      <3> QED
        BY <1>4, <2>1, <3>1, LaneFacts DEF LanesOK
    <2>2. ASSUME NEW r \in Send, p2[r] \in Holding
          PROVE  holder[n2[r]] = r
      BY <1>4, <2>2, LaneFacts DEF LanesOK, Holding
    <2> QED
      BY <2>1, <2>2 DEF HoldersOK
  <1>10. QueuesOK(p2, fifo, n2)
    <2>1. \A k \in Send : \A i \in 1..Len(fifo[k]) :
            p2[fifo[k][i]] = "waiting" /\ n2[fifo[k][i]] = k
      BY <1>4, LaneFacts DEF LanesOK
    <2>2. ASSUME NEW r \in Send, p2[r] = "waiting"
          PROVE  r # s /\ pc[r] = "waiting" /\ n2[r] = lane[r]
      BY <1>4, <2>2
    <2>3. \A k \in Send : \A i, j \in 1..Len(fifo[k]) : fifo[k][i] = fifo[k][j] => i = j
      BY DEF LanesOK, AllOK, QueuesOK
    <2>4. \A r \in Send : p2[r] = "waiting" =>
            \E i \in 1..Len(fifo[n2[r]]) : fifo[n2[r]][i] = r
      BY <2>2, LaneFacts DEF LanesOK
    <2> QED
      BY <2>1, <2>3, <2>4 DEF QueuesOK
  <1>11. CountsOK(p2, w2, n2, c2)
    <2>1. \A r \in Send : c2[r] => p2[r] \in {"acquiring", "waiting", "granted"}
      BY <1>1, <1>4 DEF CountsOK
    <2>2. \A k \in Send : k # l => Counted(k, n2, c2) = Counted(k, lane, counted)
      BY <1>2, <1>4, <1>5 DEF Counted
    <2>3. Counted(l, n2, c2) = IF yes THEN Counted(l, lane, counted) \cup {s}
                               ELSE Counted(l, lane, counted)
      BY <1>2, <1>4, <1>5 DEF Counted
    <2>4. s \notin Counted(l, lane, counted)
      BY <1>5 DEF Counted
    <2>5. \A k \in Send : /\ IsFiniteSet(Counted(k, lane, counted))
                          /\ waiters[k] = Cardinality(Counted(k, lane, counted))
      BY <1>1 DEF CountsOK
    <2>6. IsFiniteSet(Counted(l, n2, c2)) /\ w2[l] = Cardinality(Counted(l, n2, c2))
      <3>1. CASE yes
        <4>1. Counted(l, n2, c2) = Counted(l, lane, counted) \cup {s}
          BY <2>3, <3>1
        <4>2. IsFiniteSet(Counted(l, lane, counted))
              /\ waiters[l] = Cardinality(Counted(l, lane, counted))
          BY <1>2, <2>5
        <4>3. /\ IsFiniteSet(Counted(l, lane, counted) \cup {s})
              /\ Cardinality(Counted(l, lane, counted) \cup {s}) = waiters[l] + 1
          BY <2>4, <4>2, FS_AddElement
        <4>4. w2[l] = waiters[l] + 1
          BY <1>6, <3>1
        <4> QED
          BY <4>1, <4>3, <4>4
      <3>2. CASE ~yes
        <4>1. waiters[l] \in Nat
          BY <1>2, <1>6
        <4> QED
          BY <1>2, <1>6, <2>3, <2>5, <3>2, <4>1
      <3> QED
        BY <3>1, <3>2
    <2> QED
      BY <1>6, <1>7, <2>1, <2>2, <2>5, <2>6 DEF CountsOK
  <1>12. AllOK(p2, c[2], holder, fifo, w2, n2, c2)
    BY <1>3, <1>8, <1>9, <1>10, <1>11 DEF AllOK
  <1> QED
    BY <1>12 DEF l, p2, w2, n2, c2

LEMMA ArriveLanes ==
  ASSUME LanesOK, NEW s \in Send, TargetOf[s] \in Target, Arrive(s)
  PROVE  LanesOK'
  <1>1. PICK c \in LaneChoices(s) :
          /\ lanes' = c[2]
          /\ lane' = [lane EXCEPT ![s] = c[1]]
          /\ counted' = [counted EXCEPT ![s] = ~Free(c[1])]
          /\ waiters' = [waiters EXCEPT ![c[1]] = @ + (IF Free(c[1]) THEN 0 ELSE 1)]
          /\ IF Deadline[s] = None THEN Lock(s, c[1])
             ELSE /\ pc' = [pc EXCEPT ![s] = "acquiring"]
                  /\ UNCHANGED <<holder, fifo>>
    BY DEF Arrive
  <1> DEFINE l == c[1]
             p2 == [pc EXCEPT ![s] = "acquiring"]
             yes == ~Free(l)
  <1>2. waiters' = [waiters EXCEPT ![l] = waiters[l] + (IF yes THEN 1 ELSE 0)]
    BY <1>1
  <1>3. AllOK(p2, lanes', holder, fifo, waiters', lane', counted')
    <2>1. yes \in BOOLEAN /\ pc[s] = "new"
      BY DEF Free, Idle, Arrive
    <2>2. counted' = [counted EXCEPT ![s] = yes]
      BY <1>1
    <2> HIDE DEF yes
    <2>3. AllOK([pc EXCEPT ![s] = "acquiring"], c[2], holder, fifo,
                [waiters EXCEPT ![c[1]] = waiters[c[1]] + (IF yes THEN 1 ELSE 0)],
                [lane EXCEPT ![s] = c[1]], [counted EXCEPT ![s] = yes])
      BY <2>1, EnterLanes
    <2> QED
      BY <1>1, <1>2, <2>2, <2>3
  <1>4. /\ pc \in [Send -> Steps] /\ lane \in [Send -> Send \cup {None}]
        /\ l \in Send /\ p2[s] = "acquiring" /\ lane'[s] = l
    BY <1>1, ChoiceFacts DEF LanesOK, AllOK, LaneTypes
  <1> HIDE DEF l
  <1>5. CASE pc' = p2 /\ UNCHANGED <<holder, fifo>>
    BY <1>3, <1>5 DEF LanesOK
  <1>6. CASE /\ holder[l] = None /\ holder' = [holder EXCEPT ![l] = s]
             /\ pc' = [pc EXCEPT ![s] = "granted"] /\ fifo' = fifo
    <2>1. AllOK([p2 EXCEPT ![s] = "granted"], lanes', [holder EXCEPT ![lane'[s]] = s],
                fifo, waiters', lane', counted')
      BY <1>3, <1>4, <1>6, GrantOK
    <2>2. [p2 EXCEPT ![s] = "granted"] = [pc EXCEPT ![s] = "granted"]
      BY <1>4
    <2> QED
      BY <1>4, <1>6, <2>1, <2>2 DEF LanesOK
  <1>7. CASE /\ fifo' = [fifo EXCEPT ![l] = Append(@, s)]
             /\ pc' = [pc EXCEPT ![s] = "waiting"] /\ holder' = holder
    <2>1. AllOK([p2 EXCEPT ![s] = "waiting"], lanes', holder,
                [fifo EXCEPT ![lane'[s]] = Append(fifo[lane'[s]], s)], waiters',
                lane', counted')
      BY <1>3, <1>4, QueueOK
    <2>2. [p2 EXCEPT ![s] = "waiting"] = [pc EXCEPT ![s] = "waiting"]
      BY <1>4
    <2> QED
      BY <1>4, <1>7, <2>1, <2>2 DEF LanesOK
  <1> QED
    BY <1>1, <1>5, <1>6, <1>7 DEF Lock, l

LEMMA AcquireLanes ==
  ASSUME LanesOK, NEW s \in Send, Acquire(s)
  PROVE  LanesOK'
  <1>1. /\ pc[s] = "acquiring" /\ Lock(s, lane[s])
        /\ UNCHANGED <<lanes, waiters, lane, counted>>
    BY DEF Acquire
  <1>2. CASE /\ holder[lane[s]] = None /\ holder' = [holder EXCEPT ![lane[s]] = s]
             /\ pc' = [pc EXCEPT ![s] = "granted"] /\ fifo' = fifo
    <2>1. AllOK([pc EXCEPT ![s] = "granted"], lanes, [holder EXCEPT ![lane[s]] = s],
                fifo, waiters, lane, counted)
      BY <1>1, <1>2, GrantOK DEF LanesOK
    <2> QED
      BY <1>1, <1>2, <2>1 DEF LanesOK
  <1>3. CASE /\ fifo' = [fifo EXCEPT ![lane[s]] = Append(@, s)]
             /\ pc' = [pc EXCEPT ![s] = "waiting"] /\ holder' = holder
    <2>1. AllOK([pc EXCEPT ![s] = "waiting"], lanes, holder,
                [fifo EXCEPT ![lane[s]] = Append(fifo[lane[s]], s)], waiters,
                lane, counted)
      BY <1>1, QueueOK DEF LanesOK
    <2> QED
      BY <1>1, <1>3, <2>1 DEF LanesOK
  <1> QED
    BY <1>1, <1>2, <1>3 DEF Lock

-----------------------------------------------------------------------------
(* Lanes do not leak.                                                        *)

(* What a step of a send does to the lanes.                                  *)
Leaves(s) ==
  pc[s] \in Inside /\ LeaveLane(s) /\ pc' = [pc EXCEPT ![s] = "done"]
Loses(s) == LoseLock(s, "expired") \/ LoseLock(s, None)
Resumes(s) ==
  /\ pc[s] = "granted" /\ pc' = [pc EXCEPT ![s] = "reserving"]
  /\ waiters' = [waiters EXCEPT ![lane[s]] = @ - Count(s)]
  /\ counted' = [counted EXCEPT ![s] = FALSE]
  /\ UNCHANGED <<lanes, holder, fifo, lane>>
Moves(s) ==
  /\ UNCHANGED laneVars
  /\ \/ \E q \in {"reserving", "wire"} :
          pc[s] \in {"reserving", "wire"} /\ pc' = [pc EXCEPT ![s] = q]
     \/ pc[s] = "new" /\ pc' = [pc EXCEPT ![s] = "done"]
     \/ pc' = pc

LEMMA LaneSteps ==
  ASSUME NEW s \in Send, SendStep(s)
  PROVE  \/ Arrive(s) \/ Acquire(s) \/ WakeUp(s) \/ Leaves(s) \/ Loses(s)
         \/ Resumes(s) \/ Moves(s)
  <1>1. {"acquiring", "waiting", "granted", "reserving", "wire"} = Inside
    BY DEF Inside, Steps
  <1>2. CASE Refuse(s)
    BY <1>2 DEF Refuse, Moves
  <1>3. CASE GiveUp(s)
    BY <1>1, <1>3 DEF GiveUp, End, Leaves
  <1>4. CASE Resume(s)
    BY <1>1, <1>4 DEF Resume, End, Leaves, Resumes
  <1>5. CASE ReserveRefused(s) \/ Failed(s) \/ Unanswered(s) \/ WireDeadline(s)
    BY <1>1, <1>5 DEF ReserveRefused, Failed, Unanswered, WireDeadline, NoAnswer,
                      NotAdmitted, StopAt, End, Leaves
  <1>6. CASE ReserveLater(s)
    BY <1>6 DEF ReserveLater, Moves
  <1>7. CASE Reserve(s)
    BY <1>1, <1>7 DEF Reserve, StopAt, End, Leaves, Moves
  <1>8. CASE Accepted(s)
    BY <1>1, <1>8 DEF Accepted, StopAt, End, Leaves, Moves
  <1>9. CASE RateLimited(s)
    BY <1>1, <1>9 DEF RateLimited, NotAdmitted, End, Leaves, Moves
  <1>10. CASE TimeoutAtGrant(s) \/ Cancel(s)
    BY <1>1, <1>10 DEF TimeoutAtGrant, Cancel, CancelAwait, End, Leaves, Loses
  <1> QED
    BY <1>2, <1>3, <1>4, <1>5, <1>6, <1>7, <1>8, <1>9, <1>10
    DEF SendStep, Scheduler, Exporter

LEMMA MovesLanes ==
  ASSUME LanesOK, NEW s \in Send, Moves(s)
  PROVE  LanesOK'
  <1>1. CASE pc' = pc
    BY <1>1 DEF Moves, laneVars, LanesOK
  <1>2. CASE pc' # pc
    <2>1. PICK q \in {"reserving", "wire", "done"} :
            /\ pc' = [pc EXCEPT ![s] = q]
            /\ \/ pc[s] \in {"reserving", "wire"} /\ q \in {"reserving", "wire"}
               \/ pc[s] = "new" /\ q = "done"
      BY <1>2 DEF Moves
    <2>2. q \in Steps /\ UNCHANGED laneVars
      BY DEF Steps, Moves
    <2> QED
      BY <2>1, <2>2, PassLanes
  <1> QED
    BY <1>1, <1>2

LEMMA StepLanes ==
  ASSUME LanesOK, NEW s \in Send, TargetOf[s] \in Target,
         SendStep(s)
  PROVE  LanesOK'
  <1>1. CASE Leaves(s)
    BY <1>1, EndLanes DEF Leaves
  <1>2. CASE Resumes(s)
    BY <1>2, ResumeLanes DEF Resumes
  <1>3. CASE Loses(s)
    BY <1>3, LoseLanes DEF Loses
  <1> QED
    BY <1>1, <1>2, <1>3, LaneSteps, ArriveLanes, AcquireLanes, WakeUpLanes, MovesLanes

Called == TargetOf \in Calls

LEMMA LanesAlways == Spec => [](LanesOK /\ Called)
  <1>1. Init => LanesOK /\ Called
    <2> SUFFICES ASSUME Init PROVE LanesOK /\ Called
      OBVIOUS
    <2>1. \A s \in Send : /\ pc[s] = "new" /\ holder[s] = None /\ fifo[s] = <<>>
                          /\ waiters[s] = 0 /\ lane[s] = None /\ counted[s] = FALSE
      BY DEF Init
    <2>2. \A l \in Send : Counted(l, lane, counted) = {}
      BY <2>1 DEF Counted
    <2>3. LaneTypes(pc, lanes, holder, fifo, lane, counted)
      BY DEF Init, LaneTypes, Steps
    <2>4. MembersOK(pc, lane) /\ KeptOK(pc, lanes, holder, lane)
      BY <2>1 DEF MembersOK, KeptOK, Inside, Init
    <2>5. HoldersOK(pc, holder, lane) /\ QueuesOK(pc, fifo, lane)
      BY <2>1 DEF HoldersOK, QueuesOK, Holding
    <2>6. CountsOK(pc, waiters, lane, counted)
      BY <2>1, <2>2, FS_EmptySet DEF CountsOK, Init
    <2> QED
      BY <2>3, <2>4, <2>5, <2>6 DEF LanesOK, AllOK, Called, Init
  <1>2. ASSUME LanesOK /\ Called, [Next]_vars PROVE LanesOK' /\ Called'
    <2>1. TargetOf \in [Send -> Target]
      BY <1>2, SendsAssumption DEF Called
    <2>2. ASSUME NEW s \in Send, SendStep(s)
          PROVE  LanesOK' /\ Called'
      BY <1>2, <2>1, <2>2, StepLanes, QuotaEffect DEF Called
    <2>3. CASE (\E h \in Handle : Bind(h)) \/ Unbind \/ Tick \/ UNCHANGED vars
      BY <1>2, <2>3 DEF Bind, Unbind, Tick, vars, laneVars, call, LanesOK, Called
    <2> QED
      BY <1>2, <2>2, <2>3 DEF Next, SendStep
  <1> QED
    BY <1>1, <1>2, PTL DEF Spec

(* Who has lost a lock had a deadline, and was cancelled or timed out.       *)
LostOK ==
  \A l \in Send : holder[l] # None /\ pc[holder[l]] = "done" =>
    Deadline[holder[l]] # None /\ result[holder[l]] \in {"expired", None}

LEMMA StepLost ==
  ASSUME Told, LanesOK, LanesOK', LostOK, NEW s \in Send, SendStep(s)
  PROVE  LostOK'
  <1> SUFFICES ASSUME NEW l \in Send, holder'[l] # None, pc'[holder'[l]] = "done"
               PROVE  /\ Deadline[holder'[l]] # None
                      /\ result'[holder'[l]] \in {"expired", None}
    BY DEF LostOK
  <1> DEFINE r == holder'[l]
  <1>1. /\ LaneTypes(pc, lanes, holder, fifo, lane, counted)
        /\ r \in Send
    BY LaneFacts DEF LanesOK, AllOK
  <1>2. pc[s] # "done" /\ (\A x \in Send : x # s => pc'[x] = pc[x])
    BY NotOver, SchedulerPc DEF PcStep, Told
  <1>3. \A x \in Send : x # s => result'[x] = result[x]
    BY StepEffect DEF GoesOn, Ends, Advances, Quits, Rests, Told
  <1>4. CASE r # s
    <2>1. pc[r] = "done"
      BY <1>1, <1>2, <1>4
    <2>2. holder[l] = r
      <3>1. \A k \in Send : holder'[k] \in {holder[k], s, None}
        BY <1>1, LaneSteps
        DEF Arrive, Lock, Acquire, WakeUp, Leaves, LeaveLane, Loses, LoseLock,
            Resumes, Moves, laneVars, LaneTypes
      <3> QED
        BY <1>4, <3>1
    <2> QED
      BY <1>1, <1>3, <1>4, <2>1, <2>2 DEF LostOK
  <1>5. CASE r = s
    <2>1. pc'[s] = "done" /\ pc[s] # "done"
      BY <1>2, <1>5
    <2>2. ~Arrive(s) /\ ~Acquire(s) /\ ~WakeUp(s) /\ ~Resumes(s)
      BY <1>1, <2>1 DEF Arrive, Lock, Acquire, WakeUp, Resumes, LaneTypes
    <2>3. CASE Loses(s)
      BY <1>5, <2>3 DEF Loses, LoseLock, Told
    <2>4. CASE Leaves(s)
      <3>1. lane[s] \in Send /\ pc[s] \in Inside
        BY <2>4, LaneFacts DEF Leaves, LanesOK
      <3>2. holder'[lane[s]] # s
        BY <1>1, <2>4, <3>1, NoneAssumption DEF Leaves, LeaveLane, LaneTypes
      <3>3. l # lane[s] /\ holder[l] = s
        BY <1>1, <1>5, <2>4, <3>1, <3>2 DEF Leaves, LeaveLane, LaneTypes
      <3> QED
        BY <2>1, <3>1, <3>3, LaneFacts, NoneAssumption DEF LanesOK
    <2>5. CASE Moves(s)
      <3>1. pc[s] = "new" /\ holder[l] = s
        BY <1>1, <1>5, <2>1, <2>5 DEF Moves, laneVars, LaneTypes
      <3> QED
        BY <3>1, LaneFacts, NoneAssumption DEF LanesOK, Holding
    <2> QED
      BY <2>2, <2>3, <2>4, <2>5, LaneSteps
  <1> QED
    BY <1>4, <1>5

LEMMA LostAlways == Spec => []LostOK
  <1>1. Init => LostOK
    BY DEF Init, LostOK
  <1>2. ASSUME Told, LanesOK, LanesOK', LostOK, [Next]_vars PROVE LostOK'
    <2>1. ASSUME NEW s \in Send, SendStep(s) PROVE LostOK'
      BY <1>2, <2>1, StepLost
    <2>2. CASE (\E h \in Handle : Bind(h)) \/ Unbind \/ Tick \/ UNCHANGED vars
      BY <1>2, <2>2 DEF Bind, Unbind, Tick, vars, laneVars, LostOK
    <2> QED
      BY <1>2, <2>1, <2>2 DEF Next, SendStep
  <1> QED
    BY <1>1, <1>2, ToldAlways, LanesAlways, PTL DEF Spec

(* When nobody is in a lane, nobody is counted or queued, and the only lanes *)
(* and locks that are left are those of sends that were cancelled or timed   *)
(* out as their lock was granted, whatever was refused or retried.           *)
THEOREM LanesDoNotLeak == Spec => []LanesAreReturned
  <1>1. LanesOK /\ LostOK => LanesAreReturned
    <2> SUFFICES ASSUME LanesOK, LostOK, Quiet
                 PROVE  /\ \A l \in Send : waiters[l] = 0 /\ fifo[l] = <<>>
                        /\ \A t \in Target : lanes[t] # None => holder[lanes[t]] # None
                        /\ \A l \in Send : holder[l] # None =>
                             /\ Deadline[holder[l]] # None
                             /\ result[holder[l]] \in {"expired", None}
      BY DEF LanesAreReturned
    <2>1. \A s \in Send : lane[s] = None /\ pc[s] \notin Holding /\ pc[s] # "waiting"
      BY DEF LanesOK, AllOK, MembersOK, Inside, Holding, Quiet
    <2>2. \A t \in Target : lanes[t] # None => holder[lanes[t]] # None
      BY <2>1, LaneFacts, NoneAssumption DEF LanesOK
    <2>3. ASSUME NEW l \in Send, holder[l] # None
          PROVE  /\ Deadline[holder[l]] # None
                 /\ result[holder[l]] \in {"expired", None}
      BY <2>1, <2>3, LaneFacts DEF LanesOK, LostOK
    <2>4. ASSUME NEW s \in Send PROVE fifo[s] = <<>>
      <3>1. fifo[s] \in Seq(Send)
        BY DEF LanesOK, AllOK, LaneTypes
      <3>2. \A i \in 1..Len(fifo[s]) : FALSE
        BY <2>1, LaneFacts DEF LanesOK
      <3> QED
        BY <3>1, <3>2
    <2>5. ASSUME NEW s \in Send PROVE waiters[s] = 0
      <3>1. Counted(s, lane, counted) = {}
        BY <2>1, NoneAssumption DEF Counted
      <3> QED
        BY <3>1, FS_EmptySet DEF LanesOK, AllOK, CountsOK
    <2> QED
      BY <2>2, <2>3, <2>4, <2>5
  <1> QED
    BY <1>1, LanesAlways, LostAlways, PTL

-----------------------------------------------------------------------------
(* One send at a time for a target.  A deadline makes a send take the lock   *)
(* one loop iteration after it found the lane free; the lane is serial when  *)
(* no other send arrives in that iteration, or when no send has a deadline.  *)

Orderly == ~Burst \/ \A s \in Send : Deadline[s] = None

(* Whoever is in a lane is in the one of its target, whoever waits is        *)
(* counted, and a send that found its lane free is alone in it, and the lane *)
(* is unlocked, until it has the lock.                                       *)
SerialOK ==
  /\ \A s \in Send : lane[s] # None => lanes[TargetOf[s]] = lane[s]
  /\ \A s \in Send : pc[s] = "waiting" => counted[s]
  /\ \A s, r \in Send :
       pc[s] = "acquiring" /\ ~counted[s] /\ lane[r] = lane[s] => r = s
  /\ \A s \in Send :
       pc[s] = "acquiring" /\ ~counted[s] => holder[lane[s]] = None
  /\ \A s \in Send : pc[s] = "acquiring" => Deadline[s] # None

(* Who is in a lane although it looks free has not asked for the lock yet.   *)
LEMMA IdleMembers ==
  ASSUME LanesOK, SerialOK, NEW l \in Send, Free(l), NEW r \in Send, lane[r] = l
  PROVE  pc[r] = "acquiring"
  <1>1. holder[l] = None /\ waiters[l] = 0
    BY DEF Free, Idle
  <1>2. Counted(l, lane, counted) = {}
    BY <1>1, FS_EmptySet DEF LanesOK, AllOK, CountsOK
  <1>3. ~counted[r]
    BY <1>2 DEF Counted
  <1>4. pc[r] \in Inside
    BY NoneAssumption DEF LanesOK, AllOK, MembersOK
  <1>5. pc[r] \notin Holding
    BY <1>1, LaneFacts, NoneAssumption DEF LanesOK
  <1> QED
    BY <1>3, <1>4, <1>5 DEF SerialOK, Inside, Steps, Holding

LEMMA ArriveSerial ==
  ASSUME Orderly, LanesOK, SerialOK, TargetOf \in [Send -> Target],
         NEW s \in Send, Arrive(s)
  PROVE  SerialOK'
  <1>1. PICK c \in LaneChoices(s) :
          /\ lanes' = c[2]
          /\ lane' = [lane EXCEPT ![s] = c[1]]
          /\ counted' = [counted EXCEPT ![s] = ~Free(c[1])]
          /\ IF Deadline[s] = None THEN Lock(s, c[1])
             ELSE /\ pc' = [pc EXCEPT ![s] = "acquiring"]
                  /\ UNCHANGED <<holder, fifo>>
    BY DEF Arrive
  <1> DEFINE l == c[1]
  <1>2. /\ l \in Send /\ lanes'[TargetOf[s]] = l
        /\ \A u \in Target : lanes[u] # None /\ lanes'[u] # lanes[u] => Free(lanes[u])
    BY <1>1, ChoiceFacts
  <1>3. \A r \in Send : pc[r] # "acquiring"
    BY NumbersAssumption DEF Orderly, SerialOK, Arrive
  <1>4. \A k, r \in Send : Free(k) => lane[r] # k
    BY <1>3, IdleMembers
  <1>5. /\ LaneTypes(pc, lanes, holder, fifo, lane, counted)
        /\ MembersOK(pc, lane) /\ pc[s] = "new"
    BY DEF LanesOK, AllOK, Arrive
  <1>6. /\ lane'[s] = l /\ \A r \in Send : r # s => lane'[r] = lane[r]
        /\ counted'[s] = ~Free(l) /\ \A r \in Send : r # s => counted'[r] = counted[r]
        /\ \A r \in Send : r # s => pc'[r] = pc[r]
    BY <1>1, <1>5 DEF LaneTypes, Lock
  <1>7. pc'[s] = "acquiring" => Deadline[s] # None
    BY <1>1, <1>5 DEF LaneTypes, Lock
  <1>8. pc'[s] = "waiting" => ~Free(l)
    <2>1. SUFFICES ASSUME pc'[s] = "waiting", Free(l) PROVE FALSE
      OBVIOUS
    <2>2. holder[l] = None
      BY <2>1 DEF Free, Idle
    <2>3. fifo[l] # <<>>
      BY <1>1, <1>5, <2>1, <2>2 DEF LaneTypes, Lock
    <2>4. fifo[l] \in Seq(Send)
      BY <1>2, <1>5 DEF LaneTypes
    <2>5. 1 \in 1..Len(fifo[l])
      BY <2>3, <2>4
    <2>6. fifo[l][1] \in Send /\ lane[fifo[l][1]] = l
      BY <1>2, <2>5, LaneFacts DEF LanesOK
    <2> QED
      BY <1>2, <1>4, <2>1, <2>6
  <1> HIDE DEF l
  <1>9. ASSUME NEW r \in Send, lane'[r] # None
        PROVE  lanes'[TargetOf[r]] = lane'[r]
    <2>1. CASE r = s
      BY <1>2, <1>6, <2>1
    <2>2. CASE r # s
      <3>1. lane[r] # None /\ lanes[TargetOf[r]] = lane[r] /\ lane'[r] = lane[r]
        BY <1>6, <1>9, <2>2 DEF SerialOK
      <3>2. lane[r] \in Send /\ TargetOf[r] \in Target
        BY <1>5, <3>1 DEF LaneTypes
      <3> QED
        BY <1>2, <1>4, <3>1, <3>2
    <2> QED
      BY <2>1, <2>2
  <1>10. ASSUME NEW x \in Send, NEW r \in Send,
                pc'[x] = "acquiring", ~counted'[x], lane'[r] = lane'[x]
         PROVE  r = x
    <2>1. x = s
      BY <1>3, <1>6, <1>10
    <2>2. Free(l)
      BY <1>6, <1>10, <2>1
    <2> QED
      BY <1>2, <1>4, <1>6, <1>10, <2>1, <2>2
  <1>11. \A r \in Send : pc'[r] = "waiting" => counted'[r]
    BY <1>6, <1>8 DEF SerialOK
  <1>12. \A r \in Send : pc'[r] = "acquiring" => Deadline[r] # None
    BY <1>3, <1>6, <1>7
  <1>13. TargetOf' = TargetOf
    BY DEF Arrive
  <1>14. ASSUME NEW x \in Send, pc'[x] = "acquiring", ~counted'[x]
         PROVE  holder'[lane'[x]] = None
    <2>1. x = s /\ lane'[x] = l /\ Free(l)
      BY <1>3, <1>6, <1>14
    <2>2. holder' = holder
      BY <1>1, <1>5, <1>14, <2>1 DEF Lock, l, LaneTypes
    <2> QED
      BY <2>1, <2>2 DEF Free, Idle
  <1> QED
    BY <1>9, <1>10, <1>11, <1>12, <1>13, <1>14 DEF SerialOK

LEMMA AcquireSerial ==
  ASSUME LanesOK, SerialOK, NEW s \in Send, Acquire(s)
  PROVE  SerialOK'
  <1> DEFINE l == lane[s]
  <1>1. /\ pc[s] = "acquiring" /\ Lock(s, l)
        /\ UNCHANGED <<lanes, waiters, lane, counted, TargetOf>>
    BY DEF Acquire, call
  <1>2. /\ LaneTypes(pc, lanes, holder, fifo, lane, counted) /\ l \in Send
    BY <1>1, LaneFacts DEF LanesOK, AllOK, Inside, Steps
  <1>3. /\ pc'[s] \in {"granted", "waiting"} /\ \A r \in Send : r # s => pc'[r] = pc[r]
    BY <1>1, <1>2 DEF LaneTypes, Lock
  <1>4. pc'[s] = "waiting" => counted[s]
    <2>1. SUFFICES ASSUME pc'[s] = "waiting", ~counted[s] PROVE FALSE
      OBVIOUS
    <2>2. holder[l] # None \/ fifo[l] # <<>>
      BY <1>1, <1>2, <2>1 DEF LaneTypes, Lock
    <2>3. \A r \in Send : lane[r] = l => r = s
      BY <1>1, <2>1 DEF SerialOK
    <2>4. CASE holder[l] # None
      BY <1>1, <2>1, <2>4 DEF SerialOK
    <2>5. CASE fifo[l] # <<>>
      <3>1. fifo[l] \in Seq(Send)
        BY <1>2 DEF LaneTypes
      <3>2. 1 \in 1..Len(fifo[l])
        BY <2>5, <3>1
      <3>3. fifo[l][1] \in Send /\ lane[fifo[l][1]] = l /\ pc[fifo[l][1]] = "waiting"
        BY <1>2, <3>2, LaneFacts DEF LanesOK
      <3> QED
        BY <1>1, <2>3, <3>3
    <2> QED
      BY <2>2, <2>4, <2>5
  <1>5. ASSUME NEW x \in Send, pc'[x] = "acquiring", ~counted[x]
        PROVE  holder'[lane[x]] = None
    <2>1. x # s /\ pc[x] = "acquiring" /\ lane[x] \in Send
      BY <1>3, <1>5, LaneFacts DEF LanesOK, Inside, Steps
    <2>2. lane[x] # l /\ holder[lane[x]] = None
      BY <1>5, <2>1 DEF SerialOK
    <2> QED
      BY <1>1, <1>2, <2>1, <2>2 DEF Lock, LaneTypes
  <1> QED
    BY <1>1, <1>3, <1>4, <1>5 DEF SerialOK

LEMMA LeaveSerial ==
  ASSUME LanesOK, LanesOK', SerialOK, TargetOf \in [Send -> Target],
         TargetOf' = TargetOf, NEW s \in Send, Leaves(s)
  PROVE  SerialOK'
  <1> DEFINE l == lane[s]
             h == IF holder[l] = s THEN None ELSE holder[l]
             w == waiters[l] - Count(s)
  <1>1. /\ waiters' = [waiters EXCEPT ![l] = w]
        /\ counted' = [counted EXCEPT ![s] = FALSE]
        /\ lane' = [lane EXCEPT ![s] = None]
        /\ lanes' = [t \in Target |-> IF Idle(h, w) /\ lanes[t] = l
                                      THEN None ELSE lanes[t]]
        /\ pc' = [pc EXCEPT ![s] = "done"] /\ pc[s] \in Inside
    BY DEF Leaves, LeaveLane
  <1>2. /\ LaneTypes(pc, lanes, holder, fifo, lane, counted) /\ l \in Send
        /\ waiters \in [Send -> Nat]
    BY <1>1, LaneFacts DEF LanesOK, AllOK, CountsOK
  <1>3. /\ pc'[s] = "done" /\ \A r \in Send : r # s => pc'[r] = pc[r]
        /\ lane'[s] = None /\ \A r \in Send : r # s => lane'[r] = lane[r]
        /\ \A r \in Send : r # s => counted'[r] = counted[r]
        /\ waiters'[l] = w
    BY <1>1, <1>2 DEF LaneTypes
  <1>4. ASSUME NEW r \in Send, r # s, lane[r] = l PROVE ~Idle(h, w)
    <2>1. pc[r] \in Inside
      BY <1>2, <1>4, NoneAssumption DEF LanesOK, AllOK, MembersOK
    <2>2. CASE pc[r] \in Holding
      <3>1. holder[l] = r
        BY <1>4, <2>2, LaneFacts DEF LanesOK
      <3> QED
        BY <1>4, <3>1, NoneAssumption DEF Idle
    <2>3. CASE counted[r]
      <3>1. r \in Counted(l, lane', counted')
        BY <1>3, <1>4, <2>3 DEF Counted
      <3>2. IsFiniteSet(Counted(l, lane', counted'))
            /\ waiters'[l] = Cardinality(Counted(l, lane', counted'))
        BY <1>2 DEF LanesOK, AllOK, CountsOK
      <3>3. w # 0
        BY <1>3, <3>1, <3>2, FS_EmptySet
      <3> QED
        BY <3>3 DEF Idle
    <2>4. CASE pc[r] = "acquiring" /\ ~counted[r]
      BY <1>4, <2>4 DEF SerialOK
    <2> QED
      BY <2>1, <2>2, <2>3, <2>4 DEF SerialOK, Inside, Steps, Holding
  <1> HIDE DEF h, w
  <1>5. ASSUME NEW r \in Send, lane'[r] # None
        PROVE  lanes'[TargetOf[r]] = lane'[r]
    <2>1. r # s /\ lane[r] # None /\ lanes[TargetOf[r]] = lane[r] /\ TargetOf[r] \in Target
      BY <1>3, <1>5 DEF SerialOK
    <2>2. ~(Idle(h, w) /\ lanes[TargetOf[r]] = l)
      BY <1>4, <2>1
    <2> QED
      BY <1>1, <1>3, <2>1, <2>2
  <1>6. ASSUME NEW x \in Send, NEW r \in Send,
               pc'[x] = "acquiring", ~counted'[x], lane'[r] = lane'[x]
        PROVE  r = x
    <2>1. x # s /\ pc[x] = "acquiring" /\ ~counted[x] /\ lane'[x] = lane[x]
      BY <1>3, <1>6
    <2>2. lane[x] # None
      BY <2>1 DEF LanesOK, AllOK, MembersOK, Inside, Steps
    <2>3. r # s /\ lane'[r] = lane[r]
      BY <1>3, <1>6, <2>1, <2>2
    <2> QED
      BY <1>6, <2>1, <2>3 DEF SerialOK
  <1>7. \A r \in Send : /\ pc'[r] = "waiting" => counted'[r]
                        /\ pc'[r] = "acquiring" => Deadline[r] # None
    BY <1>3 DEF SerialOK
  <1>8. ASSUME NEW x \in Send, pc'[x] = "acquiring", ~counted'[x]
        PROVE  holder'[lane'[x]] = None
    <2>1. x # s /\ pc[x] = "acquiring" /\ ~counted[x] /\ lane'[x] = lane[x]
      BY <1>3, <1>8
    <2>2. holder[lane[x]] = None /\ lane[x] \in Send
      BY <2>1, LaneFacts DEF SerialOK, LanesOK, Inside, Steps
    <2>3. holder' = [holder EXCEPT ![l] = IF holder[l] = s THEN None ELSE holder[l]]
      BY DEF Leaves, LeaveLane
    <2> QED
      BY <1>2, <2>1, <2>2, <2>3 DEF LaneTypes
  <1> QED
    BY <1>5, <1>6, <1>7, <1>8 DEF SerialOK

(* A step that adds nobody to those who ask or wait for a lock.              *)
LEMMA RestSerial ==
  ASSUME LanesOK, SerialOK, TargetOf' = TargetOf,
         NEW s \in Send, WakeUp(s) \/ Loses(s) \/ Resumes(s) \/ Moves(s)
  PROVE  SerialOK'
  <1>1. /\ UNCHANGED <<lanes, TargetOf>>
        /\ \A r \in Send : lane'[r] \in {lane[r], None}
    BY DEF WakeUp, Loses, LoseLock, Resumes, Moves, laneVars, LanesOK, AllOK, LaneTypes
  <1>2. LaneTypes(pc, lanes, holder, fifo, lane, counted)
    BY DEF LanesOK, AllOK
  <1>3. ASSUME NEW r \in Send, pc'[r] \in {"acquiring", "waiting"}
        PROVE  /\ pc'[r] = pc[r] /\ counted'[r] = counted[r] /\ lane'[r] = lane[r]
               /\ lane[r] \in Send
    <2>1. pc'[r] = pc[r] /\ counted'[r] = counted[r] /\ lane'[r] = lane[r]
      BY <1>2, <1>3
      DEF WakeUp, Loses, LoseLock, Resumes, Moves, laneVars, LaneTypes
    <2>2. lane[r] \in Send
      BY <1>3, <2>1, LaneFacts DEF LanesOK, Inside, Steps
    <2> QED
      BY <2>1, <2>2
  <1>4. ASSUME NEW x \in Send, pc'[x] = "acquiring", ~counted'[x]
        PROVE  holder'[lane'[x]] = None
    <2>1. pc[x] = "acquiring" /\ ~counted[x] /\ lane'[x] = lane[x] /\ lane[x] \in Send
      BY <1>3, <1>4
    <2>2. holder[lane[x]] = None
      BY <2>1 DEF SerialOK
    <2>3. CASE WakeUp(s)
      <3>1. lane[s] # lane[x]
        BY <2>1, <2>3 DEF SerialOK, WakeUp
      <3> QED
        BY <1>2, <2>1, <2>2, <2>3, <3>1 DEF WakeUp, LaneTypes
    <2>4. CASE ~WakeUp(s)
      BY <2>1, <2>2, <2>4 DEF Loses, LoseLock, Resumes, Moves, laneVars
    <2> QED
      BY <2>3, <2>4
  <1>5. ASSUME NEW x \in Send, NEW r \in Send,
               pc'[x] = "acquiring", ~counted'[x], lane'[r] = lane'[x]
        PROVE  r = x
    <2>1. pc[x] = "acquiring" /\ ~counted[x] /\ lane'[x] = lane[x] /\ lane[x] \in Send
      BY <1>3, <1>5
    <2>2. lane[r] = lane[x]
      BY <1>1, <1>5, <2>1, NoneAssumption
    <2> QED
      BY <2>1, <2>2 DEF SerialOK
  <1>6. \A r \in Send : /\ pc'[r] = "waiting" => counted'[r]
                        /\ pc'[r] = "acquiring" => Deadline[r] # None
    BY <1>3 DEF SerialOK
  <1>7. \A r \in Send : lane'[r] # None => lanes'[TargetOf'[r]] = lane'[r]
    BY <1>1 DEF SerialOK
  <1> QED
    BY <1>1, <1>4, <1>5, <1>6, <1>7 DEF SerialOK

LEMMA StepSerial ==
  ASSUME Orderly, LanesOK, LanesOK', SerialOK, TargetOf \in [Send -> Target],
         NEW s \in Send, SendStep(s)
  PROVE  SerialOK'
  BY LaneSteps, QuotaEffect, ArriveSerial, AcquireSerial, LeaveSerial, RestSerial

LEMMA SerialTarget ==
  ASSUME LanesOK, SerialOK
  PROVE  TargetSerial
  <1> SUFFICES ASSUME NEW r \in Send, NEW s \in Send, TargetOf[r] = TargetOf[s],
                      pc[r] \in {"reserving", "wire"}, pc[s] \in {"reserving", "wire"}
               PROVE  r = s
    BY DEF TargetSerial
  <1>1. /\ lane[r] \in Send /\ holder[lane[r]] = r
        /\ lane[s] \in Send /\ holder[lane[s]] = s
    BY LaneFacts DEF LanesOK, Holding
  <1>2. lane[r] = lane[s]
    BY <1>1, NoneAssumption DEF SerialOK
  <1> QED
    BY <1>1, <1>2

(* "Serialize each exact target": from its first to its last physical        *)
(* message a send has its target for itself, if sends with a deadline do not *)
(* arrive in bursts.                                                         *)
THEOREM TargetsAreSerial ==
  ASSUME Orderly
  PROVE  Spec => []TargetSerial
  <1>1. Init => SerialOK
    BY DEF Init, SerialOK
  <1>2. ASSUME LanesOK, Called, LanesOK', SerialOK, [Next]_vars PROVE SerialOK'
    <2>1. TargetOf \in [Send -> Target]
      BY <1>2, SendsAssumption DEF Called
    <2>2. ASSUME NEW s \in Send, SendStep(s)
          PROVE  SerialOK'
      BY <1>2, <2>1, <2>2, StepSerial
    <2>3. CASE (\E h \in Handle : Bind(h)) \/ Unbind \/ Tick \/ UNCHANGED vars
      BY <1>2, <2>3 DEF Bind, Unbind, Tick, vars, laneVars, call, SerialOK
    <2> QED
      BY <1>2, <2>2, <2>3 DEF Next, SendStep
  <1>3. LanesOK /\ SerialOK => TargetSerial
    BY SerialTarget
  <1> QED
    BY <1>1, <1>2, <1>3, LanesAlways, PTL DEF Spec

-----------------------------------------------------------------------------
(* The contract of DeliveryContract.                                         *)

(* The platform takes nothing but the part on the wire.                      *)
LEMMA StepTakes ==
  ASSUME NEW s \in Send, SendStep(s)
  PROVE  reached' = reached \/ (pc[s] = "wire" /\ Taken(s))
  <1>1. CASE \/ Refuse(s) \/ Arrive(s) \/ Acquire(s) \/ WakeUp(s) \/ GiveUp(s)
             \/ TimeoutAtGrant(s) \/ Resume(s)
    BY <1>1 DEF Refuse, Arrive, Acquire, WakeUp, GiveUp, TimeoutAtGrant, Resume
  <1>2. CASE ReserveRefused(s) \/ ReserveLater(s) \/ Reserve(s) \/ WireDeadline(s)
    BY <1>2 DEF ReserveRefused, ReserveLater, Reserve, WireDeadline, NoAnswer
  <1>3. CASE Exporter(s)
    BY <1>3 DEF Exporter, Accepted, Failed, RateLimited, Unanswered, NoAnswer
  <1>4. CASE Cancel(s)
    BY <1>4 DEF Cancel, CancelAwait
  <1> QED
    BY <1>1, <1>2, <1>3, <1>4 DEF SendStep, Scheduler

(* The next message of a send that is not over.                              *)
LEMMA NextMessage ==
  ASSUME Told, NEW s \in Send, pc[s] # "done"
  PROVE  /\ Len(reached[s]) = Len(parts[s]) /\ Len(reached[s]) \in Nat
         /\ Len(reached[s]) < Parts[s]
         /\ Contract!WithNext(s) = Append(reached[s], Len(parts[s]) + 1)
  <1>1. Clean(parts[s], reached[s]) /\ Len(parts[s]) < Parts[s]
    BY DEF Told
  <1>2. Len(reached[s]) = Len(parts[s])
    BY <1>1, CleanCounts
  <1>3. Len(parts[s]) \in Nat
    BY <1>1 DEF Clean
  <1> QED
    BY <1>1, <1>2, <1>3 DEF Contract!WithNext

LEMMA StageMoves ==
  ASSUME pc \in [Send -> Steps], NEW s \in Send, NEW p, pc' = [pc EXCEPT ![s] = p]
  PROVE  [r \in Send |-> Stage(pc'[r])]
           = [[r \in Send |-> Stage(pc[r])] EXCEPT ![s] = Stage(p)]
  OBVIOUS

(* A send that goes on has its target, or begins when nobody has it.         *)
LEMMA GoesOnContract ==
  ASSUME Told, TargetSerial', TargetOf' = TargetOf, NEW s \in Send, GoesOn(s)
  PROVE  Contract!Begin(s) \/ UNCHANGED Contract!vars
  <1>1. PICK p \in Steps \ {"new", "done"} :
          pc' = [pc EXCEPT ![s] = p] /\ (p \in Before => pc[s] \in Before)
    BY DEF GoesOn
  <1>2. /\ pc \in [Send -> Steps] /\ pc[s] # "done"
        /\ reached' = reached /\ result' = result
        /\ pc'[s] = p /\ \A r \in Send : r # s => pc'[r] = pc[r]
    BY <1>1 DEF Told, GoesOn
  <1>3. [r \in Send |-> Stage(pc'[r])]
          = [[r \in Send |-> Stage(pc[r])] EXCEPT ![s] = Stage(p)]
    BY <1>1, <1>2, StageMoves
  <1>4. CASE Stage(p) = Stage(pc[s])
    <2>1. [r \in Send |-> Stage(pc'[r])] = [r \in Send |-> Stage(pc[r])]
      BY <1>2, <1>4
    <2> QED
      BY <1>2, <2>1 DEF Contract!vars
  <1>5. CASE Stage(p) # Stage(pc[s])
    <2>1. p \in {"reserving", "wire"} /\ pc[s] \notin {"reserving", "wire"}
      BY <1>1, <1>2, <1>5 DEF Stage, Before, Steps
    <2>2. Stage(p) = "sending" /\ Stage(pc[s]) = "waiting"
      BY <1>2, <2>1 DEF Stage
    <2>3. ASSUME NEW r \in Send, TargetOf[r] = TargetOf[s]
          PROVE  Stage(pc[r]) # "sending"
      <3>1. CASE r = s
        BY <2>2, <3>1
      <3>2. CASE r # s
        <4>1. pc[r] \notin {"reserving", "wire"}
          BY <1>2, <2>1, <2>3, <3>2 DEF TargetSerial
        <4> QED
          BY <4>1 DEF Stage
      <3> QED
        BY <3>1, <3>2
    <2>4. Contract!Begin(s)
      BY <1>2, <1>3, <2>2, <2>3 DEF Contract!Begin
    <2> QED
      BY <2>4
  <1> QED
    BY <1>4, <1>5

LEMMA AdvancesContract ==
  ASSUME Told, NEW s \in Send, Advances(s)
  PROVE  Contract!Take(s)
  <1>1. /\ pc[s] = "wire" /\ pc' = [pc EXCEPT ![s] = "reserving"]
        /\ Len(parts[s]) + 1 # Parts[s]
        /\ reached' = [reached EXCEPT ![s] = Append(reached[s], Len(parts[s]) + 1)]
        /\ result' = result /\ pc \in [Send -> Steps]
    BY DEF Advances, Told
  <1>2. /\ Len(reached[s]) = Len(parts[s]) /\ Len(reached[s]) \in Nat
        /\ Len(reached[s]) < Parts[s] /\ Parts[s] \in Nat
        /\ Contract!WithNext(s) = Append(reached[s], Len(parts[s]) + 1)
    BY <1>1, NextMessage, SendsAssumption
  <1>3. Stage(pc[s]) = "sending" /\ Stage("reserving") = "sending"
    BY <1>1 DEF Stage
  <1>4. [r \in Send |-> Stage(pc'[r])] = [r \in Send |-> Stage(pc[r])]
    BY <1>1, <1>3
  <1>5. Len(reached[s]) + 1 < Parts[s]
    BY <1>1, <1>2
  <1> QED
    BY <1>1, <1>2, <1>3, <1>4, <1>5 DEF Contract!Take

(* A send is over, and may have had its part in hand taken.                  *)
LEMMA FinishContract ==
  ASSUME Told, NEW s \in Send, pc[s] # "done", pc' = [pc EXCEPT ![s] = "done"],
         reached' = reached \/ (pc[s] = "wire" /\ Taken(s))
  PROVE  Contract!Finish(s)
  <1>1. pc \in [Send -> Steps] /\ Stage("done") = "over" /\ Stage(pc[s]) # "over"
    BY DEF Stage, Told
  <1>2. [r \in Send |-> Stage(pc'[r])]
          = [[r \in Send |-> Stage(pc[r])] EXCEPT ![s] = "over"]
    BY <1>1, StageMoves
  <1>3. \/ reached' = reached
        \/ /\ Stage(pc[s]) = "sending" /\ Len(reached[s]) < Parts[s]
           /\ reached' = [reached EXCEPT ![s] = Contract!WithNext(s)]
    <2>1. CASE reached' = reached
      BY <2>1
    <2>2. CASE pc[s] = "wire" /\ Taken(s)
      <3>1. Stage(pc[s]) = "sending"
        BY <2>2 DEF Stage
      <3>2. reached' = [reached EXCEPT ![s] = Append(reached[s], Len(parts[s]) + 1)]
        BY <2>2 DEF Taken, Part
      <3> QED
        BY <3>1, <3>2, NextMessage
    <2> QED
      BY <2>1, <2>2
  <1> QED
    BY <1>1, <1>2, <1>3 DEF Contract!Finish

LEMMA EndsContract ==
  ASSUME Told, Told', NEW s \in Send, Ends(s), pc[s] # "done",
         reached' = reached \/ (pc[s] = "wire" /\ Taken(s))
  PROVE  Contract!Answer(s)
  <1>1. PICK rs \in Seq(PartStatus), took \in Seq(Nat), status \in Status :
          /\ pc' = [pc EXCEPT ![s] = "done"]
          /\ reached' = [reached EXCEPT ![s] = took]
          /\ result' = [result EXCEPT ![s] = status]
          /\ Truth(rs, took, status, Parts[s])
    BY DEF Ends
  <1>2. reached'[s] = took
    BY <1>1 DEF Told
  <1>3. status \in Contract!Truths(s, Len(reached'[s]))
    BY <1>1, <1>2 DEF Truth, Contract!Truths, Status, PartStatus
  <1>4. Contract!Finish(s)
    BY <1>1, FinishContract
  <1> QED
    BY <1>1, <1>3, <1>4 DEF Contract!Answer

LEMMA QuitsContract ==
  ASSUME Told, NEW s \in Send, Quits(s),
         reached' = reached \/ (pc[s] = "wire" /\ Taken(s))
  PROVE  Contract!Abandon(s)
  BY FinishContract DEF Quits, Contract!Abandon

LEMMA StepContract ==
  ASSUME Told, Told', TargetSerial', [Next]_vars
  PROVE  [Contract!Next]_(Contract!vars)
  <1>1. ASSUME NEW s \in Send, SendStep(s)
        PROVE  [Contract!Next]_(Contract!vars)
    <2>1. TargetOf' = TargetOf /\ pc[s] # "done"
          /\ (reached' = reached \/ (pc[s] = "wire" /\ Taken(s)))
      BY <1>1, QuotaEffect, StepTakes, NotOver
    <2>2. CASE GoesOn(s)
      BY <2>1, <2>2, GoesOnContract DEF Contract!Next
    <2>3. CASE Advances(s)
      BY <2>1, <2>3, AdvancesContract DEF Contract!Next
    <2>4. CASE Ends(s)
      BY <2>1, <2>4, EndsContract DEF Contract!Next
    <2>5. CASE Rests
      BY <2>1, <2>5 DEF Rests, Contract!vars
    <2>6. CASE Quits(s)
      BY <2>1, <2>6, QuitsContract DEF Contract!Next
    <2> QED
      BY <1>1, <2>2, <2>3, <2>4, <2>5, <2>6, StepEffect
  <1>2. CASE (\E h \in Handle : Bind(h)) \/ Unbind \/ Tick \/ UNCHANGED vars
    BY <1>2 DEF Bind, Unbind, Tick, vars, call, progress, Contract!vars
  <1> QED
    BY <1>1, <1>2 DEF Next, SendStep

(* Outbound delivery implements its contract: deliveries to a target do not  *)
(* interleave, their messages are taken in order and once, and each caller   *)
(* is answered once, with what was taken, after which nothing is taken.      *)
THEOREM DeliveryIsKept ==
  ASSUME Orderly
  PROVE  Spec => ImplementsDelivery
  <1>1. Init => Contract!Init
    <2> SUFFICES ASSUME Init PROVE Contract!Init
      OBVIOUS
    <2>1. TargetOf \in [Send -> Target]
      BY SendsAssumption DEF Init
    <2>2. \A s \in Send : Stage(pc[s]) = "waiting"
      BY DEF Init, Stage
    <2> QED
      BY <2>1, <2>2 DEF Init, Contract!Init
  <1>2. Told /\ Told' /\ TargetSerial' /\ [Next]_vars => [Contract!Next]_(Contract!vars)
    BY StepContract
  <1> QED
    BY <1>1, <1>2, ToldAlways, TargetsAreSerial, PTL
    DEF Spec, ImplementsDelivery, Contract!Spec
=============================================================================
