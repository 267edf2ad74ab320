---------------------------- MODULE CometaNotify ----------------------------
(***************************************************************************)
(* Delivery of the messages Cometa owes the requester of one task: the     *)
(* table notifications (src/cometa/store.py), the pump of the bot process  *)
(* (src/cometa/delivery.py), and the sender and the acknowledgement of the *)
(* chat entry point (stella_project/plugins/bot_main/cometa_bridge.py).    *)
(* A worker writes rows in the transactions of CometaTask; the pump and    *)
(* the entry point compete for them, call the platform, and record what    *)
(* became of the call.  The bot process may crash between any two steps.   *)
(***************************************************************************)
EXTENDS Naturals, Sequences

CONSTANTS
  MaxProgress,   \* bound: progress events of the task
  MaxTries,      \* NotificationPump.max_attempts
  LongResult,    \* is the result long enough to go out as a group file?
  CrashBot       \* may the bot process crash?

ASSUME NotifyAssumption ==
  MaxProgress \in Nat /\ MaxTries \in Nat \ {0}
    /\ LongResult \in BOOLEAN /\ CrashBot \in BOOLEAN

(* dedupe_key: one row of each kind; the input row is that of one request. *)
Note == {"ack", "progress", "input", "final"}

VARIABLES
  task,      \* none, open, finished, withdrawn (never started) or abandoned
  row,       \* notifications.state
  tries,     \* notifications.send_attempts; only >= MaxTries is ever asked
  order,     \* the rows by created_utc
  news,      \* progress events so far
  delivery,  \* tasks.delivery_state
  up,        \* is the bot process running?
  pump,      \* what the pump has in hand: rows it has read, the one it sends
  gate,      \* the entry point's deliver_ack
  asked,     \* rows the platform was called for
  calls,     \* texts the platform accepted, per row
  files      \* copies of the long result the platform accepted

tableVars == <<row, tries, order, delivery>>
platform == <<asked, calls, files>>
vars == <<task, tableVars, news, up, pump, gate, platform>>

NoHand == [batch |-> {}, current |-> "none", step |-> "idle"]

Init ==
  /\ task = "none" /\ news = 0 /\ delivery = "none"
  /\ row = [n \in Note |-> "none"]
  /\ tries = [n \in Note |-> 0]
  /\ order = <<>>
  /\ up = TRUE /\ pump = NoHand /\ gate = "idle"
  /\ asked = {} /\ calls = [n \in Note |-> 0] /\ files = 0

-----------------------------------------------------------------------------
(* Rows are written in the transaction of the event they report. *)

(* _upsert_notification: a progress row is armed again unless it is being    *)
(* sent; any other row is written once.                                      *)
Upsert(n) ==
  IF row[n] \in {"none", "pending"} \/ (n = "progress" /\ row[n] # "sending")
  THEN [row EXCEPT ![n] = "pending"] ELSE row

Created(n) == IF row[n] = "none" THEN Append(order, n) ELSE order

Submit ==
  /\ up /\ task = "none"
  /\ task' = "open"
  /\ row' = Upsert("ack") /\ order' = Created("ack")
  /\ gate' = "waiting"
  /\ UNCHANGED <<tries, news, delivery, up, pump, platform>>

(* append_event refuses progress of a task that is terminal. *)
Progress ==
  /\ task = "open" /\ news < MaxProgress
  /\ news' = news + 1
  /\ row' = Upsert("progress") /\ order' = Created("progress")
  /\ UNCHANGED <<task, tries, delivery, up, pump, gate, platform>>

(* register_input_request writes its row even if the task is terminal. *)
AskInput ==
  /\ task \in {"open", "finished", "abandoned"} /\ row["input"] = "none"
  /\ row' = Upsert("input") /\ order' = Created("input")
  /\ UNCHANGED <<task, tries, news, delivery, up, pump, gate, platform>>

(* finish_task, or the cancellation of a queued task, which has no result:   *)
(* the final row is written and a pending progress row is superseded.        *)
Finish ==
  /\ task = "open"
  /\ \/ task' = "finished" /\ delivery' = "pending"
     \/ task' = "withdrawn" /\ news = 0 /\ row["input"] = "none"
          /\ UNCHANGED delivery
  /\ row' = [Upsert("final") EXCEPT !["progress"] =
               IF @ = "pending" THEN "superseded" ELSE @]
  /\ order' = Created("final")
  /\ UNCHANGED <<tries, news, up, pump, gate, platform>>

(* mark_recovery_required: terminal, but nothing is owed to the requester. *)
Abandon ==
  /\ task = "open" /\ task' = "abandoned"
  /\ UNCHANGED <<tableVars, news, up, pump, gate, platform>>

-----------------------------------------------------------------------------
(* claim_notification and mark_notification, compare-and-set on the state. *)

ClaimableSlip(n) == row[n] # "none"
Claimable(n) == row[n] = "pending"

Claim(n) ==
  /\ Claimable(n)
  /\ row' = [row EXCEPT ![n] = "sending"]
  /\ tries' = [tries EXCEPT ![n] = IF @ < MaxTries THEN @ + 1 ELSE @]

Mark(n, s) ==
  /\ row' = [row EXCEPT ![n] = IF @ = "sending" THEN s ELSE @]
  /\ delivery' = IF /\ n = "final" /\ task = "finished"
                    /\ row[n] = "sending" /\ s \in {"sent", "delivery_unknown"}
                 THEN s ELSE delivery
  /\ UNCHANGED <<tries, order>>

(* What the platform did of a call: accepted it, or it is not known. *)
TextOutcome(n, step) ==
  /\ asked' = asked \cup {n}
  /\ \/ step = "sent" /\ calls' = [calls EXCEPT ![n] = @ + 1]
     \/ step = "unknown" /\ \E emitted \in 0..1 :
          calls' = [calls EXCEPT ![n] = @ + emitted]

-----------------------------------------------------------------------------
(* The pump: NotificationPump.pump_once, one row at a time. *)

Current == pump.current
At(step) == up /\ pump.step = step
Goto(step) == pump' = [pump EXCEPT !.step = step]
Drop == pump' = [pump EXCEPT !.step = "idle", !.current = "none"]

Due(n) == row[n] = "pending"

PumpReads ==
  LET due == {n \in Note : Due(n)}
  IN /\ up /\ pump = NoHand /\ due # {}
     /\ pump' = [NoHand EXCEPT !.batch = due]
     /\ UNCHANGED <<task, tableVars, news, up, gate, platform>>

(* The rows that were read are taken in the order of their creation.         *)
First(n) ==
  /\ n \in pump.batch
  /\ \A m \in pump.batch \ {n} :
       \E i, j \in 1..Len(order) : i < j /\ order[i] = n /\ order[j] = m

PumpClaims ==
  /\ At("idle")
  /\ \E n \in Note :
       /\ First(n) /\ Claim(n)
       /\ pump' = [batch |-> pump.batch \ {n}, current |-> n, step |-> "claimed"]
  /\ UNCHANGED <<task, order, news, delivery, up, gate, platform>>

(* Somebody else claimed the row since it was read, or it was superseded. *)
PumpSkips ==
  /\ At("idle")
  /\ \E n \in Note :
       /\ First(n) /\ ~Claimable(n)
       /\ pump' = [pump EXCEPT !.batch = @ \ {n}]
  /\ UNCHANGED <<task, tableVars, news, up, gate, platform>>

RenderFails ==
  /\ At("claimed") /\ Mark(Current, "pending") /\ Drop
  /\ UNCHANGED <<task, news, up, gate, platform>>

Rendered ==
  /\ At("claimed")
  /\ Goto(IF LongResult /\ Current = "final" THEN "file" ELSE "text")
  /\ UNCHANGED <<task, tableVars, news, up, gate, platform>>

(* A long result: a group file, else a forwarded message, else neither (both *)
(* refused, or the file is missing); an answer that is neither an acceptance *)
(* nor a refusal leaves the outcome unknown.                                 *)
SendFile ==
  /\ At("file")
  /\ \/ Goto("unavailable") /\ UNCHANGED <<asked, files>>
     \/ Goto("text") /\ UNCHANGED <<asked, files>>
     \/ /\ asked' = asked \cup {Current}
        /\ \E accepted \in 0..1, step \in {"text", "unknown"} :
             files' = files + accepted /\ Goto(step)
  /\ UNCHANGED <<task, tableVars, news, up, gate, calls>>

(* The executor writes progress rows without a target; those of the store    *)
(* have the one of the task.                                                 *)
HasTarget(n) == n # "progress"

(* _send_text raises SenderUnavailable if the exact bot is not online. *)
SendText ==
  /\ At("text") /\ HasTarget(Current)
  /\ \/ \E step \in {"sent", "unknown"} : TextOutcome(Current, step) /\ Goto(step)
     \/ Goto("unavailable") /\ UNCHANGED <<asked, calls>>
  /\ UNCHANGED <<task, tableVars, news, up, gate, files>>

(* _target_from_dict refuses the target: any other exception is "unknown". *)
TargetRefused ==
  /\ At("text") /\ ~HasTarget(Current)
  /\ Goto("unknown")
  /\ UNCHANGED <<task, tableVars, news, up, gate, platform>>

(* What the pump records: _unknown is final, _retry_later is bounded. *)
RecordSlip(n) == IF pump.step = "sent" THEN "sent" ELSE "pending"
TrustSlip(n) == IF pump.step = "unavailable" /\ tries[n] < MaxTries
                THEN "pending" ELSE "sent"
Record(n) ==
  CASE pump.step = "sent" -> "sent"
    [] pump.step = "unknown" -> "delivery_unknown"
    [] pump.step = "unavailable" ->
         IF tries[n] >= MaxTries THEN "delivery_unknown" ELSE "pending"

PumpMarks ==
  /\ \E step \in {"sent", "unknown", "unavailable"} : At(step)
  /\ Mark(Current, Record(Current)) /\ Drop
  /\ UNCHANGED <<task, news, up, gate, platform>>

(* StoreBusyError in a transaction of the pump: run_forever drops the round. *)
PumpAborts ==
  /\ \E step \in {"idle", "claimed", "sent", "unknown", "unavailable"} : At(step)
  /\ pump # NoHand /\ pump' = NoHand
  /\ UNCHANGED <<task, tableVars, news, up, gate, platform>>

-----------------------------------------------------------------------------
(* The entry point that accepted the task: deliver_ack. *)

GateClaims ==
  /\ up /\ gate = "waiting"
  /\ Claim("ack") /\ gate' = "claimed"
  /\ UNCHANGED <<task, order, news, delivery, up, pump, platform>>

GateSkips ==
  /\ up /\ gate = "waiting" /\ ~Claimable("ack")
  /\ gate' = "done"
  /\ UNCHANGED <<task, tableVars, news, up, pump, platform>>

GateSends ==
  /\ up /\ gate = "claimed"
  /\ \E step \in {"sent", "unknown"} : TextOutcome("ack", step) /\ gate' = step
  /\ UNCHANGED <<task, tableVars, news, up, pump, files>>

GateMarks ==
  /\ up /\ gate \in {"sent", "unknown"}
  /\ Mark("ack", IF gate = "sent" THEN "sent" ELSE "delivery_unknown")
  /\ gate' = "done"
  /\ UNCHANGED <<task, news, up, pump, platform>>

(* The handler of the chat message ends early: an exception, a busy store. *)
GateAborts ==
  /\ up /\ gate \in {"waiting", "claimed", "sent", "unknown"}
  /\ gate' = "done"
  /\ UNCHANGED <<task, tableVars, news, up, pump, platform>>

-----------------------------------------------------------------------------
BotCrash ==
  /\ CrashBot /\ up
  /\ up' = FALSE /\ pump' = NoHand
  /\ gate' = IF gate = "idle" THEN "idle" ELSE "done"
  /\ UNCHANGED <<task, tableVars, news, platform>>

BotRestart ==
  /\ ~up /\ up' = TRUE
  /\ UNCHANGED <<task, tableVars, news, pump, gate, platform>>

Writer == Submit \/ Progress \/ AskInput \/ Finish \/ Abandon
Pump == \/ PumpReads \/ PumpClaims \/ PumpSkips \/ RenderFails \/ Rendered
        \/ SendFile \/ SendText \/ TargetRefused \/ PumpMarks
Gate == GateClaims \/ GateSkips \/ GateSends \/ GateMarks \/ GateAborts

Next == Writer \/ Pump \/ PumpAborts \/ Gate \/ BotCrash \/ BotRestart

Spec == Init /\ [][Next]_vars

-----------------------------------------------------------------------------
(* Every variable stays in the domain its column or coroutine has. *)
RowStates == {"none", "pending", "sending", "sent", "delivery_unknown",
              "superseded"}
TypeOK ==
  /\ task \in {"none", "open", "finished", "withdrawn", "abandoned"}
  /\ row \in [Note -> RowStates]
  /\ tries \in [Note -> 0..MaxTries]
  /\ order \in Seq(Note)
  /\ news \in 0..MaxProgress
  /\ delivery \in {"none", "pending", "sent", "delivery_unknown"}
  /\ up \in BOOLEAN
  /\ pump \in [batch : SUBSET Note, current : Note \cup {"none"},
                step : {"idle", "claimed", "file", "text", "sent", "unknown",
                        "unavailable"}]
  /\ gate \in {"idle", "waiting", "claimed", "sent", "unknown", "done"}
  /\ asked \subseteq Note /\ calls \in [Note -> Nat] /\ files \in Nat

(* Whoever calls the platform for a row has claimed it, and the pump and the *)
(* entry point never hold the acknowledgement together.                      *)
Holding == gate \in {"claimed", "sent", "unknown"}
OneSender ==
  /\ pump.step # "idle" => row[Current] = "sending"
  /\ Holding => row["ack"] = "sending"
  /\ Holding => pump.step = "idle" \/ Current # "ack"

(* No text is ever delivered twice, through crashes, timeouts, retries and   *)
(* two competing senders.                                                    *)
TextOnce == \A n \in Note : calls[n] <= 1

(* A row says sent only if the platform accepted its text, and the delivery  *)
(* state of a finished task is the one of its final row.                     *)
ReportIsTrue ==
  /\ \A n \in Note : row[n] = "sent" => calls[n] > 0
  /\ task = "finished" =>
       delivery = IF row["final"] \in {"sent", "delivery_unknown"}
                  THEN row["final"] ELSE "pending"

(* A delivered or uncertain message is never armed again, progress excepted. *)
NeverRearmed ==
  [][\A n \in Note \ {"progress"} :
       row[n] \in {"sent", "delivery_unknown"} => row'[n] = row[n]]_vars

(* delivery_unknown means that the platform was called and did not answer,   *)
(* unless every attempt found it unavailable (delivery.py: what fails before *)
(* the call is tried again).                                                 *)
UnknownWasAsked ==
  \A n \in Note :
    row[n] = "delivery_unknown" => n \in asked \/ tries[n] >= MaxTries

(* The file of a long result and its covering text are two calls; when the   *)
(* second is unavailable the whole row is tried again.  The file reaches the *)
(* group at most once per counted attempt, and the attempts are bounded.     *)
FilesBounded == files <= MaxTries

-----------------------------------------------------------------------------
(* The contract of ReportContract, for the rows that are written once.  A    *)
(* progress row stands for ever newer news and is armed again.               *)

Once == Note \ {"progress"}

Said(s) ==
  CASE s = "sent" -> "sent"
    [] s = "delivery_unknown" -> "unknown"
    [] OTHER -> "open"

Contract == INSTANCE ReportContract WITH
  Message <- Once,
  copies <- [n \in Once |-> calls[n]],
  verdict <- [n \in Once |-> Said(row[n])]

(* Pump and entry point, their claims, retries and crashes implement the     *)
(* contract: a text is taken once, a row ends once and truly.                *)
ImplementsReport == Contract!Spec
=============================================================================
